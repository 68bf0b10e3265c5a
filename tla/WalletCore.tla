----------------------------- MODULE WalletCore -----------------------------
(***************************************************************************)
(* The parts of the wallet-core package a payment goes through: its fee    *)
(* model (fees.ts) and the coin selection that uses it (utxo.ts), the      *)
(* building of a transaction (transaction.ts), and what serialising a      *)
(* signed one writes (serialize.ts, sign.ts).                              *)
(*                                                                         *)
(* Every output is P2TR, so a script is 34 bytes wherever it pays to; an   *)
(* output is a role, which stands for its script, and a value in Grain.    *)
(***************************************************************************)
EXTENDS Integers, Sequences, SequencesExt

Dust == 546             \* DUST_THRESHOLD_GRAIN

----------------------------------------------------------------------------
(* fees.ts *)

VarIntSerializeSize(n) == IF n < 253 THEN 1 ELSE IF n <= 65535 THEN 3 ELSE 5

CalcVsize(baseSize, witnessSize) == baseSize + (witnessSize + 3) \div 4

(* Mutant of EstimateVirtualSize: witnesses are forgotten. *)
EstimateBase(nIn, nOut) ==
    CalcVsize(8 + VarIntSerializeSize(nIn) + VarIntSerializeSize(nOut) + 41 * nIn + 43 * nOut, 0)

(* A signature is counted with a sighash byte, and the inputs twice. *)
EstimateVirtualSize(nIn, nOut) ==
    CalcVsize(8 + VarIntSerializeSize(nIn) + VarIntSerializeSize(nOut) + 41 * nIn + 43 * nOut,
              IF nIn = 0 THEN 0 ELSE 2 + VarIntSerializeSize(nIn) + 67 * nIn)

(* The rate itself when the division leaves nothing.                       *)
FeeForSerializeSize(relayFeePerKb, size) ==
    LET fee == (relayFeePerKb * size) \div 1000
    IN  IF fee = 0 THEN relayFeePerKb ELSE fee

(* nFixed outputs before change. *)
EstimateNetworkFee(nIn, nFixed, change, relayFeePerKb) ==
    FeeForSerializeSize(relayFeePerKb,
                        EstimateVirtualSize(nIn, IF change THEN nFixed + 1 ELSE nFixed))

----------------------------------------------------------------------------
(* utxo.ts.  The greedy loop stops at the first n coins, largest first,    *)
(* that pay with a change output or without.                               *)

Funds(n, total, required, nFixed, rate) ==
    /\ n > 0
    /\ \E change \in BOOLEAN : total >= required + EstimateNetworkFee(n, nFixed, change, rate)

SelectionResult(n, total, required, nFixed, rate) ==
    LET fee == EstimateNetworkFee(n, nFixed, TRUE, rate)
        leftover == total - required - fee
    IN  IF leftover >= Dust THEN [networkFee |-> fee, change |-> leftover]
        ELSE [networkFee |-> total - required, change |-> 0]

----------------------------------------------------------------------------
(* transaction.ts *)

Output(role, value) == [role |-> role, value |-> value]

(* What buildTransaction throws on; change of nothing is no output.        *)
Buildable(nInputs, recipients, change) ==
    /\ nInputs > 0 /\ recipients # <<>>
    /\ \A i \in DOMAIN recipients : recipients[i] >= Dust
    /\ change = 0 \/ change >= Dust

BuildTransaction(recipients, change) ==
    [i \in DOMAIN recipients |-> Output("recipient", recipients[i])]
        \o IF change >= Dust THEN <<Output("change", change)>> ELSE <<>>

(* Mutant of AddWalletFeeOutput: the fee takes the place of the change. *)
FeeOverChange(outputs, fee) ==
    SelectSeq(outputs, LAMBDA o : o.role # "change") \o <<Output("necklace_fee", fee)>>

(* Before the change output, or last. *)
AddWalletFeeOutput(outputs, fee) ==
    LET change == SelectInSeq(outputs, LAMBDA o : o.role = "change")
    IN  InsertAt(outputs, IF change = 0 THEN Len(outputs) + 1 ELSE change,
                 Output("necklace_fee", fee))

TotalOutputValue(outputs) == MapThenSumSet(LAMBDA i : outputs[i].value, DOMAIN outputs)

----------------------------------------------------------------------------
(* serialize.ts, of a transaction whose inputs each carry the one witness  *)
(* item of signTaprootKeyInput, a signature of 64 bytes.                   *)

(* ByteWriter.varInt *)
VarInt(n) == IF n < 253 THEN 1 ELSE IF n <= 65535 THEN 1 + 2 ELSE 1 + 4

InputSize   == 32 + 4 + 1 + 4
OutputSize  == 8 + 1 + 34
WitnessSize == 1 + 1 + 64

(* serializeTx(tx, false): version, inputs, outputs, locktime.             *)
StrippedSize(nIn, nOut) == 4 + VarInt(nIn) + nIn * InputSize + VarInt(nOut) + nOut * OutputSize + 4

(* serializeTx(tx, true) adds marker, flag and the witness stacks.         *)
SerializedSize(nIn, nOut) == StrippedSize(nIn, nOut) + 2 + nIn * WitnessSize

VirtualSize(nIn, nOut) ==
    CalcVsize(StrippedSize(nIn, nOut), SerializedSize(nIn, nOut) - StrippedSize(nIn, nOut))
=============================================================================
