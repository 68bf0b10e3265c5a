----------------------------- MODULE TxPreview -----------------------------
(***************************************************************************)
(* From the review button to the signature: buildTxPreview (tx/preview.ts) *)
(* chooses coins and computes the fee and the change that the confirm      *)
(* screen shows, and signDraftWithKey (vault/wallet-core-adapter.ts)       *)
(* builds the transaction of that draft and asserts what it pays.          *)
(*                                                                         *)
(* Selection looks at nothing but the values of the outputs it may spend,  *)
(* so a wallet is a bag of values.  One step is one turn of the selection  *)
(* loop; amounts are in Grain.                                             *)
(***************************************************************************)
EXTENDS Integers, FiniteSetsExt, WalletCore

CONSTANTS
    Values,     \* the values an unspent output may have
    Wallets,    \* bags of them: the confirmed P2TR outputs of the account
    Amounts,    \* what the user may send (validateAmount lets no dust through)
    Rates,      \* the advisory relay fee, in Grain per 1000 vbytes
    Null

FlatFee  == 10000000    \* FLAT_FEE_GRAIN
MinRate  == 1000        \* MIN_RELAY_FEE_PER_KB
MaxRate  == 100000      \* MAX_RELAY_FEE_PER_KB

ASSUME ConstantsAssumption ==
    /\ Values \subseteq Nat /\ IsFiniteSet(Values)
    /\ Wallets \subseteq [Values -> Nat]
    /\ Amounts \subseteq Nat /\ \A a \in Amounts : a >= Dust
    /\ Rates \subseteq Nat
    /\ Null \notin [change : Nat, minerFee : Nat]

ClampRelayRate(rate) ==
    IF rate < MinRate THEN MinRate ELSE IF rate > MaxRate THEN MaxRate ELSE rate

VarIntSize(n) == IF n < 253 THEN 1 ELSE IF n <= 65535 THEN 3 ELSE 5

(* Mutant of EstimateVsize: a signature without its two length bytes. *)
EstimateBareSignatures(nIn, nOut) ==
    8 + VarIntSize(nIn) + VarIntSize(nOut) + 41 * nIn + 43 * nOut + (2 + 64 * nIn + 3) \div 4

(* Pay-to-taproot key spends: 41 bytes and 66 of witness for an input, 43  *)
(* for an output; witness bytes count for a quarter, rounded up.           *)
EstimateVsize(nIn, nOut) ==
    8 + VarIntSize(nIn) + VarIntSize(nOut) + 41 * nIn + 43 * nOut + (2 + 66 * nIn + 3) \div 4

RelayFee(vsize, rate) ==
    LET raw == (rate * vsize + 999) \div 1000
    IN  IF raw < rate THEN rate ELSE raw

(* What n inputs pay the network, with a change output and without. *)
FeeWithChange(n, rate) == RelayFee(EstimateVsize(n, 3), rate)
FeeNoChange(n, rate)   == RelayFee(EstimateVsize(n, 2), rate)

Worth(bag) == MapThenSumSet(LAMBDA v : v * bag[v], DOMAIN bag)
Size(bag)  == MapThenSumSet(LAMBDA v : bag[v], DOMAIN bag)

VARIABLES
    utxos,      \* what the account may spend
    amount,     \* recipientValue
    rate,       \* relayFeePerKb, clamped
    rest,       \* the outputs the loop has not reached
    inputs,     \* selected
    count,      \* selected.length
    total,      \* their sum
    draft,      \* the TxDraft
    pc

vars == <<utxos, amount, rate, rest, inputs, count, total, draft, pc>>

TypeOK ==
    /\ utxos \in [Values -> Nat] /\ rest \in [Values -> Nat] /\ inputs \in [Values -> Nat]
    /\ amount \in Nat /\ rate \in MinRate..MaxRate
    /\ count \in Nat /\ total \in Nat
    /\ draft \in [change : Nat, minerFee : Nat] \cup {Null}
    /\ pc \in {"select", "confirm", "insufficient", "signed", "refused"}

(* handleReview has fetched the outputs, of which there are some, and the  *)
(* advisory rate.                                                          *)
Init ==
    /\ utxos \in {w \in Wallets : \E v \in Values : w[v] > 0}
    /\ amount \in Amounts
    /\ rate \in {ClampRelayRate(r) : r \in Rates}
    /\ rest = utxos
    /\ inputs = [v \in Values |-> 0]
    /\ count = 0 /\ total = 0
    /\ draft = Null
    /\ pc = "select"

Target == amount + FlatFee

(* Mutant of Enough: the network fee is forgotten. *)
EnoughForTarget(n, sum) == sum >= Target

Enough(n, sum) == sum >= Target + FeeWithChange(n, rate)

(* The draft of a selection: change below dust goes to the network.        *)
Draft ==
    LET fee == FeeWithChange(count, rate)
        change == total - Target - fee
        leftover == total - Target
        least == FeeNoChange(count, rate)
    IN  IF change < Dust
        THEN [change |-> 0, minerFee |-> IF leftover < least THEN least ELSE leftover]
        ELSE [change |-> change, minerFee |-> fee]

(* Mutant of Largest: smallest first. *)
Smallest(bag) ==
    CHOOSE v \in {w \in Values : bag[w] > 0} : \A w \in Values : bag[w] > 0 => v <= w

Largest(bag) ==
    CHOOSE v \in {w \in Values : bag[w] > 0} : \A w \in Values : bag[w] > 0 => w <= v

Select ==
    /\ pc = "select" /\ ~Enough(count, total)
    /\ \E v \in Values :
          /\ rest[v] > 0 /\ v = Largest(rest)
          /\ rest' = [rest EXCEPT ![v] = @ - 1]
          /\ inputs' = [inputs EXCEPT ![v] = @ + 1]
          /\ total' = total + v
    /\ count' = count + 1
    /\ UNCHANGED <<utxos, amount, rate, draft, pc>>

Preview ==
    /\ pc = "select" /\ count > 0 /\ Enough(count, total)
    /\ draft' = Draft
    /\ pc' = "confirm"
    /\ UNCHANGED <<utxos, amount, rate, rest, inputs, count, total>>

(* Mutant of Insufficient: funds are weighed against spending everything. *)
InsufficientForAll ==
    /\ pc = "select" /\ ~Enough(count, total)
    /\ Worth(utxos) < Target + FeeWithChange(Size(utxos), rate)
    /\ pc' = "insufficient"
    /\ UNCHANGED <<utxos, amount, rate, rest, inputs, count, total, draft>>

(* InsufficientFundsError *)
Insufficient ==
    /\ pc = "select" /\ ~Enough(count, total)
    /\ \A v \in Values : rest[v] = 0
    /\ pc' = "insufficient"
    /\ UNCHANGED <<utxos, amount, rate, rest, inputs, count, total, draft>>

(* The transaction signDraftWithKey builds, and the outputs the draft      *)
(* declares.                                                               *)
Built(d) == AddWalletFeeOutput(BuildTransaction(<<amount>>, d.change), FlatFee)

Declared(d) ==
    <<Output("recipient", amount), Output("necklace_fee", FlatFee)>>
        \o IF d.change = 0 THEN <<>> ELSE <<Output("change", d.change)>>

(* assertOutputsMatchDraft: the same outputs, in whatever order.           *)
OutputsMatch(d) ==
    LET Times(outputs, o) == Cardinality({i \in DOMAIN outputs : outputs[i] = o})
    IN  /\ Len(Built(d)) = Len(Declared(d))
        /\ \A o \in ToSet(Declared(d)) : Times(Built(d), o) = Times(Declared(d), o)

(* assertFeeMatchesDraft: inputs less outputs are the fee approved.        *)
FeeMatches(d) == Worth(inputs) - TotalOutputValue(Built(d)) = d.minerFee

Sign ==
    /\ pc = "confirm"
    /\ pc' = IF /\ Buildable(count, <<amount>>, draft.change) /\ FlatFee >= Dust
                /\ OutputsMatch(draft) /\ FeeMatches(draft)
             THEN "signed" ELSE "refused"
    /\ UNCHANGED <<utxos, amount, rate, rest, inputs, count, total, draft>>

Next == Select \/ Preview \/ Insufficient \/ Sign

Spec == Init /\ [][Next]_vars

----------------------------------------------------------------------------
(* Properties. *)

(* The bags of outputs the account could have spent instead. *)
SubBags(bag) ==
    {b \in [Values -> UNION {0..bag[v] : v \in Values}] : \A v \in Values : b[v] <= bag[v]}

(* The signer never rejects what the confirm screen showed: the two sides  *)
(* compute change and fee alike, when change is kept and when it is        *)
(* dropped.                                                                *)
PreviewIsSignable == pc # "refused"

(* The fee approved pays for every byte the signed transaction has when it *)
(* is serialised, though it was computed from an estimate before there was *)
(* one; and it is less than a dust output above the fee with change.       *)
NetworkFeeIsBounded ==
    draft # Null =>
        LET size == VirtualSize(count, IF draft.change = 0 THEN 2 ELSE 3)
        IN  /\ draft.minerFee >= RelayFee(size, rate)
            /\ draft.minerFee < FeeWithChange(count, rate) + Dust

(* Selecting coins by wallet-core's rule, which estimates sizes and fees   *)
(* in its own way, needs no more of them than the preview, and leaves the  *)
(* network what the bytes of its transaction ask for at the rate.  Its     *)
(* estimate exceeds the real size by a quarter byte per input, which the   *)
(* change output it need not pay for covers up to 160 of them.             *)
SelectionsAgree ==
    pc = "confirm" /\ count <= 160 =>
        LET result == SelectionResult(count, total, Target, 2, rate)
            size   == VirtualSize(count, IF result.change = 0 THEN 2 ELSE 3)
        IN  /\ Funds(count, total, Target, 2, rate)
            /\ result.networkFee + result.change = total - Target
            /\ 1000 * (result.networkFee + 1) > rate * size

(* What leaves the account is what the confirm screen adds up: recipient,  *)
(* Necklace fee, network fee and change are the selected inputs.           *)
DebitIsItemised ==
    draft # Null => total = amount + FlatFee + draft.minerFee + draft.change

(* InsufficientFundsError is only thrown when no choice of outputs would   *)
(* pay for recipient, Necklace fee and network fee.                        *)
RefusesOnlyUnfundable ==
    pc = "insufficient" =>
        \A b \in SubBags(utxos) : Size(b) > 0 => ~Enough(Size(b), Worth(b))

(* Largest first spends the fewest outputs that pay. *)
FewestInputs ==
    pc = "confirm" =>
        \A b \in SubBags(utxos) : Size(b) \in 1..(count - 1) => ~Enough(Size(b), Worth(b))
=============================================================================
