----------------------------- MODULE Addresses -----------------------------
(***************************************************************************)
(* Addresses are read twice: the form does it with a decoder of its own    *)
(* (tx/bech32m.ts, tx/validation.ts), and the transaction pays what        *)
(* wallet-core makes of the same text (address.ts and the bech32m library  *)
(* it uses).  A text is taken apart here as far as the two differ in what  *)
(* they ask of it.                                                         *)
(***************************************************************************)
EXTENDS Integers

CONSTANTS
    Hrps,           \* what may precede the last "1"
    HrpLength       \* number of characters

ASSUME HrpAssumption ==
    /\ {"prl", "tprl", "rprl"} \subseteq Hrps
    /\ HrpLength \in [Hrps -> Nat]
    /\ HrpLength["prl"] = 3

(* chars counts what follows the "1": words of five bits and, last, the    *)
(* six of the checksum.                                                    *)
Texts ==
    [oneCase : BOOLEAN, hrp : Hrps, chars : Nat, charset : BOOLEAN, checksum : BOOLEAN,
     version : 0..31, paddingZero : BOOLEAN]

Length(t) == HrpLength[t.hrp] + 1 + t.chars
Words(t)  == t.chars - 6

ProgramLength(t) == ((Words(t) - 1) * 5) \div 8

(* convertBits, without padding: what is left over is short and zero. *)
WholeBytes(t) == ((Words(t) - 1) * 5) % 8 < 5 /\ t.paddingZero

(* Mutant of decodeRaw: twice the length limit matters. *)
decodeRawShort(t) ==
    /\ t.oneCase
    /\ Length(t) >= 8 /\ Length(t) <= 62
    /\ HrpLength[t.hrp] >= 1 /\ t.chars >= 6
    /\ t.charset /\ t.checksum

(* tx/bech32m.ts. *)
decodeRaw(t) ==
    /\ t.oneCase
    /\ Length(t) >= 8 /\ Length(t) <= 90
    /\ HrpLength[t.hrp] >= 1 /\ t.chars >= 6
    /\ t.charset /\ t.checksum

decodeSegwitAddress(t) ==
    /\ decodeRaw(t)
    /\ Words(t) > 0
    /\ t.version \in 1..16
    /\ WholeBytes(t)
    /\ ProgramLength(t) \in 2..40

(* tx/validation.ts: "valid", or the first rule that fails. *)
validateAddress(t) ==
    CASE ~decodeSegwitAddress(t) -> "MALFORMED"
      [] decodeSegwitAddress(t) /\ t.hrp # "prl" -> "WRONG_NETWORK"
      [] decodeSegwitAddress(t) /\ t.hrp = "prl" /\ ProgramLength(t) # 32 -> "BAD_PROGRAM_LENGTH"
      [] decodeSegwitAddress(t) /\ t.hrp = "prl" /\ ProgramLength(t) = 32 ->
            IF t.version = 1 THEN "valid" ELSE "UNSUPPORTED_WITNESS_VERSION"

(* The bech32m library of wallet-core, with its length limit of 128. *)
LibraryDecodes(t) ==
    /\ t.oneCase
    /\ Length(t) >= 8 /\ Length(t) <= 128
    /\ HrpLength[t.hrp] >= 1 /\ t.chars >= 6
    /\ t.charset /\ t.checksum

(* wallet-core's decodeAddress, for the HRPs of Pearl's networks. *)
decodeAddress(t) ==
    /\ LibraryDecodes(t)
    /\ t.hrp \in {"prl", "tprl", "rprl"}
    /\ Words(t) > 0
    /\ t.version \in 1..2
    /\ WholeBytes(t)
    /\ ProgramLength(t) = 32

----------------------------------------------------------------------------
(* The form accepts an address exactly when wallet-core decodes it as a    *)
(* Taproot address of the network: no valid recipient is refused for its   *)
(* length, and none accepted makes the transaction fail later.             *)
DecodersAgree(t) ==
    validateAddress(t) = "valid" <=> decodeAddress(t) /\ t.hrp = "prl" /\ t.version = 1
=============================================================================
