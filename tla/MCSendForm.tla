----------------------------- MODULE MCSendForm -----------------------------
(* Values of the constants of SendForm for model checking. *)
EXTENDS SendForm

CONSTANTS p, pUpper, q, other

MCTyped == {p, pUpper, q, other}

MCNorm == [a \in MCTyped |-> IF a = pUpper THEN p ELSE a]

MCHrpLength == [h \in Hrps |-> IF h = "" THEN 0 ELSE IF h = "prl" THEN 3 ELSE 4]

(* Two Taproot addresses of mainnet and a P2MR address. *)
MCTextOf ==
    [a \in MCTyped |->
        [oneCase |-> TRUE, hrp |-> "prl", chars |-> 59, charset |-> TRUE, checksum |-> TRUE,
         version |-> IF a = other THEN 2 ELSE 1, paddingZero |-> TRUE]]

MCSavable == {a \in MCTyped : validateAddress(MCTextOf[a]) = "valid"}

(* Two decimals, 12 coins in all, and dust of 3 Grain. *)
MCUnits == [kPRL |-> 5, PRL |-> 2, mPRL |-> 1, Grain |-> 0]

DigitSeqs(n) == UNION {[1..k -> {0, 1, 2, 9}] : k \in 0..n}

(* 0.02 is dust, and "9." is no number. *)
MCAmountTexts ==
    {Text(FALSE, <<0>>, TRUE, <<0, 2>>), Text(FALSE, <<9>>, TRUE, <<>>), Text(FALSE, <<0, 9>>, TRUE, <<9>>)}

----------------------------------------------------------------------------
(* Beside the behaviours of the form, single cases of what it computes.    *)

VARIABLE case

(* Lengths on both sides of every limit of the two decoders. *)
AddressCases ==
    [kind : {"address"},
     text : [oneCase : BOOLEAN, hrp : Hrps, chars : 0..8 \cup 56..63 \cup 84..87 \cup 122..125,
             charset : BOOLEAN, checksum : BOOLEAN, version : {0, 1, 2, 16, 17}, paddingZero : BOOLEAN]]

AmountCases == [kind : {"grain"}, grain : -5..(MAX_GRAIN + 5)]

UnitCases ==
    [kind : {"unit"},
     text : {Text(neg, whole, frac # <<>>, frac) :
                neg \in BOOLEAN, whole \in DigitSeqs(2), frac \in DigitSeqs(3)}]

MCInit ==
    /\ Init
    /\ \/ case = Null
       \/ book = {} /\ case \in AddressCases \cup AmountCases \cup UnitCases

MCNext == case = Null /\ Next /\ UNCHANGED case

MCSpec == MCInit /\ [][MCNext]_<<vars, case>>

(* The two decoders of an address accept the same recipients. *)
RecipientsAgree == case # Null /\ case.kind = "address" => DecodersAgree(case.text)

(* Every amount of Grain that can be held, and some that cannot, survives  *)
(* being shown and typed in again; and all units take the same text for    *)
(* the same amount.                                                        *)
AmountsConvert ==
    /\ case # Null /\ case.kind = "grain" => ShownIsTyped(case.grain)
    /\ case # Null /\ case.kind = "unit" => UnitsAgree(case.text)
=============================================================================
