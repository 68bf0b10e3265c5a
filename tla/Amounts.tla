------------------------------ MODULE Amounts ------------------------------
(***************************************************************************)
(* Amounts as text and as Grain: shared/src/amounts.ts and validateAmount  *)
(* of tx/validation.ts.  A text is a sign, the digits before the point,    *)
(* whether there is a point, and the digits after it.  The number of       *)
(* decimals, the supply and the dust floor are parameters, so that they    *)
(* can be small.                                                           *)
(***************************************************************************)
EXTENDS Integers, SequencesExt

CONSTANTS
    PRL_DECIMALS,
    MAX_PRL,
    DUST_THRESHOLD_GRAIN,
    UnitDecimals    \* by unit: its value in Grain, as a power of ten

ASSUME AmountsAssumption ==
    /\ PRL_DECIMALS \in Nat /\ MAX_PRL \in Nat /\ DUST_THRESHOLD_GRAIN \in Nat
    /\ DUST_THRESHOLD_GRAIN > 0
    /\ \A u \in DOMAIN UnitDecimals : UnitDecimals[u] \in Nat

(* Powers of ten. *)
TenTo[n \in Nat] == IF n = 0 THEN 1 ELSE 10 * TenTo[n - 1]

GRAIN_PER_PRL == TenTo[PRL_DECIMALS]
MAX_GRAIN     == MAX_PRL * GRAIN_PER_PRL

Text(neg, whole, point, frac) == [neg |-> neg, whole |-> whole, point |-> point, frac |-> frac]

Decimals == [neg : BOOLEAN, whole : Seq(0..9), point : BOOLEAN, frac : Seq(0..9)]

(* AmountInput lets digits and one point through while one types. *)
Typable(t) == ~t.neg

IsEmpty(t) == ~t.neg /\ t.whole = <<>> /\ ~t.point

(* The pattern of prlToGrain and unitToGrain. *)
IsNumber(t) == t.whole # <<>> /\ (t.point => t.frac # <<>>)

Number(digits) == MapThenSumSet(LAMBDA i : digits[i] * TenTo[Len(digits) - i], DOMAIN digits)

(* Mutant of PadEnd: zeros before the digits. *)
PadStart(digits, n) == [i \in 1..(n - Len(digits)) |-> 0] \o digits

PadEnd(digits, n) == digits \o [i \in 1..(n - Len(digits)) |-> 0]

(* The value at a granularity, when the text has no more decimals. *)
Scaled(t, decimals) ==
    LET value == Number(t.whole) * TenTo[decimals] + Number(PadEnd(t.frac, decimals))
    IN  IF t.neg THEN -value ELSE value

isValidGrain(g) == g >= 0 /\ g <= MAX_GRAIN

(* unitToGrain throws unless this holds, prlToGrain is the case of PRL.    *)
Converts(t, decimals) == IsNumber(t) /\ Len(t.frac) <= decimals /\ isValidGrain(Scaled(t, decimals))

unitToGrain(t, unit) == Scaled(t, UnitDecimals[unit])
prlToGrain(t)        == Scaled(t, PRL_DECIMALS)

(* "valid", or what validateAmount reports: out of range is no number.     *)
validateAmount(t) ==
    CASE IsEmpty(t) -> "EMPTY"
      [] ~IsEmpty(t) /\ IsNumber(t) /\ Len(t.frac) > PRL_DECIMALS -> "TOO_MANY_DECIMALS"
      [] ~IsEmpty(t) /\ ~Converts(t, PRL_DECIMALS) /\ ~(IsNumber(t) /\ Len(t.frac) > PRL_DECIMALS) ->
            "NOT_A_NUMBER"
      [] Converts(t, PRL_DECIMALS) ->
            IF prlToGrain(t) <= 0 THEN "ZERO_OR_NEGATIVE"
            ELSE IF prlToGrain(t) < DUST_THRESHOLD_GRAIN THEN "BELOW_DUST" ELSE "valid"

(* n in so many decimal digits. *)
Digits(n, count) == [i \in 1..count |-> (n \div TenTo[count - i]) % 10]

DigitCount(n) == CHOOSE k \in 1..(n + 1) : n < TenTo[k] /\ \A j \in 1..(k - 1) : n >= TenTo[j]

WithoutTrailingZeros(digits) ==
    SubSeq(digits, 1, CHOOSE k \in 0..Len(digits) :
                          /\ \A i \in (k + 1)..Len(digits) : digits[i] = 0
                          /\ k > 0 => digits[k] # 0)

grainToPrl(g) ==
    LET abs   == IF g < 0 THEN -g ELSE g
        whole == abs \div GRAIN_PER_PRL
        frac  == WithoutTrailingZeros(Digits(abs % GRAIN_PER_PRL, PRL_DECIMALS))
    IN  Text(g < 0, Digits(whole, DigitCount(whole)), frac # <<>>, frac)

----------------------------------------------------------------------------
(* What is shown can be typed in again: the text of an amount of Grain     *)
(* denotes it, is the shortest that does, and is accepted from the dust    *)
(* floor to the supply cap and nowhere else.                               *)
ShownIsTyped(g) ==
    LET t == grainToPrl(g)
    IN  /\ IsNumber(t) /\ Len(t.frac) <= PRL_DECIMALS /\ prlToGrain(t) = g
        /\ t.frac # <<>> => t.frac[Len(t.frac)] # 0
        /\ validateAmount(t) = "valid" <=> g >= DUST_THRESHOLD_GRAIN /\ g <= MAX_GRAIN

(* The units of the ladder agree: a text that two units take is worth in   *)
(* the larger one its multiple of the smaller.                             *)
UnitsAgree(t) ==
    \A u, w \in DOMAIN UnitDecimals :
        /\ Converts(t, UnitDecimals[u]) /\ Converts(t, UnitDecimals[w])
        /\ UnitDecimals[u] <= UnitDecimals[w]
        => unitToGrain(t, w) = unitToGrain(t, u) * TenTo[UnitDecimals[w] - UnitDecimals[u]]
=============================================================================
