----------------------------- MODULE MCSendFlow -----------------------------
(* Values of the constants of SendFlow for model checking. *)
EXTENDS SendFlow

CONSTANTS a1, a2, c1, c2, x, y, s1, s2

(* The first account has one coin for two payments, and a coinbase output  *)
(* one block short of maturity; the second account has nothing.            *)
MCOwner == [c \in Coins |-> a1]
MCConfs == [c \in Coins |-> IF c = c2 THEN 99 ELSE 1]
MCNeeds == [p \in Payments |-> 1]
=============================================================================
