------------------------------ MODULE MCPages ------------------------------
(* Values of the constants of Pages for model checking. *)
EXTENDS Pages

CONSTANTS a1, a2, q1, q2, t1, other

(* Up to two inputs and two outputs: of the accounts, of somebody else, of *)
(* nobody, and the input of a coinbase.                                    *)
Ios == [address : {a1, a2, other}, value : {1, 2}] \cup {[address |-> Null, value |-> 2]}
Ins == Ios \cup {[address |-> Null, value |-> Null]}

MCTransactions ==
    [vin : UNION {[1..n -> Ins] : n \in 1..2}, vout : UNION {[1..n -> Ios] : n \in 1..2}]
=============================================================================
