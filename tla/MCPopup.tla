------------------------------ MODULE MCPopup ------------------------------
(* Values of the constants of Popup for model checking. *)
EXTENDS Popup, TLC

CONSTANTS a1, a2, s1, s2

MCIds == {a1, a2}
MCSlots == {s1, s2}

(* Accounts and requests are told apart only by their number. *)
Symmetry == Permutations(MCIds) \cup Permutations(MCSlots)
=============================================================================
