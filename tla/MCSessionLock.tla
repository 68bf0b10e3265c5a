--------------------------- MODULE MCSessionLock ---------------------------
(* Values of the constants of SessionLock for model checking. *)
EXTENDS SessionLock

NoChange == Kinds \ {"SET_LOCK_TIMEOUT"}
=============================================================================
