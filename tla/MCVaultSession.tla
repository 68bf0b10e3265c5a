--------------------------- MODULE MCVaultSession ---------------------------
(* Values of the constants of VaultSession for model checking. *)
EXTENDS MCVault, VaultSession

AllOps == DispatchOps \cup RekeyOps
=============================================================================
