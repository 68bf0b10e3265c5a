------------------------------ MODULE MCVault ------------------------------
(* Values of the constants of Vault for model checking. *)
EXTENDS Vault, TLC

CONSTANTS p1, p2, h1, h2

Acct(k) == [key |-> k, label |-> DefaultLabel]

(* A v2 file with n accounts, ids 1..n, sealed under p1 and salt 0. *)
WalletOf(n) == VaultFile(1, 0, [i \in 1..n |-> Acct(Key(p1, 0))])

(* A v1 record: one account, which has no id of its own. *)
LegacyWallet ==
    [WalletOf(1) EXCEPT !.version = 1, !.active = 0, !.accounts = [i \in {0} |-> Acct(Key(p1, 0))]]

BootOne    == {WalletOf(1)}
BootTwo    == {WalletOf(2)}
BootAny    == {Null, LegacyWallet, WalletOf(1), WalletOf(2)}

DispatchOps ==
    {"ADD_ACCOUNT", "SWITCH_ACCOUNT", "RENAME_ACCOUNT", "REMOVE_ACCOUNT", "LOCK", "UNLOCK",
     "GET_VAULT_STATE", "CREATE_WALLET", "RESET_VAULT"}
RekeyOps == {"RENAME_ACCOUNT", "REMOVE_ACCOUNT", "CHANGE_PASSWORD"}

Slots == Permutations(Handlers)
=============================================================================
