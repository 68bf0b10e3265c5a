---------------------------- MODULE AtomicVault ----------------------------
(***************************************************************************)
(* What vault/manager.ts promises of the vault file, whatever the handlers *)
(* in flight: every operation is one read-modify-write of the file as it   *)
(* is at that moment.  An account joins under the key that opens the       *)
(* others, leaves alone, and nothing else about the wallet changes.        *)
(***************************************************************************)
EXTENDS Integers

CONSTANTS Boot, Null

VARIABLE file

Smallest(S) == CHOOSE i \in S : \A j \in S : i <= j

Init == file \in Boot

(* The accounts other than those of S are the same before and after. *)
SameBut(S) ==
    \A i \in (DOMAIN file.accounts \cup DOMAIN file'.accounts) \ S :
        /\ i \in DOMAIN file.accounts \cap DOMAIN file'.accounts
        /\ file'.accounts[i] = file.accounts[i]

Add ==
    \E i \in DOMAIN file'.accounts \ DOMAIN file.accounts :
        /\ file'.active = i
        /\ SameBut({i})
        /\ file'.accounts[i].key = file.accounts[file.active].key
        /\ file'.salt = file.salt

Switch ==
    /\ file'.active \in DOMAIN file.accounts
    /\ SameBut({})
    /\ file'.salt = file.salt

Rename ==
    \E i \in DOMAIN file.accounts :
        /\ SameBut({i})
        /\ i \in DOMAIN file'.accounts
        /\ file'.accounts[i].key = file.accounts[i].key
        /\ file'.active = file.active /\ file'.salt = file.salt

Remove ==
    \E i \in DOMAIN file.accounts :
        /\ DOMAIN file'.accounts = DOMAIN file.accounts \ {i}
        /\ SameBut({i})
        /\ file'.active = IF file.active = i THEN Smallest(DOMAIN file'.accounts)
                          ELSE file.active
        /\ file'.salt = file.salt

ChangePassword ==
    /\ DOMAIN file'.accounts = DOMAIN file.accounts
    /\ \E k \in {file'.accounts[file.active].key} :
          \A i \in DOMAIN file.accounts :
              /\ file'.accounts[i].key = k
              /\ file'.accounts[i].label = file.accounts[i].label
    /\ file'.active = file.active

Next ==
    /\ file # Null /\ file' # Null
    /\ Add \/ Switch \/ Rename \/ Remove \/ ChangePassword

Spec == Init /\ [][Next]_file
=============================================================================
