---------------------------- MODULE VaultSession ----------------------------
(***************************************************************************)
(* What can part the unlocked session from the stored file.  The handlers  *)
(* of Vault keep two copies of the accounts and of the active one, in      *)
(* chrome.storage.local and in the memory of the worker, and write them    *)
(* in two steps.  The history variable stale says that since the session   *)
(* was begun one of a short list of things has happened, each of them a    *)
(* way the code has of leaving the session behind; Vault's steps are       *)
(* otherwise as they are.                                                  *)
(***************************************************************************)
EXTENDS Vault

VARIABLE stale

hvars == <<vars, stale>>

----------------------------------------------------------------------------
(* UNLOCK or CREATE_WALLET begins a session, with the accounts of the file *)
(* it has read or written; they are outdated if the stored one has others. *)
Begins(h) == pc[h] \in {"crypto", "saved"} /\ pc'[h] = "idle" /\ reply' = "ok"

Outdated(h) ==
    LET creates == call[h].op = "CREATE_WALLET"
    IN  \/ file = Null
        \/ DOMAIN file.accounts # IF creates THEN {id[h]} ELSE DOMAIN seen[h].accounts
        \/ file.active # IF creates THEN id[h] ELSE seen[h].active
        \/ file.salt # key[h][2]

(* A mutation is answered.  changePassword begins the session anew, with   *)
(* the accounts it read before it derived the keys.                        *)
Ends(h) == pc[h] = "msave" /\ pc'[h] = "idle" /\ reply' # "none"

Misses(h) ==
    call[h].op = "CHANGE_PASSWORD" /\ DOMAIN seen[h].accounts # DOMAIN file.accounts

(* The worker dies between the write of a mutation and its session update. *)
Dies(h) == pc[h] = "msave" /\ pc'[h] = "idle" /\ reply' = "none"

(* The file is replaced by other means than a mutation of what is stored:  *)
(* by a creation, a migration, or a mutation run across one of them.       *)
Replaced ==
    /\ file' # file
    /\ \A h \in Handlers : ~(pc[h] = "mload" /\ pc'[h] = "msave" /\ cur[h] = file)

Note ==
    stale' = /\ session' # Null
             /\ \/ stale /\ \A h \in Handlers : ~Begins(h)
                \/ \E h \in Handlers : \/ Begins(h) /\ Outdated(h)
                                       \/ Ends(h) /\ Misses(h)
                                       \/ Dies(h)
                \/ Replaced

SessionNext == Next /\ Note

SessionSpec == Init /\ stale = FALSE /\ [][SessionNext]_hvars

----------------------------------------------------------------------------
(* No mutation is between its write and its answer. *)
Settled == \A h \in Handlers : pc[h] # "msave"

(* These are the only ways: a session that met none of them has exactly    *)
(* the accounts of the stored file and its active one, and the key it      *)
(* keeps, if it has one, is of the stored salt, so that addAccount seals   *)
(* with what unlocks; whatever was dispatched, interleaved, refused or     *)
(* evicted, but for the moment between a write and the answer to it.       *)
SessionAgrees ==
    Settled /\ session # Null /\ ~stale =>
        /\ file # Null
        /\ session.entries = DOMAIN file.accounts
        /\ session.active = file.active
        /\ session.key # Null => session.key[2] = file.salt

(* The file f is as the message of h asks. *)
Shown(h, f) ==
    LET m == call[h]
    IN  CASE m.op = "ADD_ACCOUNT" ->
                /\ id[h] \in DOMAIN f.accounts /\ f.active = id[h]
                /\ f.accounts[id[h]] = NewAccount(h)
          [] m.op = "SWITCH_ACCOUNT" -> m.id \in DOMAIN f.accounts /\ f.active = m.id
          [] m.op = "RENAME_ACCOUNT" ->
                m.id \in DOMAIN f.accounts /\ f.accounts[m.id].label = m.label
          [] m.op = "REMOVE_ACCOUNT" -> m.id \notin DOMAIN f.accounts
          [] m.op = "CHANGE_PASSWORD" -> f.salt = key[h][2]

(* An open wallet is told the truth: unless its session is stale, a        *)
(* mutation that has been written is answered with success, and the file   *)
(* still shows it when the answer is sent.  A wallet that locked meanwhile *)
(* may be told that an account was not added which was.                    *)
SavedIsConfirmed ==
    [][\A h \in Handlers :
          Ends(h) /\ session # Null /\ ~stale =>
              reply' = "ok" /\ file # Null /\ Shown(h, file)]_hvars
=============================================================================
