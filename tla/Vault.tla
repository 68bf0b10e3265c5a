------------------------------- MODULE Vault -------------------------------
(***************************************************************************)
(* The wallet-level vault of the background service worker: the handlers   *)
(* of vault/manager.ts running concurrently, as background/dispatch.ts     *)
(* starts them, over the single vault file of vault/storage.ts and the     *)
(* in-memory session of vault/session.ts.                                  *)
(*                                                                         *)
(* A handler is an async function: it runs without interruption from one   *)
(* await to the next, and any number of other handlers run in between.     *)
(* One action below is one such run.  A storage request takes effect when  *)
(* it is issued (chrome.storage serves the requests of an area in order)   *)
(* and its answer is consumed by a later action, so a value read is as old *)
(* as the code lets it be.  Key derivation and AES-GCM depend only on what *)
(* the handler has read: their outcome is decided where the code calls     *)
(* them, and the time they take is the step out of pc = "crypto".          *)
(***************************************************************************)
EXTENDS Integers, Sequences

CONSTANTS
    Handlers,       \* slots for requests in flight in the worker
    Passwords,      \* passphrases the user may type
    Labels,         \* account labels
    DefaultLabel,   \* the label of an account nobody named ("Account N")
    Ops,            \* the operations this instance dispatches
    Crashes,        \* whether the worker may be evicted with requests in flight
    Boot,           \* what chrome.storage.local may hold when the worker starts
    FirstNonce,     \* the first random id or salt not used by a file of Boot
    MaxNonce,       \* bound: requests that mint ids or salts stop being sent here
    Null            \* no file, no session, no key, no password

Key(pw, salt) == <<pw, salt>>
Keys == Passwords \X Nat

(* The account ids and the KDF salts are random; they are numbered here in *)
(* the order in which they are minted.  Accounts are appended to the file  *)
(* in that order too, so "the first account" is the smallest id.           *)
Account == [key : Keys, label : Labels]
First(S) == CHOOSE i \in S : \A j \in S : i <= j

VaultFile(active, salt, accounts) ==
    [version |-> 2, active |-> active, salt |-> salt, accounts |-> accounts]

IsVaultFile(f) ==
    /\ f.version \in {1, 2}
    /\ f.active \in Nat
    /\ f.salt \in Nat
    /\ DOMAIN f.accounts \subseteq Nat
    /\ f.accounts \in [DOMAIN f.accounts -> Account]

Opens(key, f) == \A i \in DOMAIN f.accounts : f.accounts[i].key = key

Session == [entries : SUBSET Nat, active : Nat, key : Keys \cup {Null}]
NewSession(entries, active, key) ==
    [entries |-> entries,
     active  |-> IF active \in entries THEN active ELSE First(entries),
     key     |-> key]

Message(op, id, label, pw, new) ==
    [op |-> op, id |-> id, label |-> label, pw |-> pw, new |-> new]

Messages ==
    {Message(op, 0, DefaultLabel, Null, Null) :
        op \in {"GET_VAULT_STATE", "LOCK", "RESET_VAULT"}}
    \cup {Message(op, 0, DefaultLabel, pw, Null) :
        op \in {"CREATE_WALLET", "UNLOCK"}, pw \in Passwords}
    \cup {Message("ADD_ACCOUNT", 0, DefaultLabel, pw, Null) :
        pw \in Passwords \cup {Null}}
    \cup {Message(op, id, DefaultLabel, Null, Null) :
        op \in {"SWITCH_ACCOUNT", "REMOVE_ACCOUNT"}, id \in 0..MaxNonce}
    \cup {Message("RENAME_ACCOUNT", id, label, Null, Null) :
        id \in 0..MaxNonce, label \in Labels}
    \cup {Message("CHANGE_PASSWORD", 0, DefaultLabel, pw, new) :
        pw \in Passwords, new \in Passwords}

Minting == {"CREATE_WALLET", "ADD_ACCOUNT", "CHANGE_PASSWORD"}
Codes == {"none", "ok", "LOCKED", "NO_VAULT", "VAULT_EXISTS", "WRONG_PASSWORD", "UNKNOWN"}

ASSUME ConstantsAssumption ==
    /\ Handlers # {} /\ Passwords # {} /\ DefaultLabel \in Labels
    /\ Crashes \in BOOLEAN
    /\ FirstNonce \in Nat /\ MaxNonce \in Nat
    /\ Null \notin Passwords
    /\ Null \notin Keys
    /\ Null \notin Session
    /\ \A f \in Boot \ {Null} :
          /\ IsVaultFile(f)
          /\ f.active \in DOMAIN f.accounts
          /\ f.salt < FirstNonce
          /\ \A i \in DOMAIN f.accounts : i < FirstNonce
          /\ \E pw \in Passwords : Opens(Key(pw, f.salt), f)

VARIABLES
    file,       \* chrome.storage.local[VAULT_KEY]
    session,    \* session.ts: the unlocked secrets (their ids), active id and key
    chain,      \* storage.ts mutationChain: the handlers in or waiting for it
    io,         \* handlers awaiting chrome.storage.local, in the order of their requests
    pc,         \* where each handler is suspended
    call,       \* the message it serves
    seen,       \* the file its own loadVaultFile returned
    cur,        \* the file the mutation run it is in read, then wrote
    key,        \* the wallet key it derived or took from the session
    id,         \* the account id it minted
    reply,      \* the response sent by the last step, if it sent one
    nonce       \* the next random id or salt

local == <<pc, call, seen, cur, key, id>>
vars  == <<file, session, chain, io, local, reply, nonce>>

TypeOK ==
    /\ file # Null => IsVaultFile(file)
    /\ session \in Session \cup {Null}
    /\ chain \in Seq(Handlers) /\ io \in Seq(Handlers)
    /\ pc \in [Handlers -> {"idle", "load", "crypto", "queued", "mload", "msave",
                            "saved", "removed"}]
    /\ call \in [Handlers -> Messages \cup {Null}]
    /\ DOMAIN seen = Handlers /\ DOMAIN cur = Handlers
    /\ \A h \in Handlers : /\ seen[h] # Null => IsVaultFile(seen[h])
                           /\ cur[h] # Null => IsVaultFile(cur[h])
    /\ key \in [Handlers -> Keys \cup {Null}]
    /\ id \in [Handlers -> Nat]
    /\ reply \in Codes
    /\ nonce \in Nat

Init ==
    /\ file \in Boot
    /\ session \in {Null} \cup
          (IF file = Null THEN {} ELSE
           {NewSession(DOMAIN file.accounts, file.active, k) :
               k \in {Null, file.accounts[file.active].key}})
    /\ chain = <<>> /\ io = <<>>
    /\ pc = [h \in Handlers |-> "idle"]
    /\ call = [h \in Handlers |-> Null]
    /\ seen = [h \in Handlers |-> Null]
    /\ cur = [h \in Handlers |-> Null]
    /\ key = [h \in Handlers |-> Null]
    /\ id = [h \in Handlers |-> 0]
    /\ reply = "none"
    /\ nonce = FirstNonce

----------------------------------------------------------------------------
(* How a handler moves on, and how it answers. *)

Await(h, point) ==
    /\ pc' = [pc EXCEPT ![h] = point]
    /\ reply' = "none"

Answer(h, code) ==
    /\ pc' = [pc EXCEPT ![h] = "idle"]
    /\ call' = [call EXCEPT ![h] = Null]
    /\ seen' = [seen EXCEPT ![h] = Null]
    /\ cur' = [cur EXCEPT ![h] = Null]
    /\ key' = [key EXCEPT ![h] = Null]
    /\ id' = [id EXCEPT ![h] = 0]
    /\ reply' = code

Accept(h, m, point) ==
    /\ Await(h, point)
    /\ call' = [call EXCEPT ![h] = m]

(* A storage request is issued, or answered, or answered and followed by   *)
(* another.                                                                *)
Issue(h)   == io' = Append(io, h)
Return(h)  == io # <<>> /\ Head(io) = h /\ io' = Tail(io)
Reissue(h) == io # <<>> /\ Head(io) = h /\ io' = Append(Tail(io), h)

(* updateVaultAtomic(mutate): queue behind the mutations already asked     *)
(* for; the next one runs when this one settles, however it ends.          *)
Enqueue(h) == chain' = Append(chain, h)
Settle(h)  == chain # <<>> /\ Head(chain) = h /\ chain' = Tail(chain)

----------------------------------------------------------------------------
(* A message arrives and its handler runs up to its first await. *)

(* Every operation that starts with loadVaultFile(); CREATE_WALLET stands  *)
(* for IMPORT_WALLET too, which differs only in where the secret is from.  *)
Load(h, m) ==
    /\ m.op \in {"GET_VAULT_STATE", "CREATE_WALLET", "UNLOCK", "ADD_ACCOUNT",
                 "SWITCH_ACCOUNT", "REMOVE_ACCOUNT", "CHANGE_PASSWORD"}
    /\ m.op = "ADD_ACCOUNT" => session # Null
    /\ Accept(h, m, "load")
    /\ seen' = [seen EXCEPT ![h] = file]
    /\ Issue(h)
    /\ UNCHANGED <<file, session, chain, cur, key, id, nonce>>

AddWhileLocked(h, m) ==
    /\ m.op = "ADD_ACCOUNT" /\ session = Null
    /\ Answer(h, "LOCKED")
    /\ UNCHANGED <<io, file, session, chain, nonce>>

Rename(h, m) ==
    /\ m.op = "RENAME_ACCOUNT"
    /\ Accept(h, m, "queued")
    /\ Enqueue(h)
    /\ UNCHANGED <<io, file, session, seen, cur, key, id, nonce>>

Lock(h, m) ==
    /\ m.op = "LOCK"
    /\ session' = Null
    /\ Answer(h, "ok")
    /\ UNCHANGED <<io, file, chain, nonce>>

(* deleteVault: lock, then remove the key, outside the mutation chain. *)
Reset(h, m) ==
    /\ m.op = "RESET_VAULT"
    /\ session' = Null
    /\ file' = Null
    /\ Accept(h, m, "removed")
    /\ Issue(h)
    /\ UNCHANGED <<chain, seen, cur, key, id, nonce>>

Receive(h) ==
    /\ pc[h] = "idle"
    /\ \E m \in Messages :
          /\ m.op \in Ops
          /\ m.id < nonce
          /\ m.op \in Minting => nonce <= MaxNonce
          /\ \/ Load(h, m) \/ AddWhileLocked(h, m) \/ Rename(h, m)
             \/ Lock(h, m) \/ Reset(h, m)

----------------------------------------------------------------------------
(* loadVaultFile returns. *)

(* Mutant of Migrated: the new file names no active account. *)
MigratedInactive(f) == VaultFile(Null, f.salt, [i \in {nonce} |-> f.accounts[f.active]])

Migrated(f) == VaultFile(nonce, f.salt, [i \in {nonce} |-> f.accounts[f.active]])
IsLegacy(f) == f # Null /\ f.version = 1

(* A v1 record is migrated under a new id and written back, outside the    *)
(* mutation chain, before loadVaultFile returns it.                        *)
Migrate(h) ==
    /\ \/ /\ pc[h] = "load" /\ IsLegacy(seen[h])
          /\ file' = Migrated(seen[h])
          /\ seen' = [seen EXCEPT ![h] = file'] /\ UNCHANGED cur
       \/ /\ pc[h] = "mload" /\ IsLegacy(cur[h])
          /\ file' = Migrated(cur[h])
          /\ cur' = [cur EXCEPT ![h] = file'] /\ UNCHANGED seen
    /\ nonce' = nonce + 1
    /\ Reissue(h)
    /\ Await(h, pc[h])
    /\ UNCHANGED <<session, chain, call, key, id>>

Loaded(h, op) == pc[h] = "load" /\ ~IsLegacy(seen[h]) /\ call[h].op = op

(* The answer given straight after the load, if any: the status, or one of *)
(* the early returns.  A wrong password or an absent session key fails      *)
(* here, before any write.                                                 *)
LoadAnswer(h) ==
    LET m == call[h]
        f == seen[h]
        Derived == Key(m.pw, f.salt)
        Unless(ok, code) == IF ok THEN "none" ELSE code
    IN  IF m.op = "GET_VAULT_STATE" THEN "ok"
        ELSE IF m.op = "CREATE_WALLET" THEN Unless(f = Null, "VAULT_EXISTS")
        ELSE IF f = Null THEN "NO_VAULT"
        ELSE CASE m.op \in {"UNLOCK", "CHANGE_PASSWORD"} ->
                    Unless(Opens(Derived, f), "WRONG_PASSWORD")
               [] m.op = "ADD_ACCOUNT" /\ m.pw # Null ->
                    Unless(f.accounts[f.active].key = Derived, "WRONG_PASSWORD")
               [] m.op = "ADD_ACCOUNT" /\ m.pw = Null ->
                    Unless(session # Null /\ session.key # Null, "LOCKED")
               [] m.op = "SWITCH_ACCOUNT" -> Unless(m.id \in DOMAIN f.accounts, "NO_VAULT")
               [] m.op = "REMOVE_ACCOUNT" ->
                    IF m.id \notin DOMAIN f.accounts THEN "NO_VAULT"
                    ELSE Unless(DOMAIN f.accounts # {m.id}, "VAULT_EXISTS")

AnswerAfterLoad(h) ==
    /\ pc[h] = "load" /\ ~IsLegacy(seen[h])
    /\ LoadAnswer(h) # "none"
    /\ Answer(h, LoadAnswer(h))
    /\ Return(h)
    /\ UNCHANGED <<file, session, chain, nonce>>

Proceeds(h, op) == Loaded(h, op) /\ LoadAnswer(h) = "none"

(* UNLOCK decrypts every account of the file it read. *)
Unlock(h) ==
    /\ Proceeds(h, "UNLOCK")
    /\ key' = [key EXCEPT ![h] = Key(call[h].pw, seen[h].salt)]
    /\ Await(h, "crypto")
    /\ Return(h)
    /\ UNCHANGED <<file, session, chain, call, seen, cur, id, nonce>>

(* CREATE_WALLET and changePassword derive a key under a fresh salt. *)
FreshKey(h) ==
    /\ Proceeds(h, "CREATE_WALLET") \/ Proceeds(h, "CHANGE_PASSWORD")
    /\ LET pw == IF call[h].op = "CREATE_WALLET" THEN call[h].pw ELSE call[h].new
       IN  key' = [key EXCEPT ![h] = Key(pw, nonce)]
    /\ nonce' = nonce + 1
    /\ Await(h, "crypto")
    /\ Return(h)
    /\ UNCHANGED <<file, session, chain, call, seen, cur, id>>

(* addAccount seals the new secret under the key re-derived from the       *)
(* password or, without one, under the key the session still holds.        *)
Seal(h) ==
    /\ Proceeds(h, "ADD_ACCOUNT")
    /\ key' = [key EXCEPT ![h] = IF call[h].pw # Null THEN Key(call[h].pw, seen[h].salt)
                                 ELSE session.key]
    /\ Await(h, "crypto")
    /\ Return(h)
    /\ UNCHANGED <<file, session, chain, call, seen, cur, id, nonce>>

QueueAfterLoad(h) ==
    /\ Proceeds(h, "SWITCH_ACCOUNT") \/ Proceeds(h, "REMOVE_ACCOUNT")
    /\ Enqueue(h)
    /\ Await(h, "queued")
    /\ Return(h)
    /\ UNCHANGED <<file, session, call, seen, cur, key, id, nonce>>

----------------------------------------------------------------------------
(* Key derivation, encryption or decryption has finished. *)

Decrypted(h, op) == pc[h] = "crypto" /\ call[h].op = op

StartSession(h) ==
    /\ Decrypted(h, "UNLOCK")
    /\ session' = NewSession(DOMAIN seen[h].accounts, seen[h].active, key[h])
    /\ Answer(h, "ok")
    /\ UNCHANGED <<io, file, chain, nonce>>

NewAccount(h) == [key |-> key[h], label |-> call[h].label]

(* createFirstAccount writes the file directly, outside the chain. *)
SaveFirst(h) ==
    /\ Decrypted(h, "CREATE_WALLET")
    /\ id' = [id EXCEPT ![h] = nonce]
    /\ nonce' = nonce + 1
    /\ file' = VaultFile(nonce, key[h][2], [i \in {nonce} |-> NewAccount(h)])
    /\ Await(h, "saved")
    /\ Issue(h)
    /\ UNCHANGED <<session, chain, call, seen, cur, key>>

QueueAdd(h) ==
    /\ Decrypted(h, "ADD_ACCOUNT")
    /\ id' = [id EXCEPT ![h] = nonce]
    /\ nonce' = nonce + 1
    /\ Enqueue(h)
    /\ Await(h, "queued")
    /\ UNCHANGED <<io, file, session, call, seen, cur, key>>

QueueChange(h) ==
    /\ Decrypted(h, "CHANGE_PASSWORD")
    /\ Enqueue(h)
    /\ Await(h, "queued")
    /\ UNCHANGED <<io, file, session, call, seen, cur, key, id, nonce>>

(* The save of createFirstAccount, or the remove of deleteVault, is done. *)
FirstSaved(h) ==
    /\ pc[h] = "saved"
    /\ session' = NewSession({id[h]}, id[h], key[h])
    /\ Answer(h, "ok")
    /\ Return(h)
    /\ UNCHANGED <<file, chain, nonce>>

Removed(h) ==
    /\ pc[h] = "removed"
    /\ Answer(h, "ok")
    /\ Return(h)
    /\ UNCHANGED <<file, session, chain, nonce>>

----------------------------------------------------------------------------
(* updateVaultAtomic: one mutation at a time, in the order of the queue. *)

(* Mutant of StartRun: the mutation runs on the file the handler read before. *)
StartRunOnSeen(h) ==
    /\ pc[h] = "queued" /\ chain # <<>> /\ Head(chain) = h
    /\ cur' = [cur EXCEPT ![h] = IF seen[h] # Null THEN seen[h] ELSE file]
    /\ Await(h, "mload")
    /\ Issue(h)
    /\ UNCHANGED <<file, session, chain, call, seen, key, id, nonce>>

StartRun(h) ==
    /\ pc[h] = "queued" /\ chain # <<>> /\ Head(chain) = h
    /\ cur' = [cur EXCEPT ![h] = file]
    /\ Await(h, "mload")
    /\ Issue(h)
    /\ UNCHANGED <<file, session, chain, call, seen, key, id, nonce>>

(* Mutant of MutateFailure: switchAccount does not look again. *)
MutateFailureTrusting(h, f) ==
    LET m == call[h]
    IN  IF f = Null THEN IF m.op = "CHANGE_PASSWORD" THEN "UNKNOWN" ELSE "NO_VAULT"
        ELSE IF m.op = "RENAME_ACCOUNT" /\ m.id \notin DOMAIN f.accounts THEN "NO_VAULT"
        ELSE IF m.op = "REMOVE_ACCOUNT" /\ DOMAIN f.accounts \subseteq {m.id}
        THEN "VAULT_EXISTS" ELSE "none"

(* What the mutate callback throws on the file f it is given. *)
MutateFailure(h, f) ==
    LET m == call[h]
    IN  IF f = Null THEN IF m.op = "CHANGE_PASSWORD" THEN "UNKNOWN" ELSE "NO_VAULT"
        ELSE CASE /\ m.op \in {"SWITCH_ACCOUNT", "RENAME_ACCOUNT"}
                  /\ m.id \notin DOMAIN f.accounts -> "NO_VAULT"
               [] m.op = "REMOVE_ACCOUNT" /\ DOMAIN f.accounts \subseteq {m.id} -> "VAULT_EXISTS"
               [] OTHER -> "none"

(* Mutant of Resealed: the accounts of the file read before, not of f. *)
ResealedSeen(h, f) ==
    [i \in DOMAIN seen[h].accounts |-> [seen[h].accounts[i] EXCEPT !.key = key[h]]]

(* Mutant of Resealed: the active account alone. *)
ResealedActive(h, f) ==
    [i \in DOMAIN f.accounts |->
        IF i = f.active THEN [f.accounts[i] EXCEPT !.key = key[h]] ELSE f.accounts[i]]

Resealed(h, f) ==
    [i \in DOMAIN f.accounts |->
        IF i \in DOMAIN seen[h].accounts THEN [f.accounts[i] EXCEPT !.key = key[h]]
        ELSE f.accounts[i]]

(* What the mutate callback returns on the file f otherwise. *)
Mutated(h, f) ==
    LET m == call[h]
        rest == DOMAIN f.accounts \ {m.id}
    IN  CASE m.op = "ADD_ACCOUNT" ->
                VaultFile(id[h], f.salt,
                          [i \in DOMAIN f.accounts \cup {id[h]} |->
                              IF i = id[h] THEN NewAccount(h) ELSE f.accounts[i]])
          [] m.op = "SWITCH_ACCOUNT" -> VaultFile(m.id, f.salt, f.accounts)
          [] m.op = "RENAME_ACCOUNT" ->
                VaultFile(f.active, f.salt, [f.accounts EXCEPT ![m.id].label = m.label])
          [] m.op = "REMOVE_ACCOUNT" ->
                VaultFile(IF f.active = m.id THEN First(rest) ELSE f.active, f.salt,
                          [i \in rest |-> f.accounts[i]])
          [] m.op = "CHANGE_PASSWORD" -> VaultFile(f.active, key[h][2], Resealed(h, f))

Running(h) == pc[h] = "mload" /\ ~IsLegacy(cur[h])

(* Mutant of FailMutation: the rejection stays in the chain. *)
FailMutationPoisons(h) ==
    /\ Running(h)
    /\ MutateFailure(h, cur[h]) # "none"
    /\ Answer(h, MutateFailure(h, cur[h]))
    /\ Return(h)
    /\ UNCHANGED <<file, session, chain, nonce>>

FailMutation(h) ==
    /\ Running(h)
    /\ MutateFailure(h, cur[h]) # "none"
    /\ Settle(h)
    /\ Answer(h, MutateFailure(h, cur[h]))
    /\ Return(h)
    /\ UNCHANGED <<file, session, nonce>>

SaveMutation(h) ==
    /\ Running(h)
    /\ MutateFailure(h, cur[h]) = "none"
    /\ file' = Mutated(h, cur[h])
    /\ cur' = [cur EXCEPT ![h] = file']
    /\ Await(h, "msave")
    /\ Reissue(h)
    /\ UNCHANGED <<session, chain, call, seen, key, id, nonce>>

(* The session once the mutation is saved.  The branches are those of      *)
(* addSessionAccount, setActiveAccount, removeSessionAccount (after the    *)
(* isUnlocked tests of the manager) and startSession in changePassword.    *)
SessionAfter(h) ==
    LET m == call[h]
    IN  IF session = Null THEN Null
        ELSE CASE m.op = "ADD_ACCOUNT" ->
                    [session EXCEPT !.entries = @ \cup {id[h]}, !.active = id[h]]
               [] m.op = "SWITCH_ACCOUNT" /\ m.id \in session.entries ->
                    [session EXCEPT !.active = m.id]
               [] m.op = "REMOVE_ACCOUNT" ->
                    [session EXCEPT !.entries = @ \ {m.id},
                                    !.active = IF @ = m.id THEN cur[h].active ELSE @]
               [] m.op = "CHANGE_PASSWORD" ->
                    NewSession(DOMAIN seen[h].accounts, session.active, key[h])
               [] OTHER -> session

(* The session update throws after the file is written: addSessionAccount  *)
(* on a wallet locked meanwhile, setActiveAccount on an id not unlocked,   *)
(* an error toVaultError takes for LOCKED because of the word "unlocked".  *)
SessionFailure(h) ==
    CASE call[h].op = "ADD_ACCOUNT" /\ session = Null -> "LOCKED"
      [] /\ call[h].op = "SWITCH_ACCOUNT"
         /\ session # Null /\ call[h].id \notin session.entries -> "LOCKED"
      [] OTHER -> "ok"

(* Mutant of Committed: addAccount opens the session when there is none. *)
CommittedReopens(h) ==
    /\ pc[h] = "msave"
    /\ session' = IF call[h].op = "ADD_ACCOUNT" /\ session = Null
                  THEN NewSession({id[h]}, id[h], key[h]) ELSE SessionAfter(h)
    /\ Settle(h)
    /\ Answer(h, SessionFailure(h))
    /\ Return(h)
    /\ UNCHANGED <<file, nonce>>

(* Mutant of Committed: the session does not follow the file. *)
CommittedFileOnly(h) ==
    /\ pc[h] = "msave"
    /\ Settle(h)
    /\ Answer(h, SessionFailure(h))
    /\ Return(h)
    /\ UNCHANGED <<file, session, nonce>>

Committed(h) ==
    /\ pc[h] = "msave"
    /\ session' = SessionAfter(h)
    /\ Settle(h)
    /\ Answer(h, SessionFailure(h))
    /\ Return(h)
    /\ UNCHANGED <<file, nonce>>

----------------------------------------------------------------------------
(* The auto-lock timer or alarm (SessionLock says when). *)
AutoLock ==
    /\ session # Null
    /\ session' = Null
    /\ reply' = "none"
    /\ UNCHANGED <<file, chain, io, local, nonce>>

(* Eviction of the worker: requests in flight die between two awaits, the  *)
(* queue with them.  The next worker rehydrates the persisted copy of the  *)
(* session, without its key, unless it has expired, was never stored or is *)
(* empty.                                                                  *)
Rehydrated == {Null} \cup
    (IF session = Null \/ session.entries = {} THEN {}
     ELSE {NewSession(session.entries, session.active, Null)})

Evict ==
    /\ Crashes
    /\ session' \in Rehydrated
    /\ chain' = <<>> /\ io' = <<>>
    /\ pc' = [h \in Handlers |-> "idle"]
    /\ call' = [h \in Handlers |-> Null]
    /\ seen' = [h \in Handlers |-> Null]
    /\ cur' = [h \in Handlers |-> Null]
    /\ key' = [h \in Handlers |-> Null]
    /\ id' = [h \in Handlers |-> 0]
    /\ reply' = "none"
    /\ UNCHANGED <<file, nonce>>

(* What the worker does on its own once a message has arrived. *)
Resume(h) ==
    \/ Migrate(h) \/ AnswerAfterLoad(h)
    \/ Unlock(h) \/ FreshKey(h) \/ Seal(h) \/ QueueAfterLoad(h)
    \/ StartSession(h) \/ SaveFirst(h) \/ QueueAdd(h) \/ QueueChange(h)
    \/ FirstSaved(h) \/ Removed(h)
    \/ StartRun(h) \/ FailMutation(h) \/ SaveMutation(h) \/ Committed(h)

Next ==
    \/ \E h \in Handlers : Receive(h) \/ Resume(h)
    \/ AutoLock
    \/ Evict

Spec == Init /\ [][Next]_vars

(* chrome.storage and WebCrypto answer every request, so a suspended       *)
(* handler is resumed.                                                     *)
FairSpec == Spec /\ \A h \in Handlers : WF_vars(Resume(h))

----------------------------------------------------------------------------
(* Properties. *)

(* The active id of the stored file always names one of its accounts, and  *)
(* so the file is never left without accounts: the invariant of VaultFile  *)
(* in vault-types.ts, which loadVaultFile refuses to see broken.  Two      *)
(* handlers can both pass their own checks and then remove the same        *)
(* account, the last two, or the one the other is switching to.            *)
ActiveAccountExists == file # Null => file.active \in DOMAIN file.accounts

(* One password derives, under the salt of the stored file, the key that   *)
(* opens every account: unlock fails for the whole wallet otherwise.       *)
OneKeyOpensAll == file # Null => \E pw \in Passwords : Opens(Key(pw, file.salt), file)

(* A mutation runs on the file as it is stored: nothing was written since  *)
(* the read of the run, so no other mutation is undone by this one.        *)
NoLostUpdate == \A h \in Handlers : pc[h] = "mload" => cur[h] = file

(* Once a wallet is locked, by the user or by the timer, only a handler    *)
(* that was given a password, UNLOCK's or CREATE_WALLET's, opens it again: *)
(* an addAccount, switchAccount or removeAccount that was under way does   *)
(* not.                                                                    *)
OnlyPasswordUnlocks ==
    [][session = Null /\ session' # Null =>
          \E h \in Handlers : /\ pc[h] # "idle" /\ pc'[h] = "idle" /\ reply' = "ok"
                              /\ call[h].op \in {"UNLOCK", "CREATE_WALLET"}]_vars

(* Every request that reaches the worker is answered, a mutation queued    *)
(* behind one that throws included ("one failed mutation does not poison   *)
(* the queue", updateVaultAtomic).                                         *)
EveryRequestAnswered == \A h \in Handlers : pc[h] # "idle" ~> pc[h] = "idle"

(* The file behaves as an object whose operations are atomic.              *)
Atomic == INSTANCE AtomicVault WITH file <- file, Boot <- Boot, Null <- Null
ImplementsAtomicVault == Atomic!Spec

(* A vault that was reset stays gone until a wallet is created: nothing    *)
(* but CREATE_WALLET writes a file where there is none.                    *)
ResetIsFinal ==
    [][file = Null /\ file' # Null =>
          \E h \in Handlers : pc[h] = "crypto" /\ call[h].op = "CREATE_WALLET"]_vars
=============================================================================
