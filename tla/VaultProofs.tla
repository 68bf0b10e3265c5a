---------------------------- MODULE VaultProofs ----------------------------
(* Theorems about Vault, for every set of handlers, passwords and labels,  *)
(* every bound on the ids minted and every admissible initial file.        *)
EXTENDS VaultSession, TLAPS, WellFoundedInduction

(* What a handler knows at the await it is suspended at. *)
Suspended(h) ==
    /\ pc[h] # "idle" => call[h] \in Messages
    /\ pc[h] = "load" =>
          call[h].op \in {"GET_VAULT_STATE", "CREATE_WALLET", "UNLOCK", "ADD_ACCOUNT",
                          "SWITCH_ACCOUNT", "REMOVE_ACCOUNT", "CHANGE_PASSWORD"}
    /\ pc[h] = "crypto" =>
          /\ call[h].op \in {"UNLOCK", "CREATE_WALLET", "ADD_ACCOUNT", "CHANGE_PASSWORD"}
          /\ key[h] \in Keys
          /\ call[h].op # "CREATE_WALLET" => seen[h] # Null
    /\ pc[h] \in {"queued", "mload", "msave"} =>
          /\ call[h].op \in {"ADD_ACCOUNT", "SWITCH_ACCOUNT", "RENAME_ACCOUNT",
                             "REMOVE_ACCOUNT", "CHANGE_PASSWORD"}
          /\ call[h].op \in {"ADD_ACCOUNT", "CHANGE_PASSWORD"} => key[h] \in Keys
          /\ call[h].op = "CHANGE_PASSWORD" => seen[h] # Null
    /\ pc[h] = "msave" => IsVaultFile(cur[h])
    /\ pc[h] = "saved" => key[h] \in Keys /\ call[h].op = "CREATE_WALLET"

(* A file, stored or read by a handler, selects one of its accounts. *)
Selects(f) == f # Null => f.active \in DOMAIN f.accounts

Inv ==
    /\ TypeOK
    /\ Selects(file)
    /\ \A h \in Handlers : Selects(seen[h]) /\ Selects(cur[h]) /\ Suspended(h)

(* A set of ids that is not empty has a first one. *)
LEMMA FirstExists ==
    ASSUME NEW S \in SUBSET Nat, S # {}
    PROVE  First(S) \in S
<1>1. PICK x \in S : \A y \in S : <<y, x>> \notin OpToRel(<, Nat)
  BY NatLessThanWellFounded, WFMin
<1>2. ASSUME NEW y \in S, y < x PROVE FALSE
  <2>1. <<y, x>> \in OpToRel(<, Nat)
    BY <1>2 DEF OpToRel
  <2> QED BY <2>1, <1>1
<1>3. \A y \in S : x <= y
  BY <1>2
<1> QED BY <1>3 DEF First

(* What the fields of a request may be. *)
LEMMA MessageFields ==
    ASSUME NEW m \in Messages
    PROVE  /\ m.id \in Nat /\ m.label \in Labels
           /\ m.pw \in Passwords \cup {Null} /\ m.new \in Passwords \cup {Null}
           /\ m.op \in {"CREATE_WALLET", "UNLOCK", "CHANGE_PASSWORD"} => m.pw \in Passwords
           /\ m.op = "CHANGE_PASSWORD" => m.new \in Passwords
BY ConstantsAssumption DEF Messages, Message

(* The files the code writes have the shape loadVaultFile accepts. *)
LEMMA VaultFileShape ==
    ASSUME NEW S \in SUBSET Nat, NEW a \in S, NEW s \in Nat, NEW acc \in [S -> Account]
    PROVE  /\ IsVaultFile(VaultFile(a, s, acc)) /\ Selects(VaultFile(a, s, acc))
           /\ ~IsLegacy(VaultFile(a, s, acc))
BY DEF IsVaultFile, VaultFile, Selects, IsLegacy

LEMMA NewSessionType ==
    ASSUME NEW S \in SUBSET Nat, S # {}, NEW a \in Nat, NEW k \in Keys \cup {Null}
    PROVE  NewSession(S, a, k) \in Session
BY FirstExists DEF NewSession, Session

(* The file a mutation returns is well formed and selects an account. *)
LEMMA MutatedShape ==
    ASSUME Inv, NEW h \in Handlers, pc[h] = "mload", MutateFailure(h, cur[h]) = "none"
    PROVE  /\ IsVaultFile(Mutated(h, cur[h])) /\ Selects(Mutated(h, cur[h]))
           /\ ~IsLegacy(Mutated(h, cur[h]))
<1> DEFINE f == cur[h]
           m == call[h]
           rest == DOMAIN f.accounts \ {m.id}
<1>1. /\ f # Null /\ f.active \in DOMAIN f.accounts /\ f.salt \in Nat
      /\ DOMAIN f.accounts \in SUBSET Nat
      /\ f.accounts \in [DOMAIN f.accounts -> Account]
  BY DEF Inv, TypeOK, Selects, MutateFailure, IsVaultFile
<1>2. /\ m \in Messages /\ m.id \in Nat /\ m.label \in Labels
      /\ m.op \in {"ADD_ACCOUNT", "SWITCH_ACCOUNT", "RENAME_ACCOUNT",
                   "REMOVE_ACCOUNT", "CHANGE_PASSWORD"}
      /\ m.op \in {"ADD_ACCOUNT", "CHANGE_PASSWORD"} => key[h] \in Keys
      /\ id[h] \in Nat
  BY MessageFields DEF Inv, Suspended, TypeOK
<1> SUFFICES /\ IsVaultFile(Mutated(h, f)) /\ Selects(Mutated(h, f))
             /\ ~IsLegacy(Mutated(h, f))
  OBVIOUS
<1> HIDE DEF f, m
<1>3. CASE m.op = "ADD_ACCOUNT"
  <2> DEFINE S == DOMAIN f.accounts \cup {id[h]}
             acc == [i \in S |-> IF i = id[h] THEN NewAccount(h) ELSE f.accounts[i]]
  <2>1. NewAccount(h) \in Account
    BY <1>2, <1>3 DEF NewAccount, Account, m
  <2>2. S \in SUBSET Nat /\ acc \in [S -> Account]
    BY <1>1, <1>2, <2>1
  <2>3. Mutated(h, f) = VaultFile(id[h], f.salt, acc)
    BY <1>3 DEF Mutated, m
  <2> QED BY <2>2, <2>3, VaultFileShape, <1>1
<1>4. CASE m.op = "SWITCH_ACCOUNT"
  <2>1. Mutated(h, f) = VaultFile(m.id, f.salt, f.accounts)
    BY <1>4 DEF Mutated, m
  <2>2. m.id \in DOMAIN f.accounts
    BY <1>1, <1>4 DEF MutateFailure, m, f
  <2> QED BY <2>1, <2>2, VaultFileShape, <1>1
<1>5. CASE m.op = "RENAME_ACCOUNT"
  <2> DEFINE acc == [f.accounts EXCEPT ![m.id].label = m.label]
  <2>1. Mutated(h, f) = VaultFile(f.active, f.salt, acc)
    BY <1>5 DEF Mutated, m
  <2>2. acc \in [DOMAIN f.accounts -> Account]
    BY <1>1, <1>2 DEF Account
  <2> QED BY <2>1, <2>2, VaultFileShape, <1>1
<1>6. CASE m.op = "REMOVE_ACCOUNT"
  <2> DEFINE a == IF f.active = m.id THEN First(rest) ELSE f.active
             acc == [i \in rest |-> f.accounts[i]]
  <2>1. Mutated(h, f) = VaultFile(a, f.salt, acc)
    BY <1>6 DEF Mutated, m
  <2>2. rest \in SUBSET Nat /\ rest # {}
    BY <1>1, <1>6 DEF MutateFailure, m, f
  <2>3. a \in rest
    BY <2>2, <1>1, FirstExists
  <2>4. acc \in [rest -> Account]
    BY <1>1
  <2> QED BY <2>1, <2>2, <2>3, <2>4, VaultFileShape, <1>1
<1>7. CASE m.op = "CHANGE_PASSWORD"
  <2>1. Mutated(h, f) = VaultFile(f.active, key[h][2], Resealed(h, f))
    BY <1>7 DEF Mutated, m
  <2>2. key[h] \in Keys /\ key[h][2] \in Nat
    BY <1>2, <1>7 DEF Keys
  <2>3. Resealed(h, f) \in [DOMAIN f.accounts -> Account]
    BY <1>1, <2>2 DEF Account, Resealed
  <2> QED BY <2>1, <2>2, <2>3, VaultFileShape, <1>1
<1> QED BY <1>2, <1>3, <1>4, <1>5, <1>6, <1>7

(* A step of handler h leaves what the others know alone. *)
Elsewhere(h) ==
    \A g \in Handlers \ {h} :
        /\ pc'[g] = pc[g] /\ call'[g] = call[g] /\ key'[g] = key[g]
        /\ seen'[g] = seen[g] /\ cur'[g] = cur[g]

LEMMA StepInv ==
    ASSUME Inv, NEW h \in Handlers, TypeOK', Elsewhere(h),
           Selects(file)', Selects(seen[h])', Selects(cur[h])', Suspended(h)'
    PROVE  Inv'
<1>1. ASSUME NEW g \in Handlers, g # h
      PROVE  Selects(seen[g])' /\ Selects(cur[g])' /\ Suspended(g)'
  BY <1>1 DEF Inv, Elsewhere, Selects, Suspended
<1> QED BY <1>1 DEF Inv

(* Answering a request restores nothing but the slot. *)
LEMMA AnswerInv ==
    ASSUME Inv, NEW h \in Handlers, NEW code \in Codes, Answer(h, code), file' = file,
           session' \in Session \cup {Null}, chain' \in Seq(Handlers), io' \in Seq(Handlers),
           nonce' \in Nat
    PROVE  Inv'
<1>1. TypeOK'
  BY DEF Inv, TypeOK, Answer
<1>2. Elsewhere(h)
  BY DEF Inv, TypeOK, Answer, Elsewhere
<1>3. Selects(file)' /\ Selects(seen[h])' /\ Selects(cur[h])' /\ Suspended(h)'
  BY DEF Inv, TypeOK, Answer, Selects, Suspended, IsVaultFile
<1> QED BY <1>1, <1>2, <1>3, StepInv

LEMMA ReturnType ==
    ASSUME io \in Seq(Handlers), NEW h \in Handlers, Return(h) \/ Reissue(h) \/ Issue(h)
    PROVE  io' \in Seq(Handlers)
BY DEF Return, Reissue, Issue

LEMMA ReceiveInv ==
    ASSUME Inv, NEW h \in Handlers, Receive(h)
    PROVE  Inv'
<1>1. pc[h] = "idle"
  BY DEF Receive
<1>2. PICK m \in Messages : \/ Load(h, m) \/ AddWhileLocked(h, m) \/ Rename(h, m)
                            \/ Lock(h, m) \/ Reset(h, m)
  BY DEF Receive
<1>3. CASE Load(h, m)
  <2>1. TypeOK'
    BY <1>3, ReturnType DEF Load, Accept, Await, Codes, Inv, TypeOK
  <2>2. Elsewhere(h) /\ Selects(file)' /\ Selects(seen[h])' /\ Selects(cur[h])'
    BY <1>3 DEF Load, Accept, Await, Inv, TypeOK, Elsewhere, Selects
  <2>3. Suspended(h)'
    BY <1>3 DEF Load, Accept, Await, Inv, TypeOK, Suspended
  <2> QED BY <2>1, <2>2, <2>3, StepInv
<1>4. CASE AddWhileLocked(h, m)
  BY <1>4, AnswerInv DEF AddWhileLocked, Codes, Inv, TypeOK
<1>5. CASE Rename(h, m)
  <2>1. TypeOK'
    BY <1>5 DEF Rename, Accept, Await, Enqueue, Codes, Inv, TypeOK
  <2>2. Elsewhere(h) /\ Selects(file)' /\ Selects(seen[h])' /\ Selects(cur[h])'
    BY <1>5 DEF Rename, Accept, Await, Inv, TypeOK, Elsewhere, Selects
  <2>3. Suspended(h)'
    BY <1>5 DEF Rename, Accept, Await, Inv, TypeOK, Suspended
  <2> QED BY <2>1, <2>2, <2>3, StepInv
<1>6. CASE Lock(h, m)
  BY <1>6, AnswerInv DEF Lock, Codes, Inv, TypeOK
<1>7. CASE Reset(h, m)
  <2>1. TypeOK'
    BY <1>7, ReturnType DEF Reset, Accept, Await, Codes, Inv, TypeOK
  <2>2. Elsewhere(h) /\ Selects(file)' /\ Selects(seen[h])' /\ Selects(cur[h])'
    BY <1>7 DEF Reset, Accept, Await, Inv, TypeOK, Elsewhere, Selects
  <2>3. Suspended(h)'
    BY <1>7 DEF Reset, Accept, Await, Inv, TypeOK, Suspended
  <2> QED BY <2>1, <2>2, <2>3, StepInv
<1> QED BY <1>2, <1>3, <1>4, <1>5, <1>6, <1>7

(* The steps that follow loadVaultFile. *)
LEMMA MigrateInv ==
    ASSUME Inv, NEW h \in Handlers, Migrate(h)
    PROVE  Inv'
<1> DEFINE f == IF pc[h] = "load" THEN seen[h] ELSE cur[h]
<1>1. f # Null /\ IsVaultFile(f) /\ f.active \in DOMAIN f.accounts
  BY DEF Migrate, IsLegacy, Inv, TypeOK, Selects
<1>2. IsVaultFile(Migrated(f)) /\ Selects(Migrated(f))
  <2> DEFINE acc == [i \in {nonce} |-> f.accounts[f.active]]
  <2>1. /\ {nonce} \in SUBSET Nat /\ nonce \in {nonce} /\ f.salt \in Nat
        /\ acc \in [{nonce} -> Account]
    BY <1>1 DEF IsVaultFile, Inv, TypeOK
  <2>2. IsVaultFile(VaultFile(nonce, f.salt, acc)) /\ Selects(VaultFile(nonce, f.salt, acc))
    BY <2>1, VaultFileShape
  <2> QED BY <2>2 DEF Migrated
<1>3. /\ file' = Migrated(f)
      /\ \/ pc[h] = "load" /\ seen' = [seen EXCEPT ![h] = file'] /\ cur' = cur
         \/ pc[h] = "mload" /\ cur' = [cur EXCEPT ![h] = file'] /\ seen' = seen
  BY DEF Migrate
<1> HIDE DEF f
<1>4. TypeOK'
  <2>1. file' # Null => IsVaultFile(file')
    BY <1>2, <1>3
  <2>2. /\ DOMAIN seen' = Handlers /\ DOMAIN cur' = Handlers
        /\ \A g \in Handlers : /\ seen'[g] # Null => IsVaultFile(seen'[g])
                               /\ cur'[g] # Null => IsVaultFile(cur'[g])
    BY <2>1, <1>3 DEF Inv, TypeOK
  <2>3. /\ session' \in Session \cup {Null} /\ chain' \in Seq(Handlers)
        /\ io' \in Seq(Handlers) /\ nonce' \in Nat /\ reply' \in Codes
        /\ call' = call /\ key' = key /\ id' = id /\ pc' = pc
    BY ReturnType DEF Migrate, Await, Codes, Inv, TypeOK
  <2> QED BY <2>1, <2>2, <2>3 DEF Inv, TypeOK, IsVaultFile
<1>5. Elsewhere(h) /\ Selects(file)' /\ Selects(seen[h])' /\ Selects(cur[h])'
  BY <1>2, <1>3 DEF Migrate, Await, Inv, TypeOK, Elsewhere, Selects
<1>6. Suspended(h)'
  BY <1>3 DEF Migrate, Await, Inv, TypeOK, Suspended
<1> QED BY <1>4, <1>5, <1>6, StepInv

LEMMA AnswerAfterLoadInv ==
    ASSUME Inv, NEW h \in Handlers, AnswerAfterLoad(h)
    PROVE  Inv'
<1>1. call[h] \in Messages
  BY DEF AnswerAfterLoad, Inv, Suspended
<1>2. call[h].op \in {"GET_VAULT_STATE", "CREATE_WALLET", "UNLOCK", "ADD_ACCOUNT",
                      "SWITCH_ACCOUNT", "REMOVE_ACCOUNT", "CHANGE_PASSWORD"}
  BY DEF AnswerAfterLoad, Inv, Suspended
<1>3. LoadAnswer(h) \in Codes
  BY <1>2 DEF LoadAnswer, Codes
<1> QED BY <1>3, AnswerInv, ReturnType DEF AnswerAfterLoad, Inv, TypeOK

LEMMA UnlockInv ==
    ASSUME Inv, NEW h \in Handlers, Unlock(h)
    PROVE  Inv'
<1>1. call[h] \in Messages /\ call[h].op = "UNLOCK" /\ call[h].pw \in Passwords
  BY MessageFields DEF Unlock, Proceeds, Loaded, Inv, Suspended
<1>2. seen[h] # Null
  BY <1>1 DEF Unlock, Proceeds, LoadAnswer
<1>3. Key(call[h].pw, seen[h].salt) \in Keys
  BY <1>1, <1>2 DEF Key, Keys, Inv, TypeOK, IsVaultFile
<1>4. TypeOK'
  BY <1>3, ReturnType DEF Unlock, Await, Codes, Inv, TypeOK
<1>5. Elsewhere(h) /\ Selects(file)' /\ Selects(seen[h])' /\ Selects(cur[h])'
  BY DEF Unlock, Await, Inv, TypeOK, Elsewhere, Selects
<1>6. Suspended(h)'
  BY <1>1, <1>2, <1>3 DEF Unlock, Await, Inv, TypeOK, Suspended
<1> QED BY <1>4, <1>5, <1>6, StepInv

LEMMA FreshKeyInv ==
    ASSUME Inv, NEW h \in Handlers, FreshKey(h)
    PROVE  Inv'
<1> DEFINE pw == IF call[h].op = "CREATE_WALLET" THEN call[h].pw ELSE call[h].new
<1>1. /\ call[h] \in Messages /\ call[h].op \in {"CREATE_WALLET", "CHANGE_PASSWORD"}
      /\ pw \in Passwords
  BY MessageFields DEF FreshKey, Proceeds, Loaded, Inv, Suspended
<1>2. call[h].op # "CREATE_WALLET" => seen[h] # Null
  BY <1>1 DEF FreshKey, Proceeds, LoadAnswer
<1>3. Key(pw, nonce) \in Keys
  BY <1>1 DEF Key, Keys, Inv, TypeOK
<1>4. TypeOK'
  BY <1>3, ReturnType DEF FreshKey, Await, Codes, Inv, TypeOK
<1>5. Elsewhere(h) /\ Selects(file)' /\ Selects(seen[h])' /\ Selects(cur[h])'
  BY DEF FreshKey, Await, Inv, TypeOK, Elsewhere, Selects
<1>6. Suspended(h)'
  BY <1>1, <1>2, <1>3 DEF FreshKey, Await, Inv, TypeOK, Suspended
<1> QED BY <1>4, <1>5, <1>6, StepInv

LEMMA SealInv ==
    ASSUME Inv, NEW h \in Handlers, Seal(h)
    PROVE  Inv'
<1> DEFINE k == IF call[h].pw # Null THEN Key(call[h].pw, seen[h].salt) ELSE session.key
<1>1. /\ call[h] \in Messages /\ call[h].op = "ADD_ACCOUNT"
      /\ call[h].pw \in Passwords \cup {Null}
  BY MessageFields DEF Seal, Proceeds, Loaded, Inv, Suspended
<1>2. seen[h] # Null /\ LoadAnswer(h) = "none"
  BY <1>1 DEF Seal, Proceeds, LoadAnswer
<1>3. k \in Keys
  <2>1. CASE call[h].pw # Null
    BY <2>1, <1>1, <1>2 DEF Key, Keys, Inv, TypeOK, IsVaultFile
  <2>2. CASE call[h].pw = Null
    <3>1. session # Null /\ session.key # Null
      BY <2>2, <1>1, <1>2 DEF LoadAnswer
    <3> QED BY <3>1, <2>2 DEF Inv, TypeOK, Session
  <2> QED BY <2>1, <2>2
<1>4. TypeOK'
  BY <1>3, ReturnType DEF Seal, Await, Codes, Inv, TypeOK
<1>5. Elsewhere(h) /\ Selects(file)' /\ Selects(seen[h])' /\ Selects(cur[h])'
  BY DEF Seal, Await, Inv, TypeOK, Elsewhere, Selects
<1>6. Suspended(h)'
  BY <1>1, <1>2, <1>3 DEF Seal, Await, Inv, TypeOK, Suspended
<1> QED BY <1>4, <1>5, <1>6, StepInv

LEMMA QueueInv ==
    ASSUME Inv, NEW h \in Handlers, QueueAfterLoad(h) \/ QueueChange(h)
    PROVE  Inv'
<1> USE DEF QueueAfterLoad, QueueChange, Proceeds, Loaded, Decrypted, Enqueue, Await
<1>1. TypeOK'
  <2>1. io' \in Seq(Handlers)
    BY ReturnType DEF Inv, TypeOK
  <2>2. chain' = Append(chain, h) /\ reply' = "none"
    OBVIOUS
  <2>3. chain' \in Seq(Handlers) /\ reply' \in Codes
    BY <2>2 DEF Codes, Inv, TypeOK
  <2> QED BY <2>1, <2>3 DEF Inv, TypeOK
<1>2. Elsewhere(h) /\ Selects(file)' /\ Selects(seen[h])' /\ Selects(cur[h])'
  BY DEF Inv, TypeOK, Elsewhere, Selects
<1>3. Suspended(h)'
  BY DEF Inv, TypeOK, Suspended
<1> QED BY <1>1, <1>2, <1>3, StepInv

(* The steps that follow key derivation and encryption. *)
LEMMA StartSessionInv ==
    ASSUME Inv, NEW h \in Handlers, StartSession(h) \/ FirstSaved(h)
    PROVE  Inv'
<1>1. session' \in Session
  <2>1. CASE StartSession(h)
    <3>1. /\ DOMAIN seen[h].accounts \in SUBSET Nat /\ DOMAIN seen[h].accounts # {}
          /\ seen[h].active \in Nat /\ key[h] \in Keys
      BY <2>1 DEF StartSession, Decrypted, Inv, TypeOK, Suspended, Selects, IsVaultFile
    <3> QED BY <3>1, <2>1, NewSessionType DEF StartSession
  <2>2. CASE FirstSaved(h)
    <3>1. {id[h]} \in SUBSET Nat /\ {id[h]} # {} /\ id[h] \in Nat /\ key[h] \in Keys
      BY <2>2 DEF FirstSaved, Inv, TypeOK, Suspended
    <3> QED BY <3>1, <2>2, NewSessionType DEF FirstSaved
  <2> QED BY <2>1, <2>2
<1>2. io' \in Seq(Handlers) /\ chain' \in Seq(Handlers) /\ nonce' \in Nat /\ file' = file
  BY ReturnType DEF StartSession, FirstSaved, Inv, TypeOK
<1>3. Answer(h, "ok") /\ "ok" \in Codes
  BY DEF StartSession, FirstSaved, Codes
<1> QED BY <1>1, <1>2, <1>3, AnswerInv

LEMMA NewAccountType ==
    ASSUME Inv, NEW h \in Handlers, pc[h] = "crypto"
    PROVE  NewAccount(h) \in Account
BY MessageFields DEF NewAccount, Account, Inv, Suspended

LEMMA SaveFirstInv ==
    ASSUME Inv, NEW h \in Handlers, SaveFirst(h)
    PROVE  Inv'
<1> DEFINE acc == [i \in {nonce} |-> NewAccount(h)]
<1>1. IsVaultFile(file') /\ Selects(file')
  <2>1. /\ {nonce} \in SUBSET Nat /\ nonce \in {nonce} /\ key[h][2] \in Nat
        /\ acc \in [{nonce} -> Account]
    BY NewAccountType DEF SaveFirst, Decrypted, Inv, TypeOK, Suspended, Keys
  <2>2. /\ IsVaultFile(VaultFile(nonce, key[h][2], acc))
        /\ Selects(VaultFile(nonce, key[h][2], acc))
    BY <2>1, VaultFileShape
  <2> QED BY <2>2 DEF SaveFirst
<1>2. TypeOK'
  <2>1. /\ io' \in Seq(Handlers) /\ nonce' \in Nat /\ reply' \in Codes
        /\ pc' = [pc EXCEPT ![h] = "saved"] /\ id' = [id EXCEPT ![h] = nonce]
        /\ UNCHANGED <<session, chain, call, seen, cur, key>>
    BY ReturnType DEF SaveFirst, Await, Codes, Inv, TypeOK
  <2> QED BY <1>1, <2>1 DEF Inv, TypeOK, IsVaultFile
<1>3. Elsewhere(h) /\ Selects(file)' /\ Selects(seen[h])' /\ Selects(cur[h])'
  BY <1>1 DEF SaveFirst, Await, Inv, TypeOK, Elsewhere, Selects
<1>4. Suspended(h)'
  BY DEF SaveFirst, Decrypted, Await, Inv, TypeOK, Suspended
<1> QED BY <1>2, <1>3, <1>4, StepInv

LEMMA QueueAddInv ==
    ASSUME Inv, NEW h \in Handlers, QueueAdd(h)
    PROVE  Inv'
<1>1. TypeOK'
  BY DEF QueueAdd, Enqueue, Await, Codes, Inv, TypeOK
<1>2. Elsewhere(h) /\ Selects(file)' /\ Selects(seen[h])' /\ Selects(cur[h])'
  BY DEF QueueAdd, Await, Inv, TypeOK, Elsewhere, Selects
<1>3. Suspended(h)'
  BY DEF QueueAdd, Decrypted, Await, Inv, TypeOK, Suspended
<1> QED BY <1>1, <1>2, <1>3, StepInv

LEMMA RemovedInv ==
    ASSUME Inv, NEW h \in Handlers, Removed(h)
    PROVE  Inv'
BY AnswerInv, ReturnType DEF Removed, Codes, Inv, TypeOK

(* The steps of a mutation run. *)
LEMMA StartRunInv ==
    ASSUME Inv, NEW h \in Handlers, StartRun(h)
    PROVE  Inv'
<1>1. TypeOK'
  BY ReturnType DEF StartRun, Await, Codes, Inv, TypeOK
<1>2. Elsewhere(h) /\ Selects(file)' /\ Selects(seen[h])' /\ Selects(cur[h])'
  BY DEF StartRun, Await, Inv, TypeOK, Elsewhere, Selects
<1>3. Suspended(h)'
  BY DEF StartRun, Await, Inv, TypeOK, Suspended
<1> QED BY <1>1, <1>2, <1>3, StepInv

LEMMA SaveMutationInv ==
    ASSUME Inv, NEW h \in Handlers, SaveMutation(h)
    PROVE  Inv'
<1>1. IsVaultFile(file') /\ Selects(file')
  BY MutatedShape DEF SaveMutation, Running
<1>2. TypeOK'
  <2>1. /\ io' \in Seq(Handlers) /\ reply' \in Codes
        /\ pc' = [pc EXCEPT ![h] = "msave"] /\ cur' = [cur EXCEPT ![h] = file']
        /\ UNCHANGED <<session, chain, call, seen, key, id, nonce>>
    BY ReturnType DEF SaveMutation, Await, Codes, Inv, TypeOK
  <2> QED BY <1>1, <2>1 DEF Inv, TypeOK, IsVaultFile
<1>3. Elsewhere(h) /\ Selects(file)' /\ Selects(seen[h])' /\ Selects(cur[h])'
  BY <1>1 DEF SaveMutation, Await, Inv, TypeOK, Elsewhere, Selects
<1>4. Suspended(h)'
  <2>1. pc'[h] = "msave" /\ cur'[h] = file' /\ pc[h] = "mload"
        /\ UNCHANGED <<call, key, seen>>
    BY DEF SaveMutation, Running, Await, Inv, TypeOK
  <2> QED BY <1>1, <2>1 DEF Inv, Suspended, IsVaultFile
<1> QED BY <1>2, <1>3, <1>4, StepInv

LEMMA SettleType ==
    ASSUME chain \in Seq(Handlers), NEW h \in Handlers, Settle(h)
    PROVE  chain' \in Seq(Handlers)
BY DEF Settle

LEMMA FailMutationInv ==
    ASSUME Inv, NEW h \in Handlers, FailMutation(h)
    PROVE  Inv'
<1>1. MutateFailure(h, cur[h]) \in Codes
  BY DEF MutateFailure, Codes
<1>2. io' \in Seq(Handlers) /\ chain' \in Seq(Handlers)
  BY ReturnType, SettleType DEF FailMutation, Inv, TypeOK
<1> QED BY <1>1, <1>2, AnswerInv DEF FailMutation, Inv, TypeOK

LEMMA CommittedInv ==
    ASSUME Inv, NEW h \in Handlers, Committed(h)
    PROVE  Inv'
<1> DEFINE m == call[h]
<1>1. /\ m \in Messages /\ m.id \in Nat /\ id[h] \in Nat /\ cur[h].active \in Nat
      /\ m.op \in {"ADD_ACCOUNT", "SWITCH_ACCOUNT", "RENAME_ACCOUNT", "REMOVE_ACCOUNT",
                   "CHANGE_PASSWORD"}
  BY MessageFields DEF Committed, Inv, TypeOK, Suspended, IsVaultFile
<1>2. m.op = "CHANGE_PASSWORD" =>
        /\ DOMAIN seen[h].accounts \in SUBSET Nat /\ DOMAIN seen[h].accounts # {}
        /\ key[h] \in Keys
  BY DEF Committed, Inv, TypeOK, Suspended, Selects, IsVaultFile
<1>3. SessionAfter(h) \in Session \cup {Null}
  <2>1. CASE session = Null
    BY <2>1 DEF SessionAfter
  <2>2. CASE session # Null
    <3>1. session \in Session
      BY <2>2 DEF Inv, TypeOK
    <3>2. CASE m.op = "ADD_ACCOUNT"
      BY <3>1, <3>2, <1>1, <2>2 DEF SessionAfter, Session
    <3>3. CASE m.op = "SWITCH_ACCOUNT" \/ m.op = "RENAME_ACCOUNT"
      BY <3>1, <3>3, <1>1, <2>2 DEF SessionAfter, Session
    <3>4. CASE m.op = "REMOVE_ACCOUNT"
      BY <3>1, <3>4, <1>1, <2>2 DEF SessionAfter, Session
    <3>5. CASE m.op = "CHANGE_PASSWORD"
      <4>1. NewSession(DOMAIN seen[h].accounts, session.active, key[h]) \in Session
        BY <3>1, <3>5, <1>2, NewSessionType DEF Session
      <4> QED BY <4>1, <3>5, <2>2 DEF SessionAfter
    <3> QED BY <3>2, <3>3, <3>4, <3>5, <1>1
  <2> QED BY <2>1, <2>2
<1>4. io' \in Seq(Handlers) /\ chain' \in Seq(Handlers)
  BY ReturnType, SettleType DEF Committed, Inv, TypeOK
<1>5. SessionFailure(h) \in Codes
  BY DEF SessionFailure, Codes
<1> QED BY <1>3, <1>4, <1>5, AnswerInv DEF Committed, Inv, TypeOK

(* Eviction leaves no request behind and keeps the file. *)
LEMMA EvictInv ==
    ASSUME Inv, Evict
    PROVE  Inv'
<1>1. session' \in Session \cup {Null}
  <2>1. CASE session = Null \/ session.entries = {}
    BY <2>1 DEF Evict, Rehydrated
  <2>2. CASE session # Null /\ session.entries # {}
    <3>1. session \in Session
      BY <2>2 DEF Inv, TypeOK
    <3>2. NewSession(session.entries, session.active, Null) \in Session
      BY <3>1, <2>2, NewSessionType DEF Session
    <3> QED BY <3>2, <2>2 DEF Evict, Rehydrated
  <2> QED BY <2>1, <2>2
<1>2. TypeOK'
  BY <1>1 DEF Evict, Codes, Inv, TypeOK, IsVaultFile
<1>3. Selects(file)' /\ \A h \in Handlers : Selects(seen[h])' /\ Selects(cur[h])'
  BY DEF Evict, Inv, Selects
<1>4. \A h \in Handlers : Suspended(h)'
  BY DEF Evict, Suspended
<1> QED BY <1>2, <1>3, <1>4 DEF Inv

LEMMA InitInv == Init => Inv
<1> SUFFICES ASSUME Init PROVE Inv
  OBVIOUS
<1>1. file # Null => IsVaultFile(file) /\ file.active \in DOMAIN file.accounts
  BY ConstantsAssumption DEF Init
<1>2. session \in Session \cup {Null}
  <2>1. CASE file = Null
    BY <2>1 DEF Init
  <2>2. CASE file # Null
    <3>1. /\ DOMAIN file.accounts \in SUBSET Nat /\ DOMAIN file.accounts # {}
          /\ file.active \in Nat /\ file.accounts[file.active].key \in Keys
      BY <1>1, <2>2 DEF IsVaultFile, Account
    <3>2. \A k \in {Null, file.accounts[file.active].key} :
             NewSession(DOMAIN file.accounts, file.active, k) \in Session
      BY <3>1, NewSessionType
    <3> QED BY <3>2, <2>2 DEF Init
  <2> QED BY <2>1, <2>2
<1>3. TypeOK
  <2>1. chain \in Seq(Handlers) /\ io \in Seq(Handlers)
    BY DEF Init
  <2>2. nonce \in Nat
    BY ConstantsAssumption DEF Init
  <2> QED BY <1>1, <1>2, <2>1, <2>2 DEF Init, TypeOK, Codes
<1> QED BY <1>1, <1>3 DEF Init, Inv, Selects, Suspended

LEMMA NextInv == Inv /\ [Next]_vars => Inv'
<1> SUFFICES ASSUME Inv, [Next]_vars PROVE Inv'
  OBVIOUS
<1>1. ASSUME NEW h \in Handlers, Receive(h) PROVE Inv'
  BY <1>1, ReceiveInv
<1>2. ASSUME NEW h \in Handlers, Resume(h) PROVE Inv'
  BY <1>2, MigrateInv, AnswerAfterLoadInv, UnlockInv, FreshKeyInv, SealInv, QueueInv,
     StartSessionInv, SaveFirstInv, QueueAddInv, RemovedInv, StartRunInv,
     FailMutationInv, SaveMutationInv, CommittedInv DEF Resume
<1>3. CASE AutoLock
  BY <1>3 DEF AutoLock, local, Codes, Inv, TypeOK, IsVaultFile, Selects, Suspended
<1>4. CASE Evict
  BY <1>4, EvictInv
<1>5. CASE UNCHANGED vars
  BY <1>5 DEF vars, local, Inv, TypeOK, IsVaultFile, Selects, Suspended
<1> QED BY <1>1, <1>2, <1>3, <1>4, <1>5 DEF Next

THEOREM InvHolds == Spec => []Inv
BY InitInv, NextInv, PTL DEF Spec

(* The variables keep their types, whatever requests interleave and        *)
(* wherever the worker is evicted.                                         *)
THEOREM TypeCorrect == Spec => []TypeOK
<1>1. Inv => TypeOK
  BY DEF Inv
<1> QED BY <1>1, InvHolds, PTL

(* The stored file always selects one of its accounts, so it is never left *)
(* empty: the checks that switchAccount and removeAccount repeat inside    *)
(* their mutate callbacks are enough, with every operation running, resets *)
(* and a second creation included.                                         *)
THEOREM ActiveAccountAlwaysExists == Spec => []ActiveAccountExists
<1>1. Inv => ActiveAccountExists
  BY DEF Inv, Selects, ActiveAccountExists
<1> QED BY <1>1, InvHolds, PTL

(* The session a mutation leaves is none if there was none. *)
LEMMA NoSessionOpens ==
    ASSUME Inv, NEW h \in Handlers, Receive(h) \/ Resume(h), session = Null, session' # Null
    PROVE  StartSession(h) \/ FirstSaved(h)
<1>1. ~Committed(h)
  BY DEF Committed, SessionAfter
<1> QED BY <1>1 DEF Receive, Load, AddWhileLocked, Rename, Lock, Reset, Resume, Migrate,
     AnswerAfterLoad, Unlock, FreshKey, Seal, QueueAfterLoad, SaveFirst, QueueAdd, QueueChange,
     Removed, StartRun, FailMutation, SaveMutation

(* A locked wallet is opened by the passphrase alone, whatever was under   *)
(* way when it locked and wherever the worker is evicted.                  *)
THEOREM OnlyPasswordOpens == Spec => OnlyPasswordUnlocks
<1> DEFINE Opened == session = Null /\ session' # Null =>
                        \E h \in Handlers : /\ pc[h] # "idle" /\ pc'[h] = "idle" /\ reply' = "ok"
                                            /\ call[h].op \in {"UNLOCK", "CREATE_WALLET"}
<1>1. Inv /\ [Next]_vars => [Opened]_vars
  <2> SUFFICES ASSUME Inv, Next, session = Null, session' # Null
               PROVE  \E h \in Handlers : /\ pc[h] # "idle" /\ pc'[h] = "idle" /\ reply' = "ok"
                                          /\ call[h].op \in {"UNLOCK", "CREATE_WALLET"}
    OBVIOUS
  <2>1. ~AutoLock /\ ~Evict
    BY DEF AutoLock, Evict, Rehydrated
  <2>2. PICK h \in Handlers : StartSession(h) \/ FirstSaved(h)
    BY <2>1, NoSessionOpens DEF Next
  <2>3. CASE StartSession(h)
    BY <2>3 DEF StartSession, Decrypted, Answer, Inv, TypeOK
  <2>4. CASE FirstSaved(h)
    BY <2>4 DEF FirstSaved, Answer, Inv, TypeOK, Suspended
  <2> QED BY <2>2, <2>3, <2>4
<1> QED BY <1>1, InvHolds, PTL DEF Spec, OnlyPasswordUnlocks

----------------------------------------------------------------------------
(* What holds of Vault when the operations that write the vault outside    *)
(* the mutation chain, creation and reset, are not among those dispatched. *)

(* Only mutations write the file. *)
MutationsOnly == Ops \cap {"CREATE_WALLET", "RESET_VAULT"} = {}

(* No v1 record is left to migrate. *)
NoLegacyBoot == \A f \in Boot : ~IsLegacy(f)

InFlight == \A h \in Handlers : pc[h] # "idle" => call[h].op \in Ops

NoLegacy ==
    /\ ~IsLegacy(file)
    /\ \A h \in Handlers : ~IsLegacy(seen[h]) /\ ~IsLegacy(cur[h])

(* The mutation that runs is the first of the chain. *)
OneRuns ==
    \A h \in Handlers :
        pc[h] \in {"mload", "msave"} => chain # <<>> /\ Head(chain) = h

FreshInv == Inv /\ InFlight /\ NoLegacy /\ OneRuns /\ NoLostUpdate

LEMMA InFlightStep ==
    ASSUME Inv, InFlight, Next
    PROVE  InFlight'
<1>1. ASSUME NEW h \in Handlers, Receive(h) PROVE InFlight'
  <2>1. PICK m \in Messages : /\ m.op \in Ops
                              /\ \/ Load(h, m) \/ AddWhileLocked(h, m) \/ Rename(h, m)
                                 \/ Lock(h, m) \/ Reset(h, m)
    BY <1>1 DEF Receive
  <2>2. \/ pc' = [pc EXCEPT ![h] = "idle"] /\ call' = [call EXCEPT ![h] = Null]
        \/ call' = [call EXCEPT ![h] = m] /\ \E p : pc' = [pc EXCEPT ![h] = p]
    BY <2>1 DEF Load, AddWhileLocked, Rename, Lock, Reset, Answer, Accept, Await
  <2> QED BY <2>1, <2>2 DEF InFlight, Inv, TypeOK
<1>2. ASSUME NEW h \in Handlers, Resume(h) PROVE InFlight'
  <2>1. pc[h] # "idle"
    BY <1>2 DEF Resume, Migrate, AnswerAfterLoad, Unlock, FreshKey, Seal, QueueAfterLoad,
       StartSession, SaveFirst, QueueAdd, QueueChange, FirstSaved, Removed, StartRun,
       FailMutation, SaveMutation, Committed, Proceeds, Loaded, Decrypted, Running
  <2>2. \/ pc' = [pc EXCEPT ![h] = "idle"] /\ call' = [call EXCEPT ![h] = Null]
        \/ call' = call /\ \E p : pc' = [pc EXCEPT ![h] = p]
    BY <1>2 DEF Resume, Migrate, AnswerAfterLoad, Unlock, FreshKey, Seal, QueueAfterLoad,
       StartSession, SaveFirst, QueueAdd, QueueChange, FirstSaved, Removed, StartRun,
       FailMutation, SaveMutation, Committed, Answer, Await
  <2> QED BY <2>1, <2>2 DEF InFlight, Inv, TypeOK
<1>3. CASE AutoLock
  BY <1>3 DEF AutoLock, local, InFlight
<1>4. CASE Evict
  BY <1>4 DEF Evict, InFlight
<1> QED BY <1>1, <1>2, <1>3, <1>4 DEF Next

(* Of all steps, only SaveMutation then changes the file. *)
LEMMA OnlyMutationsWrite ==
    ASSUME MutationsOnly, Inv, InFlight, NoLegacy, Next
    PROVE  file' = file \/ \E h \in Handlers : SaveMutation(h)
<1>1. ASSUME NEW h \in Handlers, Receive(h) PROVE file' = file
  BY <1>1 DEF Receive, Load, AddWhileLocked, Rename, Lock, Reset, MutationsOnly
<1>2. ASSUME NEW h \in Handlers, Resume(h), ~SaveMutation(h) PROVE file' = file
  <2>1. ~Migrate(h)
    BY DEF Migrate, NoLegacy
  <2>2. ~SaveFirst(h)
    BY DEF SaveFirst, Decrypted, InFlight, MutationsOnly
  <2> QED BY <1>2, <2>1, <2>2 DEF Resume, AnswerAfterLoad, Unlock, FreshKey, Seal,
       QueueAfterLoad, StartSession, QueueAdd, QueueChange, FirstSaved, Removed, StartRun,
       FailMutation, Committed
<1> QED BY <1>1, <1>2 DEF Next, AutoLock, Evict

LEMMA NoLegacyStep ==
    ASSUME MutationsOnly, Inv, InFlight, NoLegacy, Next
    PROVE  NoLegacy'
<1>1. ~IsLegacy(file')
  <2>1. CASE file' = file
    BY <2>1 DEF NoLegacy
  <2>2. ASSUME NEW h \in Handlers, SaveMutation(h) PROVE ~IsLegacy(file')
    BY <2>2, MutatedShape DEF SaveMutation, Running
  <2> QED BY <2>1, <2>2, OnlyMutationsWrite
<1>2. ASSUME NEW g \in Handlers PROVE ~IsLegacy(seen'[g]) /\ ~IsLegacy(cur'[g])
  <2>0. ~IsLegacy(Null) /\ DOMAIN seen = Handlers /\ DOMAIN cur = Handlers
    BY DEF IsLegacy, Inv, TypeOK
  <2>1. ASSUME NEW h \in Handlers, Receive(h) \/ Resume(h)
        PROVE  ~IsLegacy(seen'[g]) /\ ~IsLegacy(cur'[g])
    <3>1. ~Migrate(h)
      BY DEF Migrate, NoLegacy
    <3>2. /\ \E s \in {seen[h], file, Null} : seen' = [seen EXCEPT ![h] = s] \/ seen' = seen
          /\ \E s \in {cur[h], file, file', Null} : cur' = [cur EXCEPT ![h] = s] \/ cur' = cur
      BY <2>1, <3>1 DEF Receive, Load, AddWhileLocked, Rename, Lock, Reset, Accept, Await,
         Answer, Resume, AnswerAfterLoad, Unlock, FreshKey, Seal, QueueAfterLoad,
         StartSession, SaveFirst, QueueAdd, QueueChange, FirstSaved, Removed, StartRun,
         FailMutation, SaveMutation, Committed
    <3> QED BY <3>2, <1>1, <2>0 DEF NoLegacy
  <2>2. CASE AutoLock \/ Evict
    BY <2>2, <2>0 DEF AutoLock, Evict, local, NoLegacy
  <2> QED BY <2>1, <2>2 DEF Next
<1> QED BY <1>1, <1>2 DEF NoLegacy

(* What a step of handler h does to the chain. *)
LEMMA ChainStep ==
    ASSUME Inv, NEW h \in Handlers, Receive(h) \/ Resume(h), ~Migrate(h)
    PROVE  \/ chain' = chain /\ pc'[h] \notin {"mload", "msave"}
           \/ Enqueue(h) /\ pc'[h] = "queued"
           \/ StartRun(h)
           \/ SaveMutation(h)
           \/ Settle(h) /\ pc'[h] = "idle"
<1> USE DEF Answer, Await, Accept
<1>0. DOMAIN pc = Handlers
  BY DEF Inv, TypeOK
<1>1. CASE Receive(h)
  BY <1>1, <1>0 DEF Receive, Load, AddWhileLocked, Rename, Lock, Reset
<1>2. CASE Resume(h)
  BY <1>2, <1>0 DEF Resume, AnswerAfterLoad, Unlock, FreshKey, Seal,
     QueueAfterLoad, StartSession, SaveFirst, QueueAdd, QueueChange, FirstSaved, Removed,
     FailMutation, Committed
<1> QED BY <1>1, <1>2

(* A step of h leaves the other handlers where they are. *)
LEMMA OthersStay ==
    ASSUME Inv, NEW h \in Handlers, Receive(h) \/ Resume(h), NEW g \in Handlers, g # h
    PROVE  /\ pc'[g] = pc[g] /\ cur'[g] = cur[g] /\ seen'[g] = seen[g]
           /\ call'[g] = call[g] /\ id'[g] = id[g] /\ key'[g] = key[g]
BY DEF Inv, TypeOK, Answer, Await, Accept, Receive, Load, AddWhileLocked, Rename, Lock, Reset,
   Resume, Migrate, AnswerAfterLoad, Unlock, FreshKey, Seal, QueueAfterLoad, StartSession,
   SaveFirst, QueueAdd, QueueChange, FirstSaved, Removed, StartRun, FailMutation,
   SaveMutation, Committed

LEMMA OneRunsStep ==
    ASSUME Inv, OneRuns, Next
    PROVE  OneRuns'
<1>1. ASSUME NEW h \in Handlers, Receive(h) \/ Resume(h),
             NEW g \in Handlers, pc'[g] \in {"mload", "msave"}
      PROVE  chain' # <<>> /\ Head(chain') = g
  <2>0. chain \in Seq(Handlers)
    BY DEF Inv, TypeOK
  <2>1. g # h => pc[g] \in {"mload", "msave"} /\ chain # <<>> /\ Head(chain) = g
    BY <1>1, OthersStay DEF OneRuns
  <2>2. CASE chain' = chain /\ pc'[h] \notin {"mload", "msave"}
    BY <1>1, <2>1, <2>2
  <2>3. CASE Enqueue(h) /\ pc'[h] = "queued"
    <3>1. g # h /\ chain # <<>> /\ Head(chain) = g /\ chain' = Append(chain, h)
      BY <1>1, <2>1, <2>3 DEF Enqueue
    <3> QED BY <3>1, <2>0
  <2>4. CASE StartRun(h)
    BY <2>1, <2>4 DEF StartRun
  <2>5. CASE SaveMutation(h)
    <3>1. pc[h] = "mload" /\ chain' = chain
      BY <2>5 DEF SaveMutation, Running
    <3> QED BY <3>1, <2>1 DEF OneRuns
  <2>6. CASE Settle(h) /\ pc'[h] = "idle"
    BY <1>1, <2>1, <2>6 DEF Settle
  <2>7. CASE Migrate(h)
    BY <1>1, <2>7 DEF Migrate, Await, OneRuns, Inv, TypeOK
  <2> QED BY <1>1, <2>2, <2>3, <2>4, <2>5, <2>6, <2>7, ChainStep
<1>2. CASE AutoLock
  BY <1>2 DEF AutoLock, local, OneRuns
<1>3. CASE Evict
  BY <1>3 DEF Evict, OneRuns
<1> QED BY <1>1, <1>2, <1>3 DEF Next, OneRuns

LEMMA NoLostUpdateStep ==
    ASSUME MutationsOnly, FreshInv, Next
    PROVE  NoLostUpdate'
<1>1. ASSUME NEW g \in Handlers, pc'[g] = "mload"
      PROVE  cur'[g] = file'
  <2>1. ASSUME NEW h \in Handlers, Receive(h) \/ Resume(h)
        PROVE  cur'[g] = file'
    <3>1. CASE StartRun(h) /\ g = h
      BY <3>1 DEF StartRun, FreshInv, Inv, TypeOK
    <3>2. CASE g # h
      <4>1. pc[g] = "mload" /\ cur'[g] = cur[g] /\ cur[g] = file
        BY <1>1, <2>1, <3>2, OthersStay DEF FreshInv, NoLostUpdate
      <4>2. ASSUME NEW k \in Handlers, SaveMutation(k) PROVE k = g /\ FALSE
        <5>1. pc[k] = "mload" /\ pc'[k] = "msave"
          BY <4>2 DEF SaveMutation, Running, Await, FreshInv, Inv, TypeOK
        <5>2. k = g
          BY <4>1, <5>1 DEF FreshInv, OneRuns
        <5> QED BY <5>1, <5>2, <1>1
      <4>3. file' = file
        BY <4>2, OnlyMutationsWrite DEF FreshInv
      <4> QED BY <4>1, <4>3
    <3>3. CASE g = h /\ ~StartRun(h)
      <4>1. SaveMutation(h) => pc'[h] = "msave"
        BY DEF SaveMutation, Await, FreshInv, Inv, TypeOK
      <4>2. ~Migrate(h)
        BY DEF Migrate, FreshInv, NoLegacy
      <4> QED BY <1>1, <2>1, <3>3, <4>1, <4>2, ChainStep DEF FreshInv
    <3> QED BY <3>1, <3>2, <3>3
  <2>2. CASE AutoLock
    BY <1>1, <2>2 DEF AutoLock, local, FreshInv, NoLostUpdate
  <2>3. CASE Evict
    BY <1>1, <2>3 DEF Evict
  <2> QED BY <2>1, <2>2, <2>3 DEF Next
<1> QED BY <1>1 DEF NoLostUpdate

LEMMA FreshInvInit ==
    ASSUME NoLegacyBoot, Init
    PROVE  FreshInv
<1>1. Inv
  BY InitInv
<1>2. InFlight /\ OneRuns /\ NoLostUpdate
  BY DEF Init, InFlight, OneRuns, NoLostUpdate
<1>3. NoLegacy
  BY DEF Init, NoLegacy, NoLegacyBoot, IsLegacy
<1> QED BY <1>1, <1>2, <1>3 DEF FreshInv

LEMMA FreshInvStep ==
    ASSUME MutationsOnly, FreshInv, [Next]_vars
    PROVE  FreshInv'
<1>1. CASE Next
  BY <1>1, NextInv, InFlightStep, NoLegacyStep, OneRunsStep, NoLostUpdateStep DEF FreshInv
<1>2. CASE UNCHANGED vars
  BY <1>2, NextInv DEF vars, local, FreshInv, InFlight, NoLegacy, OneRuns, NoLostUpdate
<1> QED BY <1>1, <1>2

LEMMA FreshInvHolds ==
    ASSUME MutationsOnly, NoLegacyBoot
    PROVE  Spec => []FreshInv
<1>1. Init => FreshInv
  BY FreshInvInit
<1>2. FreshInv /\ [Next]_vars => FreshInv'
  BY FreshInvStep
<1> QED BY <1>1, <1>2, PTL DEF Spec

(* updateVaultAtomic does serialise the mutations: when nothing writes the *)
(* vault beside them, each runs on the file as it is stored, however many  *)
(* handlers interleave and wherever the worker is evicted.                 *)
THEOREM MutationsAreSerialised ==
    ASSUME MutationsOnly, NoLegacyBoot
    PROVE  Spec => []NoLostUpdate
<1>1. FreshInv => NoLostUpdate
  BY DEF FreshInv
<1> QED BY <1>1, FreshInvHolds, PTL

----------------------------------------------------------------------------
(* No operation brings a key of its own. *)
OneKeyOps == Ops \cap {"CREATE_WALLET", "CHANGE_PASSWORD"} = {}

Sealed(f, k) == f # Null => Opens(k, f) /\ f.salt = k[2]

(* Every key in sight is the key k of the wallet. *)
KeyInv(k) ==
    /\ Sealed(file, k)
    /\ session # Null => session.key \in {k, Null}
    /\ \A h \in Handlers :
          /\ Sealed(seen[h], k) /\ Sealed(cur[h], k)
          /\ /\ pc[h] \in {"crypto", "queued", "mload"}
             /\ call[h].op \in {"UNLOCK", "ADD_ACCOUNT"}
             => key[h] = k

LEMMA KeyReceive ==
    ASSUME Inv, NEW k \in Keys, KeyInv(k), NEW h \in Handlers, Receive(h)
    PROVE  KeyInv(k)'
<1>0. DOMAIN pc = Handlers /\ DOMAIN call = Handlers /\ DOMAIN key = Handlers
      /\ DOMAIN seen = Handlers /\ DOMAIN cur = Handlers
  BY DEF Inv, TypeOK
<1>1. PICK m : Load(h, m) \/ AddWhileLocked(h, m) \/ Rename(h, m) \/ Lock(h, m) \/ Reset(h, m)
  BY DEF Receive
<1>2. file' \in {file, Null} /\ session' \in {session, Null}
  BY <1>1 DEF Load, AddWhileLocked, Rename, Lock, Reset
<1>3. \A g \in Handlers : seen'[g] \in {seen[g], file, Null} /\ cur'[g] \in {cur[g], Null}
  BY <1>0, <1>1 DEF Load, AddWhileLocked, Rename, Lock, Reset, Answer
<1>4. \/ pc'[h] \notin {"crypto", "queued", "mload"}
      \/ call'[h].op \notin {"UNLOCK", "ADD_ACCOUNT"}
  BY <1>0, <1>1 DEF Load, AddWhileLocked, Rename, Lock, Reset, Accept, Await, Answer
<1>5. \A g \in Handlers :
         g # h => pc'[g] = pc[g] /\ call'[g] = call[g] /\ key'[g] = key[g]
  BY <1>0, <1>1 DEF Load, AddWhileLocked, Rename, Lock, Reset, Accept, Await, Answer
<1>6. Sealed(file', k) /\ \A g \in Handlers : Sealed(seen'[g], k) /\ Sealed(cur'[g], k)
  BY <1>2, <1>3 DEF KeyInv, Sealed
<1> QED BY <1>2, <1>4, <1>5, <1>6 DEF KeyInv, Sealed, Opens

LEMMA KeyMigrate ==
    ASSUME Inv, NEW k \in Keys, KeyInv(k), NEW h \in Handlers, Migrate(h)
    PROVE  KeyInv(k)'
<1> DEFINE f == IF pc[h] = "load" THEN seen[h] ELSE cur[h]
<1>1. f # Null /\ Opens(k, f) /\ f.salt = k[2] /\ f.active \in DOMAIN f.accounts
  BY DEF Migrate, IsLegacy, Inv, Selects, KeyInv, Sealed
<1>2. Sealed(Migrated(f), k)
  BY <1>1 DEF Migrated, VaultFile, Sealed, Opens
<1>3. /\ file' = Migrated(f)
      /\ \/ pc[h] = "load" /\ seen' = [seen EXCEPT ![h] = file'] /\ cur' = cur
         \/ pc[h] = "mload" /\ cur' = [cur EXCEPT ![h] = file'] /\ seen' = seen
  BY DEF Migrate
<1>4. pc' = pc /\ call' = call /\ key' = key /\ session' = session
  BY DEF Migrate, Await, Inv, TypeOK
<1> HIDE DEF f
<1>5. \A g \in Handlers : Sealed(seen'[g], k) /\ Sealed(cur'[g], k)
  BY <1>2, <1>3 DEF Inv, TypeOK, KeyInv
<1> QED BY <1>2, <1>3, <1>4, <1>5 DEF KeyInv, Sealed, Opens

LEMMA KeyDerived ==
    ASSUME Inv, NEW k \in Keys, KeyInv(k), NEW h \in Handlers, Unlock(h) \/ Seal(h)
    PROVE  KeyInv(k)'
<1>1. key'[h] = k
  <2>1. CASE Unlock(h)
    <3>1. call[h].op = "UNLOCK" /\ LoadAnswer(h) = "none" /\ seen[h] # Null
      BY <2>1 DEF Unlock, Proceeds, Loaded, LoadAnswer
    <3>2. Opens(Key(call[h].pw, seen[h].salt), seen[h])
      BY <3>1 DEF LoadAnswer
    <3>3. seen[h].active \in DOMAIN seen[h].accounts /\ Opens(k, seen[h])
      BY <3>1 DEF Inv, Selects, KeyInv, Sealed
    <3> QED BY <2>1, <3>2, <3>3 DEF Unlock, Opens, Inv, TypeOK
  <2>2. CASE Seal(h)
    <3>1. call[h].op = "ADD_ACCOUNT" /\ LoadAnswer(h) = "none" /\ seen[h] # Null
      BY <2>2 DEF Seal, Proceeds, Loaded, LoadAnswer
    <3>2. seen[h].active \in DOMAIN seen[h].accounts /\ Opens(k, seen[h])
      BY <3>1 DEF Inv, Selects, KeyInv, Sealed
    <3>3. CASE call[h].pw # Null
      <4>1. seen[h].accounts[seen[h].active].key = Key(call[h].pw, seen[h].salt)
        BY <3>1, <3>3 DEF LoadAnswer
      <4> QED BY <2>2, <3>2, <3>3, <4>1 DEF Seal, Opens, Inv, TypeOK
    <3>4. CASE call[h].pw = Null
      <4>1. session # Null /\ session.key # Null
        BY <3>1, <3>4 DEF LoadAnswer
      <4> QED BY <2>2, <3>4, <4>1 DEF Seal, KeyInv, Inv, TypeOK
    <3> QED BY <3>3, <3>4
  <2> QED BY <2>1, <2>2
<1>2. /\ \A g \in Handlers : g # h => key'[g] = key[g] /\ pc'[g] = pc[g]
      /\ UNCHANGED <<file, session, seen, cur, call>>
  BY DEF Unlock, Seal, Await, Inv, TypeOK
<1> QED BY <1>1, <1>2 DEF KeyInv, Sealed, Opens

LEMMA KeyMutation ==
    ASSUME OneKeyOps, Inv, InFlight, NEW k \in Keys, KeyInv(k),
           NEW h \in Handlers, SaveMutation(h)
    PROVE  KeyInv(k)'
<1> DEFINE f == cur[h]
<1>1. /\ f # Null /\ Opens(k, f) /\ f.salt = k[2] /\ pc[h] = "mload"
      /\ MutateFailure(h, f) = "none"
  BY DEF SaveMutation, Running, MutateFailure, KeyInv, Sealed
<1>2. /\ call[h].op \in {"ADD_ACCOUNT", "SWITCH_ACCOUNT", "RENAME_ACCOUNT", "REMOVE_ACCOUNT"}
      /\ call[h].op = "ADD_ACCOUNT" => key[h] = k
  BY <1>1 DEF Inv, Suspended, InFlight, OneKeyOps, KeyInv
<1> HIDE DEF f
<1>3. Sealed(Mutated(h, f), k)
  <2>1. CASE call[h].op = "ADD_ACCOUNT"
    BY <1>1, <1>2, <2>1 DEF Mutated, VaultFile, NewAccount, Sealed, Opens
  <2>2. CASE call[h].op = "SWITCH_ACCOUNT"
    BY <1>1, <2>2 DEF Mutated, VaultFile, Sealed, Opens
  <2>3. CASE call[h].op = "RENAME_ACCOUNT"
    <3>1. f.accounts \in [DOMAIN f.accounts -> Account]
      BY <1>1 DEF f, Inv, TypeOK, IsVaultFile
    <3>2. \A i \in DOMAIN f.accounts :
             [f.accounts EXCEPT ![call[h].id].label = call[h].label][i].key = k
      BY <1>1, <3>1 DEF Opens, Account
    <3> QED BY <1>1, <2>3, <3>2 DEF Mutated, VaultFile, Sealed, Opens
  <2>4. CASE call[h].op = "REMOVE_ACCOUNT"
    BY <1>1, <2>4 DEF Mutated, VaultFile, Sealed, Opens
  <2> QED BY <1>2, <2>1, <2>2, <2>3, <2>4
<1>4. /\ file' = Mutated(h, f) /\ cur' = [cur EXCEPT ![h] = file']
      /\ pc' = [pc EXCEPT ![h] = "msave"]
      /\ UNCHANGED <<session, seen, call, key>>
  BY DEF SaveMutation, Await, f
<1>5. \A g \in Handlers : Sealed(cur'[g], k)
  BY <1>3, <1>4 DEF KeyInv, Inv, TypeOK
<1>6. \A g \in Handlers : pc'[g] \in {"crypto", "queued", "mload"} => pc'[g] = pc[g]
  BY <1>4 DEF Inv, TypeOK
<1> QED BY <1>3, <1>4, <1>5, <1>6 DEF KeyInv, Sealed, Opens

(* The other steps of a handler read the file, or write nothing. *)
LEMMA KeyOther ==
    ASSUME OneKeyOps, Inv, InFlight, NEW k \in Keys, KeyInv(k), NEW h \in Handlers,
           \/ AnswerAfterLoad(h) \/ QueueAfterLoad(h) \/ StartSession(h) \/ QueueAdd(h)
           \/ Removed(h) \/ StartRun(h) \/ FailMutation(h) \/ Committed(h)
    PROVE  KeyInv(k)'
<1>0. DOMAIN pc = Handlers /\ DOMAIN call = Handlers /\ DOMAIN key = Handlers
      /\ DOMAIN seen = Handlers /\ DOMAIN cur = Handlers
  BY DEF Inv, TypeOK
<1>1. file' = file
  BY DEF AnswerAfterLoad, QueueAfterLoad, StartSession, QueueAdd, Removed, StartRun,
     FailMutation, Committed
<1>2. \A g \in Handlers : seen'[g] \in {seen[g], Null} /\ cur'[g] \in {cur[g], file, Null}
  BY <1>0 DEF AnswerAfterLoad, QueueAfterLoad, StartSession, QueueAdd, Removed, StartRun,
     FailMutation, Committed, Answer
<1>3. \A g \in Handlers :
         g # h => pc'[g] = pc[g] /\ call'[g] = call[g] /\ key'[g] = key[g]
  BY <1>0 DEF AnswerAfterLoad, QueueAfterLoad, StartSession, QueueAdd, Removed, StartRun,
     FailMutation, Committed, Answer, Await
<1>4. /\ pc'[h] \in {"crypto", "queued", "mload"}
      /\ call'[h].op \in {"UNLOCK", "ADD_ACCOUNT"}
      => key'[h] = k
  BY <1>0 DEF AnswerAfterLoad, QueueAfterLoad, StartSession, QueueAdd, Removed, StartRun,
     FailMutation, Committed, Answer, Await, Proceeds, Loaded, Decrypted, KeyInv
<1>5. session' # Null => session'.key \in {k, Null}
  <2>1. CASE StartSession(h)
    BY <2>1 DEF StartSession, Decrypted, NewSession, KeyInv
  <2>2. CASE Committed(h)
    <3>1. call[h].op # "CHANGE_PASSWORD"
      BY <2>2 DEF Committed, InFlight, OneKeyOps
    <3>2. session # Null => session.key \in {k, Null} /\ session \in Session
      BY DEF KeyInv, Inv, TypeOK
    <3>3. session' = SessionAfter(h)
      BY <2>2 DEF Committed
    <3> QED BY <3>1, <3>2, <3>3 DEF SessionAfter, Session
  <2>3. CASE session' = session
    BY <2>3 DEF KeyInv
  <2> QED BY <2>1, <2>2, <2>3 DEF AnswerAfterLoad, QueueAfterLoad, QueueAdd, Removed,
       StartRun, FailMutation
<1>6. \A g \in Handlers : Sealed(seen'[g], k) /\ Sealed(cur'[g], k)
  BY <1>2 DEF KeyInv, Sealed
<1> QED BY <1>1, <1>3, <1>4, <1>5, <1>6 DEF KeyInv, Sealed, Opens

LEMMA KeyStep ==
    ASSUME OneKeyOps, Inv, InFlight, NEW k \in Keys, KeyInv(k), Next
    PROVE  KeyInv(k)'
<1>1. ASSUME NEW h \in Handlers, Resume(h) PROVE KeyInv(k)'
  <2>1. ~FreshKey(h) /\ ~SaveFirst(h) /\ ~QueueChange(h)
    BY DEF FreshKey, SaveFirst, QueueChange, Proceeds, Loaded, Decrypted, InFlight, OneKeyOps
  <2>2. ~FirstSaved(h)
    BY DEF FirstSaved, Inv, Suspended, InFlight, OneKeyOps
  <2> QED BY <1>1, <2>1, <2>2, KeyMigrate, KeyDerived, KeyMutation, KeyOther DEF Resume
<1>2. CASE AutoLock
  BY <1>2 DEF AutoLock, local, KeyInv, Sealed, Opens
<1>3. CASE Evict
  <2>1. session' # Null => session'.key = Null
    BY <1>3 DEF Evict, Rehydrated, NewSession
  <2> QED BY <1>3, <2>1 DEF Evict, KeyInv, Sealed, Opens
<1> QED BY <1>1, <1>2, <1>3, KeyReceive DEF Next

LEMMA KeyInit ==
    ASSUME Init
    PROVE  \E k \in Keys : KeyInv(k)
<1>1. CASE file = Null
  <2>1. PICK pw \in Passwords : TRUE
    BY ConstantsAssumption
  <2>2. Key(pw, 0) \in Keys
    BY DEF Key, Keys
  <2>3. KeyInv(Key(pw, 0))
    BY <1>1 DEF Init, KeyInv, Sealed
  <2> QED BY <2>2, <2>3
<1>2. CASE file # Null
  <2>1. PICK pw \in Passwords : Opens(Key(pw, file.salt), file)
    BY <1>2, ConstantsAssumption DEF Init
  <2>2. file.salt \in Nat /\ file.active \in DOMAIN file.accounts
    BY <1>2, ConstantsAssumption DEF Init, IsVaultFile
  <2>3. Key(pw, file.salt) \in Keys /\ Key(pw, file.salt)[2] = file.salt
    BY <2>2 DEF Key, Keys
  <2>4. session # Null => session.key \in {Key(pw, file.salt), Null}
    BY <1>2, <2>1, <2>2 DEF Init, NewSession, Opens
  <2>5. KeyInv(Key(pw, file.salt))
    BY <2>1, <2>3, <2>4 DEF Init, KeyInv, Sealed
  <2> QED BY <2>3, <2>5
<1> QED BY <1>1, <1>2

(* Every account stays under the one key of the wallet, whatever is        *)
(* interleaved, evicted, added, removed or reset, so long as no operation   *)
(* changes the password or creates a wallet.                               *)
THEOREM OneKeyStays ==
    ASSUME OneKeyOps
    PROVE  Spec => []OneKeyOpensAll
<1> DEFINE KInv == Inv /\ InFlight /\ \E k \in Keys : KeyInv(k)
<1>1. Init => KInv
  <2> SUFFICES ASSUME Init PROVE KInv
    OBVIOUS
  <2>1. Inv /\ InFlight
    BY InitInv DEF Init, InFlight
  <2> QED BY <2>1, KeyInit
<1>2. KInv /\ [Next]_vars => KInv'
  <2> SUFFICES ASSUME KInv, [Next]_vars PROVE KInv'
    OBVIOUS
  <2>1. PICK k \in Keys : KeyInv(k)
    OBVIOUS
  <2>2. CASE Next
    BY <2>1, <2>2, NextInv, InFlightStep, KeyStep
  <2>3. CASE UNCHANGED vars
    <3>1. KeyInv(k)' /\ InFlight'
      BY <2>1, <2>3 DEF vars, local, KeyInv, Sealed, Opens, InFlight
    <3> QED BY <2>3, <3>1, NextInv
  <2> QED BY <2>2, <2>3
<1>3. KInv => OneKeyOpensAll
  <2> SUFFICES ASSUME NEW k \in Keys, KeyInv(k), file # Null PROVE OneKeyOpensAll
    BY DEF OneKeyOpensAll
  <2>1. k[1] \in Passwords /\ Key(k[1], file.salt) = k
    BY DEF Key, Keys, KeyInv, Sealed
  <2> QED BY <2>1 DEF OneKeyOpensAll, KeyInv, Sealed
<1> QED BY <1>1, <1>2, <1>3, PTL DEF Spec

----------------------------------------------------------------------------
(* The vault file under concurrent handlers implements AtomicVault, when   *)
(* every write is a mutation and the key of the wallet stays the same.     *)

(* The absence of a file is not a file. *)
NullIsNoFile == ~IsVaultFile(Null)

(* An account that waits to be added: its id is minted, not yet stored. *)
Adding(h) == pc[h] \in {"queued", "mload"} /\ call[h].op = "ADD_ACCOUNT"

(* Minted ids are used once. *)
FreshIds ==
    /\ file # Null => \A i \in DOMAIN file.accounts : i < nonce
    /\ \A h \in Handlers : Adding(h) =>
          /\ id[h] < nonce
          /\ file # Null => id[h] \notin DOMAIN file.accounts
          /\ \A g \in Handlers : Adding(g) /\ id[g] = id[h] => g = h

(* The step of a handler that begins to add mints the id; any other step   *)
(* leaves the ids of the accounts to be added.                             *)
LEMMA AddingStep ==
    ASSUME Inv, NEW h \in Handlers, Receive(h) \/ Resume(h), ~QueueAdd(h),
           NEW g \in Handlers, Adding(g)'
    PROVE  Adding(g) /\ id'[g] = id[g]
<1>0. DOMAIN pc = Handlers /\ DOMAIN call = Handlers /\ DOMAIN id = Handlers
  BY DEF Inv, TypeOK
<1>1. CASE Receive(h)
  BY <1>0, <1>1 DEF Adding, Receive, Load, AddWhileLocked, Rename, Lock, Reset, Answer,
     Accept, Await
<1>2. CASE Resume(h)
  BY <1>0, <1>2 DEF Adding, Resume, Migrate, AnswerAfterLoad, Unlock, FreshKey, Seal,
     QueueAfterLoad, Proceeds, Loaded, Decrypted, StartSession, SaveFirst, QueueChange,
     FirstSaved, Removed, StartRun, FailMutation, SaveMutation, Committed, Answer, Await
<1> QED BY <1>1, <1>2

LEMMA NonceGrows ==
    ASSUME Inv, Next
    PROVE  nonce' \in Nat /\ nonce' >= nonce
<1>0. nonce \in Nat
  BY DEF Inv, TypeOK
<1>1. nonce' = nonce \/ nonce' = nonce + 1
  BY DEF Next, AutoLock, Evict, Receive, Load, AddWhileLocked, Rename, Lock, Reset,
     Resume, Migrate, AnswerAfterLoad, Unlock, FreshKey, Seal, QueueAfterLoad, StartSession,
     SaveFirst, QueueAdd, QueueChange, FirstSaved, Removed, StartRun, FailMutation,
     SaveMutation, Committed
<1> QED BY <1>0, <1>1

(* A mutation stores no id but those stored and the one it was given. *)
LEMMA MutatedIds ==
    ASSUME MutationsOnly, FreshInv, NEW h \in Handlers, SaveMutation(h)
    PROVE  /\ pc[h] = "mload" /\ pc' = [pc EXCEPT ![h] = "msave"]
           /\ call' = call /\ id' = id
           /\ cur[h] = file /\ file # Null /\ file' = Mutated(h, file)
           /\ MutateFailure(h, file) = "none"
           /\ call[h].op \in {"ADD_ACCOUNT", "SWITCH_ACCOUNT", "RENAME_ACCOUNT",
                              "REMOVE_ACCOUNT", "CHANGE_PASSWORD"}
           /\ \A i \in DOMAIN file'.accounts :
                 i \in DOMAIN file.accounts \/ (Adding(h) /\ i = id[h])
<1>1. /\ pc[h] = "mload" /\ pc' = [pc EXCEPT ![h] = "msave"]
      /\ call' = call /\ id' = id
      /\ cur[h] = file /\ file' = Mutated(h, file)
      /\ MutateFailure(h, file) = "none"
  BY DEF SaveMutation, Running, Await, FreshInv, NoLostUpdate
<1>2. file # Null
  BY <1>1 DEF MutateFailure
<1>3. call[h].op \in {"ADD_ACCOUNT", "SWITCH_ACCOUNT", "RENAME_ACCOUNT",
                      "REMOVE_ACCOUNT", "CHANGE_PASSWORD"}
  BY <1>1 DEF FreshInv, Inv, Suspended
<1>4. ASSUME NEW i \in DOMAIN file'.accounts
      PROVE  i \in DOMAIN file.accounts \/ (Adding(h) /\ i = id[h])
  BY <1>1, <1>3, <1>4 DEF Mutated, VaultFile, Resealed, Adding
<1> QED BY <1>1, <1>2, <1>3, <1>4

LEMMA FreshIdsStep ==
    ASSUME MutationsOnly, FreshInv, FreshIds, Next
    PROVE  FreshIds'
<1>0. nonce \in Nat /\ nonce' \in Nat /\ nonce' >= nonce /\ id \in [Handlers -> Nat]
  BY NonceGrows DEF FreshInv, Inv, TypeOK
<1>1. ASSUME NEW h \in Handlers, SaveMutation(h)
      PROVE  FreshIds'
  <2>1. /\ file # Null
        /\ \A i \in DOMAIN file'.accounts :
              i \in DOMAIN file.accounts \/ (Adding(h) /\ i = id[h])
    BY <1>1, MutatedIds
  <2>2. nonce' = nonce
    BY <1>1 DEF SaveMutation
  <2>3. ASSUME NEW g \in Handlers, Adding(g)'
        PROVE  Adding(g) /\ id'[g] = id[g] /\ g # h
    BY <1>1, <2>3, MutatedIds DEF Adding, FreshInv, Inv, TypeOK
  <2>4. \A i \in DOMAIN file'.accounts : i < nonce'
    BY <2>1, <2>2 DEF FreshIds
  <2>5. ASSUME NEW g \in Handlers, Adding(g)'
        PROVE  /\ id'[g] < nonce' /\ id'[g] \notin DOMAIN file'.accounts
               /\ \A e \in Handlers : Adding(e)' /\ id'[e] = id'[g] => e = g
    BY <2>1, <2>2, <2>3, <2>5 DEF FreshIds
  <2> QED BY <2>4, <2>5 DEF FreshIds
<1>2. ASSUME NEW h \in Handlers, QueueAdd(h)
      PROVE  FreshIds'
  <2>1. /\ file' = file /\ nonce' = nonce + 1 /\ id' = [id EXCEPT ![h] = nonce]
        /\ pc' = [pc EXCEPT ![h] = "queued"] /\ call' = call
    BY <1>2 DEF QueueAdd, Await
  <2>2. ASSUME NEW g \in Handlers, Adding(g)', g # h
        PROVE  Adding(g) /\ id'[g] = id[g]
    BY <2>1, <2>2 DEF Adding, FreshInv, Inv, TypeOK
  <2>3. file' # Null => \A i \in DOMAIN file'.accounts : i < nonce /\ i < nonce'
    <3>1. file # Null => \A i \in DOMAIN file.accounts : i \in Nat
      BY DEF FreshInv, Inv, TypeOK, IsVaultFile
    <3> QED BY <1>0, <2>1, <3>1 DEF FreshIds
  <2>4. id'[h] = nonce
    BY <1>0, <2>1
  <2>5. ASSUME NEW g \in Handlers, Adding(g)'
        PROVE  /\ id'[g] < nonce'
               /\ file' # Null => id'[g] \notin DOMAIN file'.accounts
    BY <1>0, <2>1, <2>2, <2>3, <2>4, <2>5 DEF FreshIds
  <2>6. ASSUME NEW g \in Handlers, NEW e \in Handlers, Adding(g)', Adding(e)',
               id'[e] = id'[g]
        PROVE  e = g
    BY <1>0, <2>2, <2>4, <2>6 DEF FreshIds
  <2> QED BY <2>3, <2>5, <2>6 DEF FreshIds
<1>3. ASSUME file' = file,
             \A g \in Handlers : Adding(g)' => Adding(g) /\ id'[g] = id[g]
      PROVE  FreshIds'
  <2>1. file # Null => \A i \in DOMAIN file.accounts : i \in Nat
    BY DEF FreshInv, Inv, TypeOK, IsVaultFile
  <2> QED BY <1>0, <1>3, <2>1 DEF FreshIds
<1>4. ASSUME NEW h \in Handlers, Receive(h) \/ Resume(h), ~QueueAdd(h),
             \A e \in Handlers : ~SaveMutation(e)
      PROVE  FreshIds'
  BY <1>3, <1>4, AddingStep, OnlyMutationsWrite DEF FreshInv
<1>5. CASE AutoLock
  BY <1>3, <1>5 DEF AutoLock, local, Adding
<1>6. CASE Evict
  BY <1>3, <1>6 DEF Evict, Adding
<1> QED BY <1>1, <1>2, <1>4, <1>5, <1>6 DEF Next

----------------------------------------------------------------------------
(* What each mutation of the file is, as an operation of AtomicVault: those *)
(* that keep the keys of the accounts, and then the others.                *)
LEMMA PlainMutationIsAtomic ==
    ASSUME MutationsOnly, NullIsNoFile, FreshInv, NEW h \in Handlers, SaveMutation(h),
           call[h].op \in {"SWITCH_ACCOUNT", "RENAME_ACCOUNT", "REMOVE_ACCOUNT"}
    PROVE  Atomic!Next
<1> DEFINE m == call[h]
<1>1. /\ pc[h] = "mload" /\ file # Null /\ file' = Mutated(h, file)
      /\ MutateFailure(h, file) = "none"
  BY MutatedIds
<1>2. file.active \in DOMAIN file.accounts
  BY <1>1 DEF FreshInv, Inv, Selects
<1>3. file' # Null
  BY <1>1, MutatedShape, MutatedIds DEF FreshInv, NullIsNoFile
<1>4. CASE m.op = "SWITCH_ACCOUNT"
  <2>1. m.id \in DOMAIN file.accounts
    BY <1>1, <1>4 DEF MutateFailure
  <2>2. file'.accounts = file.accounts /\ file'.active = m.id /\ file'.salt = file.salt
    BY <1>1, <1>4 DEF Mutated, VaultFile
  <2>3. Atomic!Switch
    BY <2>1, <2>2 DEF Atomic!Switch, Atomic!SameBut
  <2> QED BY <1>1, <1>3, <2>3 DEF Atomic!Next
<1>5. CASE m.op = "RENAME_ACCOUNT"
  <2>1. m.id \in DOMAIN file.accounts
    BY <1>1, <1>5 DEF MutateFailure
  <2>2. /\ file'.accounts = [file.accounts EXCEPT ![m.id].label = m.label]
        /\ file'.active = file.active /\ file'.salt = file.salt
    BY <1>1, <1>5 DEF Mutated, VaultFile
  <2>3. file.accounts \in [DOMAIN file.accounts -> Account]
    BY <1>1 DEF FreshInv, Inv, TypeOK, IsVaultFile
  <2>4. /\ DOMAIN file'.accounts = DOMAIN file.accounts
        /\ \A j \in DOMAIN file.accounts \ {m.id} : file'.accounts[j] = file.accounts[j]
        /\ file'.accounts[m.id].key = file.accounts[m.id].key
    BY <2>1, <2>2, <2>3 DEF Account
  <2>5. Atomic!SameBut({m.id})
    BY <2>4 DEF Atomic!SameBut
  <2>6. Atomic!Rename
    BY <2>1, <2>2, <2>4, <2>5 DEF Atomic!Rename
  <2> QED BY <1>1, <1>3, <2>6 DEF Atomic!Next
<1>6. CASE m.op = "REMOVE_ACCOUNT"
  <2> DEFINE rest == DOMAIN file.accounts \ {m.id}
  <2>1. /\ DOMAIN file'.accounts = rest
        /\ \A j \in rest : file'.accounts[j] = file.accounts[j]
        /\ file'.active = IF file.active = m.id THEN First(rest) ELSE file.active
        /\ file'.salt = file.salt
    BY <1>1, <1>6 DEF Mutated, VaultFile
  <2>2. CASE m.id \in DOMAIN file.accounts
    <3>1. First(rest) = Atomic!Smallest(rest)
      BY DEF First, Atomic!Smallest
    <3>2. Atomic!SameBut({m.id})
      BY <2>1 DEF Atomic!SameBut
    <3>3. Atomic!Remove
      BY <2>1, <2>2, <3>1, <3>2 DEF Atomic!Remove
    <3> QED BY <1>1, <1>3, <3>3 DEF Atomic!Next
  <2>3. CASE m.id \notin DOMAIN file.accounts
    <3>1. rest = DOMAIN file.accounts /\ file'.active = file.active
      BY <1>2, <2>1, <2>3
    <3>2. Atomic!SameBut({})
      BY <2>1, <3>1 DEF Atomic!SameBut
    <3>3. Atomic!Switch
      BY <1>2, <2>1, <3>1, <3>2 DEF Atomic!Switch
    <3> QED BY <1>1, <1>3, <3>3 DEF Atomic!Next
  <2> QED BY <2>2, <2>3
<1> QED BY <1>4, <1>5, <1>6

LEMMA MutationIsAtomic ==
    ASSUME OneKeyOps, MutationsOnly, NullIsNoFile, FreshInv, FreshIds,
           NEW k \in Keys, KeyInv(k), NEW h \in Handlers, SaveMutation(h)
    PROVE  Atomic!Next
<1> DEFINE m == call[h]
<1>1. /\ pc[h] = "mload" /\ file # Null /\ file' = Mutated(h, file)
      /\ m.op \in {"ADD_ACCOUNT", "SWITCH_ACCOUNT", "RENAME_ACCOUNT", "REMOVE_ACCOUNT"}
  BY MutatedIds DEF FreshInv, InFlight, OneKeyOps
<1>2. /\ file.active \in DOMAIN file.accounts
      /\ \A i \in DOMAIN file.accounts : file.accounts[i].key = k
  BY <1>1 DEF FreshInv, Inv, Selects, KeyInv, Sealed, Opens
<1>3. file' # Null
  BY <1>1, MutatedShape, MutatedIds DEF FreshInv, NullIsNoFile
<1>4. CASE m.op = "ADD_ACCOUNT"
  <2> DEFINE i == id[h]
  <2>1. key[h] = k /\ i \notin DOMAIN file.accounts
    BY <1>1, <1>4 DEF KeyInv, FreshIds, Adding
  <2>2. /\ DOMAIN file'.accounts = DOMAIN file.accounts \cup {i}
        /\ \A j \in DOMAIN file.accounts : file'.accounts[j] = file.accounts[j]
        /\ file'.accounts[i].key = k
        /\ file'.active = i /\ file'.salt = file.salt
    BY <1>1, <1>4, <2>1 DEF Mutated, VaultFile, NewAccount
  <2>3. Atomic!SameBut({i})
    BY <2>2 DEF Atomic!SameBut
  <2>4. Atomic!Add
    BY <1>2, <2>1, <2>2, <2>3 DEF Atomic!Add
  <2> QED BY <1>1, <1>3, <2>4 DEF Atomic!Next
<1> QED BY <1>1, <1>4, PlainMutationIsAtomic

(* Accounts are added, switched to, renamed and removed as if one request  *)
(* were served at a time: every write that the interleaved, evictable      *)
(* handlers make to the file is one whole operation of AtomicVault on the  *)
(* file as it then is, and no write is anything else.                      *)
THEOREM MutationsAreAtomic ==
    ASSUME OneKeyOps, MutationsOnly, NoLegacyBoot, NullIsNoFile
    PROVE  Spec => ImplementsAtomicVault
<1> DEFINE AInv == FreshInv /\ FreshIds /\ \E k \in Keys : KeyInv(k)
<1>1. Init => AInv
  <2> SUFFICES ASSUME Init PROVE AInv
    OBVIOUS
  <2>1. FreshInv
    BY FreshInvInit
  <2>2. FreshIds
    BY ConstantsAssumption DEF Init, FreshIds, Adding
  <2> QED BY <2>1, <2>2, KeyInit
<1>2. AInv /\ [Next]_vars => AInv'
  <2> SUFFICES ASSUME AInv, [Next]_vars PROVE AInv'
    OBVIOUS
  <2>1. PICK k \in Keys : KeyInv(k)
    OBVIOUS
  <2>2. CASE Next
    BY <2>1, <2>2, FreshInvStep, FreshIdsStep, KeyStep DEF FreshInv
  <2>3. CASE UNCHANGED vars
    <3>1. KeyInv(k)' /\ FreshIds'
      BY <2>1, <2>3 DEF vars, local, KeyInv, Sealed, Opens, FreshIds, Adding
    <3> QED BY <2>3, <3>1, FreshInvStep
  <2> QED BY <2>2, <2>3
<1>3. Init => Atomic!Init
  BY DEF Init, Atomic!Init
<1>4. AInv /\ [Next]_vars => [Atomic!Next]_file
  <2> SUFFICES ASSUME AInv, [Next]_vars PROVE Atomic!Next \/ file' = file
    OBVIOUS
  <2>1. CASE Next
    BY <2>1, OnlyMutationsWrite, MutationIsAtomic DEF FreshInv
  <2>2. CASE UNCHANGED vars
    BY <2>2 DEF vars
  <2> QED BY <2>1, <2>2
<1> QED BY <1>1, <1>2, <1>3, <1>4, PTL DEF Spec, ImplementsAtomicVault, Atomic!Spec

----------------------------------------------------------------------------
(* Password changes, when no account joins meanwhile.                       *)
NothingAdded == "ADD_ACCOUNT" \notin Ops

(* A password change knows the file it derives the keys for. *)
Changing(h) == pc[h] # "idle" /\ call[h].op = "CHANGE_PASSWORD" /\ seen[h] # Null

(* It has read every account that is stored, so it seals all of them anew. *)
RekeyInv ==
    /\ OneKeyOpensAll
    /\ file # Null =>
          \A h \in Handlers : Changing(h) => DOMAIN file.accounts \subseteq DOMAIN seen[h].accounts

(* What a change has read stays; one that begins reads the file. *)
LEMMA ChangingStep ==
    ASSUME Inv, NEW h \in Handlers, Receive(h) \/ Resume(h), ~Migrate(h),
           NEW g \in Handlers, Changing(g)'
    PROVE  (Changing(g) /\ seen'[g] = seen[g]) \/ seen'[g] = file
<1>0. DOMAIN pc = Handlers /\ DOMAIN call = Handlers /\ DOMAIN seen = Handlers
  BY DEF Inv, TypeOK
<1>1. CASE g # h
  BY <1>1, OthersStay DEF Changing
<1>2. CASE g = h /\ Receive(h)
  <2>1. PICK m : Load(h, m) \/ AddWhileLocked(h, m) \/ Rename(h, m) \/ Lock(h, m) \/ Reset(h, m)
    BY <1>2 DEF Receive
  <2> QED BY <1>0, <1>2, <2>1 DEF Load, AddWhileLocked, Rename, Lock, Reset, Answer, Accept,
       Await, Changing
<1>3. CASE g = h /\ Resume(h)
  <2>1. pc[h] # "idle"
    BY <1>3 DEF Resume, Migrate, AnswerAfterLoad, Unlock, FreshKey, Seal, QueueAfterLoad,
       StartSession, SaveFirst, QueueAdd, QueueChange, FirstSaved, Removed, StartRun,
       FailMutation, SaveMutation, Committed, Proceeds, Loaded, Decrypted, Running
  <2>2. pc'[h] = "idle" \/ (call' = call /\ seen' = seen)
    BY <1>0, <1>3 DEF Resume, AnswerAfterLoad, Unlock, FreshKey, Seal, QueueAfterLoad,
       StartSession, SaveFirst, QueueAdd, QueueChange, FirstSaved, Removed, StartRun,
       FailMutation, SaveMutation, Committed, Answer, Await
  <2> QED BY <1>3, <2>1, <2>2 DEF Changing
<1> QED BY <1>1, <1>2, <1>3

(* The file after a password change: every account under the new key. *)
LEMMA ResealsAll ==
    ASSUME MutationsOnly, FreshInv, RekeyInv, NEW h \in Handlers, SaveMutation(h),
           call[h].op = "CHANGE_PASSWORD"
    PROVE  /\ key[h] \in Keys /\ file'.salt = key[h][2] /\ file'.active = file.active
           /\ DOMAIN file'.accounts = DOMAIN file.accounts
           /\ \A i \in DOMAIN file.accounts :
                 /\ file'.accounts[i].key = key[h]
                 /\ file'.accounts[i].label = file.accounts[i].label
<1>1. /\ pc[h] = "mload" /\ file # Null /\ file' = Mutated(h, file)
  BY MutatedIds
<1>2. key[h] \in Keys /\ seen[h] # Null
  BY <1>1 DEF FreshInv, Inv, Suspended
<1>3. DOMAIN file.accounts \subseteq DOMAIN seen[h].accounts
  BY <1>1, <1>2 DEF RekeyInv, Changing
<1>4. file.accounts \in [DOMAIN file.accounts -> Account]
  BY <1>1 DEF FreshInv, Inv, TypeOK, IsVaultFile
<1>5. file' = VaultFile(file.active, key[h][2], Resealed(h, file))
  BY <1>1 DEF Mutated
<1>6. /\ DOMAIN Resealed(h, file) = DOMAIN file.accounts
      /\ \A i \in DOMAIN file.accounts :
            Resealed(h, file)[i] = [file.accounts[i] EXCEPT !.key = key[h]]
  BY <1>3 DEF Resealed
<1>7. \A i \in DOMAIN file.accounts :
         /\ Resealed(h, file)[i].key = key[h]
         /\ Resealed(h, file)[i].label = file.accounts[i].label
  <2> SUFFICES ASSUME NEW i \in DOMAIN file.accounts
               PROVE  /\ Resealed(h, file)[i].key = key[h]
                      /\ Resealed(h, file)[i].label = file.accounts[i].label
    OBVIOUS
  <2>1. file.accounts[i] \in Account /\ Resealed(h, file)[i] = [file.accounts[i] EXCEPT !.key = key[h]]
    BY <1>4, <1>6
  <2> QED BY <2>1 DEF Account
<1> QED BY <1>2, <1>5, <1>6, <1>7 DEF VaultFile

(* The other mutations keep what is sealed as it is. *)
LEMMA PlainKeepsKeys ==
    ASSUME MutationsOnly, FreshInv, NEW h \in Handlers, SaveMutation(h),
           call[h].op \in {"SWITCH_ACCOUNT", "RENAME_ACCOUNT", "REMOVE_ACCOUNT"}
    PROVE  /\ file'.salt = file.salt /\ DOMAIN file'.accounts \subseteq DOMAIN file.accounts
           /\ \A i \in DOMAIN file'.accounts : file'.accounts[i].key = file.accounts[i].key
<1>1. file # Null /\ file' = Mutated(h, file)
  BY MutatedIds
<1>2. file.accounts \in [DOMAIN file.accounts -> Account]
  BY <1>1 DEF FreshInv, Inv, TypeOK, IsVaultFile
<1>3. CASE call[h].op = "SWITCH_ACCOUNT"
  BY <1>1, <1>3 DEF Mutated, VaultFile
<1>4. CASE call[h].op = "RENAME_ACCOUNT"
  <2>1. file'.accounts = [file.accounts EXCEPT ![call[h].id].label = call[h].label]
        /\ file'.salt = file.salt
    BY <1>1, <1>4 DEF Mutated, VaultFile
  <2>2. \A i \in DOMAIN file.accounts : file.accounts[i] \in Account
    BY <1>2
  <2> QED BY <1>2, <2>1, <2>2 DEF Account
<1>5. CASE call[h].op = "REMOVE_ACCOUNT"
  BY <1>1, <1>5 DEF Mutated, VaultFile
<1> QED BY <1>3, <1>4, <1>5

LEMMA RekeyStep ==
    ASSUME MutationsOnly, NothingAdded, FreshInv, RekeyInv, Next
    PROVE  RekeyInv'
<1>1. ASSUME file' = file,
             \A g \in Handlers :
                Changing(g)' => (Changing(g) /\ seen'[g] = seen[g]) \/ seen'[g] = file
      PROVE  RekeyInv'
  BY <1>1 DEF RekeyInv, OneKeyOpensAll, Opens
<1>2. ASSUME NEW h \in Handlers, SaveMutation(h) PROVE RekeyInv'
  <2>1. /\ file # Null
        /\ call[h].op \in {"SWITCH_ACCOUNT", "RENAME_ACCOUNT", "REMOVE_ACCOUNT", "CHANGE_PASSWORD"}
    <3>1. pc[h] # "idle"
      BY <1>2 DEF SaveMutation, Running
    <3>2. call[h].op # "ADD_ACCOUNT"
      BY <3>1 DEF FreshInv, InFlight, NothingAdded
    <3> QED BY <1>2, <3>2, MutatedIds
  <2>2. DOMAIN file'.accounts \subseteq DOMAIN file.accounts
    BY <1>2, <2>1, ResealsAll, PlainKeepsKeys
  <2>3. \E pw \in Passwords : Opens(Key(pw, file'.salt), file')
    <3>1. CASE call[h].op = "CHANGE_PASSWORD"
      <4>1. key[h] \in Keys /\ file'.salt = key[h][2]
            /\ \A i \in DOMAIN file'.accounts : file'.accounts[i].key = key[h]
        BY <1>2, <3>1, ResealsAll
      <4>2. key[h][1] \in Passwords /\ Key(key[h][1], key[h][2]) = key[h]
        BY <4>1 DEF Keys, Key
      <4> QED BY <4>1, <4>2 DEF Opens
    <3>2. CASE call[h].op # "CHANGE_PASSWORD"
      <4>1. PICK pw \in Passwords : Opens(Key(pw, file.salt), file)
        BY <2>1 DEF RekeyInv, OneKeyOpensAll
      <4>2. /\ file'.salt = file.salt
            /\ \A i \in DOMAIN file'.accounts : file'.accounts[i].key = file.accounts[i].key
        BY <1>2, <2>1, <3>2, PlainKeepsKeys
      <4>3. Opens(Key(pw, file'.salt), file')
        BY <2>2, <4>1, <4>2 DEF Opens
      <4> QED BY <4>3
    <3> QED BY <3>1, <3>2
  <2>4. ASSUME NEW g \in Handlers, Changing(g)'
        PROVE  DOMAIN file'.accounts \subseteq DOMAIN seen'[g].accounts
    <3>1. seen' = seen /\ call' = call /\ pc[h] = "mload" /\ pc' = [pc EXCEPT ![h] = "msave"]
      BY <1>2 DEF SaveMutation, Await, Running
    <3>2. Changing(g)
      BY <2>4, <3>1 DEF Changing, FreshInv, Inv, TypeOK
    <3> QED BY <2>1, <2>2, <3>1, <3>2 DEF RekeyInv
  <2> QED BY <2>3, <2>4 DEF RekeyInv, OneKeyOpensAll
<1>3. ASSUME NEW h \in Handlers, Receive(h) \/ Resume(h), \A e \in Handlers : ~SaveMutation(e)
      PROVE  RekeyInv'
  <2>1. ~Migrate(h)
    BY DEF Migrate, FreshInv, NoLegacy
  <2> QED BY <1>1, <1>3, <2>1, ChangingStep, OnlyMutationsWrite DEF FreshInv
<1>4. CASE AutoLock
  BY <1>1, <1>4 DEF AutoLock, local, Changing
<1>5. CASE Evict
  BY <1>1, <1>5 DEF Evict, Changing
<1> QED BY <1>2, <1>3, <1>4, <1>5 DEF Next

LEMMA RekeyHolds ==
    ASSUME MutationsOnly, NothingAdded, NoLegacyBoot
    PROVE  Spec => [](FreshInv /\ RekeyInv)
<1>1. Init => FreshInv /\ RekeyInv
  <2> SUFFICES ASSUME Init PROVE FreshInv /\ RekeyInv
    OBVIOUS
  <2>1. OneKeyOpensAll
    <3>1. file # Null => file \in Boot \ {Null}
      BY DEF Init
    <3> QED BY <3>1, ConstantsAssumption DEF OneKeyOpensAll
  <2>2. \A h \in Handlers : ~Changing(h)
    BY ConstantsAssumption DEF Init, Changing
  <2> QED BY <2>1, <2>2, FreshInvInit DEF RekeyInv
<1>2. FreshInv /\ RekeyInv /\ [Next]_vars => (FreshInv /\ RekeyInv)'
  <2> SUFFICES ASSUME FreshInv, RekeyInv, [Next]_vars PROVE (FreshInv /\ RekeyInv)'
    OBVIOUS
  <2>1. CASE Next
    BY <2>1, FreshInvStep, RekeyStep
  <2>2. CASE UNCHANGED vars
    BY <2>2, FreshInvStep DEF vars, local, RekeyInv, OneKeyOpensAll, Opens, Changing
  <2> QED BY <2>1, <2>2
<1> QED BY <1>1, <1>2, PTL DEF Spec

(* Any number of overlapping password changes, with accounts switched,     *)
(* renamed and removed between their read and their write, leave a vault   *)
(* that one password opens.                                                *)
THEOREM OneKeySurvivesChange ==
    ASSUME MutationsOnly, NothingAdded, NoLegacyBoot
    PROVE  Spec => []OneKeyOpensAll
<1>1. RekeyInv => OneKeyOpensAll
  BY DEF RekeyInv
<1> QED BY <1>1, RekeyHolds, PTL

(* And each of them is one operation of AtomicVault on the file as it is   *)
(* when it is written.                                                     *)
THEOREM ChangesAreAtomic ==
    ASSUME MutationsOnly, NothingAdded, NoLegacyBoot, NullIsNoFile
    PROVE  Spec => ImplementsAtomicVault
<1>1. Init => Atomic!Init
  BY DEF Init, Atomic!Init
<1>2. FreshInv /\ RekeyInv /\ [Next]_vars => [Atomic!Next]_file
  <2> SUFFICES ASSUME FreshInv, RekeyInv, [Next]_vars PROVE Atomic!Next \/ file' = file
    OBVIOUS
  <2>1. ASSUME NEW h \in Handlers, SaveMutation(h) PROVE Atomic!Next
    <3>1. pc[h] = "mload" /\ file # Null
      BY <2>1, MutatedIds
    <3>2. call[h].op \in {"SWITCH_ACCOUNT", "RENAME_ACCOUNT", "REMOVE_ACCOUNT", "CHANGE_PASSWORD"}
      <4>1. call[h].op # "ADD_ACCOUNT"
        BY <3>1 DEF FreshInv, InFlight, NothingAdded
      <4> QED BY <2>1, <4>1, MutatedIds
    <3>3. CASE call[h].op = "CHANGE_PASSWORD"
      <4>1. file' # Null
        BY <2>1, MutatedShape, MutatedIds DEF FreshInv, NullIsNoFile
      <4>2. file.active \in DOMAIN file.accounts
        BY <3>1 DEF FreshInv, Inv, Selects
      <4>3. Atomic!ChangePassword
        BY <2>1, <3>3, <4>2, ResealsAll DEF Atomic!ChangePassword
      <4> QED BY <3>1, <4>1, <4>3 DEF Atomic!Next
    <3>4. CASE call[h].op # "CHANGE_PASSWORD"
      BY <2>1, <3>2, <3>4, PlainMutationIsAtomic
    <3> QED BY <3>3, <3>4
  <2>2. CASE Next
    BY <2>1, <2>2, OnlyMutationsWrite DEF FreshInv
  <2>3. CASE UNCHANGED vars
    BY <2>3 DEF vars
  <2> QED BY <2>2, <2>3
<1> QED BY <1>1, <1>2, RekeyHolds, PTL DEF Spec, ImplementsAtomicVault, Atomic!Spec

----------------------------------------------------------------------------
(* The order in which storage answers. *)

(* h waits for its turn in q; it waits there once; g is served before h. *)
In(q, h) == \E i \in 1..Len(q) : q[i] = h
Once(q) == \A i, j \in 1..Len(q) : q[i] = q[j] => i = j
Before(q, g, h) == \E i, j \in 1..Len(q) : i < j /\ q[i] = g /\ q[j] = h

LEMMA AppendOrder ==
    ASSUME NEW q \in Seq(Handlers), Once(q), NEW h \in Handlers, ~In(q, h)
    PROVE  LET r == Append(q, h)
           IN  /\ \A g \in Handlers : In(r, g) <=> g = h \/ In(q, g)
               /\ Once(r)
               /\ \A a, b \in Handlers : Before(q, a, b) => Before(r, a, b)
               /\ \A a \in Handlers : In(q, a) => Before(r, a, h)
<1> DEFINE r == Append(q, h)
           n == Len(q)
<1>1. /\ n \in Nat /\ Len(r) = n + 1 /\ r[n + 1] = h
      /\ \A i \in 1..n : r[i] = q[i]
  OBVIOUS
<1> HIDE DEF r, n
<1>2. \A i \in 1..(n + 1) : i \in 1..n \/ i = n + 1
  BY <1>1
<1>3. \A i \in 1..n : i \in 1..(n + 1) /\ i < n + 1
  BY <1>1
<1>4. n + 1 \in 1..(n + 1)
  BY <1>1
<1>5. \A g \in Handlers : In(r, g) <=> g = h \/ In(q, g)
  BY <1>1, <1>2, <1>3, <1>4 DEF In, n
<1>6. Once(r)
  BY <1>1, <1>2 DEF Once, In, n
<1>7. \A a, b \in Handlers : Before(q, a, b) => Before(r, a, b)
  BY <1>1, <1>3 DEF Before, n
<1>8. \A a \in Handlers : In(q, a) => Before(r, a, h)
  BY <1>1, <1>3, <1>4 DEF Before, In, n
<1> QED BY <1>5, <1>6, <1>7, <1>8 DEF r

LEMMA TailOrder ==
    ASSUME NEW q \in Seq(Handlers), Once(q), q # <<>>
    PROVE  LET h == Head(q)
               r == Tail(q)
           IN  /\ In(q, h) /\ ~In(r, h)
               /\ \A g \in Handlers : In(r, g) <=> g # h /\ In(q, g)
               /\ Once(r)
               /\ \A a, b \in Handlers : a # h /\ Before(q, a, b) => Before(r, a, b)
               /\ \A a \in Handlers : ~Before(q, a, h)
<1> DEFINE h == Head(q)
           r == Tail(q)
           n == Len(q)
<1>1. /\ n \in Nat /\ n > 0 /\ Len(r) = n - 1 /\ h = q[1]
      /\ \A i \in 1..(n - 1) : r[i] = q[i + 1]
  OBVIOUS
<1> HIDE DEF r, n, h
<1>2. \A i \in 1..n : i = 1 \/ (i - 1 \in 1..(n - 1) /\ r[i - 1] = q[i])
  BY <1>1
<1>3. \A i \in 1..(n - 1) : i + 1 \in 1..n /\ i + 1 # 1 /\ 1 \in 1..n
  BY <1>1
<1>4. In(q, h)
  BY <1>1 DEF In, n
<1>5. ~In(r, h)
  BY <1>1, <1>3 DEF In, Once, n
<1>6. \A g \in Handlers : In(r, g) <=> g # h /\ In(q, g)
  <2>1. ASSUME NEW g \in Handlers, In(r, g) PROVE g # h /\ In(q, g)
    BY <2>1, <1>1, <1>3, <1>5 DEF In, n
  <2>2. ASSUME NEW g \in Handlers, g # h, In(q, g) PROVE In(r, g)
    BY <2>2, <1>1, <1>2 DEF In, n
  <2> QED BY <2>1, <2>2
<1>7. Once(r)
  <2> SUFFICES ASSUME NEW i \in 1..(n - 1), NEW j \in 1..(n - 1), r[i] = r[j] PROVE i = j
    BY <1>1 DEF Once
  <2>1. i + 1 = j + 1
    BY <1>1, <1>3 DEF Once, n
  <2> QED BY <2>1
<1>8. ASSUME NEW a \in Handlers, NEW b \in Handlers, a # h, Before(q, a, b)
      PROVE  Before(r, a, b)
  <2>1. PICK i \in 1..n, j \in 1..n : i < j /\ q[i] = a /\ q[j] = b
    BY <1>8 DEF Before, n
  <2>2. i # 1 /\ j # 1
    BY <2>1, <1>1, <1>8
  <2>3. /\ i - 1 \in 1..(n - 1) /\ r[i - 1] = a
        /\ j - 1 \in 1..(n - 1) /\ r[j - 1] = b
    BY <2>1, <2>2, <1>2
  <2>4. i - 1 < j - 1
    BY <2>1
  <2> QED BY <2>3, <2>4, <1>1 DEF Before
<1>9. ASSUME NEW a \in Handlers, Before(q, a, h) PROVE FALSE
  <2>1. PICK i \in 1..n, j \in 1..n : i < j /\ q[i] = a /\ q[j] = h
    BY <1>9 DEF Before, n
  <2>2. j = 1
    BY <2>1, <1>1 DEF Once, n
  <2> QED BY <2>1, <2>2
<1> QED BY <1>4, <1>5, <1>6, <1>7, <1>8, <1>9 DEF r, h

(* A handler waits for the storage exactly while it is in io. *)
Awaits(p) == p \in {"load", "mload", "msave", "saved", "removed"}

IoInv == Once(io) /\ \A h \in Handlers : Awaits(pc[h]) <=> In(io, h)

LEMMA IoStep ==
    ASSUME Inv, NEW h \in Handlers, Receive(h) \/ Resume(h)
    PROVE  \/ io' = io /\ ~Awaits(pc[h]) /\ ~Awaits(pc'[h])
           \/ Issue(h) /\ ~Awaits(pc[h]) /\ Awaits(pc'[h])
           \/ Return(h) /\ Awaits(pc[h]) /\ ~Awaits(pc'[h])
           \/ Reissue(h) /\ Awaits(pc[h]) /\ Awaits(pc'[h])
<1> USE DEF Answer, Await, Accept, Awaits
<1>0. DOMAIN pc = Handlers
  BY DEF Inv, TypeOK
<1>1. CASE Receive(h)
  BY <1>1, <1>0 DEF Receive, Load, AddWhileLocked, Rename, Lock, Reset
<1>2. CASE Resume(h)
  BY <1>2, <1>0 DEF Resume, Migrate, AnswerAfterLoad, Unlock, FreshKey, Seal, QueueAfterLoad,
     StartSession, SaveFirst, QueueAdd, QueueChange, FirstSaved, Removed, StartRun,
     FailMutation, SaveMutation, Committed, Proceeds, Loaded, Decrypted, Running
<1> QED BY <1>1, <1>2

(* What a step of h does to the order. *)
LEMMA OrderStep ==
    ASSUME Inv, IoInv, NEW h \in Handlers, Receive(h) \/ Resume(h)
    PROVE  /\ IoInv'
           /\ \A a, b \in Handlers \ {h} : Before(io, a, b) => Before(io', a, b)
           /\ Awaits(pc'[h]) =>
                 \A a \in Handlers \ {h} : Awaits(pc[a]) => Before(io', a, h)
           /\ Awaits(pc[h]) => \A a \in Handlers : ~Before(io, a, h)
<1>0. io \in Seq(Handlers) /\ \A g \in Handlers : g # h => pc'[g] = pc[g]
  BY OthersStay DEF Inv, TypeOK
<1>1. CASE io' = io /\ ~Awaits(pc[h]) /\ ~Awaits(pc'[h])
  BY <1>0, <1>1 DEF IoInv
<1>2. CASE Issue(h) /\ ~Awaits(pc[h]) /\ Awaits(pc'[h])
  <2>1. io' = Append(io, h) /\ Once(io) /\ ~In(io, h)
    BY <1>2 DEF Issue, IoInv
  <2>2. /\ \A g \in Handlers : In(io', g) <=> g = h \/ In(io, g)
        /\ Once(io')
        /\ \A a, b \in Handlers : Before(io, a, b) => Before(io', a, b)
        /\ \A a \in Handlers : In(io, a) => Before(io', a, h)
    BY <1>0, <2>1, AppendOrder
  <2>3. IoInv'
    BY <1>0, <1>2, <2>2 DEF IoInv
  <2> QED BY <1>2, <2>2, <2>3 DEF IoInv
<1>3. CASE Return(h) \/ Reissue(h)
  <2> DEFINE r == Tail(io)
  <2>1. io # <<>> /\ Head(io) = h /\ Once(io)
    BY <1>3 DEF Return, Reissue, IoInv
  <2>2. /\ In(io, h) /\ ~In(r, h)
        /\ \A g \in Handlers : In(r, g) <=> g # h /\ In(io, g)
        /\ Once(r)
        /\ \A a, b \in Handlers : a # h /\ Before(io, a, b) => Before(r, a, b)
        /\ \A a \in Handlers : ~Before(io, a, h)
    BY <1>0, <2>1, TailOrder
  <2>3. r \in Seq(Handlers)
    BY <1>0, <2>1
  <2> HIDE DEF r
  <2>4. CASE Return(h) /\ ~Awaits(pc'[h])
    <3>1. io' = r
      BY <2>4 DEF Return, r
    <3>2. IoInv'
      BY <1>0, <2>2, <2>4, <3>1 DEF IoInv
    <3> QED BY <2>2, <2>4, <3>1, <3>2
  <2>5. CASE Reissue(h) /\ Awaits(pc'[h])
    <3>1. io' = Append(r, h)
      BY <2>5 DEF Reissue, r
    <3>2. /\ \A g \in Handlers : In(io', g) <=> g = h \/ In(r, g)
          /\ Once(io')
          /\ \A a, b \in Handlers : Before(r, a, b) => Before(io', a, b)
          /\ \A a \in Handlers : In(r, a) => Before(io', a, h)
      BY <2>2, <2>3, <3>1, AppendOrder
    <3>3. IoInv'
      BY <1>0, <2>2, <2>5, <3>2 DEF IoInv
    <3>4. \A a \in Handlers \ {h} : Awaits(pc[a]) => In(r, a)
      BY <2>2 DEF IoInv
    <3> QED BY <2>2, <3>2, <3>3, <3>4
  <2>6. \/ Return(h) /\ ~Awaits(pc'[h])
        \/ Reissue(h) /\ Awaits(pc'[h])
        \/ Awaits(pc[h]) /\ FALSE
    <3>1. Awaits(pc[h])
      BY <2>2 DEF IoInv
    <3> QED BY <3>1, IoStep
  <2> QED BY <2>4, <2>5, <2>6
<1> QED BY <1>1, <1>2, <1>3, IoStep

(* What a step reads and writes. *)
LEMMA ReadStep ==
    ASSUME NEW h \in Handlers, Receive(h) \/ Resume(h), ~Migrate(h)
    PROVE  /\ \E s \in {seen[h], file, Null} : seen' = [seen EXCEPT ![h] = s] \/ seen' = seen
           /\ \E s \in {cur[h], file, file', Null} : cur' = [cur EXCEPT ![h] = s] \/ cur' = cur
BY DEF Receive, Load, AddWhileLocked, Rename, Lock, Reset, Accept, Await, Answer, Resume,
   AnswerAfterLoad, Unlock, FreshKey, Seal, QueueAfterLoad, StartSession, SaveFirst, QueueAdd,
   QueueChange, FirstSaved, Removed, StartRun, FailMutation, SaveMutation, Committed

LEMMA WriteStep ==
    ASSUME NEW h \in Handlers, Receive(h) \/ Resume(h)
    PROVE  \/ file' = file
           \/ file' = Null /\ session' = Null
           \/ SaveMutation(h) \/ SaveFirst(h) \/ Migrate(h)
BY DEF Receive, Load, AddWhileLocked, Rename, Lock, Reset, Resume, AnswerAfterLoad, Unlock,
   FreshKey, Seal, QueueAfterLoad, StartSession, QueueAdd, QueueChange, FirstSaved, Removed,
   StartRun, FailMutation, Committed

LEMMA FreshFile ==
    ASSUME NEW h \in Handlers, SaveFirst(h) \/ Migrate(h)
    PROVE  DOMAIN file'.accounts = {nonce} /\ nonce' = nonce + 1
<1>1. CASE SaveFirst(h)
  BY <1>1 DEF SaveFirst, VaultFile
<1>2. CASE Migrate(h)
  <2>1. nonce' = nonce + 1 /\ \E f : file' = Migrated(f)
    BY <1>2 DEF Migrate
  <2> QED BY <2>1 DEF Migrated, VaultFile
<1> QED BY <1>1, <1>2

(* Every id in use was minted. *)
Below(f, n) == f # Null => \A i \in DOMAIN f.accounts : i < n

Minted ==
    /\ Below(file, nonce)
    /\ \A h \in Handlers : /\ Below(seen[h], nonce) /\ Below(cur[h], nonce)
                           /\ Adding(h) \/ pc[h] = "saved" => id[h] < nonce

LEMMA BelowGrows ==
    ASSUME NEW f, NEW n \in Nat, NEW k \in Nat, n <= k, Below(f, n),
           f # Null => DOMAIN f.accounts \subseteq Nat
    PROVE  Below(f, k)
<1> SUFFICES ASSUME f # Null, NEW i \in DOMAIN f.accounts PROVE i < k
  BY DEF Below
<1>1. i \in Nat /\ i < n
  BY DEF Below
<1> QED BY <1>1

LEMMA MutatedBelow ==
    ASSUME Inv, Minted, NEW h \in Handlers, SaveMutation(h)
    PROVE  Below(file', nonce)
<1>1. /\ pc[h] = "mload" /\ file' = Mutated(h, cur[h]) /\ cur[h] # Null
  BY DEF SaveMutation, Running, MutateFailure
<1>2. call[h].op \in {"ADD_ACCOUNT", "SWITCH_ACCOUNT", "RENAME_ACCOUNT",
                      "REMOVE_ACCOUNT", "CHANGE_PASSWORD"}
  BY <1>1 DEF Inv, Suspended
<1>3. ASSUME NEW i \in DOMAIN file'.accounts
      PROVE  i \in DOMAIN cur[h].accounts \/ (Adding(h) /\ i = id[h])
  BY <1>1, <1>2, <1>3 DEF Mutated, VaultFile, Resealed, Adding
<1> QED BY <1>1, <1>3 DEF Minted, Below

LEMMA MintedStep ==
    ASSUME Inv, Minted, Next
    PROVE  Minted'
<1>0. /\ nonce \in Nat /\ nonce' \in Nat /\ nonce' >= nonce /\ id \in [Handlers -> Nat]
      /\ DOMAIN seen = Handlers /\ DOMAIN cur = Handlers /\ DOMAIN pc = Handlers
      /\ file # Null => DOMAIN file.accounts \subseteq Nat
  BY NonceGrows DEF Inv, TypeOK, IsVaultFile
<1>1. /\ Below(file, nonce')
      /\ \A g \in Handlers : Below(seen[g], nonce') /\ Below(cur[g], nonce')
  <2>1. Below(file, nonce')
    BY <1>0, BelowGrows DEF Minted
  <2>2. ASSUME NEW g \in Handlers PROVE Below(seen[g], nonce') /\ Below(cur[g], nonce')
    <3> DEFINE s == seen[g]
               c == cur[g]
    <3>1. Below(s, nonce) /\ Below(c, nonce)
      BY DEF Minted
    <3>2. /\ s # Null => DOMAIN s.accounts \subseteq Nat
          /\ c # Null => DOMAIN c.accounts \subseteq Nat
      BY DEF Inv, TypeOK, IsVaultFile
    <3> HIDE DEF s, c
    <3>3. Below(s, nonce') /\ Below(c, nonce')
      <4>1. Below(s, nonce')
        BY <1>0, <3>1, <3>2, BelowGrows
      <4>2. Below(c, nonce')
        BY <1>0, <3>1, <3>2, BelowGrows
      <4> QED BY <4>1, <4>2
    <3> QED BY <3>3 DEF s, c
  <2> QED BY <2>1, <2>2
<1>2. Below(Null, nonce')
  BY DEF Below
<1>3. ASSUME NEW h \in Handlers, Receive(h) \/ Resume(h)
      PROVE  Minted'
  <2>1. Below(file', nonce')
    <3>1. CASE SaveMutation(h)
      <4>1. nonce' = nonce
        BY <3>1 DEF SaveMutation
      <4> QED BY <3>1, <4>1, MutatedBelow
    <3>2. CASE SaveFirst(h) \/ Migrate(h)
      BY <1>0, <3>2, FreshFile DEF Below
    <3> QED BY <1>1, <1>2, <1>3, <3>1, <3>2, WriteStep
  <2>2. \A g \in Handlers : Below(seen'[g], nonce') /\ Below(cur'[g], nonce')
    <3>1. CASE Migrate(h)
      BY <1>0, <1>1, <2>1, <3>1 DEF Migrate
    <3>2. CASE ~Migrate(h)
      BY <1>0, <1>1, <1>2, <1>3, <2>1, <3>2, ReadStep
    <3> QED BY <3>1, <3>2
  <2>3. ASSUME NEW g \in Handlers, Adding(g)' \/ pc'[g] = "saved"
        PROVE  id'[g] < nonce'
    <3>1. CASE g # h
      <4>1. pc'[g] = pc[g] /\ call'[g] = call[g] /\ id'[g] = id[g]
        BY <1>3, <3>1, OthersStay
      <4>2. id[g] < nonce
        BY <2>3, <4>1 DEF Minted, Adding
      <4> QED BY <1>0, <4>1, <4>2
    <3>2. CASE g = h /\ (QueueAdd(h) \/ SaveFirst(h))
      BY <1>0, <3>2 DEF QueueAdd, SaveFirst
    <3>3. CASE g = h /\ ~QueueAdd(h) /\ ~SaveFirst(h)
      <4>1. pc'[h] # "saved"
        BY <1>0, <1>3, <3>3 DEF Receive, Load, AddWhileLocked, Rename, Lock, Reset, Answer,
           Accept, Await, Resume, Migrate, AnswerAfterLoad, Unlock, FreshKey, Seal,
           QueueAfterLoad, StartSession, QueueChange, FirstSaved, Removed, StartRun,
           FailMutation, SaveMutation, Committed
      <4>2. Adding(h) /\ id'[h] = id[h]
        BY <1>3, <2>3, <3>3, <4>1, AddingStep
      <4> QED BY <1>0, <3>3, <4>2 DEF Minted
    <3> QED BY <3>1, <3>2, <3>3
  <2> QED BY <2>1, <2>2, <2>3 DEF Minted
<1>4. CASE AutoLock
  BY <1>4 DEF AutoLock, local, Minted, Adding
<1>5. CASE Evict
  BY <1>1, <1>2, <1>5 DEF Evict, Minted, Adding
<1> QED BY <1>3, <1>4, <1>5 DEF Next

(* What a mutation that was written shows. *)
Wrote == \A h \in Handlers : pc[h] = "msave" => cur[h] # Null /\ Shown(h, cur[h])

LEMMA MutateShows ==
    ASSUME NEW h \in Handlers, NEW f, f # Null, f.accounts \in [DOMAIN f.accounts -> Account],
           MutateFailure(h, f) = "none",
           call[h].op \in {"ADD_ACCOUNT", "SWITCH_ACCOUNT", "RENAME_ACCOUNT",
                          "REMOVE_ACCOUNT", "CHANGE_PASSWORD"}
    PROVE  Shown(h, Mutated(h, f))
<1> DEFINE m == call[h]
           r == Mutated(h, f)
<1>1. CASE m.op = "ADD_ACCOUNT"
  <2>1. /\ r.active = id[h] /\ id[h] \in DOMAIN r.accounts
        /\ r.accounts[id[h]] = NewAccount(h)
    BY <1>1 DEF Mutated, VaultFile
  <2> HIDE DEF r
  <2> QED BY <1>1, <2>1 DEF Shown, r
<1>2. CASE m.op = "SWITCH_ACCOUNT"
  <2>1. m.id \in DOMAIN f.accounts
    BY <1>2 DEF MutateFailure
  <2>2. r.active = m.id /\ r.accounts = f.accounts
    BY <1>2 DEF Mutated, VaultFile
  <2>3. m.id \in DOMAIN r.accounts
    BY <2>1, <2>2
  <2> HIDE DEF r
  <2>4. Shown(h, r)
    BY <1>2, <2>2, <2>3 DEF Shown
  <2> QED BY <2>4 DEF r
<1>3. CASE m.op = "RENAME_ACCOUNT"
  <2>1. m.id \in DOMAIN f.accounts
    BY <1>3 DEF MutateFailure
  <2>2. r.accounts = [f.accounts EXCEPT ![m.id].label = m.label]
    BY <1>3 DEF Mutated, VaultFile
  <2>3. f.accounts[m.id] \in Account
    BY <2>1
  <2>4. r.accounts[m.id] = [f.accounts[m.id] EXCEPT !.label = m.label]
        /\ DOMAIN r.accounts = DOMAIN f.accounts
    BY <2>1, <2>2
  <2>5. r.accounts[m.id].label = m.label
    BY <2>3, <2>4 DEF Account
  <2> HIDE DEF r
  <2>6. Shown(h, r)
    BY <1>3, <2>1, <2>4, <2>5 DEF Shown
  <2> QED BY <2>6 DEF r
<1>4. CASE m.op = "REMOVE_ACCOUNT"
  <2>1. DOMAIN r.accounts = DOMAIN f.accounts \ {m.id}
    BY <1>4 DEF Mutated, VaultFile
  <2> HIDE DEF r
  <2>2. Shown(h, r)
    BY <1>4, <2>1 DEF Shown
  <2> QED BY <2>2 DEF r
<1>5. CASE m.op = "CHANGE_PASSWORD"
  <2>1. r.salt = key[h][2]
    BY <1>5 DEF Mutated, VaultFile
  <2> HIDE DEF r
  <2>2. Shown(h, r)
    BY <1>5, <2>1 DEF Shown
  <2> QED BY <2>2 DEF r
<1> QED BY <1>1, <1>2, <1>3, <1>4, <1>5

LEMMA MutationShows ==
    ASSUME Inv, NEW h \in Handlers, SaveMutation(h)
    PROVE  Shown(h, file')
<1>1. /\ pc[h] = "mload" /\ MutateFailure(h, cur[h]) = "none" /\ cur[h] # Null
      /\ call[h].op \in {"ADD_ACCOUNT", "SWITCH_ACCOUNT", "RENAME_ACCOUNT",
                         "REMOVE_ACCOUNT", "CHANGE_PASSWORD"}
      /\ file' = Mutated(h, cur[h])
  BY DEF SaveMutation, Running, MutateFailure, Inv, Suspended
<1>2. cur[h].accounts \in [DOMAIN cur[h].accounts -> Account]
  BY <1>1 DEF Inv, TypeOK, IsVaultFile
<1> QED BY <1>1, <1>2, MutateShows

LEMMA MsaveStep ==
    ASSUME Inv, NEW h \in Handlers, Receive(h) \/ Resume(h),
           NEW g \in Handlers, pc'[g] = "msave"
    PROVE  \/ g = h /\ SaveMutation(h)
           \/ /\ g # h /\ pc[g] = "msave" /\ cur'[g] = cur[g] /\ seen'[g] = seen[g]
              /\ call'[g] = call[g] /\ id'[g] = id[g] /\ key'[g] = key[g]
<1>1. CASE g # h
  BY <1>1, OthersStay
<1>2. CASE g = h /\ ~SaveMutation(h)
  BY <1>2 DEF Inv, TypeOK, Receive, Load, AddWhileLocked, Rename, Lock, Reset, Resume, Migrate,
     AnswerAfterLoad, Unlock, FreshKey, Seal, QueueAfterLoad, StartSession, SaveFirst, QueueAdd,
     QueueChange, FirstSaved, Removed, StartRun, FailMutation, Committed, Accept, Await, Answer
<1> QED BY <1>1, <1>2

LEMMA WroteStep ==
    ASSUME NullIsNoFile, Inv, Wrote, Next
    PROVE  Wrote'
<1>1. ASSUME NEW h \in Handlers, Receive(h) \/ Resume(h), NEW g \in Handlers, pc'[g] = "msave"
      PROVE  cur'[g] # Null /\ Shown(g, cur[g])'
  <2>1. CASE g = h /\ SaveMutation(h)
    <3>1. /\ cur'[h] = file' /\ call' = call /\ id' = id /\ key' = key
          /\ pc[h] = "mload"
      BY <2>1 DEF SaveMutation, Running, Inv, TypeOK
    <3>2. Shown(h, file')
      BY <2>1, MutationShows
    <3>3. Shown(h, cur[h])'
      BY <3>1, <3>2 DEF Shown, NewAccount
    <3>4. file' # Null
      BY <2>1, MutatedShape DEF SaveMutation, Running, NullIsNoFile
    <3> QED BY <2>1, <3>1, <3>3, <3>4
  <2>2. CASE /\ pc[g] = "msave" /\ cur'[g] = cur[g] /\ call'[g] = call[g]
             /\ id'[g] = id[g] /\ key'[g] = key[g]
    BY <2>2 DEF Wrote, Shown, NewAccount
  <2> QED BY <1>1, <2>1, <2>2, MsaveStep
<1>2. CASE AutoLock
  BY <1>2 DEF AutoLock, local, Wrote, Shown, NewAccount
<1>3. CASE Evict
  BY <1>3 DEF Evict, Wrote
<1> QED BY <1>1, <1>2, <1>3 DEF Next, Wrote

LEMMA IoInvStep ==
    ASSUME Inv, IoInv, Next
    PROVE  IoInv'
<1>1. CASE AutoLock
  BY <1>1 DEF AutoLock, local, IoInv
<1>2. CASE Evict
  <2>1. io' = <<>> /\ \A h \in Handlers : pc'[h] = "idle"
    BY <1>2 DEF Evict
  <2> QED BY <2>1 DEF IoInv, Once, In, Awaits
<1> QED BY <1>1, <1>2, OrderStep DEF Next

(* What a step does to the file while a mutation is being saved. *)
LEMMA WriteAcross ==
    ASSUME Inv, OneRuns, NEW h \in Handlers, Receive(h) \/ Resume(h),
           NEW g \in Handlers, pc[g] = "msave"
    PROVE  \/ file' = file
           \/ file' = Null /\ session' = Null
           \/ SaveFirst(h) \/ Migrate(h)
<1>1. ~SaveMutation(h)
  BY DEF SaveMutation, Running, OneRuns
<1> QED BY <1>1, WriteStep

(* Any write but a mutation's replaces the file. *)
LEMMA ReplacingStep ==
    ASSUME Inv, NEW h \in Handlers, Receive(h) \/ Resume(h), file' # file,
           ~(SaveMutation(h) /\ cur[h] = file)
    PROVE  Replaced
<1> SUFFICES ASSUME NEW g \in Handlers, pc[g] = "mload", pc'[g] = "msave", cur[g] = file
             PROVE  FALSE
  BY DEF Replaced
<1>1. g = h /\ SaveMutation(h)
  BY MsaveStep
<1> QED BY <1>1

(* What a step does to the session. *)
LEMMA SessionStep ==
    ASSUME NEW h \in Handlers, Receive(h) \/ Resume(h)
    PROVE  \/ session' \in {session, Null}
           \/ StartSession(h) \/ FirstSaved(h) \/ Committed(h)
BY DEF Receive, Load, AddWhileLocked, Rename, Lock, Reset, Resume, Migrate, AnswerAfterLoad,
   Unlock, FreshKey, Seal, QueueAfterLoad, SaveFirst, QueueAdd, QueueChange, Removed,
   StartRun, FailMutation, SaveMutation

LEMMA BeginningStep ==
    ASSUME Inv, NEW h \in Handlers, StartSession(h) \/ FirstSaved(h)
    PROVE  Begins(h) /\ file' = file
BY DEF StartSession, FirstSaved, Decrypted, Begins, Answer, Inv, TypeOK

(***************************************************************************)
(* A mutation whose write has been replaced leaves the session stale, and  *)
(* so does every session that is begun before it is answered: those under  *)
(* way read another file, and the others are served by storage after it.   *)
(***************************************************************************)
Passes(h, g) == pc[g] \in {"load", "saved"} /\ Before(io, h, g)

Holds(g) == IF pc[g] = "saved" THEN {id[g]} ELSE DOMAIN seen[g].accounts

MayBegin(g) ==
    \/ pc[g] = "crypto" /\ call[g].op = "UNLOCK"
    \/ pc[g] = "saved"
    \/ pc[g] = "load" /\ seen[g] # Null

Behind ==
    \A h \in Handlers : pc[h] = "msave" /\ cur[h] # file =>
        /\ session = Null \/ stale
        /\ \A g \in Handlers : MayBegin(g) =>
               file = Null \/ DOMAIN file.accounts # Holds(g) \/ Passes(h, g)

LEMMA BeginsOnly ==
    ASSUME Inv, NEW h \in Handlers, Receive(h) \/ Resume(h), NEW g \in Handlers, Begins(g)
    PROVE  g = h /\ (StartSession(h) \/ FirstSaved(h))
<1>1. g = h
  BY OthersStay DEF Begins
<1>2. ~Receive(h)
  BY <1>1 DEF Begins, Receive
<1>3. Resume(h)
  BY <1>2
<1> QED BY <1>1, <1>3 DEF Begins, Resume, Migrate, AnswerAfterLoad, Unlock, FreshKey, Seal,
     QueueAfterLoad, SaveFirst, QueueAdd, QueueChange, Removed, StartRun, FailMutation,
     SaveMutation, Committed, Proceeds, Loaded, Running, Await, Decrypted

LEMMA MayBeginStep ==
    ASSUME Inv, NEW h \in Handlers, Receive(h) \/ Resume(h), MayBegin(h)'
    PROVE  \/ pc'[h] \in {"load", "saved"}
           \/ /\ pc[h] = "load" /\ MayBegin(h) /\ Holds(h)' = Holds(h) /\ file' = file
              /\ ~Passes(h, h)'
<1> SUFFICES ASSUME pc'[h] \notin {"load", "saved"}
             PROVE  /\ pc[h] = "load" /\ MayBegin(h) /\ Holds(h)' = Holds(h) /\ file' = file
                    /\ ~Passes(h, h)'
  OBVIOUS
<1>1. pc'[h] = "crypto" /\ call'[h].op = "UNLOCK"
  BY DEF MayBegin
<1>2. Unlock(h) \/ FreshKey(h) \/ Seal(h)
  BY <1>1 DEF Inv, TypeOK, Receive, Load, AddWhileLocked, Rename, Lock, Reset, Resume, Migrate,
     AnswerAfterLoad, QueueAfterLoad, StartSession, SaveFirst, QueueAdd,
     QueueChange, FirstSaved, Removed, StartRun, FailMutation, SaveMutation, Committed,
     Accept, Await, Answer
<1>3. Unlock(h)
  BY <1>1, <1>2 DEF FreshKey, Seal, Proceeds, Loaded
<1>4. pc[h] = "load" /\ seen[h] # Null /\ seen' = seen /\ file' = file
  BY <1>3 DEF Unlock, Proceeds, Loaded, LoadAnswer
<1> QED BY <1>1, <1>4 DEF MayBegin, Holds, Passes

LEMMA HoldsBelow ==
    ASSUME Inv, Minted, NEW g \in Handlers, MayBegin(g)
    PROVE  nonce \notin Holds(g)
<1>0. nonce \in Nat
  BY DEF Inv, TypeOK
<1>1. CASE pc[g] = "saved"
  BY <1>0, <1>1 DEF Holds, Minted
<1>2. CASE pc[g] # "saved"
  <2> DEFINE f == seen[g]
  <2>1. f # Null /\ Below(f, nonce) /\ Holds(g) = DOMAIN f.accounts
    BY <1>2 DEF MayBegin, Minted, Inv, Suspended, Holds
  <2> HIDE DEF f
  <2> QED BY <1>0, <2>1 DEF Below
<1> QED BY <1>1, <1>2

(* A session that is begun while a replaced mutation is under way is stale. *)
LEMMA BeginsBehind ==
    ASSUME Inv, IoInv, Behind, NEW h \in Handlers, pc[h] = "msave", cur[h] # file,
           NEW k \in Handlers, StartSession(k) \/ FirstSaved(k)
    PROVE  Begins(k) /\ Outdated(k)
<1>1. Begins(k)
  BY BeginningStep
<1>2. MayBegin(k) /\ (pc[k] = "saved" <=> call[k].op = "CREATE_WALLET")
  BY DEF MayBegin, StartSession, FirstSaved, Decrypted, Inv, Suspended
<1>3. ~Passes(h, k)
  <2>1. CASE StartSession(k)
    BY <2>1 DEF StartSession, Decrypted, Passes
  <2>2. CASE FirstSaved(k)
    BY <2>2, OrderStep DEF FirstSaved, Passes, Awaits, Resume
  <2> QED BY <2>1, <2>2
<1>4. file = Null \/ DOMAIN file.accounts # Holds(k)
  BY <1>2, <1>3 DEF Behind
<1> QED BY <1>1, <1>2, <1>4 DEF Outdated, Holds

LEMMA BehindStep ==
    ASSUME Inv, OneRuns, IoInv, Minted, Behind, SessionNext
    PROVE  Behind'
<1>1. ASSUME NEW k \in Handlers, Receive(k) \/ Resume(k),
             NEW h \in Handlers, pc'[h] = "msave", cur'[h] # file'
      PROVE  /\ session' = Null \/ stale'
             /\ \A g \in Handlers : MayBegin(g)' =>
                    file' = Null \/ DOMAIN file'.accounts # Holds(g)' \/ Passes(h, g)'
  <2>1. h # k /\ pc[h] = "msave" /\ cur'[h] = cur[h]
    <3>1. ~(h = k /\ SaveMutation(k))
      BY <1>1 DEF SaveMutation, Inv, TypeOK
    <3> QED BY <1>1, <3>1, MsaveStep
  <2>2. Awaits(pc[h]) /\ ~SaveMutation(k) /\ ~Committed(k)
    BY <2>1 DEF Awaits, SaveMutation, Running, Committed, OneRuns
  <2>3. session' = Null \/ stale'
    <3>1. CASE file' # file
      BY <1>1, <2>2, <3>1, ReplacingStep DEF SessionNext, Note
    <3>2. CASE file' = file /\ (StartSession(k) \/ FirstSaved(k))
      BY <1>1, <2>1, <3>2, BeginsBehind DEF SessionNext, Note
    <3>3. CASE file' = file /\ ~StartSession(k) /\ ~FirstSaved(k)
      <4>1. session' \in {session, Null}
        BY <1>1, <2>2, <3>3, SessionStep
      <4>2. session = Null \/ stale
        BY <1>1, <2>1, <3>3 DEF Behind
      <4>3. \A g \in Handlers : ~Begins(g)
        BY <1>1, <3>3, BeginsOnly
      <4> QED BY <4>1, <4>2, <4>3 DEF SessionNext, Note
    <3> QED BY <3>1, <3>2, <3>3
  <2>4. ASSUME NEW g \in Handlers, MayBegin(g)', file' # Null
        PROVE  DOMAIN file'.accounts # Holds(g)' \/ Passes(h, g)'
    <3>1. CASE g = k /\ pc'[k] \in {"load", "saved"}
      BY <1>1, <2>1, <2>2, <3>1, OrderStep DEF Passes, Awaits
    <3>2. CASE g = k /\ pc'[k] \notin {"load", "saved"}
      <4>1. pc[k] = "load" /\ MayBegin(k) /\ Holds(k)' = Holds(k) /\ file' = file
        BY <1>1, <2>4, <3>2, MayBeginStep
      <4>2. ~Before(io, h, k)
        BY <1>1, <4>1, OrderStep DEF Awaits
      <4> QED BY <1>1, <2>1, <2>4, <3>2, <4>1, <4>2 DEF Behind, Passes
    <3>3. CASE g # k
      <4>1. /\ pc'[g] = pc[g] /\ MayBegin(g) /\ Holds(g)' = Holds(g)
            /\ Passes(h, g) => Passes(h, g)'
        BY <1>1, <2>1, <2>4, <3>3, OthersStay, OrderStep DEF MayBegin, Holds, Passes
      <4>2. CASE file' = file
        BY <1>1, <2>1, <2>4, <4>1, <4>2 DEF Behind
      <4>3. CASE file' # file
        <5>1. DOMAIN file'.accounts = {nonce}
          BY <1>1, <2>1, <2>4, <4>3, WriteAcross, FreshFile
        <5> QED BY <4>1, <5>1, HoldsBelow
      <4> QED BY <4>2, <4>3
    <3> QED BY <3>1, <3>2, <3>3
  <2> QED BY <2>3, <2>4
<1>2. CASE AutoLock
  BY <1>2 DEF AutoLock, local, Behind, MayBegin, Holds, Passes
<1>3. CASE Evict
  BY <1>3 DEF Evict, Behind
<1> QED BY <1>1, <1>2, <1>3 DEF SessionNext, Next, Behind

(* The session s tells what the file does. *)
Tracks(s) ==
    /\ s.entries = DOMAIN file.accounts /\ s.active = file.active
    /\ s.key # Null => s.key[2] = file.salt

(* It does once the mutation of h is answered, if that begins none anew    *)
(* from accounts it read before.                                           *)
WillTrack(h) ==
    IF call[h].op = "CHANGE_PASSWORD"
    THEN session.entries = DOMAIN file.accounts /\ session.active = file.active
    ELSE Tracks(SessionAfter(h))

(***************************************************************************)
(* While a mutation is saved and its answer is under way, the session is   *)
(* one update behind the file, and the handler holds the one that is       *)
(* missing.                                                                *)
(***************************************************************************)
Follows ==
    session # Null /\ ~stale =>
        /\ file # Null
        /\ Settled => Tracks(session)
        /\ \A h \in Handlers : pc[h] = "msave" => WillTrack(h)

(* The update of a mutation that the session shows already changes nothing. *)
LEMMA TracksAgain ==
    ASSUME Inv', Wrote', NEW h \in Handlers, pc'[h] = "msave", cur'[h] = file',
           session' # Null, file' # Null, Tracks(session)'
    PROVE  WillTrack(h)'
<1> DEFINE m == call'[h]
           s == session'
<1>1. /\ s \in Session /\ s.entries = DOMAIN file'.accounts /\ s.active = file'.active
      /\ file'.active \in DOMAIN file'.accounts
      /\ Shown(h, file)'
      /\ m.op \in {"ADD_ACCOUNT", "SWITCH_ACCOUNT", "RENAME_ACCOUNT", "REMOVE_ACCOUNT",
                   "CHANGE_PASSWORD"}
  BY DEF Inv, TypeOK, Selects, Suspended, Tracks, Wrote, Shown, NewAccount
<1>2. CASE m.op = "ADD_ACCOUNT"
  <2>1. id'[h] \in s.entries /\ s.active = id'[h]
    BY <1>1, <1>2 DEF Shown
  <2>2. SessionAfter(h)' = [s EXCEPT !.entries = @ \cup {id'[h]}, !.active = id'[h]]
    BY <1>2 DEF SessionAfter
  <2>3. /\ SessionAfter(h)'.entries = s.entries \cup {id'[h]}
        /\ SessionAfter(h)'.active = id'[h] /\ SessionAfter(h)'.key = s.key
    BY <1>1, <2>2 DEF Session
  <2>4. s.entries \cup {id'[h]} = s.entries
    BY <2>1
  <2>5. Tracks(SessionAfter(h))'
    BY <2>1, <2>3, <2>4 DEF Tracks
  <2> QED BY <1>2, <2>5 DEF WillTrack
<1>3. CASE m.op = "SWITCH_ACCOUNT"
  <2>1. m.id \in s.entries /\ s.active = m.id
    BY <1>1, <1>3 DEF Shown
  <2>2. SessionAfter(h)' = [s EXCEPT !.active = m.id]
    BY <1>3, <2>1 DEF SessionAfter
  <2>3. SessionAfter(h)' = s
    BY <1>1, <2>1, <2>2 DEF Session
  <2> QED BY <1>3, <2>3 DEF WillTrack
<1>4. CASE m.op = "RENAME_ACCOUNT"
  <2>1. SessionAfter(h)' = s
    BY <1>4 DEF SessionAfter
  <2> QED BY <1>4, <2>1 DEF WillTrack
<1>5. CASE m.op = "REMOVE_ACCOUNT"
  <2>1. m.id \notin s.entries /\ s.active # m.id
    BY <1>1, <1>5 DEF Shown
  <2>2. SessionAfter(h)' = [s EXCEPT !.entries = @ \ {m.id},
                                     !.active = IF @ = m.id THEN cur'[h].active ELSE @]
    BY <1>5 DEF SessionAfter
  <2>3. /\ SessionAfter(h)'.entries = s.entries \ {m.id}
        /\ SessionAfter(h)'.active = IF s.active = m.id THEN cur'[h].active ELSE s.active
        /\ SessionAfter(h)'.key = s.key
    BY <1>1, <2>2 DEF Session
  <2>4. s.entries \ {m.id} = s.entries
    BY <2>1
  <2>5. Tracks(SessionAfter(h))'
    BY <2>1, <2>3, <2>4 DEF Tracks
  <2> QED BY <1>5, <2>5 DEF WillTrack
<1>6. CASE m.op = "CHANGE_PASSWORD"
  BY <1>1, <1>6 DEF WillTrack
<1> QED BY <1>1, <1>2, <1>3, <1>4, <1>5, <1>6

(* What a mutation makes of a session that tracks the file. *)
LEMMA SessionMutation ==
    ASSUME Inv, NEW h \in Handlers, SaveMutation(h), cur[h] = file, session # Null,
           Tracks(session)
    PROVE  WillTrack(h)'
<1> DEFINE m == call[h]
           rest == DOMAIN file.accounts \ {m.id}
<1>1. /\ file # Null /\ file' = Mutated(h, file) /\ MutateFailure(h, file) = "none"
      /\ call' = call /\ id' = id /\ key' = key
      /\ m.op \in {"ADD_ACCOUNT", "SWITCH_ACCOUNT", "RENAME_ACCOUNT", "REMOVE_ACCOUNT",
                   "CHANGE_PASSWORD"}
  BY DEF SaveMutation, Running, MutateFailure, Inv, Suspended
<1>2. session' = session /\ cur'[h] = file'
  BY DEF SaveMutation, Inv, TypeOK
<1>3. /\ file.active \in DOMAIN file.accounts
      /\ file.accounts \in [DOMAIN file.accounts -> Account]
  BY <1>1 DEF Inv, Selects, TypeOK, IsVaultFile
<1>4. /\ session \in Session /\ session.entries = DOMAIN file.accounts
      /\ session.active = file.active /\ session.key # Null => session.key[2] = file.salt
  BY DEF Inv, TypeOK, Tracks
<1>5. CASE m.op = "ADD_ACCOUNT"
  <2>1. /\ DOMAIN file'.accounts = DOMAIN file.accounts \cup {id[h]} /\ file'.active = id[h]
        /\ file'.salt = file.salt
    BY <1>1, <1>5 DEF Mutated, VaultFile
  <2>2. SessionAfter(h)' = [session EXCEPT !.entries = @ \cup {id[h]}, !.active = id[h]]
    BY <1>1, <1>2, <1>5 DEF SessionAfter
  <2>3. Tracks(SessionAfter(h))'
    BY <1>4, <2>1, <2>2 DEF Tracks, Session
  <2> QED BY <1>1, <1>5, <2>3 DEF WillTrack
<1>6. CASE m.op = "SWITCH_ACCOUNT"
  <2>1. m.id \in session.entries
    BY <1>1, <1>4, <1>6 DEF MutateFailure
  <2>2. file'.accounts = file.accounts /\ file'.active = m.id /\ file'.salt = file.salt
    BY <1>1, <1>6 DEF Mutated, VaultFile
  <2>3. SessionAfter(h)' = [session EXCEPT !.active = m.id]
    BY <1>1, <1>2, <1>6, <2>1 DEF SessionAfter
  <2>4. Tracks(SessionAfter(h))'
    BY <1>4, <2>2, <2>3 DEF Tracks, Session
  <2> QED BY <1>1, <1>6, <2>4 DEF WillTrack
<1>7. CASE m.op = "RENAME_ACCOUNT"
  <2>1. /\ DOMAIN file'.accounts = DOMAIN file.accounts /\ file'.active = file.active
        /\ file'.salt = file.salt
    BY <1>1, <1>3, <1>7 DEF Mutated, VaultFile
  <2>2. SessionAfter(h)' = session
    BY <1>1, <1>2, <1>7 DEF SessionAfter
  <2>3. Tracks(SessionAfter(h))'
    BY <1>4, <2>1, <2>2 DEF Tracks
  <2> QED BY <1>1, <1>7, <2>3 DEF WillTrack
<1>8. CASE m.op = "REMOVE_ACCOUNT"
  <2>1. /\ DOMAIN file'.accounts = rest /\ file'.salt = file.salt
        /\ file'.active = IF file.active = m.id THEN First(rest) ELSE file.active
    BY <1>1, <1>8 DEF Mutated, VaultFile
  <2>2. SessionAfter(h)' = [session EXCEPT !.entries = @ \ {m.id},
                                           !.active = IF @ = m.id THEN file'.active ELSE @]
    BY <1>1, <1>2, <1>8 DEF SessionAfter
  <2>3. /\ SessionAfter(h)'.entries = session.entries \ {m.id}
        /\ SessionAfter(h)'.active = IF session.active = m.id THEN file'.active ELSE session.active
        /\ SessionAfter(h)'.key = session.key
    BY <1>4, <2>2 DEF Session
  <2>4. Tracks(SessionAfter(h))'
    BY <1>4, <2>1, <2>3 DEF Tracks
  <2> QED BY <1>1, <1>8, <2>4 DEF WillTrack
<1>9. CASE m.op = "CHANGE_PASSWORD"
  <2>1. DOMAIN file'.accounts = DOMAIN file.accounts /\ file'.active = file.active
    BY <1>1, <1>9 DEF Mutated, VaultFile, Resealed
  <2>2. session.entries = DOMAIN file.accounts /\ session.active = file.active
    BY DEF Tracks
  <2>3. session'.entries = DOMAIN file'.accounts /\ session'.active = file'.active
    BY <1>2, <2>1, <2>2
  <2>4. call'[h].op = "CHANGE_PASSWORD"
    BY <1>1, <1>9
  <2> QED BY <2>3, <2>4 DEF WillTrack
<1> QED BY <1>1, <1>5, <1>6, <1>7, <1>8, <1>9

(* A step of another leaves the update that is missing as it was. *)
LEMMA WillTrackStays ==
    ASSUME NEW h \in Handlers, WillTrack(h), file' = file, session' = session,
           cur'[h] = cur[h], seen'[h] = seen[h], call'[h] = call[h], id'[h] = id[h],
           key'[h] = key[h]
    PROVE  WillTrack(h)'
<1>1. CASE call[h].op = "CHANGE_PASSWORD"
  BY <1>1 DEF WillTrack
<1>2. CASE call[h].op # "CHANGE_PASSWORD"
  <2>1. SessionAfter(h)' = SessionAfter(h)
    <3>1. CASE session = Null
      BY <3>1 DEF SessionAfter
    <3>2. CASE session # Null /\ call[h].op = "ADD_ACCOUNT"
      BY <3>2 DEF SessionAfter
    <3>3. CASE session # Null /\ call[h].op = "SWITCH_ACCOUNT" /\ call[h].id \in session.entries
      BY <3>3 DEF SessionAfter
    <3>4. CASE session # Null /\ call[h].op = "REMOVE_ACCOUNT"
      BY <3>4 DEF SessionAfter
    <3>5. CASE /\ session # Null /\ call[h].op \notin {"ADD_ACCOUNT", "REMOVE_ACCOUNT"}
               /\ ~(call[h].op = "SWITCH_ACCOUNT" /\ call[h].id \in session.entries)
      BY <1>2, <3>5 DEF SessionAfter
    <3> QED BY <3>1, <3>2, <3>3, <3>4, <3>5
  <2>2. Tracks(SessionAfter(h))
    BY <1>2 DEF WillTrack
  <2>3. Tracks(SessionAfter(h))'
    BY <2>1, <2>2 DEF Tracks
  <2> QED BY <1>2, <2>3 DEF WillTrack
<1> QED BY <1>1, <1>2

LEMMA CommitsOnly ==
    ASSUME Inv, NEW h \in Handlers, Receive(h) \/ Resume(h), pc[h] = "msave"
    PROVE  Committed(h)
BY DEF Receive, Resume, Migrate, AnswerAfterLoad, Unlock, FreshKey, Seal, QueueAfterLoad,
   StartSession, SaveFirst, QueueAdd, QueueChange, FirstSaved, Removed, StartRun, FailMutation,
   SaveMutation, Proceeds, Loaded, Decrypted, Running

(* A session just begun, if it is not outdated. *)
LEMMA BegunTracks ==
    ASSUME Inv, NEW k \in Handlers, StartSession(k) \/ FirstSaved(k), ~Outdated(k)
    PROVE  file' # Null /\ Tracks(session)'
<1>1. file' = file /\ file # Null
  BY BeginningStep DEF Outdated
<1>2. CASE StartSession(k)
  <2> DEFINE f == seen[k]
  <2>1. /\ call[k].op = "UNLOCK" /\ f # Null
        /\ session' = NewSession(DOMAIN f.accounts, f.active, key[k])
    BY <1>2 DEF StartSession, Decrypted, Inv, Suspended
  <2>2. /\ DOMAIN file.accounts = DOMAIN f.accounts /\ file.active = f.active
        /\ file.salt = key[k][2] /\ f.active \in DOMAIN f.accounts
    BY <2>1 DEF Outdated, Inv, Selects
  <2> HIDE DEF f
  <2>3. /\ session'.entries = DOMAIN f.accounts /\ session'.active = f.active
        /\ session'.key = key[k]
    BY <2>1, <2>2 DEF NewSession
  <2> QED BY <1>1, <2>2, <2>3 DEF Tracks
<1>3. CASE FirstSaved(k)
  <2>1. call[k].op = "CREATE_WALLET" /\ session' = NewSession({id[k]}, id[k], key[k])
    BY <1>3 DEF FirstSaved, Inv, Suspended
  <2>2. /\ DOMAIN file.accounts = {id[k]} /\ file.active = id[k] /\ file.salt = key[k][2]
    BY <2>1 DEF Outdated
  <2>3. session'.entries = {id[k]} /\ session'.active = id[k] /\ session'.key = key[k]
    BY <2>1 DEF NewSession
  <2> QED BY <1>1, <2>2, <2>3 DEF Tracks
<1> QED BY <1>2, <1>3

(* A session as a mutation leaves it. *)
LEMMA CommittedTracks ==
    ASSUME Inv, Wrote, NEW k \in Handlers, Committed(k), cur[k] = file, file # Null,
           session # Null, WillTrack(k), ~Misses(k)
    PROVE  Tracks(session)'
<1>1. pc[k] = "msave" /\ file' = file /\ session' = SessionAfter(k)
  BY DEF Committed
<1>2. CASE call[k].op # "CHANGE_PASSWORD"
  BY <1>1, <1>2 DEF WillTrack, Tracks
<1>3. CASE call[k].op = "CHANGE_PASSWORD"
  <2>1. session' = NewSession(DOMAIN seen[k].accounts, session.active, key[k])
    BY <1>1, <1>3 DEF SessionAfter
  <2>2. /\ DOMAIN seen[k].accounts = DOMAIN file.accounts
        /\ session.active = file.active /\ file.active \in DOMAIN file.accounts
    BY <1>3 DEF Misses, WillTrack, Inv, Selects
  <2>3. file.salt = key[k][2]
    BY <1>1, <1>3 DEF Wrote, Shown
  <2>4. /\ session'.entries = DOMAIN file.accounts /\ session'.active = file.active
        /\ session'.key = key[k]
    BY <2>1, <2>2 DEF NewSession
  <2> QED BY <1>1, <2>3, <2>4 DEF Tracks
<1> QED BY <1>2, <1>3

LEMMA EvictedTracks ==
    ASSUME Inv, Evict, session' # Null, session # Null, file # Null, Tracks(session)
    PROVE  Tracks(session)'
<1>1. session' = NewSession(session.entries, session.active, Null) /\ file' = file
  BY DEF Evict, Rehydrated
<1>2. session.entries = DOMAIN file.accounts /\ session.active = file.active
  BY DEF Tracks
<1>3. session.active \in session.entries
  BY <1>2 DEF Inv, Selects
<1>4. /\ session'.entries = session.entries /\ session'.active = session.active
      /\ session'.key = Null
  BY <1>1, <1>3 DEF NewSession
<1> QED BY <1>1, <1>2, <1>4 DEF Tracks

LEMMA FollowsStep ==
    ASSUME NullIsNoFile, Inv, OneRuns, IoInv, Minted, Wrote, Behind, Follows, SessionNext
    PROVE  Follows'
<1> SUFFICES ASSUME session' # Null, ~stale'
             PROVE  /\ file' # Null
                    /\ Settled' => Tracks(session)'
                    /\ \A h \in Handlers : pc'[h] = "msave" => WillTrack(h)'
  BY DEF Follows
<1>0. Inv' /\ Wrote' /\ Behind' /\ Next /\ Note
  BY NextInv, WroteStep, BehindStep DEF SessionNext
<1>1. \A h \in Handlers : pc'[h] = "msave" => cur'[h] = file'
  BY <1>0 DEF Behind
<1>2. (\A h \in Handlers : ~Begins(h)) => ~stale
  BY <1>0 DEF Note
<1>3. /\ ~Replaced
      /\ \A h \in Handlers : /\ ~(Begins(h) /\ Outdated(h))
                            /\ ~(Ends(h) /\ Misses(h)) /\ ~Dies(h)
  BY <1>0 DEF Note
<1>4. ASSUME NEW k \in Handlers, Receive(k) \/ Resume(k)
      PROVE  /\ file' # Null
             /\ Settled' => Tracks(session)'
             /\ \A h \in Handlers : pc'[h] = "msave" => WillTrack(h)'
  <2>1. CASE StartSession(k) \/ FirstSaved(k)
    <3>1. file' # Null /\ Tracks(session)'
      BY <1>3, <2>1, BeginningStep, BegunTracks
    <3> QED BY <1>0, <1>1, <3>1, TracksAgain
  <2>2. ASSUME ~StartSession(k), ~FirstSaved(k)
        PROVE  ~stale
    BY <1>2, <1>4, <2>2, BeginsOnly
  <2>3. CASE SaveMutation(k)
    <3>1. pc[k] = "mload" /\ session' = session /\ pc'[k] = "msave" /\ file' # Null
      BY <2>3, MutatedShape DEF SaveMutation, Running, NullIsNoFile, Await, Inv, TypeOK
    <3>2. \A h \in Handlers : pc[h] # "msave"
      BY <3>1 DEF OneRuns
    <3>3. ~stale
      BY <2>2, <3>1 DEF StartSession, FirstSaved, Decrypted
    <3>4. file # Null /\ Tracks(session)
      BY <3>1, <3>2, <3>3 DEF Follows, Settled
    <3>5. WillTrack(k)'
      <4>1. CASE file' = file
        <5>1. Tracks(session)'
          BY <3>1, <3>4, <4>1 DEF Tracks
        <5> QED BY <1>0, <1>1, <3>1, <5>1, TracksAgain
      <4>2. CASE file' # file
        <5>1. cur[k] = file
          BY <1>3, <1>4, <4>2, ReplacingStep
        <5> QED BY <2>3, <3>1, <3>4, <5>1, SessionMutation
      <4> QED BY <4>1, <4>2
    <3>6. \A h \in Handlers : pc'[h] = "msave" => h = k
      BY <1>4, <3>2, MsaveStep
    <3> QED BY <3>1, <3>5, <3>6 DEF Settled
  <2>4. CASE Committed(k)
    <3>1. /\ pc[k] = "msave" /\ file' = file /\ pc'[k] = "idle" /\ reply' # "none"
          /\ session # Null /\ ~StartSession(k) /\ ~FirstSaved(k)
      BY <2>4 DEF Committed, Answer, SessionFailure, SessionAfter, StartSession, FirstSaved,
         Decrypted, Inv, TypeOK
    <3>2. ~stale /\ ~Misses(k)
      BY <1>3, <2>2, <3>1 DEF Ends
    <3>3. file # Null /\ WillTrack(k) /\ cur[k] = file
      BY <3>1, <3>2 DEF Follows, Behind
    <3>4. Tracks(session)'
      BY <2>4, <3>1, <3>2, <3>3, CommittedTracks
    <3>5. \A h \in Handlers : pc'[h] # "msave"
      BY <1>4, <3>1, MsaveStep DEF OneRuns
    <3> QED BY <3>1, <3>3, <3>4, <3>5
  <2>5. CASE ~StartSession(k) /\ ~FirstSaved(k) /\ ~SaveMutation(k) /\ ~Committed(k)
    <3>1. session' = session /\ ~stale
      BY <1>4, <2>2, <2>5, SessionStep
    <3>2. file' = file
      BY <1>3, <1>4, <2>5, ReplacingStep
    <3>3. Settled' => Settled
      BY <1>4, <2>5, CommitsOnly, OthersStay DEF Settled
    <3>4. ASSUME NEW h \in Handlers, pc'[h] = "msave"
          PROVE  WillTrack(h)'
      <4>1. /\ pc[h] = "msave" /\ cur'[h] = cur[h] /\ seen'[h] = seen[h]
            /\ call'[h] = call[h] /\ id'[h] = id[h] /\ key'[h] = key[h]
        BY <1>4, <2>5, <3>4, MsaveStep
      <4> QED BY <3>1, <3>2, <4>1, WillTrackStays DEF Follows
    <3> QED BY <3>1, <3>2, <3>3, <3>4 DEF Follows, Tracks
  <2> QED BY <2>1, <2>3, <2>4, <2>5
<1>5. CASE AutoLock
  BY <1>5 DEF AutoLock
<1>6. CASE Evict
  <2>1. /\ session # Null /\ file' = file /\ \A h \in Handlers : pc'[h] = "idle"
        /\ reply' = "none"
    BY <1>6 DEF Evict, Rehydrated
  <2>2. ~stale /\ Settled
    BY <1>2, <1>3, <2>1 DEF Begins, Dies, Settled
  <2>3. file # Null /\ Tracks(session)
    BY <2>1, <2>2 DEF Follows
  <2> QED BY <1>6, <2>1, <2>3, EvictedTracks
<1> QED BY <1>0, <1>4, <1>5, <1>6 DEF Next

LEMMA InitSession ==
    ASSUME Init, stale = FALSE
    PROVE  OneRuns /\ IoInv /\ Minted /\ Wrote /\ Behind /\ Follows
<1>1. /\ \A h \in Handlers : /\ pc[h] = "idle" /\ seen[h] = Null /\ cur[h] = Null
      /\ io = <<>> /\ nonce = FirstNonce /\ file \in Boot
  BY DEF Init
<1>2. OneRuns /\ IoInv /\ Wrote /\ Behind
  BY <1>1 DEF OneRuns, IoInv, Once, In, Awaits, Wrote, Behind
<1>3. Minted
  BY <1>1, ConstantsAssumption DEF Minted, Below, Adding
<1>4. ASSUME session # Null
      PROVE  file # Null /\ Tracks(session)
  <2>1. PICK k \in {Null, file.accounts[file.active].key} :
           file # Null /\ session = NewSession(DOMAIN file.accounts, file.active, k)
    BY <1>4 DEF Init
  <2>2. /\ file.active \in DOMAIN file.accounts
        /\ \E pw \in Passwords : Opens(Key(pw, file.salt), file)
    BY <1>1, <2>1, ConstantsAssumption
  <2>3. file.accounts[file.active].key[2] = file.salt
    BY <2>2 DEF Opens, Key
  <2>4. /\ session.entries = DOMAIN file.accounts /\ session.active = file.active
        /\ session.key = k
    BY <2>1, <2>2 DEF NewSession
  <2> QED BY <2>1, <2>3, <2>4 DEF Tracks
<1>5. Follows
  BY <1>1, <1>4 DEF Follows
<1> QED BY <1>2, <1>3, <1>5

SessionInv == Inv /\ OneRuns /\ IoInv /\ Minted /\ Wrote /\ Behind /\ Follows

LEMMA SessionInvStep ==
    ASSUME NullIsNoFile, SessionInv, [SessionNext]_hvars
    PROVE  SessionInv'
<1>1. CASE SessionNext
  BY <1>1, NextInv, OneRunsStep, IoInvStep, MintedStep, WroteStep, BehindStep, FollowsStep
     DEF SessionInv, SessionNext
<1>2. CASE UNCHANGED hvars
  <2>1. Inv'
    BY <1>2, NextInv DEF SessionInv, hvars
  <2>2. OneRuns' /\ IoInv' /\ Minted'
    BY <1>2 DEF hvars, vars, local, SessionInv, OneRuns, IoInv, Minted, Adding
  <2>3. Wrote'
    BY <1>2 DEF hvars, vars, local, SessionInv, Wrote, Shown, NewAccount
  <2>4. Behind'
    BY <1>2 DEF hvars, vars, local, SessionInv, Behind, MayBegin, Holds, Passes
  <2>5. Follows'
    <3>1. \A h \in Handlers : WillTrack(h) => WillTrack(h)'
      BY <1>2, WillTrackStays DEF hvars, vars, local
    <3> QED BY <1>2, <3>1 DEF hvars, vars, local, SessionInv, Follows, Settled, Tracks
  <2> QED BY <2>1, <2>2, <2>3, <2>4, <2>5 DEF SessionInv
<1> QED BY <1>1, <1>2

LEMMA SessionInvHolds == ASSUME NullIsNoFile PROVE SessionSpec => []SessionInv
<1>1. Init /\ stale = FALSE => SessionInv
  BY InitInv, InitSession DEF SessionInv
<1>2. SessionInv /\ [SessionNext]_hvars => SessionInv'
  BY SessionInvStep
<1> QED BY <1>1, <1>2, PTL DEF SessionSpec

(* A session that met none of the events listed tells the accounts of the  *)
(* stored file, its active one and its salt, whatever is dispatched.       *)
THEOREM SessionAlwaysAgrees == ASSUME NullIsNoFile PROVE SessionSpec => []SessionAgrees
<1>1. SessionInv => SessionAgrees
  BY DEF SessionInv, Follows, Tracks, SessionAgrees
<1> QED BY <1>1, SessionInvHolds, PTL

(* A mutation of an open wallet whose session is not stale is answered     *)
(* with success once it is written, and the stored file shows it then.     *)
THEOREM SavedAlwaysConfirmed == ASSUME NullIsNoFile PROVE SessionSpec => SavedIsConfirmed
<1> DEFINE Confirmed ==
               \A h \in Handlers : Ends(h) /\ session # Null /\ ~stale =>
                   reply' = "ok" /\ file # Null /\ Shown(h, file)
<1>1. SessionInv /\ [SessionNext]_hvars => [Confirmed]_hvars
  <2> SUFFICES ASSUME SessionInv, SessionNext, NEW h \in Handlers, Ends(h), session # Null, ~stale
               PROVE  reply' = "ok" /\ file # Null /\ Shown(h, file)
    OBVIOUS
  <2>1. Committed(h)
    <3>1. PICK k \in Handlers : Receive(k) \/ Resume(k)
      BY DEF SessionNext, Next, AutoLock, Evict, Ends
    <3>2. k = h
      BY <3>1, OthersStay DEF Ends, SessionInv
    <3> QED BY <3>1, <3>2, CommitsOnly DEF Ends, SessionInv
  <2>2. /\ pc[h] = "msave" /\ reply' = SessionFailure(h) /\ WillTrack(h)
        /\ file # Null /\ cur[h] = file
    BY <2>1 DEF Committed, Answer, SessionInv, Follows, Behind
  <2>3. Shown(h, file)
    BY <2>2 DEF SessionInv, Wrote
  <2>4. ~(call[h].op = "SWITCH_ACCOUNT" /\ call[h].id \notin session.entries)
    <3> SUFFICES ASSUME call[h].op = "SWITCH_ACCOUNT", call[h].id \notin session.entries
                 PROVE  FALSE
      OBVIOUS
    <3>1. SessionAfter(h) = session
      BY DEF SessionAfter
    <3>2. call[h].id \in DOMAIN file.accounts
      BY <2>3 DEF Shown
    <3> QED BY <2>2, <3>1, <3>2 DEF WillTrack, Tracks
  <2> QED BY <2>2, <2>3, <2>4 DEF SessionFailure
<1> QED BY <1>1, SessionInvHolds, PTL DEF SessionSpec, SavedIsConfirmed

(* No operation starts a session from a file it has read before. *)
NoStaleSession == Ops \cap {"UNLOCK", "CHANGE_PASSWORD"} = {}

(* Without CREATE_WALLET, RESET_VAULT, UNLOCK and CHANGE_PASSWORD, a v1    *)
(* record or an eviction, no session is ever stale: the account operations *)
(* alone never leave it behind, however they overlap.                      *)
THEOREM SessionNeverStale ==
    ASSUME MutationsOnly, NoStaleSession, NoLegacyBoot, Crashes = FALSE
    PROVE  SessionSpec => []~stale
<1>1. Init /\ stale = FALSE => FreshInv /\ ~stale
  BY FreshInvInit
<1>2. FreshInv /\ ~stale /\ [SessionNext]_hvars => FreshInv' /\ ~stale'
  <2> SUFFICES ASSUME FreshInv, ~stale, [SessionNext]_hvars
               PROVE  FreshInv' /\ ~stale'
    OBVIOUS
  <2>1. CASE UNCHANGED hvars
    BY <2>1, FreshInvStep DEF hvars
  <2>2. CASE SessionNext
    <3>1. FreshInv' /\ Next /\ ~Evict
      BY <2>2, FreshInvStep DEF SessionNext, Evict
    <3>2. ASSUME NEW h \in Handlers, pc'[h] = "idle", pc[h] # "idle"
          PROVE  Receive(h) \/ Resume(h)
      <4>1. PICK k \in Handlers : Receive(k) \/ Resume(k)
        BY <3>1, <3>2 DEF Next, AutoLock, local
      <4> QED BY <3>2, <4>1, OthersStay DEF FreshInv
    <3>3. ASSUME NEW h \in Handlers PROVE ~Begins(h)
      <4>1. ~StartSession(h) /\ ~FirstSaved(h)
        BY DEF StartSession, FirstSaved, Decrypted, FreshInv, Inv, Suspended, InFlight,
           MutationsOnly, NoStaleSession
      <4>2. Begins(h) => Receive(h) \/ Resume(h)
        BY <3>2 DEF Begins
      <4> QED BY <4>1, <4>2, BeginsOnly DEF FreshInv
    <3>4. ASSUME NEW h \in Handlers PROVE ~(Ends(h) /\ Misses(h))
      BY DEF Misses, Ends, FreshInv, InFlight, NoStaleSession
    <3>5. ASSUME NEW h \in Handlers PROVE ~Dies(h)
      <4> SUFFICES ASSUME Dies(h) PROVE FALSE
        OBVIOUS
      <4>1. Committed(h)
        BY <3>2, CommitsOnly DEF Dies, FreshInv
      <4> QED BY <4>1 DEF Dies, Committed, Answer, SessionFailure
    <3>6. ~Replaced
      <4> SUFFICES ASSUME file' # file PROVE ~Replaced
        BY DEF Replaced
      <4>1. PICK h \in Handlers : SaveMutation(h)
        BY <3>1, OnlyMutationsWrite DEF FreshInv
      <4>2. pc[h] = "mload" /\ pc'[h] = "msave" /\ cur[h] = file
        BY <4>1 DEF SaveMutation, Running, Await, FreshInv, Inv, TypeOK, NoLostUpdate
      <4> QED BY <4>2 DEF Replaced
    <3> QED BY <2>2, <3>1, <3>3, <3>4, <3>5, <3>6 DEF SessionNext, Note
  <2> QED BY <2>1, <2>2
<1> QED BY <1>1, <1>2, PTL DEF SessionSpec
=============================================================================
