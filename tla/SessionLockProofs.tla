------------------------- MODULE SessionLockProofs -------------------------
(* The safety of the auto-lock, for every choice of timeouts. *)
EXTENDS SessionLock, TLAPS

(* No session outlives its worker, or precedes its rehydration. *)
NoSessionYet == ~alive \/ restoring => lockAt = Null /\ timer = Null

(* What is under way is under way in a worker. *)
PendingInWorker == restoring \/ loading \/ alarm \/ request # Null => alive

(* rehydrate is handed what is stored still. *)
CopyIsFresh == restoring => copy = persisted

(* Whatever is stored was granted by an activity, and not locked since. *)
CopyIsGranted == persisted # Null => granted # Null

Inv ==
    /\ TypeOK
    /\ NoSessionYet /\ PendingInWorker
    /\ CopyIsFresh /\ CopyIsGranted
    /\ DeadlinesAgree

LEMMA InitInv == Init => Inv
BY ConstantsAssumption DEF Init, Inv, TypeOK, Deadline, NoSessionYet, PendingInWorker,
   CopyIsFresh, CopyIsGranted, DeadlinesAgree

LEMMA LessType ==
    ASSUME NEW t \in Deadline
    PROVE  /\ Less(t) \in Deadline
           /\ Less(t) = Null <=> t = Null
BY ConstantsAssumption DEF Less, Deadline

LEMMA NextType ==
    ASSUME TypeOK, [Next]_vars
    PROVE  TypeOK'
<1> USE ConstantsAssumption DEF TypeOK, Deadline
<1>1. CASE Alarm \/ Receive
  <2>1. CASE alive
    BY <1>1, <2>1 DEF Alarm, Receive, Wake
  <2>2. CASE ~alive
    BY <1>1, <2>2 DEF Alarm, Receive, Wake, Spawn
  <2> QED BY <2>1, <2>2
<1>2. CASE Restart \/ Evict
  BY <1>2 DEF Restart, Spawn, Evict
<1>3. CASE Rehydrate
  BY <1>3 DEF Rehydrate
<1>4. CASE LoadTimeout
  <2>1. CASE stored # Null
    BY <1>4, <2>1 DEF LoadTimeout, Extend
  <2>2. CASE stored = Null
    BY <1>4, <2>2 DEF LoadTimeout
  <2> QED BY <2>1, <2>2
<1>5. CASE Enforce \/ TimerFires
  BY <1>5 DEF Enforce, TimerFires, DropSession
<1>6. CASE Unlock \/ Use
  BY <1>6 DEF Unlock, Use, Serve, Extend
<1>7. CASE GetVaultState \/ Lock
  BY <1>7 DEF GetVaultState, Lock, Serve, DropSession
<1>8. CASE SetLockTimeout
  BY <1>8 DEF SetLockTimeout, Serve, Extend
<1>9. CASE Tick
  BY <1>9, LessType DEF Tick
<1>10. CASE UNCHANGED vars
  BY <1>10 DEF vars, heap
<1> QED BY <1>1, <1>2, <1>3, <1>4, <1>5, <1>6, <1>7, <1>8, <1>9, <1>10 DEF Next

LEMMA NextInv ==
    ASSUME Inv, [Next]_vars
    PROVE  Inv'
<1>0. TypeOK'
  BY NextType DEF Inv
<1> SUFFICES /\ NoSessionYet' /\ PendingInWorker'
             /\ CopyIsFresh' /\ CopyIsGranted' /\ DeadlinesAgree'
  BY <1>0 DEF Inv
<1> USE DEF Inv, NoSessionYet, PendingInWorker, CopyIsFresh, CopyIsGranted, DeadlinesAgree
<1>1. CASE Alarm \/ Receive \/ Restart
  BY <1>1 DEF Alarm, Receive, Restart, Wake, Spawn, TypeOK
<1>2. CASE Evict
  BY <1>2 DEF Evict
<1>3. CASE Rehydrate
  BY <1>3, ConstantsAssumption DEF Rehydrate, TypeOK, Deadline
<1>4. CASE LoadTimeout
  BY <1>4 DEF LoadTimeout, Extend, TypeOK
<1>5. CASE Enforce \/ TimerFires
  BY <1>5, ConstantsAssumption DEF Enforce, TimerFires, DropSession, TypeOK
<1>6. CASE Unlock \/ Use \/ GetVaultState \/ Lock
  BY <1>6, ConstantsAssumption DEF Unlock, Use, GetVaultState, Lock, Serve, Extend,
     DropSession, TypeOK, Kinds
<1>7. CASE SetLockTimeout
  BY <1>7, ConstantsAssumption DEF SetLockTimeout, Serve, Extend, TypeOK
<1>8. CASE Tick
  <2>1. /\ lockAt' = Null <=> lockAt = Null
        /\ timer' = Null <=> timer = Null
        /\ persisted' = Null <=> persisted = Null
        /\ granted' = Null <=> granted = Null
    BY <1>8, LessType DEF Tick, TypeOK
  <2> QED BY <1>8, <2>1 DEF Tick
<1>9. CASE UNCHANGED vars
  BY <1>9 DEF vars, heap
<1> QED BY <1>1, <1>2, <1>3, <1>4, <1>5, <1>6, <1>7, <1>8, <1>9 DEF Next

THEOREM InvHolds == Spec => []Inv
BY InitInv, NextInv, PTL DEF Spec

(* The variables of the auto-lock keep their types. *)
THEOREM TypeCorrect == Spec => []TypeOK
<1>1. Inv => TypeOK
  BY DEF Inv
<1> QED BY <1>1, InvHolds, PTL

(* A locked wallet stays locked until the next unlock, whatever workers    *)
(* come and go, and in whatever order the two storage areas answer them.   *)
THEOREM LockedStaysLocked == Spec => []StaysLocked
<1>1. Inv => StaysLocked
  BY DEF Inv, StaysLocked, NoSessionYet, CopyIsGranted, DeadlinesAgree, TypeOK
<1> QED BY <1>1, InvHolds, PTL

(* Memory, timer and stored copy never disagree on when the wallet locks.  *)
THEOREM DeadlinesAlwaysAgree == Spec => []DeadlinesAgree
<1>1. Inv => DeadlinesAgree
  BY DEF Inv
<1> QED BY <1>1, InvHolds, PTL

----------------------------------------------------------------------------
(* While no timeout is saved, none ever was: every worker uses the default, *)
(* and no copy expires later than the last activity granted.                *)
NothingStored == saved = Null => stored = Null
Within        == saved = Null /\ persisted # Null => persisted <= granted

GrantedInv == Inv /\ NothingStored /\ Within

LEMMA NextGranted ==
    ASSUME GrantedInv, [Next]_vars
    PROVE  GrantedInv'
<1> SUFFICES NothingStored' /\ Within'
  BY NextInv DEF GrantedInv
<1> USE ConstantsAssumption DEF GrantedInv, Inv, TypeOK, Deadline, NothingStored, Within, CopyIsGranted
<1>1. CASE Alarm \/ Receive \/ Restart
  BY <1>1 DEF Alarm, Receive, Restart, Wake, Spawn
<1>2. CASE Evict \/ Rehydrate \/ LoadTimeout
  BY <1>2 DEF Evict, Rehydrate, LoadTimeout, Extend
<1>3. CASE Enforce \/ TimerFires
  BY <1>3 DEF Enforce, TimerFires, DropSession
<1>4. CASE Unlock \/ Use \/ GetVaultState \/ Lock
  BY <1>4 DEF Unlock, Use, GetVaultState, Lock, Serve, Extend, DropSession
<1>5. CASE SetLockTimeout
  BY <1>5 DEF SetLockTimeout
<1>6. CASE Tick
  <2>1. NothingStored'
    BY <1>6 DEF Tick
  <2>2. CASE persisted = Null \/ saved # Null
    BY <1>6, <2>2 DEF Tick, Less
  <2>3. CASE persisted # Null /\ saved = Null
    <3>1. persisted \in Nat /\ granted \in Nat /\ persisted <= granted
      BY <2>3
    <3> QED BY <1>6, <2>1, <3>1 DEF Tick, Less
  <2> QED BY <2>1, <2>2, <2>3
<1>7. CASE UNCHANGED vars
  BY <1>7 DEF vars, heap
<1> QED BY <1>1, <1>2, <1>3, <1>4, <1>5, <1>6, <1>7 DEF Next

(* Only activity defers the lock, whatever workers come and go, for as     *)
(* long as no timeout has been saved.                                      *)
THEOREM DeadlineIsGranted == Spec => []OnlyActivityDefers
<1>1. Init => GrantedInv
  BY InitInv, ConstantsAssumption DEF Init, GrantedInv, NothingStored, Within
<1>2. GrantedInv => OnlyActivityDefers
  BY DEF GrantedInv, Inv, OnlyActivityDefers, DeadlinesAgree, NoSessionYet, Within, TypeOK
<1> QED BY <1>1, <1>2, NextGranted, PTL DEF Spec
=============================================================================
