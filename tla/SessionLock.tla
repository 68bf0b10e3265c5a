---------------------------- MODULE SessionLock ----------------------------
(***************************************************************************)
(* When the wallet locks: the deadline of the unlocked session through     *)
(* vault/session.ts, its copy in chrome.storage.session, the auto-lock     *)
(* timer and alarm, the saved timeout in chrome.storage.local, and the     *)
(* life of the service worker (background/service-worker.ts).              *)
(*                                                                         *)
(* The code only ever compares an instant with Date.now(), so an instant   *)
(* is kept here as the time left until it, 0 once it is reached; Tick      *)
(* takes one unit off all of them.  What a session holds is Vault's        *)
(* concern: here it is its deadline.                                       *)
(***************************************************************************)
EXTENDS Integers

CONSTANTS
    Timeouts,       \* the auto-lock timeouts the user may choose
    DefaultTimeout, \* DEFAULT_LOCK_TIMEOUT_MS
    SavedAtBoot,    \* what the timeout key of chrome.storage.local may hold at first
    Requests,       \* the kinds of requests sent to the worker
    Abrupt,         \* whether the worker may die with something in flight
    Null            \* no session, no timer, no copy, no saved timeout

Kinds == {"UNLOCK", "USE", "GET_VAULT_STATE", "LOCK", "SET_LOCK_TIMEOUT"}

ASSUME ConstantsAssumption ==
    /\ Timeouts \subseteq Nat \ {0}
    /\ DefaultTimeout \in Nat \ {0}
    /\ SavedAtBoot \subseteq Timeouts \cup {Null}
    /\ Requests \subseteq Kinds
    /\ Abrupt \in BOOLEAN
    /\ Null \notin Nat /\ Null \notin Kinds

VARIABLES
    alive,      \* a worker is running
    lockAt,     \* session.lockAt, or Null when session is null
    timer,      \* lockTimer
    timeoutMs,  \* the timeout of this worker
    restoring,  \* rehydratePromise is pending
    copy,       \* what its getSession() will return
    loading,    \* loadPersistedLockTimeout is pending
    stored,     \* what its getTimeoutMs() will return
    alarm,      \* enforceLockTimeout is waiting for rehydratePromise
    request,    \* the request waiting for it, or Null
    persisted,  \* expiresAt of the session in chrome.storage.session
    saved,      \* the timeout in chrome.storage.local
    granted,    \* what remains of the timeout the user's last activity granted
    used        \* the last step was such activity

heap == <<alive, lockAt, timer, timeoutMs, restoring, copy, loading, stored, alarm, request>>
vars == <<heap, persisted, saved, granted, used>>

Deadline == Nat \cup {Null}

TypeOK ==
    /\ alive \in BOOLEAN /\ restoring \in BOOLEAN /\ loading \in BOOLEAN
    /\ alarm \in BOOLEAN /\ used \in BOOLEAN
    /\ lockAt \in Deadline /\ timer \in Deadline /\ copy \in Deadline
    /\ persisted \in Deadline /\ granted \in Deadline
    /\ timeoutMs \in Timeouts \cup {DefaultTimeout}
    /\ stored \in Timeouts \cup {Null} /\ saved \in Timeouts \cup {Null}
    /\ request \in Requests \cup {Null}

(* No worker yet, nothing unlocked. *)
Init ==
    /\ alive = FALSE
    /\ lockAt = Null /\ timer = Null
    /\ timeoutMs = DefaultTimeout
    /\ restoring = FALSE /\ copy = Null
    /\ loading = FALSE /\ stored = Null
    /\ alarm = FALSE /\ request = Null
    /\ persisted = Null
    /\ saved \in SavedAtBoot
    /\ granted = Null /\ used = FALSE

----------------------------------------------------------------------------
(* A worker is respawned: its script reads the saved timeout and the        *)
(* persisted session, from two storage areas that answer in either order.  *)
Spawn(session) ==
    /\ alive' = TRUE
    /\ lockAt' = Null /\ timer' = Null
    /\ timeoutMs' = DefaultTimeout
    /\ restoring' = TRUE /\ copy' = session
    /\ loading' = TRUE /\ stored' = saved

Wake ==
    \/ alive /\ UNCHANGED <<alive, lockAt, timer, timeoutMs, restoring, copy, loading, stored>>
    \/ ~alive /\ Spawn(persisted)

(* Mutant of Alarm: a timer of the worker instead of chrome.alarms. *)
AlarmOfWorker ==
    /\ alive /\ ~alarm /\ alarm' = TRUE
    /\ used' = FALSE
    /\ UNCHANGED <<alive, lockAt, timer, timeoutMs, restoring, copy, loading, stored,
                   request, persisted, saved, granted>>

Alarm ==
    /\ ~alarm /\ alarm' = TRUE
    /\ Wake
    /\ used' = FALSE
    /\ UNCHANGED <<request, persisted, saved, granted>>

Receive ==
    /\ request = Null /\ request' \in Requests
    /\ Wake
    /\ used' = FALSE
    /\ UNCHANGED <<alarm, persisted, saved, granted>>

(* Browser start, or the extension installed or updated: Chrome has        *)
(* cleared chrome.storage.session, and the listener calls lock().          *)
Restart ==
    /\ Spawn(Null)
    /\ alarm' = FALSE /\ request' = Null
    /\ persisted' = Null /\ granted' = Null
    /\ used' = FALSE
    /\ UNCHANGED saved

(* Chrome stops a worker that has been idle; it may also die at any time.  *)
Evict ==
    /\ alive
    /\ Abrupt \/ ~(restoring \/ loading \/ alarm \/ request # Null)
    /\ alive' = FALSE
    /\ lockAt' = Null /\ timer' = Null
    /\ timeoutMs' = DefaultTimeout
    /\ restoring' = FALSE /\ copy' = Null
    /\ loading' = FALSE /\ stored' = Null
    /\ alarm' = FALSE /\ request' = Null
    /\ used' = FALSE
    /\ UNCHANGED <<persisted, saved, granted>>

----------------------------------------------------------------------------
(* session.ts *)

(* Mutant of Extend: the copy keeps the deadline it had. *)
ExtendInMemory(ms) ==
    /\ lockAt' = ms /\ timer' = ms
    /\ UNCHANGED persisted

(* The deadline is set to ms from now, the timer armed for it, the copy    *)
(* written: startSession, touchSession.                                    *)
Extend(ms) ==
    /\ lockAt' = ms /\ timer' = ms
    /\ persisted' = ms

(* Mutant of DropSession: the copy is left in storage. *)
DropFromMemory ==
    /\ lockAt' = Null /\ timer' = Null
    /\ granted' = Null
    /\ UNCHANGED persisted

(* lock() *)
DropSession ==
    /\ lockAt' = Null /\ timer' = Null
    /\ persisted' = Null
    /\ granted' = Null

(* Mutant of Rehydrate: a restored session has its whole timeout again. *)
RehydrateAfresh ==
    /\ restoring /\ restoring' = FALSE
    /\ copy' = Null
    /\ IF copy = Null
       THEN UNCHANGED <<lockAt, timer, persisted, granted>>
       ELSE IF copy = 0
       THEN persisted' = Null /\ granted' = Null /\ UNCHANGED <<lockAt, timer>>
       ELSE Extend(timeoutMs) /\ UNCHANGED granted
    /\ used' = FALSE
    /\ UNCHANGED <<alive, timeoutMs, loading, stored, alarm, request, saved>>

(* rehydrate: an expired copy is removed, any other is the session again,  *)
(* with the deadline it had.                                               *)
Rehydrate ==
    /\ restoring /\ restoring' = FALSE
    /\ copy' = Null
    /\ IF copy = Null
       THEN UNCHANGED <<lockAt, timer, persisted, granted>>
       ELSE IF copy = 0
       THEN persisted' = Null /\ granted' = Null /\ UNCHANGED <<lockAt, timer>>
       ELSE lockAt' = copy /\ timer' = copy /\ UNCHANGED <<persisted, granted>>
    /\ used' = FALSE
    /\ UNCHANGED <<alive, timeoutMs, loading, stored, alarm, request, saved>>

(* loadPersistedLockTimeout *)
LoadTimeout ==
    /\ loading /\ loading' = FALSE
    /\ stored' = Null
    /\ timeoutMs' = IF stored # Null THEN stored ELSE timeoutMs
    /\ IF stored # Null /\ lockAt # Null THEN Extend(stored)
       ELSE UNCHANGED <<lockAt, timer, persisted>>
    /\ used' = FALSE
    /\ UNCHANGED <<alive, restoring, copy, alarm, request, saved, granted>>

(* enforceLockTimeout, once rehydrated. *)
Enforce ==
    /\ alarm /\ ~restoring
    /\ alarm' = FALSE
    /\ IF lockAt = 0 THEN DropSession ELSE UNCHANGED <<lockAt, timer, persisted, granted>>
    /\ used' = FALSE
    /\ UNCHANGED <<alive, timeoutMs, restoring, copy, loading, stored, request, saved>>

(* The callback of lockTimer. *)
TimerFires ==
    /\ timer = 0
    /\ IF lockAt = 0 THEN DropSession
       ELSE timer' = lockAt /\ UNCHANGED <<lockAt, persisted, granted>>
    /\ used' = FALSE
    /\ UNCHANGED <<alive, timeoutMs, restoring, copy, loading, stored, alarm, request, saved>>

----------------------------------------------------------------------------
(* A request, once rehydrated (handleMessage).  UNLOCK stands for every    *)
(* startSession, USE for every use of the session that touches it, LOCK    *)
(* for lock() by LOCK or RESET_VAULT.                                      *)
Serve(r) ==
    /\ request = r /\ ~restoring
    /\ request' = Null
    /\ UNCHANGED <<alive, restoring, copy, loading, stored, alarm>>

Unlock ==
    /\ Serve("UNLOCK")
    /\ Extend(timeoutMs)
    /\ granted' = timeoutMs /\ used' = TRUE
    /\ UNCHANGED <<timeoutMs, saved>>

Use ==
    /\ Serve("USE")
    /\ IF lockAt # Null
       THEN Extend(timeoutMs) /\ granted' = timeoutMs /\ used' = TRUE
       ELSE used' = FALSE /\ UNCHANGED <<lockAt, timer, persisted, granted>>
    /\ UNCHANGED <<timeoutMs, saved>>

GetVaultState ==
    /\ Serve("GET_VAULT_STATE")
    /\ used' = FALSE
    /\ UNCHANGED <<lockAt, timer, timeoutMs, persisted, saved, granted>>

Lock ==
    /\ Serve("LOCK")
    /\ DropSession
    /\ used' = FALSE
    /\ UNCHANGED <<timeoutMs, saved>>

(* setAndPersistLockTimeout *)
SetLockTimeout ==
    /\ Serve("SET_LOCK_TIMEOUT")
    /\ \E ms \in Timeouts :
          /\ timeoutMs' = ms /\ saved' = ms
          /\ IF lockAt # Null
             THEN Extend(ms) /\ granted' = ms /\ used' = TRUE
             ELSE used' = FALSE /\ UNCHANGED <<lockAt, timer, persisted, granted>>

----------------------------------------------------------------------------
Less(t) == IF t \in {Null, 0} THEN t ELSE t - 1

(* Time passes.  A timer that is due runs before the clock moves on.       *)
Tick ==
    /\ timer # 0
    /\ lockAt' = Less(lockAt) /\ timer' = Less(timer)
    /\ copy' = Less(copy) /\ persisted' = Less(persisted)
    /\ granted' = Less(granted)
    /\ used' = FALSE
    /\ UNCHANGED <<alive, timeoutMs, restoring, loading, stored, alarm, request, saved>>

Next ==
    \/ Alarm \/ Receive \/ Restart \/ Evict
    \/ Rehydrate \/ LoadTimeout \/ Enforce \/ TimerFires
    \/ Unlock \/ Use \/ GetVaultState \/ Lock \/ SetLockTimeout
    \/ Tick

Spec == Init /\ [][Next]_vars

(* Time passes, the periodic alarm goes on, storage answers, and the       *)
(* worker runs what is due: Chrome does not kill it at every alarm before  *)
(* the session is restored and the deadline looked at.                     *)
FairSpec ==
    /\ Spec
    /\ WF_vars(Tick) /\ WF_vars(Alarm)
    /\ SF_vars(Rehydrate) /\ WF_vars(LoadTimeout)
    /\ SF_vars(Enforce) /\ WF_vars(TimerFires)

----------------------------------------------------------------------------
(* Properties. *)

(* Once locked, by LOCK, by the timer or the alarm, by expiry or by a      *)
(* restart of the browser, the wallet is open again only after an unlock:  *)
(* no worker that comes later restores the session.                        *)
StaysLocked == lockAt # Null => granted # Null

(* From the rehydration of a worker to its end, memory, timer and storage  *)
(* agree: the wallet is unlocked exactly when a copy is stored, the copy   *)
(* expires when the session does, and the timer is armed for that instant  *)
(* ("the alive-worker case still locks precisely via the setTimeout",      *)
(* service-worker.ts).                                                     *)
DeadlinesAgree == alive /\ ~restoring => persisted = lockAt /\ timer = lockAt

(* Until a timeout is chosen in the settings, the session never outlives   *)
(* what the user's last activity granted: being woken, restored or evicted *)
(* does not count as activity.                                             *)
OnlyActivityDefers == saved = Null /\ lockAt # Null => lockAt <= granted

Locked == lockAt = Null /\ persisted = Null

(* A wallet left alone, with the default timeout, is locked in the end and *)
(* its copy dropped, though the worker is evicted, abruptly even, and the  *)
(* popup never opened again.                                               *)
IdleDefaultLocks == []<>(used \/ saved # Null \/ Locked)

(* So is one with a timeout of the user's choice (the claim of             *)
(* enforceLockTimeout).                                                    *)
IdleWalletLocks == []<>(used \/ Locked)
=============================================================================
