------------------------------- MODULE Popup -------------------------------
(***************************************************************************)
(* The popup and its worker: which screen PopupApp.tsx shows for the vault *)
(* state it last read, and what the screens that change the vault do with  *)
(* the answers of vault-client.ts.  Answers may overtake one another and   *)
(* may be lost; the screen that asked may be gone when they come.          *)
(*                                                                         *)
(* The worker is Vault seen from here: a request takes effect in one step, *)
(* or is refused (a wrong password, a locked wallet, an unreadable key).   *)
(* Screens that only read chain data are in Pages, sending is in SendFlow. *)
(***************************************************************************)
EXTENDS Integers, FiniteSets

CONSTANTS
    Ids,        \* accounts the wallet may have
    Slots,      \* bound: requests of the popup in flight at a time
    Breaks,     \* whether a request may fail without an answer
    Null

ASSUME ConstantsAssumption ==
    /\ Ids # {} /\ IsFiniteSet(Ids) /\ Slots # {}
    /\ Breaks \in BOOLEAN
    /\ Null \notin Ids

(* VaultState; the accounts of a vault on another network are of no use.   *)
State(hasVault, foreign, locked, accounts, active) ==
    [hasVault |-> hasVault, foreign |-> foreign, locked |-> locked,
     accounts |-> accounts, active |-> active]

States ==
    [hasVault : BOOLEAN, foreign : BOOLEAN, locked : BOOLEAN,
     accounts : SUBSET Ids, active : Ids \cup {Null}]

FormRequests == {"create", "import", "unlock", "addGenerate", "addImport", "reveal", "doReset"}
ListRequests == {"switch", "rename", "doRemove"}
Requests == FormRequests \cup ListRequests \cup {"lock", "reset", "refresh", "refreshOnly"}

Calls ==
    [op : Requests, arg : Ids \cup {Null}, live : BOOLEAN,
     stage : {"asked", "ok", "no"}, state : States \cup {Null}]

ASSUME NullAssumption == Null \notin States \cup Calls

VARIABLES
    file,       \* the worker: "none", "corrupt", "foreign" or "ours"
    accounts,   \* of the vault
    active,
    locked,
    app,        \* PopupApp's state
    local,      \* the state of the mounted screen, and of the form in it
    calls,      \* requests in flight, with what remains of their handlers
    misled      \* the popup was told nothing, or what was no longer true

worker == <<file, accounts, active, locked>>
vars   == <<worker, app, local, calls, misled>>

Fresh == [view |-> "top", step |-> "ask", busy |-> FALSE, changing |-> FALSE, secret |-> Null]

TypeOK ==
    /\ file \in {"none", "corrupt", "foreign", "ours"}
    /\ accounts \in SUBSET Ids /\ active \in Ids \cup {Null} /\ locked \in BOOLEAN
    /\ file = "ours" <=> active \in accounts
    /\ app \in [known : States \cup {Null}, loadError : BOOLEAN, corrupt : BOOLEAN,
                route : {"home", "accounts", "settings"},
                onboarding : {"welcome", "import", "create"}]
    /\ local \in [view : {"top", "choose-add", "add-generate", "add-import", "reveal", "reset"},
                  step : {"ask", "backup", "verify"}, busy : BOOLEAN, changing : BOOLEAN,
                  secret : Ids \cup {Null}]
    /\ calls \in [Slots -> Calls \cup {Null}]
    /\ misled \in BOOLEAN

----------------------------------------------------------------------------
(* What is mounted.  PopupApp picks a screen; Accounts, Settings and the   *)
(* two recovery gates may hold a form with a state of its own.             *)

Screen(a) ==
    CASE a.corrupt -> "corrupt"
      [] ~a.corrupt /\ a.loadError -> "error"
      [] ~a.corrupt /\ ~a.loadError /\ a.known = Null -> "loading"
      [] OTHER -> IF a.known.foreign THEN "foreign"
                  ELSE IF ~a.known.hasVault THEN a.onboarding
                  ELSE IF a.known.locked THEN "locked" ELSE a.route

Form(a, l) ==
    IF Screen(a) \in {"accounts", "settings"} /\ l.view # "top" THEN l.view ELSE Screen(a)

Ask(op, arg) == [op |-> op, arg |-> arg, live |-> TRUE, stage |-> "asked", state |-> Null]

Orphaned(cs, ops) ==
    [s \in Slots |-> IF cs[s] # Null /\ cs[s].op \in ops THEN [cs[s] EXCEPT !.live = FALSE] ELSE cs[s]]

Waits(s, op) == calls[s] # Null /\ calls[s].op = op /\ calls[s].live

(* A new phrase is on screen, and not yet confirmed. *)
PhraseShown(l) == l.step # "ask" /\ l.secret # Null

(* React renders a, l and cs: what is no longer mounted loses its state.   *)
Render(a, l, cs) ==
    /\ app' = a
    /\ CASE Screen(a) # Screen(app) ->
              local' = Fresh /\ calls' = Orphaned(cs, Requests)
         [] Screen(a) = Screen(app) /\ l.view # local.view ->
              /\ local' = [Fresh EXCEPT !.view = l.view, !.changing = l.changing]
              /\ calls' = Orphaned(cs, FormRequests)
         [] OTHER -> local' = l /\ calls' = cs

(* The phrase of a new account goes with its screen.                       *)
Show(a, l, cs) ==
    /\ Render(a, l, cs)
    /\ misled' = (misled \/ (Form(a, l) # Form(app, local) /\ PhraseShown(l)))

(* refreshState clears the errors first, refreshStateOnly does not.        *)
Cleared(op) ==
    IF op = "refresh" THEN [app EXCEPT !.loadError = FALSE, !.corrupt = FALSE] ELSE app

Init ==
    /\ \/ /\ file = "ours" /\ accounts \in {{i} : i \in Ids} \cup {Ids}
          /\ active \in accounts /\ locked \in BOOLEAN
       \/ /\ file \in {"none", "corrupt", "foreign"}
          /\ accounts = {} /\ active = Null /\ locked = TRUE
    /\ app = [known |-> Null, loadError |-> FALSE, corrupt |-> FALSE,
              route |-> "home", onboarding |-> "welcome"]
    /\ local = Fresh
    /\ \E s \in Slots :
          calls = [t \in Slots |-> IF t = s THEN Ask("refresh", Null) ELSE Null]
    /\ misled = FALSE

----------------------------------------------------------------------------
(* The user. *)

Go(a, l) == Show(a, l, calls) /\ UNCHANGED worker

At(screen) == Screen(app) = screen

Navigate ==
    /\ \/ At("home") /\ \E r \in {"accounts", "settings"} : Go([app EXCEPT !.route = r], local)
       \/ At("settings") /\ local.view = "top"
          /\ \E r \in {"home", "accounts"} : Go([app EXCEPT !.route = r], local)
       \/ At("accounts") /\ local.view = "top" /\ Go([app EXCEPT !.route = "home"], local)

Onboard ==
    \/ At("welcome") /\ \E o \in {"import", "create"} : Go([app EXCEPT !.onboarding = o], local)
    \/ At("import") /\ Go([app EXCEPT !.onboarding = "welcome"], local)
    \/ At("create") /\ local.step = "ask" /\ Go([app EXCEPT !.onboarding = "welcome"], local)

View(v) == Go(app, [local EXCEPT !.view = v])

Manage ==
    \/ At("accounts") /\ local.view = "top" /\ View("choose-add")
    \/ local.view = "choose-add" /\ \E v \in {"top", "add-generate", "add-import"} : View(v)
    \/ local.view = "add-import" /\ View("top")
    \/ local.view = "add-generate" /\ local.step # "verify" /\ View("top")
    \/ At("settings") /\ local.view = "top" /\ \E v \in {"reveal", "reset"} : View(v)
    \/ local.view \in {"reveal", "reset"} /\ View("top")

(* The backup is confirmed in two steps. *)
Backup ==
    \/ local.step = "backup" /\ local.secret # Null /\ Go(app, [local EXCEPT !.step = "verify"])
    \/ local.step = "verify" /\ Go(app, [local EXCEPT !.step = "backup"])

Send(op, arg, l) ==
    /\ \E s \in Slots : calls[s] = Null /\ Show(Cleared(op), l, [calls EXCEPT ![s] = Ask(op, arg)])
    /\ UNCHANGED worker

Submit(form, op, arg) ==
    /\ Form(app, local) = form /\ local.step = "ask" /\ local.secret = Null /\ ~local.busy
    /\ Send(op, arg, [local EXCEPT !.busy = TRUE])

handleGenerate   == Submit("create", "create", Null)
handleAddAccount == Submit("add-generate", "addGenerate", Null)
handleImport     == Submit("import", "import", Null) \/ Submit("add-import", "addImport", Null)
handleUnlock     == Submit("locked", "unlock", Null)
reveal           == Submit("reveal", "reveal", Null)

isLastAccount == Cardinality(app.known.accounts) <= 1

(* The last account goes with the wallet, once RESET is typed. *)
doReset == app.known # Null /\ Submit("reset", "doReset", IF isLastAccount THEN Null ELSE app.known.active)

InList == At("accounts") /\ local.view = "top"

switchTo ==
    /\ InList /\ ~local.changing
    /\ \E i \in app.known.accounts :
          IF i = app.known.active THEN Go([app EXCEPT !.route = "home"], local)
          ELSE Send("switch", i, [local EXCEPT !.changing = TRUE])

(* The Enter key saves a name whether or not another change is under way.  *)
doRename ==
    /\ InList
    /\ Send("rename", Null, [local EXCEPT !.changing = TRUE])

doRemove ==
    /\ InList /\ ~local.changing /\ ~isLastAccount
    /\ \E i \in app.known.accounts : Send("doRemove", i, [local EXCEPT !.changing = TRUE])

LockWallet == At("settings") /\ local.view = "top" /\ Send("lock", Null, local)

ResetGate == (At("corrupt") \/ At("foreign")) /\ Send("reset", Null, local)

Retry == At("error") /\ Send("refresh", Null, local)

(* finish(): the phrase is wiped, the state read again. *)
finish ==
    /\ local.step = "verify" /\ local.secret # Null
    /\ LET op == IF At("create") THEN "refresh" ELSE "refreshOnly"
           a  == IF At("create") THEN Cleared(op) ELSE [app EXCEPT !.route = "home"]
       IN  \E s \in Slots :
              /\ calls[s] = Null
              /\ Show(a, [local EXCEPT !.secret = Null], [calls EXCEPT ![s] = Ask(op, Null)])
    /\ UNCHANGED worker

----------------------------------------------------------------------------
(* The worker. *)

Reply(s, stage, st) == calls' = [calls EXCEPT ![s].stage = stage, ![s].state = st, ![s].arg = Null]

Current == State(file # "none", file = "foreign", locked, accounts, active)

Keep == UNCHANGED worker

Vault(f, accs, act, lock) == file' = f /\ accounts' = accs /\ active' = act /\ locked' = lock

(* Mutant of Remove: the active account stays the removed one. *)
RemoveOnly(id) == id \in accounts /\ accounts # {id} /\ Vault(file, accounts \ {id}, active, locked)

(* Another account becomes active if this one was; the last one stays.     *)
Remove(id) ==
    /\ id \in accounts /\ accounts # {id}
    /\ \E i \in accounts \ {id} :
          /\ active # id => i = active
          /\ Vault(file, accounts \ {id}, i, locked)

Effect(op, arg) ==
    CASE op \in {"create", "import"} ->
            file = "none" /\ \E i \in Ids : Vault("ours", {i}, i, FALSE)
      [] op = "unlock" -> file = "ours" /\ Vault(file, accounts, active, FALSE)
      [] op \in {"addGenerate", "addImport"} ->
            file = "ours" /\ ~locked /\ \E i \in Ids \ accounts : Vault(file, accounts \cup {i}, i, locked)
      [] op \in {"reveal", "rename"} -> file = "ours" /\ Keep
      [] op = "switch" -> arg \in accounts /\ ~locked /\ Vault(file, accounts, arg, locked)
      [] op = "lock" -> Vault(file, accounts, active, TRUE)
      [] op = "reset" \/ (op = "doReset" /\ arg = Null) -> Vault("none", {}, Null, TRUE)
      [] op = "doRemove" \/ (op = "doReset" /\ arg # Null) -> Remove(arg)
      [] OTHER -> FALSE

Serve(s) ==
    /\ calls[s] # Null /\ calls[s].stage = "asked"
    /\ \/ Effect(calls[s].op, calls[s].arg) /\ Reply(s, "ok", Null)
       \/ calls[s].op \notin {"refresh", "refreshOnly"} /\ Keep /\ Reply(s, "no", Null)
       \/ /\ calls[s].op \in {"refresh", "refreshOnly"} /\ Keep
          /\ IF file = "corrupt" THEN Reply(s, "no", Null) ELSE Reply(s, "ok", Current)
    /\ UNCHANGED <<app, local, misled>>

AutoLock == ~locked /\ locked' = TRUE /\ UNCHANGED <<file, accounts, active, app, local, calls, misled>>

----------------------------------------------------------------------------
(* The rest of the handlers. *)

Settle(s) == [calls EXCEPT ![s] = Null]

(* Mutant of Idle: only a success enables the form again. *)
IdleOnSuccess(s) ==
    IF calls[s].live /\ calls[s].op \in FormRequests /\ calls[s].stage = "ok"
    THEN [local EXCEPT !.busy = FALSE]
    ELSE IF calls[s].live /\ calls[s].op \in ListRequests THEN [local EXCEPT !.changing = FALSE] ELSE local

(* setBusy(false), of the form or the list that asked. *)
Idle(s) ==
    IF ~calls[s].live THEN local
    ELSE IF calls[s].op \in FormRequests THEN [local EXCEPT !.busy = FALSE]
    ELSE IF calls[s].op \in ListRequests THEN [local EXCEPT !.changing = FALSE] ELSE local

(* The phrase is shown by the form that asked for it, or by none. *)
PhraseArrives(s) ==
    LET l == [Idle(s) EXCEPT !.secret = active,
                             !.step = IF calls[s].op = "reveal" THEN @ ELSE "backup"]
    IN  IF calls[s].live THEN Show(app, l, Settle(s))
        ELSE /\ Render(app, local, Settle(s))
             /\ misled' = (misled \/ calls[s].op # "reveal")

(* Mutant of Reload: the list is not read again. *)
NoReload(s, op) ==
    IF op = "refresh" THEN Show(Cleared(op), Idle(s), [calls EXCEPT ![s] = Ask(op, Null)])
    ELSE Show(app, Idle(s), Settle(s))

(* onUnlocked, onReset, onChanged...: whether or not the screen is there.  *)
Reload(s, op) == Show(Cleared(op), Idle(s), [calls EXCEPT ![s] = Ask(op, Null)])

ReloadAndGoHome(s) ==
    Show([app EXCEPT !.route = "home"], Idle(s), [calls EXCEPT ![s] = Ask("refreshOnly", Null)])

Told(st) == misled' = (<<st.hasVault, st.accounts, st.active>> # <<file # "none", accounts, active>>)

(* Mutant of refreshState: a failure is not shown. *)
refreshStateQuietly(s) ==
    LET a == IF calls[s].stage = "ok" THEN [app EXCEPT !.known = calls[s].state, !.route = "home"]
             ELSE [app EXCEPT !.known = Null]
    IN  Render(a, local, Settle(s)) /\ UNCHANGED misled

refreshState(s) ==
    LET a == IF calls[s].stage = "ok" THEN [app EXCEPT !.known = calls[s].state, !.route = "home"]
             ELSE [app EXCEPT !.known = Null, !.corrupt = TRUE]
    IN  /\ Render(a, local, Settle(s))
        /\ IF calls[s].stage = "ok" THEN Told(calls[s].state) ELSE UNCHANGED misled

refreshStateOnly(s) ==
    IF calls[s].stage = "ok"
    THEN /\ Render([app EXCEPT !.known = calls[s].state], local, Settle(s))
         /\ Told(calls[s].state)
    ELSE Show(app, local, Settle(s))

Answer(s) ==
    /\ calls[s] # Null /\ calls[s].stage # "asked"
    /\ UNCHANGED worker
    /\ LET op == calls[s].op
       IN  CASE op = "refresh" -> refreshState(s)
             [] op = "refreshOnly" -> refreshStateOnly(s)
             [] op \notin {"refresh", "refreshOnly"} /\ calls[s].stage = "no" ->
                   Show(app, Idle(s), Settle(s))
             [] op \in {"create", "addGenerate", "reveal"} /\ calls[s].stage = "ok" -> PhraseArrives(s)
             [] op \in {"import", "unlock", "doReset", "lock", "reset"} /\ calls[s].stage = "ok" ->
                   Reload(s, "refresh")
             [] op \in {"rename", "doRemove"} /\ calls[s].stage = "ok" -> Reload(s, "refreshOnly")
             [] op \in {"switch", "addImport"} /\ calls[s].stage = "ok" -> ReloadAndGoHome(s)

(* sendMessage rejects, or resolves with nothing: no worker, a closed port. *)
Break(s) ==
    /\ Breaks /\ calls[s] # Null
    /\ misled' = TRUE
    /\ UNCHANGED worker
    /\ Render(IF calls[s].op = "refresh" THEN [app EXCEPT !.known = Null, !.loadError = TRUE] ELSE app,
              Idle(s), Settle(s))

----------------------------------------------------------------------------
User ==
    \/ Navigate \/ Onboard \/ Manage \/ Backup
    \/ handleGenerate \/ handleAddAccount \/ handleImport \/ handleUnlock \/ reveal \/ doReset
    \/ switchTo \/ doRename \/ doRemove \/ LockWallet \/ ResetGate \/ Retry \/ finish

Next == User \/ AutoLock \/ \E s \in Slots : Serve(s) \/ Answer(s) \/ Break(s)

Spec == Init /\ [][Next]_vars

----------------------------------------------------------------------------
(* Properties. *)

(* A form's button is disabled exactly while its own request is under way: *)
(* whatever screens come and go in between, no form sends two requests at  *)
(* a time and none stays disabled by the request of another.               *)
OneRequestPerForm ==
    /\ local.busy = \E s \in Slots : \E op \in FormRequests : Waits(s, op)
    /\ \A s, t \in Slots, op, or \in FormRequests : Waits(s, op) /\ Waits(t, or) => s = t

Quiet == \A s \in Slots : calls[s] = Null

(* When nothing is under way, the popup shows the wallet and the active    *)
(* account as they are: every change it makes is read back, also when the  *)
(* screen that made it is gone.  The exceptions are an answer that is      *)
(* lost or overtaken, and a new account whose phrase was not confirmed.    *)
AgreesWhenQuiet ==
    Quiet /\ ~misled /\ local.secret = Null /\ app.known # Null =>
        /\ app.known.hasVault = (file # "none")
        /\ app.known.accounts = accounts /\ app.known.active = active

(* Who waits has something to wait for: while the popup loads, the state   *)
(* is being read, and while the list of accounts is disabled, one of its   *)
(* own requests is under way.                                              *)
WaitsForAnAnswer ==
    /\ Screen(app) = "loading" => \E s \in Slots : calls[s] # Null /\ calls[s].op = "refresh"
    /\ local.changing => \E s \in Slots, op \in ListRequests : Waits(s, op)
=============================================================================
