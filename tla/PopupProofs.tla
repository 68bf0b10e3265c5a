---------------------------- MODULE PopupProofs ----------------------------
(* What the popup never gets wrong, for any number of accounts and of      *)
(* requests in flight.                                                     *)
EXTENDS Popup, TLAPS

Apps ==
    [known : States \cup {Null}, loadError : BOOLEAN, corrupt : BOOLEAN,
     route : {"home", "accounts", "settings"}, onboarding : {"welcome", "import", "create"}]

Locals ==
    [view : {"top", "choose-add", "add-generate", "add-import", "reveal", "reset"},
     step : {"ask", "backup", "verify"}, busy : BOOLEAN, changing : BOOLEAN,
     secret : Ids \cup {Null}]

(***************************************************************************)
(* The inductive invariant.  Its parts take the state as parameters, for   *)
(* a step is a handler's new state (a, l, cs) and then a rendering of it.  *)
(***************************************************************************)

WorkerOK == file # "ours" => accounts = {} /\ active = Null

(* The views a screen has. *)
Views(screen) ==
    CASE screen = "accounts" -> {"top", "choose-add", "add-generate", "add-import"}
      [] screen = "settings" -> {"top", "reveal", "reset"}
      [] OTHER -> {"top"}

ViewOK == local.view \in Views(Screen(app))

(* A state that was read is one; only refreshState meets a broken file.    *)
StateIn(cs) ==
    \A s \in Slots : cs[s] # Null =>
        /\ cs[s].op = "refreshOnly" => cs[s].stage # "no"
        /\ cs[s].op \in {"refresh", "refreshOnly"} /\ cs[s].stage = "ok" => cs[s].state # Null

(* Over a broken file the popup knows nothing, and can ask for little.     *)
CorruptIn(a, l, cs) ==
    file = "corrupt" =>
        /\ a.known = Null /\ l.secret = Null
        /\ \A s \in Slots : cs[s] # Null => cs[s].op \in {"refresh", "reset"} /\ cs[s].stage # "ok"

Asks(c, ops) == c # Null /\ c.op \in ops /\ c.live

(* OneRequestPerForm. *)
OneIn(l, cs) ==
    /\ l.busy = \E s \in Slots : Asks(cs[s], FormRequests)
    /\ \A s, t \in Slots : Asks(cs[s], FormRequests) /\ Asks(cs[t], FormRequests) => s = t

(* WaitsForAnAnswer. *)
WaitIn(a, l, cs) ==
    /\ Screen(a) = "loading" => \E s \in Slots : cs[s] # Null /\ cs[s].op = "refresh"
    /\ l.changing => \E s \in Slots : Asks(cs[s], ListRequests)

(***************************************************************************)
(* AgreesWhenQuiet: whatever the popup shows that is not so, a request in  *)
(* flight will have it read the state again, or brings a phrase that the   *)
(* user is yet to confirm, or the popup was misled.                        *)
(***************************************************************************)
Agrees(a) ==
    a.known # Null =>
        /\ a.known.hasVault = (file # "none")
        /\ a.known.accounts = accounts /\ a.known.active = active

Rereads(c) ==
    /\ c # Null
    /\ \/ c.op \in {"refresh", "refreshOnly"}
       \/ c.stage = "ok" /\ c.op \notin {"create", "addGenerate", "reveal"}

BringsPhrase(c) == c # Null /\ c.stage = "ok" /\ c.op \in {"create", "addGenerate"}

WillAgree(a, l, cs) ==
    \/ Agrees(a)
    \/ \E s \in Slots : Rereads(cs[s])
    \/ active # Null /\ (PhraseShown(l) \/ \E s \in Slots : BringsPhrase(cs[s]))

Good(a, l, cs) ==
    /\ a \in Apps /\ l \in Locals /\ cs \in [Slots -> Calls \cup {Null}]
    /\ StateIn(cs) /\ CorruptIn(a, l, cs)
    /\ OneIn(l, cs) /\ WaitIn(a, l, cs)

Inv ==
    /\ TypeOK /\ WorkerOK /\ ViewOK
    /\ Good(app, local, calls)
    /\ misled \/ WillAgree(app, local, calls)

----------------------------------------------------------------------------
(* The operators. *)

LEMMA Screens ==
    ASSUME NEW a \in Apps
    PROVE  /\ Screen(a) = "loading" => ~a.corrupt /\ ~a.loadError /\ a.known = Null
           /\ a.known = Null => Screen(a) \in {"corrupt", "error", "loading"}
           /\ Screen(a) \in {"accounts", "settings"} => a.route = Screen(a) /\ a.known \in States
           /\ Screen(a) \in {"corrupt", "error", "loading", "foreign", "welcome", "import",
                             "create", "locked", "home", "accounts", "settings"}
<1> USE DEF Apps, States
<1>1. CASE a.corrupt
  BY <1>1 DEF Screen
<1>2. CASE ~a.corrupt /\ a.loadError
  BY <1>2 DEF Screen
<1>3. CASE ~a.corrupt /\ ~a.loadError /\ a.known = Null
  BY <1>3 DEF Screen
<1>4. CASE ~a.corrupt /\ ~a.loadError /\ a.known # Null
  BY <1>4 DEF Screen
<1> QED BY <1>1, <1>2, <1>3, <1>4

(* Two mounted forms of the same name are the same form. *)
LEMMA Forms ==
    ASSUME NEW a \in Apps, NEW b \in Apps, NEW l \in Locals, NEW m \in Locals,
           m.view \in Views(Screen(b)),
           a.route = b.route \/ l.view = "top" \/ a.route = "home",
           l.view = m.view \/ Screen(b) \in {"accounts", "settings"},
           Form(a, l) = Form(b, m)
    PROVE  Screen(a) = Screen(b) /\ l.view = m.view
<1>1. /\ Screen(a) \in {"accounts", "settings"} => a.route = Screen(a)
      /\ Screen(b) \in {"accounts", "settings"} => b.route = Screen(b)
      /\ {Screen(a), Screen(b)} \subseteq
            {"corrupt", "error", "loading", "foreign", "welcome", "import",
             "create", "locked", "home", "accounts", "settings"}
  BY Screens
<1>2. /\ l.view \in {"top", "choose-add", "add-generate", "add-import", "reveal", "reset"}
      /\ m.view \in {"top", "choose-add", "add-generate", "add-import", "reveal", "reset"}
  BY DEF Locals
<1> QED BY <1>1, <1>2 DEF Form, Views

(* A rendering may orphan requests and reset a form; else it leaves both.  *)
LEMMA RenderShape ==
    ASSUME NEW a, NEW l, NEW cs \in [Slots -> Calls \cup {Null}], Render(a, l, cs)
    PROVE  /\ app' = a
           /\ calls' \in [Slots -> Calls \cup {Null}]
           /\ \A s \in Slots :
                 /\ calls'[s] = Null <=> cs[s] = Null
                 /\ cs[s] # Null => /\ calls'[s].op = cs[s].op /\ calls'[s].stage = cs[s].stage
                                    /\ calls'[s].state = cs[s].state
                                    /\ calls'[s].live => cs[s].live
           /\ \/ local' = l /\ calls' = cs
              \/ /\ local' = Fresh \/ local' = [Fresh EXCEPT !.view = l.view, !.changing = l.changing]
                 /\ \A s \in Slots : ~Asks(calls'[s], FormRequests)
           /\ \/ local' = Fresh
              \/ /\ Screen(a) = Screen(app)
                 /\ local'.view = l.view /\ local'.changing = l.changing
                 /\ \A s \in Slots : Asks(cs[s], ListRequests) => Asks(calls'[s], ListRequests)
           /\ Screen(a) = Screen(app) /\ l.view = local.view => local' = l
<1>1. ASSUME NEW ops \in {Requests, FormRequests}, calls' = Orphaned(cs, ops)
      PROVE  /\ calls' \in [Slots -> Calls \cup {Null}]
             /\ \A s \in Slots :
                   /\ calls'[s] = Null <=> cs[s] = Null
                   /\ cs[s] # Null => /\ calls'[s].op = cs[s].op /\ calls'[s].stage = cs[s].stage
                                      /\ calls'[s].state = cs[s].state
                                      /\ calls'[s].live => cs[s].live
             /\ \A s \in Slots : ~Asks(calls'[s], FormRequests)
             /\ ops = FormRequests =>
                   \A s \in Slots : Asks(cs[s], ListRequests) => Asks(calls'[s], ListRequests)
  <2>1. calls' = [s \in Slots |-> IF cs[s] # Null /\ cs[s].op \in ops
                                  THEN [cs[s] EXCEPT !.live = FALSE] ELSE cs[s]]
    BY <1>1 DEF Orphaned
  <2>2. \A s \in Slots : cs[s] # Null => cs[s] \in Calls
    OBVIOUS
  <2>3. ASSUME NEW c \in Calls
        PROVE  /\ [c EXCEPT !.live = FALSE] \in Calls
               /\ [c EXCEPT !.live = FALSE].op = c.op
               /\ [c EXCEPT !.live = FALSE].stage = c.stage
               /\ [c EXCEPT !.live = FALSE].state = c.state
               /\ ~[c EXCEPT !.live = FALSE].live
    BY DEF Calls
  <2>4. Null \notin Calls
    BY NullAssumption
  <2>5. ASSUME NEW s \in Slots, cs[s] # Null, cs[s].op \in ops
        PROVE  calls'[s] = [cs[s] EXCEPT !.live = FALSE]
    BY <2>1, <2>5
  <2>6. ASSUME NEW s \in Slots, ~(cs[s] # Null /\ cs[s].op \in ops)
        PROVE  calls'[s] = cs[s]
    BY <2>1, <2>6
  <2>7. FormRequests \subseteq ops /\ FormRequests \cap ListRequests = {}
    BY DEF FormRequests, ListRequests, Requests
  <2>8. ASSUME NEW s \in Slots
        PROVE  /\ calls'[s] \in Calls \cup {Null}
               /\ calls'[s] = Null <=> cs[s] = Null
               /\ cs[s] # Null => /\ calls'[s].op = cs[s].op /\ calls'[s].stage = cs[s].stage
                                  /\ calls'[s].state = cs[s].state
                                  /\ calls'[s].live => cs[s].live
    <3>1. CASE cs[s] # Null /\ cs[s].op \in ops
      <4>1. cs[s] \in Calls /\ calls'[s] = [cs[s] EXCEPT !.live = FALSE]
        BY <3>1, <2>2, <2>5
      <4>2. /\ calls'[s] \in Calls /\ calls'[s].op = cs[s].op /\ calls'[s].stage = cs[s].stage
            /\ calls'[s].state = cs[s].state /\ ~calls'[s].live
        BY <4>1, <2>3
      <4> QED BY <3>1, <4>2, <2>4
    <3>2. CASE ~(cs[s] # Null /\ cs[s].op \in ops)
      BY <3>2, <2>6
    <3> QED BY <3>1, <3>2
  <2>9. ASSUME NEW s \in Slots
        PROVE  ~Asks(calls'[s], FormRequests)
    <3>1. CASE cs[s] # Null /\ cs[s].op \in ops
      BY <3>1, <2>2, <2>3, <2>5 DEF Asks
    <3>2. CASE ~(cs[s] # Null /\ cs[s].op \in ops)
      BY <3>2, <2>6, <2>7 DEF Asks
    <3> QED BY <3>1, <3>2
  <2>10. ASSUME ops = FormRequests, NEW s \in Slots, Asks(cs[s], ListRequests)
         PROVE  Asks(calls'[s], ListRequests)
    BY <2>10, <2>6, <2>7 DEF Asks
  <2>11. calls' \in [Slots -> Calls \cup {Null}]
    BY <2>1, <2>8
  <2> QED BY <2>8, <2>9, <2>10, <2>11
<1>2. CASE Screen(a) # Screen(app)
  <2>1. app' = a /\ local' = Fresh /\ calls' = Orphaned(cs, Requests)
    BY <1>2 DEF Render
  <2> QED BY <1>1, <1>2, <2>1
<1>3. CASE Screen(a) = Screen(app) /\ l.view # local.view
  <2>1. /\ app' = a /\ calls' = Orphaned(cs, FormRequests)
        /\ local' = [Fresh EXCEPT !.view = l.view, !.changing = l.changing]
    BY <1>3 DEF Render
  <2>2. local'.view = l.view /\ local'.changing = l.changing
    BY <2>1 DEF Fresh
  <2> QED BY <1>1, <1>3, <2>1, <2>2
<1>4. CASE Screen(a) = Screen(app) /\ l.view = local.view
  <2>1. app' = a /\ local' = l /\ calls' = cs
    BY <1>4 DEF Render
  <2> QED BY <1>4, <2>1
<1> QED BY <1>2, <1>3, <1>4

LEMMA FreshFacts ==
    /\ Fresh.view = "top" /\ Fresh.step = "ask" /\ Fresh.busy = FALSE
    /\ Fresh.changing = FALSE /\ Fresh.secret = Null
    /\ Fresh \in Locals
    /\ \A l \in Locals :
          LET f == [Fresh EXCEPT !.view = l.view, !.changing = l.changing]
          IN  /\ f \in Locals /\ f.view = l.view /\ f.step = "ask" /\ f.busy = FALSE
              /\ f.changing = l.changing /\ f.secret = Null
BY DEF Fresh, Locals

(* The invariant outlives a rendering, if a phrase on screen stays there,  *)
(* or the popup was misled or shows what is so.                            *)
LEMMA Rendered ==
    ASSUME Inv, NEW a, NEW l, NEW cs, Good(a, l, cs), l.view \in Views(Screen(app)),
           Render(a, l, cs), UNCHANGED worker, misled' \in BOOLEAN,
           misled' \/ Agrees(a) \/ (WillAgree(a, l, cs) /\ (PhraseShown(l) => local' = l))
    PROVE  Inv'
<1> /\ a \in Apps /\ l \in Locals /\ cs \in [Slots -> Calls \cup {Null}]
    /\ StateIn(cs) /\ CorruptIn(a, l, cs) /\ OneIn(l, cs) /\ WaitIn(a, l, cs)
  BY DEF Good
<1>1. /\ app' = a
      /\ calls' \in [Slots -> Calls \cup {Null}]
      /\ \A s \in Slots :
            /\ calls'[s] = Null <=> cs[s] = Null
            /\ cs[s] # Null => /\ calls'[s].op = cs[s].op /\ calls'[s].stage = cs[s].stage
                               /\ calls'[s].state = cs[s].state
                               /\ calls'[s].live => cs[s].live
      /\ \/ local' = l /\ calls' = cs
         \/ /\ local' = Fresh \/ local' = [Fresh EXCEPT !.view = l.view, !.changing = l.changing]
            /\ \A s \in Slots : ~Asks(calls'[s], FormRequests)
      /\ \/ local' = Fresh
         \/ /\ Screen(a) = Screen(app)
            /\ local'.view = l.view /\ local'.changing = l.changing
            /\ \A s \in Slots : Asks(cs[s], ListRequests) => Asks(calls'[s], ListRequests)
  BY RenderShape
<1>2. file' = file /\ accounts' = accounts /\ active' = active /\ locked' = locked
  BY DEF worker
<1>3. /\ local' \in Locals
      /\ local'.secret = l.secret \/ local'.secret = Null
      /\ local' = Fresh => local'.view = "top" /\ local'.changing = FALSE
      /\ local' # l \/ calls' # cs => local'.busy = FALSE
  BY <1>1, FreshFacts
<1>4. (TypeOK /\ WorkerOK)'
  BY <1>1, <1>2, <1>3 DEF Inv, TypeOK, WorkerOK, Apps, Locals
<1>5. ViewOK'
  BY <1>1, <1>3 DEF ViewOK, Views, Screen
<1>6. StateIn(calls)'
  BY <1>1 DEF StateIn
<1>7. CorruptIn(app, local, calls)'
  BY <1>1, <1>2, <1>3 DEF CorruptIn
<1>8. OneIn(local, calls)'
  BY <1>1, <1>3, FreshFacts DEF OneIn
<1>9. WaitIn(app, local, calls)'
  <2>1. Screen(app') = "loading" => \E s \in Slots : calls'[s] # Null /\ calls'[s].op = "refresh"
    BY <1>1 DEF WaitIn
  <2>2. local'.changing => \E s \in Slots : Asks(calls'[s], ListRequests)
    BY <1>1, <1>3 DEF WaitIn
  <2> QED BY <2>1, <2>2 DEF WaitIn
<1>10. Good(app, local, calls)'
  <2>1. (app \in Apps /\ local \in Locals /\ calls \in [Slots -> Calls \cup {Null}])'
    BY <1>1, <1>3 DEF Apps, Locals, States, Calls
  <2> QED BY <1>6, <1>7, <1>8, <1>9, <2>1 DEF Good
<1>11. misled' \/ WillAgree(app, local, calls)'
  <2>1. SUFFICES ASSUME WillAgree(a, l, cs), Agrees(a) \/ (PhraseShown(l) => local' = l)
                 PROVE  WillAgree(app, local, calls)'
    BY DEF WillAgree
  <2>2. CASE Agrees(a)
    BY <2>2, <1>1, <1>2 DEF Agrees, WillAgree
  <2>3. CASE \E s \in Slots : Rereads(cs[s])
    BY <2>3, <1>1 DEF Rereads, WillAgree
  <2>4. CASE active # Null /\ PhraseShown(l) /\ ~Agrees(a)
    BY <2>1, <2>4, <1>2 DEF PhraseShown, WillAgree
  <2>5. CASE active # Null /\ \E s \in Slots : BringsPhrase(cs[s])
    BY <2>5, <1>1, <1>2 DEF BringsPhrase, WillAgree
  <2> QED BY <2>1, <2>2, <2>3, <2>4, <2>5 DEF WillAgree
<1> QED BY <1>4, <1>5, <1>10, <1>11 DEF Inv

LEMMA Shown ==
    ASSUME Inv, NEW a, NEW l, NEW cs, Good(a, l, cs), l.view \in Views(Screen(app)),
           a.route = app.route \/ l.view = "top" \/ a.route = "home",
           l.view = local.view \/ Screen(app) \in {"accounts", "settings"},
           Show(a, l, cs), UNCHANGED worker, misled \/ WillAgree(a, l, cs)
    PROVE  Inv'
<1>1. /\ Render(a, l, cs)
      /\ misled' = (misled \/ (Form(a, l) # Form(app, local) /\ PhraseShown(l)))
  BY DEF Show
<1>2. misled' \in BOOLEAN
  BY <1>1
<1>3. a \in Apps /\ l \in Locals /\ app \in Apps /\ local \in Locals
  BY DEF Inv, Good
<1>4. ASSUME ~misled', PhraseShown(l)
      PROVE  local' = l
  <2>1. Form(a, l) = Form(app, local)
    BY <1>1, <1>4
  <2>2. Screen(a) = Screen(app) /\ l.view = local.view
    BY <1>3, <2>1, Forms DEF Inv, ViewOK
  <2> QED BY <1>1, <2>2 DEF Render
<1>5. misled' \/ (WillAgree(a, l, cs) /\ (PhraseShown(l) => local' = l))
  BY <1>1, <1>4
<1> QED BY <1>1, <1>2, <1>5, Rendered

----------------------------------------------------------------------------
(* The user. *)

(* A step of the user that asks nothing of the worker. *)
LEMMA Gone ==
    ASSUME Inv, NEW a \in Apps, NEW l \in Locals, Go(a, l),
           a.known = app.known, a.loadError = app.loadError, a.corrupt = app.corrupt,
           a.route = app.route \/ l.view = "top",
           l.view \in Views(Screen(app)),
           l.view = local.view \/ Screen(app) \in {"accounts", "settings"},
           l.busy = local.busy, l.changing = local.changing, l.secret = local.secret,
           local.step # "ask" => l.step # "ask"
    PROVE  Inv'
<1>1. app \in Apps /\ local \in Locals /\ calls \in [Slots -> Calls \cup {Null}]
  BY DEF Inv, Good
<1>2. Screen(a) = "loading" => Screen(app) = "loading"
  <2>1. Screen(a) = "loading" => ~app.corrupt /\ ~app.loadError /\ app.known = Null
    BY Screens
  <2> QED BY <1>1, <2>1 DEF Screen
<1>3. Good(a, l, calls)
  <2>1. CorruptIn(a, l, calls)
    BY DEF Inv, Good, CorruptIn
  <2>2. OneIn(l, calls)
    BY DEF Inv, Good, OneIn
  <2>3. WaitIn(a, l, calls)
    BY <1>2 DEF Inv, Good, WaitIn
  <2> QED BY <1>1, <2>1, <2>2, <2>3 DEF Inv, Good
<1>4. misled \/ WillAgree(a, l, calls)
  <2>1. Agrees(app) => Agrees(a)
    BY DEF Agrees
  <2>2. PhraseShown(local) => PhraseShown(l)
    BY DEF PhraseShown
  <2> QED BY <2>1, <2>2 DEF Inv, WillAgree
<1> QED BY <1>3, <1>4, Shown DEF Go

LEMMA AskIs ==
    ASSUME NEW op \in Requests, NEW arg \in Ids \cup {Null}
    PROVE  /\ Ask(op, arg) \in Calls /\ Ask(op, arg) # Null
           /\ Ask(op, arg).op = op /\ Ask(op, arg).live /\ Ask(op, arg).stage = "asked"
<1>1. Ask(op, arg) \in Calls
  BY DEF Ask, Calls
<1> QED BY <1>1, NullAssumption DEF Ask

(* A request of the user.  No form asks while it waits. *)
LEMMA Asked ==
    ASSUME Inv, NEW op \in Requests, NEW arg \in Ids \cup {Null},
           NEW a \in Apps, NEW l \in Locals, NEW s \in Slots, calls[s] = Null,
           Show(a, l, [calls EXCEPT ![s] = Ask(op, arg)]), UNCHANGED worker,
           a.known = app.known,
           op = "refresh" \/ (a.loadError = app.loadError /\ a.corrupt = app.corrupt),
           a.route \in {app.route, "home"},
           l.view = local.view, l.step = local.step,
           IF op \in FormRequests THEN ~local.busy /\ l.busy ELSE l.busy = local.busy,
           op \in ListRequests \/ l.changing = local.changing,
           l.secret = local.secret \/ (l.secret = Null /\ op \in {"refresh", "refreshOnly"}),
           file = "corrupt" => op \in {"refresh", "reset"}
    PROVE  Inv'
<1> DEFINE cs == [calls EXCEPT ![s] = Ask(op, arg)]
<1>1. app \in Apps /\ local \in Locals /\ calls \in [Slots -> Calls \cup {Null}]
  BY DEF Inv, Good
<1>2. /\ Ask(op, arg) \in Calls /\ Ask(op, arg) # Null
      /\ Ask(op, arg).op = op /\ Ask(op, arg).live /\ Ask(op, arg).stage = "asked"
  BY AskIs
<1>3. /\ cs \in [Slots -> Calls \cup {Null}] /\ cs[s] = Ask(op, arg)
      /\ \A t \in Slots : t # s => cs[t] = calls[t]
  BY <1>1, <1>2
<1> HIDE DEF cs
<1>4. StateIn(cs)
  BY <1>2, <1>3 DEF Inv, Good, StateIn
<1>5. CorruptIn(a, l, cs)
  BY <1>2, <1>3 DEF Inv, Good, CorruptIn
<1>6. OneIn(l, cs)
  <2>1. ~Asks(calls[s], FormRequests)
    BY DEF Asks
  <2>2. \A t \in Slots : t # s => cs[t] = calls[t]
    BY <1>3
  <2>3. CASE op \in FormRequests
    <3>1. \A t \in Slots : ~Asks(calls[t], FormRequests)
      BY <2>3 DEF Inv, Good, OneIn
    <3>2. Asks(cs[s], FormRequests) /\ \A t \in Slots : Asks(cs[t], FormRequests) => t = s
      BY <1>2, <1>3, <2>3, <3>1 DEF Asks
    <3>3. l.busy = TRUE
      BY <2>3 DEF Locals
    <3> QED BY <3>2, <3>3 DEF OneIn
  <2>4. CASE op \notin FormRequests
    <3>1. ~Asks(cs[s], FormRequests)
      BY <1>2, <1>3, <2>4 DEF Asks
    <3>2. \A t \in Slots : Asks(cs[t], FormRequests) <=> Asks(calls[t], FormRequests)
      BY <2>1, <2>2, <3>1
    <3>3. l.busy = local.busy
      BY <2>4
    <3> QED BY <3>2, <3>3 DEF Inv, Good, OneIn
  <2> QED BY <2>3, <2>4
<1>7. WaitIn(a, l, cs)
  <2>1. ASSUME Screen(a) = "loading"
        PROVE  \E t \in Slots : cs[t] # Null /\ cs[t].op = "refresh"
    <3>1. CASE op = "refresh"
      BY <3>1, <1>2, <1>3
    <3>2. CASE op # "refresh"
      <4>1. ~app.corrupt /\ ~app.loadError /\ app.known = Null
        BY <2>1, <3>2, Screens
      <4>2. Screen(app) = "loading"
        BY <1>1, <4>1 DEF Screen
      <4>3. PICK t \in Slots : calls[t] # Null /\ calls[t].op = "refresh"
        BY <4>2 DEF Inv, Good, WaitIn
      <4> QED BY <4>3, <1>3
    <3> QED BY <3>1, <3>2
  <2>2. ASSUME l.changing
        PROVE  \E t \in Slots : Asks(cs[t], ListRequests)
    <3>1. CASE op \in ListRequests
      BY <3>1, <1>2, <1>3 DEF Asks
    <3>2. CASE op \notin ListRequests
      <4>1. PICK t \in Slots : Asks(calls[t], ListRequests)
        BY <2>2, <3>2 DEF Inv, Good, WaitIn
      <4>2. t # s
        BY <4>1 DEF Asks
      <4> QED BY <4>1, <4>2, <1>3
    <3> QED BY <3>1, <3>2
  <2> QED BY <2>1, <2>2 DEF WaitIn
<1>8. Good(a, l, cs)
  BY <1>3, <1>4, <1>5, <1>6, <1>7 DEF Good
<1>9. misled \/ WillAgree(a, l, cs)
  <2>1. CASE op \in {"refresh", "refreshOnly"}
    BY <2>1, <1>2, <1>3 DEF Rereads, WillAgree
  <2>2. CASE op \notin {"refresh", "refreshOnly"}
    <3>1. Agrees(app) => Agrees(a)
      BY DEF Agrees
    <3>2. PhraseShown(local) => PhraseShown(l)
      BY <2>2 DEF PhraseShown
    <3>3. \A t \in Slots : /\ Rereads(calls[t]) => Rereads(cs[t])
                           /\ BringsPhrase(calls[t]) => BringsPhrase(cs[t])
      BY <1>3 DEF Rereads, BringsPhrase
    <3> QED BY <3>1, <3>2, <3>3 DEF Inv, WillAgree
  <2> QED BY <2>1, <2>2
<1>10. l.view \in Views(Screen(app)) /\ Show(a, l, cs)
  BY DEF Inv, ViewOK, cs
<1>11. a.route = app.route \/ l.view = "top" \/ a.route = "home"
  OBVIOUS
<1> QED BY <1>8, <1>9, <1>10, <1>11, Shown

LEMMA RouteSet ==
    ASSUME NEW a \in Apps, NEW r \in {"home", "accounts", "settings"}, NEW b, b = [a EXCEPT !.route = r]
    PROVE  /\ b \in Apps /\ b.route = r /\ b.known = a.known
           /\ b.loadError = a.loadError /\ b.corrupt = a.corrupt
BY DEF Apps

LEMMA OnboardingSet ==
    ASSUME NEW a \in Apps, NEW o \in {"welcome", "import", "create"}, NEW b, b = [a EXCEPT !.onboarding = o]
    PROVE  /\ b \in Apps /\ b.route = a.route /\ b.known = a.known
           /\ b.loadError = a.loadError /\ b.corrupt = a.corrupt
BY DEF Apps

LEMMA ViewSet ==
    ASSUME NEW l \in Locals,
           NEW v \in {"top", "choose-add", "add-generate", "add-import", "reveal", "reset"},
           NEW m, m = [l EXCEPT !.view = v]
    PROVE  /\ m \in Locals /\ m.view = v /\ m.step = l.step /\ m.busy = l.busy
           /\ m.changing = l.changing /\ m.secret = l.secret
BY DEF Locals

LEMMA StepSet ==
    ASSUME NEW l \in Locals, NEW v \in {"ask", "backup", "verify"}, NEW m, m = [l EXCEPT !.step = v]
    PROVE  /\ m \in Locals /\ m.view = l.view /\ m.step = v /\ m.busy = l.busy
           /\ m.changing = l.changing /\ m.secret = l.secret
BY DEF Locals

LEMMA BusySet ==
    ASSUME NEW l \in Locals, NEW v \in BOOLEAN, NEW m, m = [l EXCEPT !.busy = v]
    PROVE  /\ m \in Locals /\ m.view = l.view /\ m.step = l.step /\ m.busy = v
           /\ m.changing = l.changing /\ m.secret = l.secret
BY DEF Locals

LEMMA ChangingSet ==
    ASSUME NEW l \in Locals, NEW v \in BOOLEAN, NEW m, m = [l EXCEPT !.changing = v]
    PROVE  /\ m \in Locals /\ m.view = l.view /\ m.step = l.step /\ m.busy = l.busy
           /\ m.changing = v /\ m.secret = l.secret
BY DEF Locals

LEMMA SecretWiped ==
    ASSUME NEW l \in Locals, NEW m, m = [l EXCEPT !.secret = Null]
    PROVE  /\ m \in Locals /\ m.view = l.view /\ m.step = l.step /\ m.busy = l.busy
           /\ m.changing = l.changing /\ m.secret = Null
BY DEF Locals

LEMMA ClearedIs ==
    ASSUME app \in Apps, NEW op \in Requests
    PROVE  /\ Cleared(op) \in Apps /\ Cleared(op).known = app.known /\ Cleared(op).route = app.route
           /\ op # "refresh" => Cleared(op) = app
BY DEF Cleared, Apps

LEMMA Sends ==
    ASSUME Inv, NEW op \in Requests, NEW arg \in Ids \cup {Null}, NEW l \in Locals,
           Send(op, arg, l),
           l.view = local.view, l.step = local.step, l.secret = local.secret,
           IF op \in FormRequests THEN ~local.busy /\ l.busy ELSE l.busy = local.busy,
           op \in ListRequests \/ l.changing = local.changing,
           file = "corrupt" => op \in {"refresh", "reset"}
    PROVE  Inv'
<1>1. PICK s \in Slots : calls[s] = Null /\ Show(Cleared(op), l, [calls EXCEPT ![s] = Ask(op, arg)])
  BY DEF Send
<1>2. UNCHANGED worker
  BY DEF Send
<1>3. /\ Cleared(op) \in Apps /\ Cleared(op).known = app.known /\ Cleared(op).route = app.route
      /\ op # "refresh" => Cleared(op) = app
  BY ClearedIs DEF Inv, Good
<1> QED BY <1>1, <1>2, <1>3, Asked

(* Over a broken file the popup shows that, or that it is loading. *)
LEMMA CorruptScreen ==
    ASSUME Inv, file = "corrupt"
    PROVE  Screen(app) \in {"corrupt", "error", "loading"} /\ app.known = Null /\ local.secret = Null
BY Screens DEF Inv, Good, CorruptIn

LEMMA Submits ==
    ASSUME Inv, NEW op \in FormRequests, NEW arg \in Ids \cup {Null},
           NEW form \in {"create", "add-generate", "import", "add-import", "locked", "reveal", "reset"},
           Submit(form, op, arg)
    PROVE  Inv'
<1> DEFINE l == [local EXCEPT !.busy = TRUE]
<1>1. Form(app, local) = form /\ ~local.busy /\ Send(op, arg, l)
  BY DEF Submit
<1>2. /\ l \in Locals /\ l.view = local.view /\ l.step = local.step /\ l.busy
      /\ l.changing = local.changing /\ l.secret = local.secret
  BY BusySet DEF Inv, Good
<1> HIDE DEF l
<1>3. file # "corrupt"
  BY <1>1, CorruptScreen DEF Form
<1>4. op \in Requests
  BY DEF Requests
<1> QED BY <1>1, <1>2, <1>3, <1>4, Sends

LEMMA UserKeeps == Inv /\ User => Inv'
<1> SUFFICES ASSUME Inv, User PROVE Inv'
  OBVIOUS
<1>1. app \in Apps /\ local \in Locals /\ local.view \in Views(Screen(app))
  BY DEF Inv, Good, ViewOK
<1>2. ASSUME NEW r \in {"home", "accounts", "settings"}, Go([app EXCEPT !.route = r], local),
             local.view = "top"
      PROVE  Inv'
  <2> DEFINE a == [app EXCEPT !.route = r]
  <2>1. /\ a \in Apps /\ a.route = r /\ a.known = app.known
        /\ a.loadError = app.loadError /\ a.corrupt = app.corrupt
    BY <1>1, RouteSet
  <2>2. Go(a, local)
    BY <1>2
  <2> HIDE DEF a
  <2> QED BY <1>1, <1>2, <2>1, <2>2, Gone
<1>3. ASSUME NEW v \in {"top", "choose-add", "add-generate", "add-import", "reveal", "reset"},
             View(v), v \in Views(Screen(app)), Screen(app) \in {"accounts", "settings"}
      PROVE  Inv'
  <2> DEFINE l == [local EXCEPT !.view = v]
  <2>1. Go(app, l)
    BY <1>3 DEF View
  <2>2. /\ l \in Locals /\ l.view = v /\ l.step = local.step /\ l.busy = local.busy
        /\ l.changing = local.changing /\ l.secret = local.secret
    BY <1>1, ViewSet
  <2> HIDE DEF l
  <2> QED BY <1>1, <1>3, <2>1, <2>2, Gone
<1>4. At("home") => local.view = "top"
  BY <1>1 DEF At, Views
<1>5. /\ Screen(app) = "accounts" =>
            Views(Screen(app)) = {"top", "choose-add", "add-generate", "add-import"}
      /\ Screen(app) = "settings" => Views(Screen(app)) = {"top", "reveal", "reset"}
      /\ Screen(app) \notin {"accounts", "settings"} => Views(Screen(app)) = {"top"}
  BY DEF Views
<1>6. file = "corrupt" => Screen(app) \in {"corrupt", "error", "loading"} /\ local.secret = Null
  BY CorruptScreen
<1>7. /\ FormRequests \cup ListRequests \cup {"lock", "reset", "refresh", "refreshOnly"} = Requests
      /\ FormRequests \cap ListRequests = {}
      /\ {"lock", "reset", "refresh", "refreshOnly"} \cap (FormRequests \cup ListRequests) = {}
  BY DEF Requests, FormRequests, ListRequests
<1>8. CASE Navigate
  <2>1. CASE At("home") /\ \E r \in {"accounts", "settings"} : Go([app EXCEPT !.route = r], local)
    BY <2>1, <1>2, <1>4
  <2>2. CASE At("settings") /\ local.view = "top"
             /\ \E r \in {"home", "accounts"} : Go([app EXCEPT !.route = r], local)
    BY <2>2, <1>2
  <2>3. CASE At("accounts") /\ local.view = "top" /\ Go([app EXCEPT !.route = "home"], local)
    BY <2>3, <1>2
  <2> QED BY <1>8, <2>1, <2>2, <2>3 DEF Navigate
<1>9. CASE Onboard
  <2>1. PICK o \in {"welcome", "import", "create"} : Go([app EXCEPT !.onboarding = o], local)
    BY <1>9 DEF Onboard
  <2> DEFINE a == [app EXCEPT !.onboarding = o]
  <2>2. /\ a \in Apps /\ a.route = app.route /\ a.known = app.known
        /\ a.loadError = app.loadError /\ a.corrupt = app.corrupt
    BY <1>1, OnboardingSet
  <2>3. Go(a, local)
    BY <2>1
  <2> HIDE DEF a
  <2> QED BY <1>1, <2>2, <2>3, Gone
<1>10. CASE Manage
  <2>1. CASE At("accounts") /\ local.view = "top" /\ View("choose-add")
    BY <2>1, <1>3, <1>5 DEF At
  <2>2. CASE local.view = "choose-add" /\ \E v \in {"top", "add-generate", "add-import"} : View(v)
    BY <2>2, <1>1, <1>3, <1>5
  <2>3. CASE local.view = "add-import" /\ View("top")
    BY <2>3, <1>1, <1>3, <1>5
  <2>4. CASE local.view = "add-generate" /\ local.step # "verify" /\ View("top")
    BY <2>4, <1>1, <1>3, <1>5
  <2>5. CASE At("settings") /\ local.view = "top" /\ \E v \in {"reveal", "reset"} : View(v)
    BY <2>5, <1>3, <1>5 DEF At
  <2>6. CASE local.view \in {"reveal", "reset"} /\ View("top")
    BY <2>6, <1>1, <1>3, <1>5
  <2> QED BY <1>10, <2>1, <2>2, <2>3, <2>4, <2>5, <2>6 DEF Manage
<1>11. CASE Backup
  <2>1. PICK p \in {"backup", "verify"} : Go(app, [local EXCEPT !.step = p])
    BY <1>11 DEF Backup
  <2> DEFINE l == [local EXCEPT !.step = p]
  <2>2. /\ l \in Locals /\ l.view = local.view /\ l.step = p /\ l.busy = local.busy
        /\ l.changing = local.changing /\ l.secret = local.secret
    BY <1>1, StepSet
  <2>3. Go(app, l)
    BY <2>1
  <2> HIDE DEF l
  <2> QED BY <1>1, <2>1, <2>2, <2>3, Gone
<1>12. CASE handleGenerate \/ handleAddAccount \/ handleImport \/ handleUnlock \/ reveal
  BY <1>12, Submits
  DEF handleGenerate, handleAddAccount, handleImport, handleUnlock, reveal, FormRequests
<1>13. CASE doReset
  <2>1. app.known \in States /\ app.known.active \in Ids \cup {Null}
    BY <1>1, <1>13 DEF doReset, Apps, States
  <2> QED BY <1>13, <2>1, Submits DEF doReset, FormRequests
<1>14. CASE switchTo \/ doRename \/ doRemove
  <2>1. InList /\ local.view = "top"
    BY <1>14 DEF switchTo, doRename, doRemove, InList
  <2>2. app.known \in States /\ app.known.accounts \subseteq Ids
    BY <1>1, <2>1, Screens DEF InList, At, States
  <2>3. file # "corrupt"
    BY <1>6, <2>1 DEF InList, At
  <2>4. \/ Go([app EXCEPT !.route = "home"], local)
        \/ \E op \in ListRequests, arg \in Ids \cup {Null} :
              Send(op, arg, [local EXCEPT !.changing = TRUE])
    BY <1>14, <2>2 DEF switchTo, doRename, doRemove, ListRequests
  <2>5. ASSUME NEW op \in ListRequests, NEW arg \in Ids \cup {Null},
               Send(op, arg, [local EXCEPT !.changing = TRUE])
        PROVE  Inv'
    <3> DEFINE l == [local EXCEPT !.changing = TRUE]
    <3>1. /\ l \in Locals /\ l.view = local.view /\ l.step = local.step /\ l.busy = local.busy
          /\ l.secret = local.secret
      BY <1>1, ChangingSet
    <3>2. Send(op, arg, l)
      BY <2>5
    <3> HIDE DEF l
    <3> QED BY <1>7, <2>3, <3>1, <3>2, Sends
  <2> QED BY <1>2, <2>1, <2>4, <2>5
<1>15. CASE LockWallet \/ ResetGate \/ Retry
  <2>1. PICK op \in {"lock", "reset", "refresh"} :
           Send(op, Null, local) /\ (op = "lock" => At("settings"))
    BY <1>15 DEF LockWallet, ResetGate, Retry
  <2>2. file = "corrupt" => op \in {"refresh", "reset"}
    BY <1>6, <2>1 DEF At
  <2> QED BY <1>1, <1>7, <2>1, <2>2, Sends
<1>16. CASE finish
  <2> DEFINE op == IF At("create") THEN "refresh" ELSE "refreshOnly"
             a  == IF At("create") THEN Cleared(op) ELSE [app EXCEPT !.route = "home"]
             l  == [local EXCEPT !.secret = Null]
  <2>1. PICK s \in Slots : calls[s] = Null /\ Show(a, l, [calls EXCEPT ![s] = Ask(op, Null)])
    BY <1>16 DEF finish
  <2>2. UNCHANGED worker /\ file # "corrupt"
    BY <1>6, <1>16 DEF finish
  <2>3. op \in {"refresh", "refreshOnly"} /\ op \in Requests /\ op \notin FormRequests
    BY <1>7
  <2>4. /\ a \in Apps /\ a.known = app.known /\ a.route \in {app.route, "home"}
        /\ op = "refresh" \/ (a.loadError = app.loadError /\ a.corrupt = app.corrupt)
    <3>1. CASE At("create")
      BY <1>1, <1>7, <3>1, ClearedIs
    <3>2. CASE ~At("create")
      BY <1>1, <3>2, RouteSet
    <3> QED BY <3>1, <3>2
  <2>5. /\ l \in Locals /\ l.view = local.view /\ l.step = local.step /\ l.busy = local.busy
        /\ l.changing = local.changing /\ l.secret = Null
    BY <1>1, SecretWiped
  <2> HIDE DEF op, a, l
  <2> QED BY <2>1, <2>2, <2>3, <2>4, <2>5, Asked
<1> QED BY <1>8, <1>9, <1>10, <1>11, <1>12, <1>13, <1>14, <1>15, <1>16 DEF User

----------------------------------------------------------------------------
(* The worker. *)

LEMMA EffectIs ==
    ASSUME TypeOK, WorkerOK, NEW op \in Requests, NEW arg \in Ids \cup {Null}, Effect(op, arg)
    PROVE  /\ file' \in {"none", "corrupt", "foreign", "ours"}
           /\ accounts' \in SUBSET Ids /\ active' \in Ids \cup {Null} /\ locked' \in BOOLEAN
           /\ file' = "ours" <=> active' \in accounts'
           /\ WorkerOK'
           /\ file' = "corrupt" => file = "corrupt" /\ op \notin {"refresh", "reset"}
           /\ op \in {"create", "addGenerate"} => active' # Null
           /\ op = "reveal" => UNCHANGED worker
           /\ op \notin {"refresh", "refreshOnly"}
<1> USE ConstantsAssumption DEF TypeOK, WorkerOK
<1>1. /\ file \in {"none", "corrupt", "foreign", "ours"} /\ accounts \in SUBSET Ids
      /\ active \in Ids \cup {Null} /\ locked \in BOOLEAN /\ (file = "ours" <=> active \in accounts)
  OBVIOUS
<1>2. CASE op \in {"create", "import"}
  <2>1. file = "none" /\ \E i \in Ids : Vault("ours", {i}, i, FALSE)
    BY <1>2 DEF Effect
  <2> QED BY <1>2, <2>1 DEF Vault
<1>3. CASE op = "unlock"
  <2>1. file = "ours" /\ Vault(file, accounts, active, FALSE)
    BY <1>3 DEF Effect
  <2> QED BY <1>3, <2>1 DEF Vault
<1>4. CASE op \in {"addGenerate", "addImport"}
  <2>1. file = "ours" /\ ~locked /\ \E i \in Ids \ accounts : Vault(file, accounts \cup {i}, i, locked)
    BY <1>4 DEF Effect
  <2> QED BY <1>4, <2>1 DEF Vault
<1>5. CASE op \in {"reveal", "rename"}
  <2>1. file = "ours" /\ UNCHANGED worker
    BY <1>5 DEF Effect, Keep
  <2> QED BY <1>5, <2>1 DEF worker
<1>6. CASE op = "switch"
  <2>1. arg \in accounts /\ ~locked /\ Vault(file, accounts, arg, locked)
    BY <1>6 DEF Effect
  <2> QED BY <1>6, <2>1 DEF Vault
<1>7. CASE op = "lock"
  <2>1. Vault(file, accounts, active, TRUE)
    BY <1>7 DEF Effect
  <2> QED BY <1>7, <2>1 DEF Vault
<1>8. CASE op = "reset" \/ (op = "doReset" /\ arg = Null)
  <2>1. Vault("none", {}, Null, TRUE)
    BY <1>8 DEF Effect
  <2> QED BY <1>8, <2>1 DEF Vault
<1>9. CASE op = "doRemove" \/ (op = "doReset" /\ arg # Null)
  <2>1. Remove(arg)
    BY <1>9 DEF Effect
  <2>2. PICK i \in accounts \ {arg} : Vault(file, accounts \ {arg}, i, locked)
    BY <2>1 DEF Remove
  <2>3. file = "ours"
    BY <2>2
  <2> QED BY <1>9, <2>2, <2>3 DEF Vault
<1>10. CASE op \in {"refresh", "refreshOnly"}
  BY <1>10 DEF Effect
<1> QED BY <1>2, <1>3, <1>4, <1>5, <1>6, <1>7, <1>8, <1>9, <1>10
       DEF Requests, FormRequests, ListRequests

(* A reply leaves what was asked, and who waits for it. *)
LEMMA ReplyIs ==
    ASSUME calls \in [Slots -> Calls \cup {Null}], NEW s \in Slots, calls[s] # Null,
           NEW stage \in {"ok", "no"}, NEW st \in States \cup {Null}, Reply(s, stage, st)
    PROVE  /\ calls' \in [Slots -> Calls \cup {Null}] /\ calls'[s] # Null
           /\ calls'[s].op = calls[s].op /\ calls'[s].live = calls[s].live
           /\ calls'[s].stage = stage /\ calls'[s].state = st
           /\ \A t \in Slots : t # s => calls'[t] = calls[t]
<1> DEFINE c == [calls[s] EXCEPT !.stage = stage, !.state = st, !.arg = Null]
<1>1. calls[s] \in Calls
  OBVIOUS
<1>2. /\ c \in Calls /\ c.op = calls[s].op /\ c.live = calls[s].live
      /\ c.stage = stage /\ c.state = st
  BY <1>1 DEF Calls
<1>3. calls' = [calls EXCEPT ![s] = c]
  BY DEF Reply
<1> HIDE DEF c
<1> QED BY <1>2, <1>3, NullAssumption

LEMMA ServeKeeps ==
    ASSUME Inv, NEW s \in Slots, Serve(s)
    PROVE  Inv'
<1>1. /\ TypeOK /\ WorkerOK /\ Good(app, local, calls)
      /\ calls[s] # Null /\ calls[s].stage = "asked" /\ app' = app /\ local' = local /\ misled' = misled
  BY DEF Inv, Serve
<1>2. calls \in [Slots -> Calls \cup {Null}]
  BY <1>1 DEF Good
<1>3. calls[s] \in Calls /\ calls[s].op \in Requests /\ calls[s].arg \in Ids \cup {Null}
  BY <1>1, <1>2 DEF Calls
<1>4. Current \in States
  BY <1>1 DEF Current, State, States, TypeOK
<1>5. PICK stage \in {"ok", "no"}, st \in States \cup {Null} :
        /\ Reply(s, stage, st)
        /\ \/ Effect(calls[s].op, calls[s].arg) /\ stage = "ok"
           \/ calls[s].op \notin {"refresh", "refreshOnly"} /\ Keep /\ stage = "no"
           \/ /\ calls[s].op \in {"refresh", "refreshOnly"} /\ Keep
              /\ IF file = "corrupt" THEN stage = "no" ELSE stage = "ok" /\ st # Null
  <2>1. Current # Null
    BY <1>4, NullAssumption
  <2>2. CASE Effect(calls[s].op, calls[s].arg) /\ Reply(s, "ok", Null)
    BY <2>2
  <2>3. CASE calls[s].op \notin {"refresh", "refreshOnly"} /\ Keep /\ Reply(s, "no", Null)
    BY <2>3
  <2>4. CASE /\ calls[s].op \in {"refresh", "refreshOnly"} /\ Keep
             /\ IF file = "corrupt" THEN Reply(s, "no", Null) ELSE Reply(s, "ok", Current)
    BY <1>4, <2>1, <2>4
  <2> QED BY <2>2, <2>3, <2>4 DEF Serve
<1>6. /\ calls' \in [Slots -> Calls \cup {Null}] /\ calls'[s] # Null
      /\ calls'[s].op = calls[s].op /\ calls'[s].live = calls[s].live
      /\ calls'[s].stage = stage /\ calls'[s].state = st
      /\ \A t \in Slots : t # s => calls'[t] = calls[t]
  BY <1>1, <1>2, <1>5, ReplyIs
<1>7. Keep => file' = file /\ accounts' = accounts /\ active' = active /\ locked' = locked
  BY DEF Keep, worker
<1>8. TypeOK' /\ WorkerOK'
  <2>1. CASE Keep
    BY <1>1, <1>6, <1>7, <2>1 DEF TypeOK, WorkerOK, Calls, States
  <2>2. CASE Effect(calls[s].op, calls[s].arg)
    <3>1. /\ file' \in {"none", "corrupt", "foreign", "ours"}
          /\ accounts' \in SUBSET Ids /\ active' \in Ids \cup {Null} /\ locked' \in BOOLEAN
          /\ file' = "ours" <=> active' \in accounts'
          /\ WorkerOK'
      BY <1>1, <1>3, <2>2, EffectIs
    <3> QED BY <1>1, <1>6, <3>1 DEF TypeOK, Calls, States
  <2> QED BY <1>5, <2>1, <2>2
<1>9. ViewOK'
  BY <1>1 DEF Inv, ViewOK, Views, Screen
<1>10. StateIn(calls')
  <2>1. calls[s].op = "refreshOnly" => stage # "no"
    BY <1>1, <1>5 DEF Good, CorruptIn
  <2>2. calls[s].op \in {"refresh", "refreshOnly"} /\ stage = "ok" => st # Null
    BY <1>1, <1>3, <1>5, EffectIs
  <2> QED BY <1>1, <1>6, <2>1, <2>2 DEF Good, StateIn
<1>11. CorruptIn(app, local, calls)'
  <2>1. SUFFICES ASSUME file' = "corrupt"
                 PROVE  /\ app.known = Null /\ local.secret = Null
                        /\ \A t \in Slots : calls'[t] # Null =>
                              calls'[t].op \in {"refresh", "reset"} /\ calls'[t].stage # "ok"
    BY <1>1 DEF CorruptIn
  <2>2. file = "corrupt"
    BY <1>1, <1>3, <1>5, <1>7, <2>1, EffectIs
  <2>3. calls[s].op \in {"refresh", "reset"}
    BY <1>1, <2>2 DEF Good, CorruptIn
  <2>4. stage = "no"
    BY <1>1, <1>3, <1>5, <2>1, <2>2, <2>3, EffectIs
  <2> QED BY <1>1, <1>6, <2>2, <2>3, <2>4 DEF Good, CorruptIn
<1>12. OneIn(local, calls)' /\ WaitIn(app, local, calls)'
  <2>1. \A t \in Slots, ops \in {FormRequests, ListRequests} :
           Asks(calls'[t], ops) <=> Asks(calls[t], ops)
    BY <1>1, <1>6 DEF Asks
  <2>2. OneIn(local, calls)'
    BY <1>1, <2>1 DEF Good, OneIn
  <2>3. Screen(app') = "loading" => \E t \in Slots : calls'[t] # Null /\ calls'[t].op = "refresh"
    BY <1>1, <1>6 DEF Good, WaitIn
  <2>4. local'.changing => \E t \in Slots : Asks(calls'[t], ListRequests)
    BY <1>1, <2>1 DEF Good, WaitIn
  <2> QED BY <2>2, <2>3, <2>4 DEF WaitIn
<1>13. Good(app, local, calls)'
  <2>1. (app \in Apps /\ local \in Locals /\ calls \in [Slots -> Calls \cup {Null}])'
    BY <1>1, <1>6 DEF Good, Apps, Locals, States, Calls
  <2>2. StateIn(calls)'
    BY <1>10 DEF StateIn
  <2> QED BY <1>11, <1>12, <2>1, <2>2 DEF Good
<1>14. (misled \/ WillAgree(app, local, calls))'
  <2>1. CASE misled
    BY <1>1, <2>1
  <2>2. CASE Rereads(calls'[s])
    BY <2>2 DEF WillAgree
  <2>3. CASE WillAgree(app, local, calls) /\ ~Rereads(calls'[s])
    <3>1. CASE Keep
      <4>1. Agrees(app) => Agrees(app)'
        BY <1>1, <1>7, <3>1 DEF Agrees
      <4>2. ~Rereads(calls[s]) /\ ~BringsPhrase(calls[s])
        BY <1>1, <1>6, <2>3 DEF Rereads, BringsPhrase
      <4>3. \A t \in Slots : /\ Rereads(calls[t]) => Rereads(calls'[t])
                             /\ BringsPhrase(calls[t]) => BringsPhrase(calls'[t])
        BY <1>6, <4>2
      <4>4. PhraseShown(local) => PhraseShown(local')
        BY <1>1 DEF PhraseShown
      <4> QED BY <1>7, <2>3, <3>1, <4>1, <4>3, <4>4 DEF WillAgree
    <3>2. CASE Effect(calls[s].op, calls[s].arg) /\ ~Keep
      <4>1. stage = "ok"
        BY <1>5, <3>2
      <4>2. calls[s].op \in {"create", "addGenerate"}
        BY <1>1, <1>3, <1>6, <2>3, <3>2, <4>1, EffectIs DEF Rereads, Keep
      <4>3. active' # Null /\ BringsPhrase(calls'[s])
        BY <1>1, <1>3, <1>6, <3>2, <4>1, <4>2, EffectIs DEF BringsPhrase
      <4> QED BY <4>3 DEF WillAgree
    <3> QED BY <1>5, <3>1, <3>2
  <2> QED BY <2>1, <2>2, <2>3 DEF Inv
<1> QED BY <1>8, <1>9, <1>13, <1>14 DEF Inv

LEMMA AutoLockKeeps ==
    ASSUME Inv, AutoLock
    PROVE  Inv'
<1>1. /\ file' = file /\ accounts' = accounts /\ active' = active /\ locked' = TRUE
      /\ app' = app /\ local' = local /\ calls' = calls /\ misled' = misled
  BY DEF AutoLock
<1>2. (TypeOK /\ WorkerOK /\ ViewOK)'
  BY <1>1 DEF Inv, TypeOK, WorkerOK, ViewOK, Views, Screen, Calls, States
<1>3. Good(app, local, calls)'
  <2>1. (app \in Apps /\ local \in Locals /\ calls \in [Slots -> Calls \cup {Null}])'
    BY <1>1 DEF Inv, Good, Apps, Locals, States, Calls
  <2>2. CorruptIn(app, local, calls)'
    BY <1>1 DEF Inv, Good, CorruptIn
  <2>3. StateIn(calls)' /\ OneIn(local, calls)' /\ WaitIn(app, local, calls)'
    BY <1>1 DEF Inv, Good, StateIn, OneIn, WaitIn, Screen
  <2> QED BY <2>1, <2>2, <2>3 DEF Good
<1>4. (misled \/ WillAgree(app, local, calls))'
  BY <1>1 DEF Inv, WillAgree, Agrees, PhraseShown
<1> QED BY <1>2, <1>3, <1>4 DEF Inv

----------------------------------------------------------------------------
(* The answers. *)

LEMMA IdleIs ==
    ASSUME Inv, NEW s \in Slots, calls[s] # Null
    PROVE  /\ Idle(s) \in Locals /\ Idle(s).view = local.view /\ Idle(s).step = local.step
           /\ Idle(s).secret = local.secret
           /\ IF Asks(calls[s], FormRequests) THEN ~Idle(s).busy ELSE Idle(s).busy = local.busy
           /\ IF Asks(calls[s], ListRequests) THEN ~Idle(s).changing
              ELSE Idle(s).changing = local.changing
<1>1. local \in Locals /\ calls[s] \in Calls
  BY DEF Inv, Good
<1>2. FormRequests \cap ListRequests = {}
  BY DEF FormRequests, ListRequests
<1>3. CASE ~calls[s].live
  BY <1>1, <1>3 DEF Idle, Asks
<1>4. CASE calls[s].live /\ calls[s].op \in FormRequests
  <2>1. Idle(s) = [local EXCEPT !.busy = FALSE]
    BY <1>4 DEF Idle
  <2>2. Asks(calls[s], FormRequests) /\ ~Asks(calls[s], ListRequests)
    BY <1>2, <1>4 DEF Asks
  <2> QED BY <1>1, <2>1, <2>2, BusySet
<1>5. CASE calls[s].live /\ calls[s].op \notin FormRequests /\ calls[s].op \in ListRequests
  <2>1. Idle(s) = [local EXCEPT !.changing = FALSE]
    BY <1>5 DEF Idle
  <2>2. ~Asks(calls[s], FormRequests) /\ Asks(calls[s], ListRequests)
    BY <1>5 DEF Asks
  <2> QED BY <1>1, <2>1, <2>2, ChangingSet
<1>6. CASE calls[s].live /\ calls[s].op \notin FormRequests \cup ListRequests
  BY <1>1, <1>6 DEF Idle, Asks
<1> QED BY <1>3, <1>4, <1>5, <1>6

(* A request is done with, or makes way for a reading of the state. *)
LEMMA Settled ==
    ASSUME Inv, NEW s \in Slots, calls[s] # Null,
           NEW c \in {Null, Ask("refresh", Null), Ask("refreshOnly", Null)},
           NEW a \in Apps, NEW l \in Locals,
           l.busy = Idle(s).busy, l.changing = Idle(s).changing,
           file = "corrupt" => a.known = Null /\ l.secret = Null /\ c = Null,
           Screen(a) = "loading" =>
               c = Ask("refresh", Null) \/ (Screen(app) = "loading" /\ calls[s].op # "refresh")
    PROVE  Good(a, l, [calls EXCEPT ![s] = c])
<1> DEFINE cs == [calls EXCEPT ![s] = c]
<1>1. calls \in [Slots -> Calls \cup {Null}] /\ local \in Locals
  BY DEF Inv, Good
<1>2. /\ "refresh" \in Requests /\ "refreshOnly" \in Requests
      /\ {"refresh", "refreshOnly"} \cap (FormRequests \cup ListRequests) = {}
  BY DEF Requests, FormRequests, ListRequests
<1>3. /\ c \in Calls \cup {Null}
      /\ c # Null => c.op \in {"refresh", "refreshOnly"} /\ c.stage = "asked"
      /\ c = Ask("refresh", Null) => c # Null /\ c.op = "refresh"
  BY <1>2, AskIs
<1>4. cs \in [Slots -> Calls \cup {Null}] /\ cs[s] = c /\ \A t \in Slots : t # s => cs[t] = calls[t]
  BY <1>1, <1>3
<1> HIDE DEF cs
<1>5. StateIn(cs)
  BY <1>3, <1>4 DEF Inv, Good, StateIn
<1>6. CorruptIn(a, l, cs)
  BY <1>3, <1>4 DEF Inv, Good, CorruptIn
<1>7. \A ops \in {FormRequests, ListRequests} : ~Asks(c, ops)
  BY <1>2, <1>3 DEF Asks
<1>8. OneIn(l, cs)
  <2>1. \A t \in Slots : Asks(cs[t], FormRequests) => t # s /\ Asks(calls[t], FormRequests)
    BY <1>4, <1>7
  <2>2. \A t \in Slots : t # s /\ Asks(calls[t], FormRequests) => Asks(cs[t], FormRequests)
    BY <1>4
  <2>3. CASE Asks(calls[s], FormRequests)
    <3>1. ~l.busy /\ l.busy \in BOOLEAN
      BY <2>3, IdleIs DEF Locals
    <3>2. \A t \in Slots : ~Asks(cs[t], FormRequests)
      BY <2>1, <2>3 DEF Inv, Good, OneIn
    <3> QED BY <3>1, <3>2 DEF OneIn
  <2>4. CASE ~Asks(calls[s], FormRequests)
    <3>1. l.busy = local.busy
      BY <2>4, IdleIs
    <3>2. \A t \in Slots : Asks(cs[t], FormRequests) <=> Asks(calls[t], FormRequests)
      BY <2>1, <2>2, <2>4
    <3> QED BY <3>1, <3>2 DEF Inv, Good, OneIn
  <2> QED BY <2>3, <2>4
<1>9. WaitIn(a, l, cs)
  <2>1. ASSUME Screen(a) = "loading"
        PROVE  \E t \in Slots : cs[t] # Null /\ cs[t].op = "refresh"
    <3>1. CASE c = Ask("refresh", Null)
      BY <3>1, <1>3, <1>4
    <3>2. CASE Screen(app) = "loading" /\ calls[s].op # "refresh"
      BY <3>2, <1>4 DEF Inv, Good, WaitIn
    <3> QED BY <2>1, <3>1, <3>2
  <2>2. ASSUME l.changing
        PROVE  \E t \in Slots : Asks(cs[t], ListRequests)
    <3>1. ~Asks(calls[s], ListRequests) /\ local.changing
      BY <2>2, IdleIs
    <3>2. PICK t \in Slots : Asks(calls[t], ListRequests)
      BY <3>1 DEF Inv, Good, WaitIn
    <3> QED BY <3>1, <3>2, <1>4
  <2> QED BY <2>1, <2>2 DEF WaitIn
<1> QED BY <1>4, <1>5, <1>6, <1>8, <1>9 DEF Good, cs

(* What else will bring the popup up to date does not depend on s. *)
LEMMA OthersWill ==
    ASSUME Inv, ~misled, NEW s \in Slots, ~Rereads(calls[s]), ~BringsPhrase(calls[s]),
           NEW a, a.known = app.known, NEW l, PhraseShown(local) => PhraseShown(l), NEW c
    PROVE  WillAgree(a, l, [calls EXCEPT ![s] = c])
<1>1. \A t \in Slots : t # s => [calls EXCEPT ![s] = c][t] = calls[t]
  BY DEF Inv, Good
<1>2. Agrees(app) => Agrees(a)
  BY DEF Agrees
<1> QED BY <1>1, <1>2 DEF Inv, WillAgree

(* A reading of the state, which is what the popup then shows. *)
LEMMA RefreshKeeps ==
    ASSUME Inv, NEW s \in Slots, calls[s] # Null, calls[s].stage # "asked", UNCHANGED worker,
           \/ calls[s].op = "refresh" /\ refreshState(s)
           \/ calls[s].op = "refreshOnly" /\ refreshStateOnly(s)
    PROVE  Inv'
<1> DEFINE read == [app EXCEPT !.known = calls[s].state]
           home == [app EXCEPT !.known = calls[s].state, !.route = "home"]
           lost == [app EXCEPT !.known = Null, !.corrupt = TRUE]
<1>1. app \in Apps /\ local \in Locals /\ calls[s] \in Calls /\ misled \in BOOLEAN
  BY DEF Inv, Good, TypeOK
<1>2. {"refresh", "refreshOnly"} \cap (FormRequests \cup ListRequests) = {}
  BY DEF FormRequests, ListRequests
<1>3. Idle(s) = local
  BY <1>2 DEF Idle
<1>4. CASE calls[s].stage = "ok"
  <2>1. calls[s].state \in States /\ file # "corrupt"
    BY <1>1, <1>4 DEF Inv, Good, StateIn, CorruptIn, Calls
  <2>2. /\ read \in Apps /\ read.known = calls[s].state
        /\ home \in Apps /\ home.known = calls[s].state
    BY <1>1, <2>1 DEF Apps
  <2> HIDE DEF read, home
  <2>3. PICK a \in {read, home} : Render(a, local, Settle(s)) /\ Told(calls[s].state)
    BY <1>4 DEF refreshState, refreshStateOnly, read, home
  <2>4. a \in Apps /\ a.known = calls[s].state /\ a.known # Null
    BY <2>1, <2>2, <2>3, NullAssumption
  <2>5. Screen(a) # "loading"
    BY <2>4, Screens
  <2>6. Good(a, local, [calls EXCEPT ![s] = Null])
    BY <1>1, <1>3, <2>1, <2>4, <2>5, Settled
  <2>7. misled' \in BOOLEAN /\ (misled' \/ Agrees(a))
    BY <2>3, <2>4 DEF Told, Agrees
  <2> QED BY <2>3, <2>6, <2>7, Rendered DEF Inv, ViewOK, Settle
<1>5. CASE calls[s].stage = "no"
  <2>1. calls[s].op = "refresh" /\ Render(lost, local, Settle(s)) /\ misled' = misled
    BY <1>5 DEF refreshState, refreshStateOnly, Inv, Good, StateIn
  <2>2. lost \in Apps /\ lost.known = Null /\ lost.corrupt
    BY <1>1 DEF Apps
  <2> HIDE DEF lost
  <2>3. file = "corrupt" => local.secret = Null
    BY CorruptScreen
  <2>4. Screen(lost) # "loading"
    BY <2>2, Screens
  <2>5. Good(lost, local, [calls EXCEPT ![s] = Null])
    BY <1>1, <1>3, <2>2, <2>3, <2>4, Settled
  <2>6. Agrees(lost)
    BY <2>2 DEF Agrees
  <2> QED BY <1>1, <2>1, <2>5, <2>6, Rendered DEF Inv, ViewOK, Settle
<1> QED BY <1>1, <1>4, <1>5 DEF Calls

(* A refused request is forgotten. *)
LEMMA RefusalKeeps ==
    ASSUME Inv, NEW s \in Slots, calls[s] # Null, calls[s].stage = "no", UNCHANGED worker,
           calls[s].op \notin {"refresh", "refreshOnly"}, Show(app, Idle(s), Settle(s))
    PROVE  Inv'
<1>1. /\ Idle(s) \in Locals /\ Idle(s).view = local.view /\ Idle(s).step = local.step
      /\ Idle(s).secret = local.secret
  BY IdleIs
<1>2. file = "corrupt" => app.known = Null /\ local.secret = Null
  BY CorruptScreen
<1>3. app \in Apps
  BY DEF Inv, Good
<1>4. Good(app, Idle(s), [calls EXCEPT ![s] = Null])
  BY <1>1, <1>2, <1>3, Settled
<1>5. ~Rereads(calls[s]) /\ ~BringsPhrase(calls[s])
  BY DEF Rereads, BringsPhrase
<1>6. PhraseShown(local) => PhraseShown(Idle(s))
  BY <1>1 DEF PhraseShown
<1>7. misled \/ WillAgree(app, Idle(s), [calls EXCEPT ![s] = Null])
  BY <1>5, <1>6, OthersWill
<1> QED BY <1>1, <1>4, <1>7, Shown DEF Inv, ViewOK, Settle

(* A change is read back, whether or not its screen is still there. *)
LEMMA ReloadKeeps ==
    ASSUME Inv, NEW s \in Slots, calls[s] # Null, calls[s].stage = "ok", UNCHANGED worker,
           calls[s].op \notin {"refresh", "refreshOnly"},
           Reload(s, "refresh") \/ Reload(s, "refreshOnly") \/ ReloadAndGoHome(s)
    PROVE  Inv'
<1>1. /\ Idle(s) \in Locals /\ Idle(s).view = local.view
  BY IdleIs
<1>2. app \in Apps /\ calls \in [Slots -> Calls \cup {Null}]
  BY DEF Inv, Good
<1>3. file # "corrupt"
  BY DEF Inv, Good, CorruptIn
<1>4. "refresh" \in Requests /\ "refreshOnly" \in Requests
  BY DEF Requests
<1> DEFINE home == [app EXCEPT !.route = "home"]
<1>5. /\ home \in Apps /\ home.route = "home" /\ home.known = app.known
      /\ home.loadError = app.loadError /\ home.corrupt = app.corrupt
  BY <1>2, RouteSet
<1>6. /\ Cleared("refresh") \in Apps /\ Cleared("refresh").route = app.route
      /\ Cleared("refreshOnly") = app
  BY <1>2, <1>4, ClearedIs
<1> HIDE DEF home
<1>7. PICK op \in {"refresh", "refreshOnly"}, a \in Apps :
        /\ Show(a, Idle(s), [calls EXCEPT ![s] = Ask(op, Null)])
        /\ a.route \in {app.route, "home"}
        /\ \/ op = "refresh"
           \/ a.loadError = app.loadError /\ a.corrupt = app.corrupt /\ a.known = app.known
  BY <1>2, <1>5, <1>6 DEF Reload, ReloadAndGoHome, home
<1>8. Screen(a) = "loading" => op = "refresh" \/ (Screen(app) = "loading" /\ calls[s].op # "refresh")
  <2>1. ASSUME Screen(a) = "loading", op # "refresh"
        PROVE  Screen(app) = "loading"
    <3>1. ~app.corrupt /\ ~app.loadError /\ app.known = Null
      BY <1>7, <2>1, Screens
    <3> QED BY <1>2, <3>1 DEF Screen
  <2> QED BY <2>1
<1>9. Good(a, Idle(s), [calls EXCEPT ![s] = Ask(op, Null)])
  <2>1. Ask(op, Null) \in {Null, Ask("refresh", Null), Ask("refreshOnly", Null)}
    BY <1>7
  <2>2. op = "refresh" => Ask(op, Null) = Ask("refresh", Null)
    OBVIOUS
  <2> QED BY <1>1, <1>3, <1>7, <1>8, <2>1, <2>2, Settled
<1>10. WillAgree(a, Idle(s), [calls EXCEPT ![s] = Ask(op, Null)])
  <2>1. Ask(op, Null) # Null /\ Ask(op, Null).op = op
    BY <1>4, <1>7, AskIs
  <2>2. Rereads([calls EXCEPT ![s] = Ask(op, Null)][s])
    BY <1>2, <1>7, <2>1 DEF Rereads
  <2> QED BY <2>2 DEF WillAgree
<1> QED BY <1>1, <1>7, <1>9, <1>10, Shown DEF Inv, ViewOK

(* A phrase arrives. *)
LEMMA PhraseKeeps ==
    ASSUME Inv, NEW s \in Slots, calls[s] # Null, calls[s].stage = "ok", UNCHANGED worker,
           calls[s].op \in {"create", "addGenerate", "reveal"}, PhraseArrives(s)
    PROVE  Inv'
<1> DEFINE l == [Idle(s) EXCEPT !.secret = active,
                                !.step = IF calls[s].op = "reveal" THEN @ ELSE "backup"]
<1>1. app \in Apps /\ calls \in [Slots -> Calls \cup {Null}] /\ misled \in BOOLEAN
      /\ active \in Ids \cup {Null} /\ file # "corrupt"
  BY DEF Inv, Good, TypeOK, CorruptIn
<1>2. calls[s].op \in FormRequests /\ calls[s].op \notin ListRequests /\ ~Rereads(calls[s])
  BY DEF FormRequests, ListRequests, Rereads
<1>3. CASE calls[s].live
  <2>1. /\ Idle(s) \in Locals /\ Idle(s).view = local.view /\ Idle(s).step = local.step
    BY IdleIs
  <2>2. /\ l \in Locals /\ l.view = local.view /\ l.secret = active
        /\ l.busy = Idle(s).busy /\ l.changing = Idle(s).changing
        /\ l.step = IF calls[s].op = "reveal" THEN local.step ELSE "backup"
    BY <1>1, <2>1 DEF Locals
  <2>3. Show(app, l, Settle(s))
    BY <1>3 DEF PhraseArrives
  <2> HIDE DEF l
  <2>4. Good(app, l, [calls EXCEPT ![s] = Null])
    BY <1>1, <1>2, <2>2, Settled
  <2>5. misled \/ WillAgree(app, l, [calls EXCEPT ![s] = Null])
    <3>1. CASE calls[s].op = "reveal"
      <4>1. ~BringsPhrase(calls[s])
        BY <3>1 DEF BringsPhrase
      <4>2. CASE active = Null
        <5>1. \A t \in Slots : t # s => [calls EXCEPT ![s] = Null][t] = calls[t]
          BY <1>1
        <5> QED BY <1>2, <4>2, <5>1 DEF Inv, WillAgree
      <4>3. CASE active # Null
        <5>1. PhraseShown(local) => PhraseShown(l)
          BY <2>2, <3>1, <4>3 DEF PhraseShown
        <5> QED BY <1>2, <4>1, <5>1, OthersWill
      <4> QED BY <4>2, <4>3
    <3>2. CASE calls[s].op # "reveal"
      <4>1. CASE active = Null
        <5>1. \A t \in Slots : t # s => [calls EXCEPT ![s] = Null][t] = calls[t]
          BY <1>1
        <5> QED BY <1>2, <4>1, <5>1 DEF Inv, WillAgree
      <4>2. CASE active # Null
        BY <2>2, <3>2, <4>2 DEF PhraseShown, WillAgree
      <4> QED BY <4>1, <4>2
    <3> QED BY <3>1, <3>2
  <2> QED BY <2>2, <2>3, <2>4, <2>5, Shown DEF Inv, ViewOK, Settle
<1>4. CASE ~calls[s].live
  <2>1. /\ Render(app, local, Settle(s))
        /\ misled' = (misled \/ calls[s].op # "reveal")
    BY <1>4 DEF PhraseArrives
  <2>2. Idle(s) = local
    BY <1>4 DEF Idle
  <2>3. Good(app, local, [calls EXCEPT ![s] = Null])
    BY <1>1, <1>2, <2>2, Settled DEF Inv, Good
  <2>4. local' = local /\ misled' \in BOOLEAN
    BY <2>1 DEF Render
  <2>5. misled' \/ WillAgree(app, local, [calls EXCEPT ![s] = Null])
    <3>1. CASE misled \/ calls[s].op # "reveal"
      BY <2>1, <3>1
    <3>2. CASE ~misled /\ calls[s].op = "reveal"
      <4>1. ~BringsPhrase(calls[s])
        BY <3>2 DEF BringsPhrase
      <4> QED BY <1>2, <3>2, <4>1, OthersWill
    <3> QED BY <3>1, <3>2
  <2> QED BY <2>1, <2>3, <2>4, <2>5, Rendered DEF Inv, ViewOK, Settle
<1> QED BY <1>3, <1>4

LEMMA AnswerKeeps ==
    ASSUME Inv, NEW s \in Slots, Answer(s)
    PROVE  Inv'
<1>1. calls[s] # Null /\ calls[s].stage # "asked" /\ UNCHANGED worker
  BY DEF Answer
<1>2. calls[s].stage \in {"ok", "no"} /\ calls[s].op \in Requests
  BY <1>1 DEF Inv, Good, Calls
<1>3. CASE calls[s].op \in {"refresh", "refreshOnly"}
  BY <1>1, <1>3, RefreshKeeps DEF Answer
<1>4. CASE calls[s].op \notin {"refresh", "refreshOnly"} /\ calls[s].stage = "no"
  BY <1>1, <1>4, RefusalKeeps DEF Answer
<1>5. CASE calls[s].op \in {"create", "addGenerate", "reveal"} /\ calls[s].stage = "ok"
  BY <1>1, <1>5, PhraseKeeps DEF Answer
<1>6. CASE /\ calls[s].op \notin {"refresh", "refreshOnly", "create", "addGenerate", "reveal"}
           /\ calls[s].stage = "ok"
  <2>1. Reload(s, "refresh") \/ Reload(s, "refreshOnly") \/ ReloadAndGoHome(s)
    BY <1>1, <1>2, <1>6 DEF Answer, Requests, FormRequests, ListRequests
  <2> QED BY <1>1, <1>6, <2>1, ReloadKeeps
<1> QED BY <1>2, <1>3, <1>4, <1>5, <1>6

LEMMA BreakKeeps ==
    ASSUME Inv, NEW s \in Slots, Break(s)
    PROVE  Inv'
<1> DEFINE failed == [app EXCEPT !.known = Null, !.loadError = TRUE]
           a == IF calls[s].op = "refresh" THEN failed ELSE app
<1>1. calls[s] # Null /\ misled' = TRUE /\ UNCHANGED worker /\ Render(a, Idle(s), Settle(s))
  BY DEF Break
<1>2. app \in Apps
  BY DEF Inv, Good
<1>3. failed \in Apps /\ failed.known = Null /\ failed.loadError
  BY <1>2 DEF Apps
<1> HIDE DEF failed
<1>4. /\ a \in Apps /\ a.known \in {app.known, Null}
      /\ Screen(a) = "loading" => Screen(app) = "loading" /\ calls[s].op # "refresh"
  BY <1>2, <1>3, Screens
<1> HIDE DEF a
<1>5. /\ Idle(s) \in Locals /\ Idle(s).view = local.view /\ Idle(s).secret = local.secret
  BY <1>1, IdleIs
<1>6. file = "corrupt" => app.known = Null /\ local.secret = Null
  BY CorruptScreen
<1>7. Good(a, Idle(s), [calls EXCEPT ![s] = Null])
  BY <1>1, <1>4, <1>5, <1>6, Settled
<1> QED BY <1>1, <1>5, <1>7, Rendered DEF Inv, ViewOK, Settle

----------------------------------------------------------------------------
LEMMA InitGood == Init => Inv
<1> SUFFICES ASSUME Init PROVE Inv
  OBVIOUS
<1>1. PICK s \in Slots : calls = [t \in Slots |-> IF t = s THEN Ask("refresh", Null) ELSE Null]
  BY DEF Init
<1>2. /\ Ask("refresh", Null) \in Calls /\ Ask("refresh", Null) # Null
      /\ Ask("refresh", Null).op = "refresh" /\ Ask("refresh", Null).stage = "asked"
  <2>1. "refresh" \in Requests
    BY DEF Requests
  <2> QED BY <2>1, AskIs
<1>3. /\ app \in Apps /\ app.known = Null /\ local \in Locals /\ local = Fresh
      /\ local.view = "top" /\ local.busy = FALSE /\ local.changing = FALSE /\ local.secret = Null
  BY FreshFacts DEF Init, Apps
<1>4. calls \in [Slots -> Calls \cup {Null}] /\ calls[s] = Ask("refresh", Null)
      /\ \A t \in Slots : t # s => calls[t] = Null
  BY <1>1, <1>2
<1>5. TypeOK /\ WorkerOK
  <2>1. /\ file \in {"none", "corrupt", "foreign", "ours"} /\ accounts \in SUBSET Ids
        /\ active \in Ids \cup {Null} /\ locked \in BOOLEAN
        /\ file = "ours" <=> active \in accounts
        /\ WorkerOK /\ misled \in BOOLEAN
    BY ConstantsAssumption DEF Init, WorkerOK
  <2> QED BY <1>3, <1>4, <2>1 DEF TypeOK, Apps, Locals
<1>6. ViewOK
  BY <1>3 DEF ViewOK, Views
<1>7. StateIn(calls) /\ CorruptIn(app, local, calls)
  BY <1>2, <1>3, <1>4 DEF StateIn, CorruptIn
<1>8. \A t \in Slots : ~Asks(calls[t], FormRequests)
  BY <1>2, <1>4 DEF Asks, FormRequests
<1>9. OneIn(local, calls) /\ WaitIn(app, local, calls)
  BY <1>2, <1>3, <1>4, <1>8 DEF OneIn, WaitIn
<1>10. Agrees(app)
  BY <1>3 DEF Agrees
<1> QED BY <1>3, <1>4, <1>5, <1>6, <1>7, <1>9, <1>10 DEF Inv, Good, WillAgree

LEMMA InvIsInvariant == Spec => []Inv
<1>1. Inv /\ Next => Inv'
  BY UserKeeps, AutoLockKeeps, ServeKeeps, AnswerKeeps, BreakKeeps DEF Next
<1>2. Inv /\ UNCHANGED vars => Inv'
  <2> SUFFICES ASSUME Inv, UNCHANGED vars PROVE Inv'
    OBVIOUS
  <2>1. /\ file' = file /\ accounts' = accounts /\ active' = active /\ locked' = locked
        /\ app' = app /\ local' = local /\ calls' = calls /\ misled' = misled
    BY DEF vars, worker
  <2>2. (TypeOK /\ WorkerOK /\ ViewOK)'
    BY <2>1 DEF Inv, TypeOK, WorkerOK, ViewOK, Views, Screen, Calls, States
  <2>3. Good(app, local, calls)'
    <3>1. (app \in Apps /\ local \in Locals /\ calls \in [Slots -> Calls \cup {Null}])'
      BY <2>1 DEF Inv, Good, Apps, Locals, States, Calls
    <3>2. CorruptIn(app, local, calls)'
      BY <2>1 DEF Inv, Good, CorruptIn
    <3>3. StateIn(calls)' /\ OneIn(local, calls)' /\ WaitIn(app, local, calls)'
      BY <2>1 DEF Inv, Good, StateIn, OneIn, WaitIn, Screen
    <3> QED BY <3>1, <3>2, <3>3 DEF Good
  <2>4. (misled \/ WillAgree(app, local, calls))'
    BY <2>1 DEF Inv, WillAgree, Agrees, PhraseShown
  <2> QED BY <2>2, <2>3, <2>4 DEF Inv
<1>3. Inv /\ [Next]_vars => Inv'
  BY <1>1, <1>2
<1> QED BY InitGood, <1>3, PTL DEF Spec

(* The popup's state keeps its shape: a screen has a view of its own, and  *)
(* the worker's active account is one of its accounts.                     *)
THEOREM TypesHold == Spec => []TypeOK
BY InvIsInvariant, PTL DEF Inv

(* Whatever screens come and go while requests are under way, no form of   *)
(* the popup has two of them (setBusy around each await), and none stays   *)
(* disabled by a request that is not its own.                              *)
THEOREM FormsAskOnce == Spec => []OneRequestPerForm
<1>1. Inv => OneRequestPerForm
  <2> SUFFICES ASSUME Inv PROVE OneRequestPerForm
    OBVIOUS
  <2>1. \A s \in Slots : (\E op \in FormRequests : Waits(s, op)) <=> Asks(calls[s], FormRequests)
    BY DEF Waits, Asks
  <2>2. local.busy = \E s \in Slots : Asks(calls[s], FormRequests)
    BY DEF Inv, Good, OneIn
  <2>3. \A s, t \in Slots : Asks(calls[s], FormRequests) /\ Asks(calls[t], FormRequests) => s = t
    BY DEF Inv, Good, OneIn
  <2>4. local.busy = \E s \in Slots : \E op \in FormRequests : Waits(s, op)
    BY <2>1, <2>2
  <2>5. \A s, t \in Slots, op, or \in FormRequests : Waits(s, op) /\ Waits(t, or) => s = t
    BY <2>1, <2>3
  <2> QED BY <2>4, <2>5 DEF OneRequestPerForm
<1> QED BY <1>1, InvIsInvariant, PTL

(* Once nothing is under way the popup shows the wallet as the worker has  *)
(* it: every change is read back (refreshState, refreshStateOnly), also by *)
(* a handler whose screen has gone.                                        *)
THEOREM ChangesAreReadBack == Spec => []AgreesWhenQuiet
<1>1. Inv => AgreesWhenQuiet
  BY DEF Inv, WillAgree, Agrees, Rereads, BringsPhrase, PhraseShown, AgreesWhenQuiet, Quiet
<1> QED BY <1>1, InvIsInvariant, PTL

(* The popup never loads, and the list of accounts is never disabled, with *)
(* nothing to wait for.                                                    *)
THEOREM NothingWaitsInVain == Spec => []WaitsForAnAnswer
<1>1. Inv => WaitsForAnAnswer
  BY DEF Inv, Good, WaitIn, Asks, WaitsForAnAnswer, Waits
<1> QED BY <1>1, InvIsInvariant, PTL
=============================================================================
