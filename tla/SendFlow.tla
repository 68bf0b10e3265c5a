------------------------------ MODULE SendFlow ------------------------------
(***************************************************************************)
(* A payment from the Send screen to the node: Send.tsx fetches the        *)
(* outputs and builds a preview, ConfirmTransaction.tsx has the worker     *)
(* sign it and broadcasts it (tx/send.ts), Sent.tsx reports it.  Every     *)
(* call is asynchronous: the user may meanwhile leave the screen, come     *)
(* back, switch accounts, here or in another window, and approve again.    *)
(*                                                                         *)
(* Coins are equal in value, so a payment takes a number of them; change   *)
(* only comes back as coins that are not confirmed.  A transaction is      *)
(* known by its txid, which does not depend on who signed it: it is        *)
(* identified with its draft.                                              *)
(***************************************************************************)
EXTENDS ChainClient, FiniteSets

CONSTANTS
    Accounts,   \* of the wallet, all of them able to sign
    Coins,      \* the outputs on the chain
    Owner,      \* the account an output pays
    Confs,      \* its confirmations
    Coinbase,   \* the outputs of coinbase transactions
    Payments,   \* a recipient and an amount: what the form may hold
    Needs,      \* the number of inputs a payment takes
    Backends,   \* which ChainClient may be in use
    Slots,      \* bound: calls of this popup in flight at a time
    Strays,     \* bound: abandoned requests under way at a time
    Null

COINBASE_MATURITY == 100

Drafts == [acct : Accounts, pay : Payments, inputs : SUBSET Coins]

ASSUME ConstantsAssumption ==
    /\ Owner \in [Coins -> Accounts] /\ Confs \in [Coins -> Nat] /\ Coinbase \subseteq Coins
    /\ Needs \in [Payments -> Nat \ {0}]
    /\ Backends \subseteq {"blockbook", "api"} /\ Backends # {}
    /\ Strays \in Nat
    /\ Null \notin Accounts /\ Null \notin Payments /\ Null \notin Drafts
    /\ IsFiniteSet(Coins)

VARIABLES
    backend,    \* getApiClient()
    active,     \* the worker: activeAccountId of the vault file
    shown,      \* the popup: state.address
    page,       \* route.name; "home" stands for the screens that send nothing
    form,       \* Send: the valid recipient and amount typed, or Null
    busy, error,    \* of the screen that is mounted
    preview,    \* the draft of the confirm route
    password,   \* ConfirmTransaction: "right", "wrong", or Null for an empty field
    sent,       \* the transaction of the sent route
    calls,      \* handleReview and handleApprove, suspended
    stray,      \* signed transactions under way that no call waits for any more
    known,      \* the node: transactions in its mempool or chain
    approved    \* the drafts approved with the right password while on screen

ui   == <<page, form, busy, error, preview, password, sent>>
vars == <<backend, active, shown, ui, calls, stray, known, approved>>

Signed == [draft : Drafts, signer : Accounts]
Kinds  == {"ok", "NODE_DOWN", "MALFORMED_TX", "TX_REJECTED", "INSUFFICIENT_FEE",
           "ALREADY_KNOWN", "BAD_RESPONSE", "UNKNOWN"}
Errors == {Null, "insufficient-funds", "backend-down", "generic", "wrong-password", "tx-rejected"}

Review(acct, pay) == [stage |-> "list", live |-> TRUE, acct |-> acct, pay |-> pay]
Approval(draft, pw) ==
    [stage |-> "sign", live |-> TRUE, draft |-> draft, pw |-> pw, signer |-> Null, verdict |-> Null]

Reviews == [stage : {"list", "stalled"}, live : BOOLEAN, acct : Accounts, pay : Payments]

Calls ==
    Reviews
    \cup [stage : {"sign", "post", "answered", "stalled"}, live : BOOLEAN, draft : Drafts,
          pw : {"right", "wrong"}, signer : Accounts \cup {Null}, verdict : Verdicts \cup {Null}]

ASSUME CallsAssumption == Null \notin Calls \cup Verdicts

TypeOK ==
    /\ backend \in Backends /\ active \in Accounts /\ shown \in Accounts
    /\ page \in {"home", "send", "confirm", "sent"}
    /\ form \in Payments \cup {Null} /\ busy \in BOOLEAN /\ error \in Errors
    /\ preview \in Drafts \cup {Null}
    /\ page = "confirm" => preview # Null
    /\ password \in {"right", "wrong", Null}
    /\ sent \in Drafts \cup {Null}
    /\ calls \in [Slots -> Calls \cup {Null}]
    /\ stray \subseteq Signed /\ known \subseteq Drafts /\ approved \subseteq Drafts

Init ==
    /\ backend \in Backends
    /\ active \in Accounts /\ shown = active
    /\ page = "home" /\ form = Null
    /\ busy = FALSE /\ error = Null
    /\ preview = Null /\ password = Null /\ sent = Null
    /\ calls = [s \in Slots |-> Null]
    /\ stray = {} /\ known = {} /\ approved = {}

----------------------------------------------------------------------------
(* React.  To navigate to another screen unmounts the one there is: what   *)
(* its calls do to its state is lost.  To the same one, it stays mounted   *)
(* and keeps its state, under the new route.                               *)

(* A call that waits for the rest of a body does nothing any more.         *)
Orphaned(cs) ==
    [s \in Slots |->
        IF cs[s] = Null THEN Null
        ELSE IF cs[s].stage = "stalled" THEN Null ELSE [cs[s] EXCEPT !.live = FALSE]]

(* navigate({name: to, preview: d, txid: t}), once the calls are cs. *)
Navigate(to, d, t, cs) ==
    /\ page' = to /\ preview' = d /\ sent' = t
    /\ IF to = page
       THEN calls' = cs /\ UNCHANGED <<form, password>>
       ELSE calls' = Orphaned(cs) /\ form' = Null /\ password' = Null

Fresh == busy' = FALSE /\ error' = Null

Go(from, to) ==
    /\ page = from
    /\ Navigate(to, Null, Null, calls)
    /\ Fresh
    /\ UNCHANGED <<backend, active, shown, stray, known, approved>>

(* The buttons; back to Home also when the wallet locks and is unlocked.   *)
Leave ==
    \/ Go("home", "send") \/ Go("confirm", "send")
    \/ \E p \in {"send", "confirm", "sent"} : Go(p, "home")

----------------------------------------------------------------------------
(* Accounts.  The active account is the worker's and may be switched from  *)
(* another window; this popup learns of it when it reads the state again.  *)

Switch ==
    /\ active' \in Accounts \ {active}
    /\ UNCHANGED <<backend, shown, ui, calls, stray, known, approved>>

Refresh ==
    /\ shown # active /\ shown' = active
    /\ UNCHANGED <<backend, active, ui, calls, stray, known, approved>>

----------------------------------------------------------------------------
(* Send. *)

Type ==
    /\ page = "send"
    /\ form' \in Payments \ {form}
    /\ UNCHANGED <<backend, active, shown, page, busy, error, preview, password, sent,
                   calls, stray, known, approved>>

handleReview ==
    /\ page = "send" /\ form # Null /\ ~busy
    /\ \E s \in Slots :
          /\ calls[s] = Null
          /\ calls' = [calls EXCEPT ![s] = Review(shown, form)]
    /\ busy' = TRUE /\ error' = Null
    /\ UNCHANGED <<backend, active, shown, page, form, preview, password, sent,
                   stray, known, approved>>

(* Mutant of Spendable: coinbase outputs are like any other. *)
Confirmed(c) == Confs[c] >= 1

(* What BlockbookClient.utxos and toSpendableUtxos let through.            *)
Spendable(c) == Confs[c] >= 1 /\ (c \in Coinbase => Confs[c] >= COINBASE_MATURITY)

SpentBy(txs) == UNION {d.inputs : d \in txs}

(* The outputs of an account, as an index sees them that may lag behind    *)
(* the node.                                                               *)
Listed(acct, indexed) ==
    {c \in Coins \ SpentBy(indexed) : Owner[c] = acct /\ Spendable(c)}

Settle(s) == [calls EXCEPT ![s] = Null]

(* setError and the finally clause, on the screen the call was made from.  *)
ReviewFails(s, e) ==
    /\ calls' = Settle(s)
    /\ IF calls[s].live THEN busy' = FALSE /\ error' = e ELSE UNCHANGED <<busy, error>>
    /\ UNCHANGED <<page, form, preview, password, sent>>

ReviewUnreachable(s) ==
    /\ calls[s] # Null /\ calls[s].stage = "list"
    /\ ReviewFails(s, "backend-down")
    /\ UNCHANGED <<backend, active, shown, stray, known, approved>>

(* buildTxPreview, then navigate, whatever screen is mounted by then. *)
Confirm(s, inputs) ==
    /\ Navigate("confirm", [acct |-> calls[s].acct, pay |-> calls[s].pay, inputs |-> inputs],
                Null, Settle(s))
    /\ IF page = "confirm" THEN UNCHANGED <<busy, error>> ELSE Fresh

ReviewAnswered(s) ==
    /\ calls[s] # Null /\ calls[s].stage = "list"
    /\ \E r \in ListResponses :
          LET kind == Read(backend, r)
          IN  IF kind # "ok"
              THEN ReviewFails(s, IF kind = "NODE_DOWN" THEN "backend-down" ELSE "generic")
              ELSE \E indexed \in SUBSET known :
                      LET utxos == Listed(calls[s].acct, indexed)
                      IN  \/ /\ Cardinality(utxos) < Needs[calls[s].pay]
                             /\ ReviewFails(s, "insufficient-funds")
                          \/ \E inputs \in SUBSET utxos :
                                /\ Cardinality(inputs) = Needs[calls[s].pay]
                                /\ Confirm(s, inputs)
    /\ UNCHANGED <<backend, active, shown, stray, known, approved>>

----------------------------------------------------------------------------
(* Confirm. *)

EnterPassword ==
    /\ page = "confirm" /\ password = Null
    /\ password' \in {"right", "wrong"}
    /\ UNCHANGED <<backend, active, shown, page, form, busy, error, preview, sent,
                   calls, stray, known, approved>>

(* "Try again" of a failed broadcast calls it too, and finds no password.  *)
handleApprove ==
    /\ page = "confirm" /\ password # Null /\ ~busy
    /\ \E s \in Slots :
          /\ calls[s] = Null
          /\ calls' = [calls EXCEPT ![s] = Approval(preview, password)]
    /\ busy' = TRUE /\ error' = Null
    /\ approved' = IF password = "right" THEN approved \cup {preview} ELSE approved
    /\ UNCHANGED <<backend, active, shown, page, form, preview, password, sent, stray, known>>

(* Mutant of Fails: the screen is busy until the next success. *)
FailsBusy(s, e) ==
    /\ calls' = Settle(s)
    /\ IF calls[s].live THEN error' = e /\ password' = Null
       ELSE UNCHANGED <<error, password>>
    /\ UNCHANGED <<page, form, busy, preview, sent>>

(* What handleApprove does with an outcome that is not ok. *)
Fails(s, e) ==
    /\ calls' = Settle(s)
    /\ IF calls[s].live THEN busy' = FALSE /\ error' = e /\ password' = Null
       ELSE UNCHANGED <<busy, error, password>>
    /\ UNCHANGED <<page, form, preview, sent>>

ErrorOf(kind) ==
    CASE kind = "TX_REJECTED" -> "tx-rejected"
      [] kind = "NODE_DOWN" -> "backend-down"
      [] OTHER -> "generic"

(* ... and with one that is: navigate, whatever screen is mounted by then. *)
Succeeds(s) ==
    /\ Navigate("sent", Null, calls[s].draft, Settle(s))
    /\ IF page = "sent" THEN UNCHANGED <<busy, error>> ELSE Fresh

(* Mutant of signDraft: the session key is used, not the password. *)
signWithSession(s) ==
    /\ calls[s] # Null /\ calls[s].stage = "sign"
    /\ calls' = [calls EXCEPT ![s].stage = "post", ![s].signer = active]
    /\ UNCHANGED <<ui, backend, active, shown, stray, known, approved>>

(* The worker signs with the key of the account that is active now.  The   *)
(* request may fail otherwise too: no worker, no vault any more.           *)
signDraft(s) ==
    /\ calls[s] # Null /\ calls[s].stage = "sign"
    /\ \/ /\ calls[s].pw = "right"
          /\ calls' = [calls EXCEPT ![s].stage = "post", ![s].signer = active]
          /\ UNCHANGED ui
       \/ calls[s].pw = "wrong" /\ Fails(s, "wrong-password")
       \/ Fails(s, "generic")
    /\ UNCHANGED <<backend, active, shown, stray, known, approved>>

(* The node. *)
Verdict(tx) ==
    CASE tx.draft \in known -> "known"
      [] tx.draft \notin known /\ \E c \in tx.draft.inputs : c \in SpentBy(known) -> "spent"
      [] tx.draft \notin known /\ \A c \in tx.draft.inputs : c \notin SpentBy(known) ->
            IF \E c \in tx.draft.inputs : Owner[c] # tx.signer THEN "stranger"
            ELSE IF \E c \in tx.draft.inputs \cap Coinbase : Confs[c] < COINBASE_MATURITY
            THEN "immature" ELSE "accepted"

Process(tx) ==
    known' = IF Verdict(tx) = "accepted" THEN known \cup {tx.draft} ELSE known

TxOf(s) == [draft |-> calls[s].draft, signer |-> calls[s].signer]

Deliver(s) ==
    /\ calls[s] # Null /\ calls[s].stage = "post"
    /\ calls' = [calls EXCEPT ![s].stage = "answered", ![s].verdict = Verdict(TxOf(s))]
    /\ Process(TxOf(s))
    /\ UNCHANGED <<backend, active, shown, ui, stray, approved>>

(* A request whose call has given up reaches the node, or is lost. *)
DeliverStray ==
    \E tx \in stray :
        /\ stray' = stray \ {tx}
        /\ known' = known \/ Process(tx)
        /\ UNCHANGED <<backend, active, shown, ui, calls, approved>>

(* The fetch rejects, or its timer aborts it, before an answer comes: the  *)
(* transaction may not have left, may be on its way, or be accepted.       *)
TimeOut(s) ==
    /\ calls[s] # Null /\ calls[s].stage \in {"post", "answered"}
    /\ Fails(s, "backend-down")
    /\ stray' = IF calls[s].stage = "post" /\ Cardinality(stray) < Strays
                THEN stray \cup {TxOf(s)} ELSE stray
    /\ UNCHANGED <<backend, active, shown, known, approved>>

(* confirmAndSend gets its answer. *)
Answered(s) ==
    /\ calls[s] # Null /\ calls[s].stage = "answered"
    /\ \E r \in Replies(backend, calls[s].verdict) \cup Garbled :
          LET kind == Broadcast(backend, r)
          IN  IF kind = "ok" \/ isAlreadyKnown(kind) THEN Succeeds(s) ELSE Fails(s, ErrorOf(kind))
    /\ UNCHANGED <<backend, active, shown, stray, known, approved>>

(* The headers arrive, which clears the timer, and the body never ends. *)
Stall(s) ==
    /\ calls[s] # Null /\ calls[s].stage \in {"list", "answered"} /\ calls[s].live
    /\ calls' = [calls EXCEPT ![s].stage = "stalled"]
    /\ UNCHANGED <<backend, active, shown, ui, stray, known, approved>>

----------------------------------------------------------------------------
(* Mutant of Respond: no timer aborts a request. *)
RespondUntimed(s) ==
    ReviewUnreachable(s) \/ ReviewAnswered(s) \/ signDraft(s) \/ Answered(s)

Respond(s) ==
    ReviewUnreachable(s) \/ ReviewAnswered(s) \/ signDraft(s) \/ TimeOut(s) \/ Answered(s)

Next ==
    \/ Leave \/ Switch \/ Refresh \/ Type \/ handleReview \/ EnterPassword \/ handleApprove
    \/ \E s \in Slots : Respond(s) \/ Deliver(s) \/ Stall(s)
    \/ DeliverStray

Spec == Init /\ [][Next]_vars

(* The timers run, and the worker answers. *)
FairSpec == Spec /\ \A s \in Slots : WF_vars(Respond(s))

----------------------------------------------------------------------------
(* Properties. *)

(* The Sent screen is only shown for a transaction the node has: whatever  *)
(* was lost, garbled, repeated, or signed by the account that had become   *)
(* active, "Transaction sent" and "Already on the network" are true.       *)
SentIsOnTheNode == page = "sent" => sent \in known

(* Every payment is one the user approved, with the right password, when   *)
(* the confirm screen showed it, and it spends the coins of the account it *)
(* was reviewed for: a late answer, a retry or a switch of accounts never  *)
(* makes a payment of another draft, or from another account.              *)
NothingUnapproved ==
    \A d \in known : d \in approved /\ \A c \in d.inputs : Owner[c] = d.acct

(* The buttons of a screen are disabled exactly while a call it made is in *)
(* flight; so no screen, even one whose route changes under it, approves   *)
(* twice at a time, and none stays disabled.                               *)
BusyIsInFlight ==
    /\ busy = \E s \in Slots : calls[s] # Null /\ calls[s].live
    /\ \A s, t \in Slots :
          calls[s] # Null /\ calls[s].live /\ calls[t] # Null /\ calls[t].live => s = t

(* What the wallet offers to spend, the node lets it spend: no transaction *)
(* comes back because it is too early.                                     *)
NeverImmature == \A s \in Slots : calls[s] # Null /\ calls[s] \notin Reviews => calls[s].verdict # "immature"

(* A screen that waits for an answer gets one, if only an error: the       *)
(* timeout of the requests sees to it, once the body has begun to come no  *)
(* longer.                                                                 *)
ScreenSettles == busy ~> ~busy \/ \E s \in Slots : calls[s] # Null /\ calls[s].stage = "stalled"
=============================================================================
