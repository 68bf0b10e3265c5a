--------------------------- MODULE SendFlowProofs ---------------------------
(* What a payment never does, for any number of accounts, coins, payments, *)
(* calls in flight and abandoned requests.                                 *)
EXTENDS SendFlow, TLAPS

Approvals ==
    [stage : {"sign", "post", "answered", "stalled"}, live : BOOLEAN, draft : Drafts,
     pw : {"right", "wrong"}, signer : Accounts \cup {Null}, verdict : Verdicts \cup {Null}]

(* A draft of one account's coins. *)
OwnDraft(d) == d \in Drafts /\ \A c \in d.inputs : Owner[c] = d.acct

(***************************************************************************)
(* The inductive invariant follows the draft: a call carries one that was  *)
(* on the confirm screen, past the signature one that was approved, and    *)
(* past a favourable answer one that the node has.  kn and ap stand for    *)
(* known and approved, which only grow.                                    *)
(***************************************************************************)
CallOK(c, kn, ap) ==
    /\ c \in Calls
    /\ c.stage \in {"sign", "post", "answered"} =>
        /\ c \in Approvals /\ OwnDraft(c.draft)
        /\ c.pw = "right" => c.draft \in ap
        /\ c.stage # "sign" => c.pw = "right" /\ c.signer \in Accounts
        /\ c.stage = "answered" => c.verdict \in Verdicts
        /\ c.stage = "answered" /\ c.verdict \in {"accepted", "known"} => c.draft \in kn

CallsOK(cs, kn, ap) ==
    /\ cs \in [Slots -> Calls \cup {Null}]
    /\ \A s \in Slots : cs[s] # Null => CallOK(cs[s], kn, ap)

StrayOK == \A tx \in stray : OwnDraft(tx.draft) /\ tx.draft \in approved

Inv ==
    /\ TypeOK
    /\ CallsOK(calls, known, approved)
    /\ preview # Null => OwnDraft(preview)
    /\ StrayOK
    /\ NothingUnapproved
    /\ SentIsOnTheNode

----------------------------------------------------------------------------
(* The clients.                                                            *)

LEMMA GarbledIsNoSuccess ==
    ASSUME NEW b \in {"blockbook", "api"}, NEW r \in Garbled
    PROVE  Broadcast(b, r) \notin {"ok", "ALREADY_KNOWN"}
<1>1. r.status \in {200, 404, 503} /\ r.body \in {"broken", "other"} /\ r.code = "none"
  BY DEF Garbled, Plain
<1>2. BlockbookBroadcast(r) \notin {"ok", "ALREADY_KNOWN"}
  BY <1>1 DEF BlockbookBroadcast, BlockbookUnreadable
<1>3. ApiResult(r) \notin {"ok", "ALREADY_KNOWN"}
  BY <1>1 DEF ApiResult, throwForStatus, IsOk
<1> QED BY <1>2, <1>3 DEF Broadcast

(* A client reports success only of a transaction the node accepted or had.*)
LEMMA SuccessIsTrue ==
    ASSUME NEW b \in {"blockbook", "api"}, NEW v \in Verdicts,
           NEW r \in Replies(b, v) \cup Garbled,
           Broadcast(b, r) \in {"ok", "ALREADY_KNOWN"}
    PROVE  v \in {"accepted", "known"}
<1>1. r \in Replies(b, v)
  BY GarbledIsNoSuccess
<1>2. SUFFICES ASSUME v \in {"spent", "stranger", "immature"}
               PROVE  FALSE
  BY DEF Verdicts
<1>3. CASE b = "blockbook"
  <2>1. r \in {Failed(400, "-25"), Failed(400, "-26")}
    BY <1>1, <1>2, <1>3 DEF Replies
  <2>2. r.body = "error" /\ r.code \in {"-25", "-26"}
    BY <2>1 DEF Failed
  <2> QED BY <1>3, <2>2 DEF Broadcast, BlockbookBroadcast, mapBroadcastError
<1>4. CASE b = "api"
  <2>1. r = Failed(400, "TX_REJECTED")
    BY <1>1, <1>2, <1>4 DEF Replies
  <2>2. r.status = 400 /\ r.body = "error" /\ r.code = "TX_REJECTED"
    BY <2>1 DEF Failed
  <2> QED BY <1>4, <2>2 DEF Broadcast, ApiResult, throwForStatus, IsOk, KindFromCode
<1> QED BY <1>3, <1>4

----------------------------------------------------------------------------
(* Calls.                                                                  *)

LEMMA CallsGrow ==
    ASSUME NEW cs, NEW kn, NEW ap, NEW kn2, NEW ap2,
           CallsOK(cs, kn, ap), kn \subseteq kn2, ap \subseteq ap2
    PROVE  CallsOK(cs, kn2, ap2)
BY DEF CallsOK, CallOK

LEMMA CallsPut ==
    ASSUME NEW cs, NEW kn, NEW ap, CallsOK(cs, kn, ap),
           NEW s \in Slots, NEW c, c = Null \/ CallOK(c, kn, ap)
    PROVE  CallsOK([cs EXCEPT ![s] = c], kn, ap)
BY DEF CallsOK, CallOK

LEMMA CallsOrphaned ==
    ASSUME NEW cs, NEW kn, NEW ap, CallsOK(cs, kn, ap)
    PROVE  CallsOK(Orphaned(cs), kn, ap)
<1> SUFFICES ASSUME NEW s \in Slots, Orphaned(cs)[s] # Null
             PROVE  CallOK(Orphaned(cs)[s], kn, ap)
  BY DEF CallsOK, CallOK, Orphaned
<1>1. cs[s] # Null /\ Orphaned(cs)[s] = [cs[s] EXCEPT !.live = FALSE]
  BY DEF Orphaned
<1>2. CallOK(cs[s], kn, ap)
  BY <1>1 DEF CallsOK
<1>3. CASE cs[s] \in Reviews
  BY <1>1, <1>2, <1>3 DEF CallOK, Calls, Reviews
<1>4. CASE cs[s] \in Approvals
  BY <1>1, <1>2, <1>4 DEF CallOK, Calls, Approvals
<1> QED BY <1>2, <1>3, <1>4 DEF CallOK, Calls, Approvals

(* To navigate loses calls or leaves them as they are. *)
LEMMA NavigateKeeps ==
    ASSUME NEW to, NEW d, NEW t, NEW cs, Navigate(to, d, t, cs),
           CallsOK(cs, known, approved), TypeOK
    PROVE  /\ CallsOK(calls', known, approved)
           /\ page' = to /\ preview' = d /\ sent' = t
           /\ form' \in Payments \cup {Null} /\ password' \in {"right", "wrong", Null}
BY CallsOrphaned DEF Navigate, TypeOK

LEMMA SettleKeeps ==
    ASSUME Inv, NEW s \in Slots
    PROVE  CallsOK(Settle(s), known, approved)
BY CallsPut DEF Inv, Settle

----------------------------------------------------------------------------
(* Steps.  Those that do not touch a call, a draft or the node are clear.  *)

LEMMA InitInv == Init => Inv
<1> SUFFICES ASSUME Init PROVE Inv
  OBVIOUS
<1>1. TypeOK
  BY DEF Init, TypeOK, Kinds, Errors
<1>2. CallsOK(calls, known, approved)
  BY DEF Init, CallsOK
<1> QED BY <1>1, <1>2 DEF Init, Inv, StrayOK, NothingUnapproved, SentIsOnTheNode

LEMMA LeaveInv ==
    ASSUME Inv, Leave
    PROVE  Inv'
<1>1. PICK to \in {"send", "home"} :
         /\ Navigate(to, Null, Null, calls) /\ Fresh
         /\ UNCHANGED <<backend, active, shown, stray, known, approved>>
  BY DEF Leave, Go
<1>2. /\ CallsOK(calls', known, approved)
      /\ page' = to /\ preview' = Null /\ sent' = Null
      /\ form' \in Payments \cup {Null} /\ password' \in {"right", "wrong", Null}
  BY <1>1, NavigateKeeps DEF Inv
<1>3. TypeOK'
  BY <1>1, <1>2 DEF Inv, TypeOK, Fresh, Errors, CallsOK
<1> QED BY <1>1, <1>2, <1>3 DEF Inv, StrayOK, NothingUnapproved, SentIsOnTheNode

LEMMA AccountInv ==
    ASSUME Inv, Switch \/ Refresh \/ Type \/ EnterPassword
    PROVE  Inv'
<1>1. /\ UNCHANGED <<backend, page, busy, error, preview, sent, calls, stray, known, approved>>
      /\ active' \in Accounts /\ shown' \in Accounts
      /\ form' \in Payments \cup {Null} /\ password' \in {"right", "wrong", Null}
  BY DEF Switch, Refresh, Type, EnterPassword, ui, Inv, TypeOK
<1> QED BY <1>1 DEF Inv, TypeOK, StrayOK, NothingUnapproved, SentIsOnTheNode

LEMMA HandleReviewInv ==
    ASSUME Inv, handleReview
    PROVE  Inv'
<1>1. PICK s \in Slots : calls' = [calls EXCEPT ![s] = Review(shown, form)]
  BY DEF handleReview
<1>2. CallOK(Review(shown, form), known, approved)
  <2>1. Review(shown, form) \in Reviews /\ Review(shown, form).stage = "list"
    BY DEF handleReview, Inv, TypeOK, Review, Reviews
  <2> QED BY <2>1 DEF CallOK, Calls
<1>3. CallsOK(calls', known, approved)
  BY <1>1, <1>2, CallsPut DEF Inv
<1> QED BY <1>3 DEF handleReview, Inv, TypeOK, Errors, CallsOK, StrayOK, NothingUnapproved, SentIsOnTheNode

LEMMA HandleApproveInv ==
    ASSUME Inv, handleApprove
    PROVE  Inv'
<1>1. PICK s \in Slots : calls' = [calls EXCEPT ![s] = Approval(preview, password)]
  BY DEF handleApprove
<1>2. preview \in Drafts /\ OwnDraft(preview) /\ password \in {"right", "wrong"}
  BY DEF handleApprove, Inv, TypeOK
<1>3. approved \subseteq approved' /\ approved' \subseteq Drafts
  BY <1>2 DEF handleApprove, Inv, TypeOK
<1>4. CallOK(Approval(preview, password), known, approved')
  <2>1. Approval(preview, password) \in Approvals
    BY <1>2 DEF Approval, Approvals
  <2>2. password = "right" => preview \in approved'
    BY <1>2 DEF handleApprove
  <2> QED BY <1>2, <2>1, <2>2 DEF CallOK, Calls, Approvals, Approval
<1>5. CallsOK(calls', known, approved')
  <2>1. CallsOK(calls, known, approved')
    BY <1>3, CallsGrow DEF Inv
  <2> QED BY <1>1, <1>4, <2>1, CallsPut
<1>6. UNCHANGED <<backend, active, shown, page, form, preview, password, sent, stray, known>>
      /\ busy' = TRUE /\ error' = Null
  BY DEF handleApprove
<1>7. TypeOK'
  BY <1>3, <1>5, <1>6 DEF Inv, TypeOK, Errors, CallsOK
<1> QED BY <1>3, <1>5, <1>6, <1>7 DEF Inv, StrayOK, NothingUnapproved, SentIsOnTheNode

(* An outcome that is an error settles the call and stays on its screen.   *)
LEMMA ErrorInv ==
    ASSUME Inv, NEW s \in Slots, NEW e \in Errors,
           ReviewFails(s, e) \/ Fails(s, e),
           UNCHANGED <<backend, active, shown, known, approved>>, stray' \subseteq Signed, StrayOK'
    PROVE  Inv'
<1>1. /\ calls' = Settle(s)
      /\ busy' \in BOOLEAN /\ error' \in Errors /\ password' \in {"right", "wrong", Null}
      /\ UNCHANGED <<page, form, preview, sent>>
  BY DEF ReviewFails, Fails, Inv, TypeOK
<1>2. CallsOK(calls', known, approved)
  BY <1>1, SettleKeeps
<1> QED BY <1>1, <1>2 DEF Inv, TypeOK, CallsOK, NothingUnapproved, SentIsOnTheNode

LEMMA ReviewUnreachableInv ==
    ASSUME Inv, NEW s \in Slots, ReviewUnreachable(s)
    PROVE  Inv'
<1>1. stray' \subseteq Signed /\ StrayOK'
  BY DEF ReviewUnreachable, Inv, TypeOK, StrayOK
<1> QED BY <1>1, ErrorInv DEF ReviewUnreachable, Errors

(* The preview of a review spends the coins of the account it was for. *)
LEMMA ConfirmInv ==
    ASSUME Inv, NEW s \in Slots, calls[s] # Null, calls[s].stage = "list",
           NEW indexed, NEW inputs \in SUBSET Listed(calls[s].acct, indexed), Confirm(s, inputs),
           UNCHANGED <<backend, active, shown, stray, known, approved>>
    PROVE  Inv'
<1> DEFINE d == [acct |-> calls[s].acct, pay |-> calls[s].pay, inputs |-> inputs]
<1>1. calls[s] \in Reviews
  BY DEF Inv, TypeOK, Calls
<1>2. d \in Drafts /\ OwnDraft(d) /\ d # Null
  <2>1. inputs \subseteq Coins /\ \A c \in inputs : Owner[c] = calls[s].acct
    BY DEF Listed
  <2> QED BY <1>1, <2>1, ConstantsAssumption DEF Drafts, Reviews, OwnDraft
<1> HIDE DEF d
<1>3. Navigate("confirm", d, Null, Settle(s))
  BY DEF Confirm, d
<1>4. /\ CallsOK(calls', known, approved)
      /\ page' = "confirm" /\ preview' = d /\ sent' = Null
      /\ form' \in Payments \cup {Null} /\ password' \in {"right", "wrong", Null}
  BY <1>3, SettleKeeps, NavigateKeeps DEF Inv
<1>5. TypeOK'
  BY <1>2, <1>4 DEF Inv, TypeOK, Confirm, Fresh, Errors, CallsOK
<1> QED BY <1>2, <1>4, <1>5 DEF Inv, StrayOK, NothingUnapproved, SentIsOnTheNode

LEMMA ReviewAnsweredInv ==
    ASSUME Inv, NEW s \in Slots, ReviewAnswered(s)
    PROVE  Inv'
<1>1. /\ calls[s] # Null /\ calls[s].stage = "list"
      /\ UNCHANGED <<backend, active, shown, stray, known, approved>>
      /\ \/ \E e \in Errors : ReviewFails(s, e)
         \/ \E indexed : \E inputs \in SUBSET Listed(calls[s].acct, indexed) : Confirm(s, inputs)
  BY DEF ReviewAnswered, Errors
<1>2. stray' \subseteq Signed /\ StrayOK'
  BY <1>1 DEF Inv, TypeOK, StrayOK
<1>3. ASSUME NEW e \in Errors, ReviewFails(s, e)
      PROVE  Inv'
  BY <1>1, <1>2, <1>3, ErrorInv
<1>4. ASSUME NEW indexed, NEW inputs \in SUBSET Listed(calls[s].acct, indexed), Confirm(s, inputs)
      PROVE  Inv'
  BY <1>1, <1>4, ConfirmInv
<1> QED BY <1>1, <1>3, <1>4

LEMMA SignDraftInv ==
    ASSUME Inv, NEW s \in Slots, signDraft(s)
    PROVE  Inv'
<1>1. /\ calls[s] # Null /\ calls[s].stage = "sign"
      /\ UNCHANGED <<backend, active, shown, stray, known, approved>>
  BY DEF signDraft
<1>2. stray' \subseteq Signed /\ StrayOK'
  BY <1>1 DEF Inv, TypeOK, StrayOK
<1>3. CASE /\ calls[s].pw = "right" /\ UNCHANGED ui
           /\ calls' = [calls EXCEPT ![s].stage = "post", ![s].signer = active]
  <2> DEFINE c == [calls[s] EXCEPT !.stage = "post", !.signer = active]
  <2>1. CallOK(calls[s], known, approved) /\ active \in Accounts
    BY <1>1 DEF Inv, CallsOK, TypeOK
  <2>2. c \in Approvals /\ c.stage = "post" /\ c.signer \in Accounts
        /\ c.draft = calls[s].draft /\ c.pw = calls[s].pw
    BY <1>1, <2>1 DEF CallOK, Approvals
  <2> HIDE DEF c
  <2>3. CallOK(c, known, approved)
    BY <1>1, <1>3, <2>1, <2>2 DEF CallOK, Calls, Approvals
  <2>4. calls' = [calls EXCEPT ![s] = c]
    BY <1>3 DEF c
  <2>5. CallsOK(calls', known, approved)
    BY <2>3, <2>4, CallsPut DEF Inv
  <2> QED BY <1>1, <1>3, <2>5 DEF ui, Inv, TypeOK, CallsOK, StrayOK, NothingUnapproved, SentIsOnTheNode
<1>4. ASSUME NEW e \in {"wrong-password", "generic"}, Fails(s, e)
      PROVE  Inv'
  BY <1>1, <1>2, <1>4, ErrorInv DEF Errors
<1> QED BY <1>3, <1>4 DEF signDraft

(* What the node takes in is a draft the call or the request carried.      *)
LEMMA ProcessKeeps ==
    ASSUME Inv, NEW tx, tx.draft \in Drafts, OwnDraft(tx.draft), tx.draft \in approved, Process(tx),
           UNCHANGED approved
    PROVE  /\ known \subseteq known' /\ known' \subseteq Drafts
           /\ NothingUnapproved'
           /\ Verdict(tx) \in {"accepted", "known"} => tx.draft \in known'
<1>1. Verdict(tx) = "known" => tx.draft \in known
  BY DEF Verdict
<1> QED BY <1>1 DEF Process, Inv, TypeOK, NothingUnapproved, OwnDraft

LEMMA VerdictType ==
    ASSUME NEW tx
    PROVE  Verdict(tx) \in Verdicts
<1>1. CASE tx.draft \in known
  BY <1>1 DEF Verdict, Verdicts
<1>2. CASE tx.draft \notin known /\ \E c \in tx.draft.inputs : c \in SpentBy(known)
  BY <1>2 DEF Verdict, Verdicts
<1>3. CASE tx.draft \notin known /\ \A c \in tx.draft.inputs : c \notin SpentBy(known)
  BY <1>3 DEF Verdict, Verdicts
<1> QED BY <1>1, <1>2, <1>3

LEMMA DeliverInv ==
    ASSUME Inv, NEW s \in Slots, Deliver(s)
    PROVE  Inv'
<1> DEFINE tx == TxOf(s)
           v == Verdict(tx)
           c == [calls[s] EXCEPT !.stage = "answered", !.verdict = v]
<1>1. /\ CallOK(calls[s], known, approved) /\ calls[s].stage = "post"
      /\ calls' = [calls EXCEPT ![s] = c]
      /\ Process(tx) /\ UNCHANGED <<backend, active, shown, ui, stray, approved>>
  BY DEF Deliver, Inv, CallsOK
<1>2. tx.draft = calls[s].draft /\ v \in Verdicts
  BY VerdictType DEF TxOf
<1>3. calls[s] \in Approvals /\ OwnDraft(calls[s].draft) /\ calls[s].draft \in approved
      /\ calls[s].pw = "right" /\ calls[s].signer \in Accounts
  BY <1>1 DEF CallOK
<1>4. /\ known \subseteq known' /\ known' \subseteq Drafts /\ NothingUnapproved'
      /\ v \in {"accepted", "known"} => calls[s].draft \in known'
  <2> HIDE DEF tx
  <2>1. tx.draft \in Drafts /\ OwnDraft(tx.draft) /\ tx.draft \in approved
    BY <1>2, <1>3 DEF OwnDraft
  <2> QED BY <1>1, <1>2, <2>1, ProcessKeeps
<1> HIDE DEF v
<1>5. CallOK(c, known', approved)
  <2>1. c \in Approvals /\ c.stage = "answered" /\ c.verdict = v /\ c.draft = calls[s].draft
        /\ c.pw = calls[s].pw /\ c.signer = calls[s].signer
    BY <1>2, <1>3 DEF Approvals
  <2> HIDE DEF c
  <2> QED BY <1>2, <1>3, <1>4, <2>1 DEF CallOK, Calls, Approvals
<1> HIDE DEF c
<1>6. CallsOK(calls', known', approved)
  <2>1. CallsOK(calls, known', approved)
    BY <1>4, CallsGrow DEF Inv
  <2> QED BY <1>1, <1>5, <2>1, CallsPut
<1> QED BY <1>1, <1>4, <1>6 DEF ui, Inv, TypeOK, CallsOK, StrayOK, SentIsOnTheNode

LEMMA DeliverStrayInv ==
    ASSUME Inv, DeliverStray
    PROVE  Inv'
<1>1. PICK tx \in stray :
         /\ stray' = stray \ {tx} /\ (known' = known \/ Process(tx))
         /\ UNCHANGED <<backend, active, shown, ui, calls, approved>>
  BY DEF DeliverStray
<1>2. tx.draft \in Drafts /\ OwnDraft(tx.draft) /\ tx.draft \in approved
  BY DEF Inv, StrayOK, OwnDraft
<1>3. known \subseteq known' /\ known' \subseteq Drafts /\ NothingUnapproved'
  <2>1. CASE known' = known
    BY <1>1, <2>1 DEF Inv, TypeOK, NothingUnapproved
  <2>2. CASE Process(tx)
    BY <1>1, <1>2, <2>2, ProcessKeeps
  <2> QED BY <1>1, <2>1, <2>2
<1>4. CallsOK(calls', known', approved')
  BY <1>1, <1>3, CallsGrow DEF Inv
<1> QED BY <1>1, <1>3, <1>4 DEF ui, Inv, TypeOK, StrayOK, SentIsOnTheNode

(* A call that gives up leaves an approved transaction under way.          *)
LEMMA TimeOutInv ==
    ASSUME Inv, NEW s \in Slots, TimeOut(s)
    PROVE  Inv'
<1>1. /\ CallOK(calls[s], known, approved) /\ calls[s].stage \in {"post", "answered"}
      /\ Fails(s, "backend-down") /\ UNCHANGED <<backend, active, shown, known, approved>>
      /\ stray' \subseteq stray \cup {TxOf(s)}
  BY DEF TimeOut, Inv, CallsOK
<1>2. TxOf(s) \in Signed /\ OwnDraft(TxOf(s).draft) /\ TxOf(s).draft \in approved
  BY <1>1 DEF CallOK, TxOf, Signed, OwnDraft
<1>3. stray' \subseteq Signed /\ StrayOK'
  BY <1>1, <1>2 DEF Inv, TypeOK, StrayOK
<1> QED BY <1>1, <1>3, ErrorInv DEF Errors

LEMMA AnsweredInv ==
    ASSUME Inv, NEW s \in Slots, Answered(s)
    PROVE  Inv'
<1>1. /\ CallOK(calls[s], known, approved) /\ calls[s].stage = "answered"
      /\ UNCHANGED <<backend, active, shown, stray, known, approved>>
      /\ backend \in {"blockbook", "api"}
  BY ConstantsAssumption DEF Answered, Inv, CallsOK, TypeOK
<1>2. PICK r \in Replies(backend, calls[s].verdict) \cup Garbled :
         LET kind == Broadcast(backend, r)
         IN  IF kind = "ok" \/ isAlreadyKnown(kind) THEN Succeeds(s) ELSE Fails(s, ErrorOf(kind))
  BY DEF Answered
<1> DEFINE kind == Broadcast(backend, r)
<1>3. CASE kind = "ok" \/ isAlreadyKnown(kind)
  <2>1. calls[s].verdict \in {"accepted", "known"}
    <3>1. calls[s].verdict \in Verdicts
      BY <1>1 DEF CallOK
    <3> QED BY <1>1, <1>3, <3>1, SuccessIsTrue DEF isAlreadyKnown
  <2>2. calls[s].draft \in known /\ calls[s].draft \in Drafts
    BY <1>1, <2>1 DEF CallOK, OwnDraft
  <2>3. Succeeds(s)
    BY <1>2, <1>3
  <2>4. /\ CallsOK(calls', known, approved)
        /\ page' = "sent" /\ preview' = Null /\ sent' = calls[s].draft
        /\ form' \in Payments \cup {Null} /\ password' \in {"right", "wrong", Null}
    BY <2>3, SettleKeeps, NavigateKeeps DEF Succeeds, Inv
  <2>5. busy' \in BOOLEAN /\ error' \in Errors
    BY <2>3 DEF Succeeds, Fresh, Inv, TypeOK, Errors
  <2>6. TypeOK'
    BY <1>1, <2>2, <2>4, <2>5 DEF Inv, TypeOK, CallsOK
  <2> QED BY <1>1, <2>2, <2>4, <2>6 DEF Inv, StrayOK, NothingUnapproved, SentIsOnTheNode
<1>4. CASE ~(kind = "ok" \/ isAlreadyKnown(kind))
  <2>1. Fails(s, ErrorOf(kind))
    BY <1>2, <1>4
  <2>2. ErrorOf(kind) \in Errors
    BY DEF ErrorOf, Errors
  <2>3. stray' \subseteq Signed /\ StrayOK'
    BY <1>1 DEF Inv, TypeOK, StrayOK
  <2> QED BY <1>1, <2>1, <2>2, <2>3, ErrorInv
<1> QED BY <1>3, <1>4

LEMMA StallInv ==
    ASSUME Inv, NEW s \in Slots, Stall(s)
    PROVE  Inv'
<1> DEFINE c == [calls[s] EXCEPT !.stage = "stalled"]
<1>1. /\ CallOK(calls[s], known, approved) /\ calls[s].stage \in {"list", "answered"}
      /\ calls' = [calls EXCEPT ![s] = c]
      /\ UNCHANGED <<backend, active, shown, ui, stray, known, approved>>
  BY DEF Stall, Inv, CallsOK
<1>2. c \in Calls /\ c.stage = "stalled"
  <2>1. CASE calls[s] \in Reviews
    BY <2>1 DEF Calls, Reviews
  <2>2. CASE calls[s] \in Approvals
    BY <2>2 DEF Calls, Approvals
  <2> QED BY <1>1, <2>1, <2>2 DEF CallOK, Calls, Approvals
<1> HIDE DEF c
<1>3. CallsOK(calls', known, approved)
  <2>1. CallOK(c, known, approved)
    BY <1>2 DEF CallOK
  <2> QED BY <1>1, <2>1, CallsPut DEF Inv
<1> QED BY <1>1, <1>3 DEF ui, Inv, TypeOK, CallsOK, StrayOK, NothingUnapproved, SentIsOnTheNode

LEMMA NextInv ==
    ASSUME Inv, [Next]_vars
    PROVE  Inv'
<1>1. ASSUME NEW s \in Slots, Respond(s) \/ Deliver(s) \/ Stall(s)
      PROVE  Inv'
  BY <1>1, ReviewUnreachableInv, ReviewAnsweredInv, SignDraftInv, TimeOutInv, AnsweredInv,
     DeliverInv, StallInv DEF Respond
<1>2. CASE UNCHANGED vars
  BY <1>2 DEF vars, ui, Inv, TypeOK, StrayOK, NothingUnapproved, SentIsOnTheNode
<1> QED BY <1>1, <1>2, LeaveInv, AccountInv, HandleReviewInv, HandleApproveInv, DeliverStrayInv DEF Next

THEOREM InvHolds == Spec => []Inv
BY InitInv, NextInv, PTL DEF Spec

(* Every reachable state is well typed; on the confirm screen there is a   *)
(* draft to approve.                                                       *)
THEOREM TypeAlwaysOK == Spec => []TypeOK
<1>1. Inv => TypeOK
  BY DEF Inv
<1> QED BY <1>1, InvHolds, PTL

(* The node never has a payment that was not approved on screen with the   *)
(* right password, or that spends the coins of another account.            *)
THEOREM NothingIsUnapproved == Spec => []NothingUnapproved
<1>1. Inv => NothingUnapproved
  BY DEF Inv
<1> QED BY <1>1, InvHolds, PTL

(* "Transaction sent" is always true. *)
THEOREM SentIsTrue == Spec => []SentIsOnTheNode
<1>1. Inv => SentIsOnTheNode
  BY DEF Inv
<1> QED BY <1>1, InvHolds, PTL

(***************************************************************************)
(* The screen and its calls.  A call is live as long as the screen that    *)
(* made it is mounted: that screen is the one shown, and says it is busy.  *)
(***************************************************************************)
Live(s) == calls[s] # Null /\ calls[s].live
ScreenOf(c) == IF c \in Reviews THEN "send" ELSE "confirm"

ScreenInv ==
    /\ BusyIsInFlight
    /\ \A s \in Slots : Live(s) => page = ScreenOf(calls[s])

LEMMA ReviewsApart ==
    ASSUME NEW c \in Approvals
    PROVE  c \notin Reviews
<1> SUFFICES ASSUME c \in Reviews
             PROVE  FALSE
  OBVIOUS
<1>1. "draft" \in DOMAIN c
  BY DEF Approvals
<1>2. "draft" \notin DOMAIN c
  BY DEF Reviews
<1> QED BY <1>1, <1>2

(* What a call is made of does not depend on what becomes of it. *)
LEMMA ScreenStays ==
    ASSUME Inv, ScreenInv, UNCHANGED <<page, busy>>,
           NEW s \in Slots, NEW c \in Calls, calls[s] # Null,
           calls' = [calls EXCEPT ![s] = c], c.live = calls[s].live,
           c \in Reviews <=> calls[s] \in Reviews
    PROVE  ScreenInv'
<1>1. calls \in [Slots -> Calls \cup {Null}] /\ c # Null
  BY CallsAssumption DEF Inv, TypeOK
<1>2. \A t \in Slots : Live(t)' <=> Live(t)
  BY <1>1 DEF Live
<1> QED BY <1>1, <1>2 DEF ScreenInv, BusyIsInFlight, Live, ScreenOf

LEMMA ScreenSettled ==
    ASSUME Inv, ScreenInv, NEW s \in Slots, calls[s] # Null, calls' = Settle(s), page' = page,
           busy' = IF calls[s].live THEN FALSE ELSE busy
    PROVE  ScreenInv'
<1>1. \A t \in Slots : Live(t)' <=> Live(t) /\ t # s
  BY DEF Live, Settle, Inv, TypeOK
<1>2. \A t \in Slots : t # s => calls'[t] = calls[t]
  BY DEF Settle, Inv, TypeOK
<1> QED BY <1>1, <1>2 DEF ScreenInv, BusyIsInFlight, Live, ScreenOf

(* To leave a screen is to leave its calls. *)
LEMMA ScreenLeft ==
    ASSUME NEW cs \in [Slots -> Calls \cup {Null}], calls' = Orphaned(cs), busy' = FALSE
    PROVE  ScreenInv'
<1>1. ASSUME NEW t \in Slots
      PROVE  ~Live(t)'
  <2>1. calls'[t] # Null => calls'[t] = [cs[t] EXCEPT !.live = FALSE] /\ cs[t] \in Calls
    BY DEF Orphaned
  <2>2. ASSUME NEW c \in Calls
        PROVE  [c EXCEPT !.live = FALSE].live = FALSE
    <3>1. CASE c \in Reviews
      BY <3>1 DEF Reviews
    <3>2. CASE c \in Approvals
      BY <3>2 DEF Approvals
    <3> QED BY <3>1, <3>2 DEF Calls, Approvals
  <2> QED BY <2>1, <2>2 DEF Live
<1> QED BY <1>1 DEF ScreenInv, BusyIsInFlight, Live

LEMMA ScreenStep ==
    ASSUME Inv, ScreenInv, [Next]_vars
    PROVE  ScreenInv'
<1>0. calls \in [Slots -> Calls \cup {Null}]
  BY DEF Inv, TypeOK
<1>1. CASE UNCHANGED <<page, busy, calls>>
  BY <1>1 DEF ScreenInv, BusyIsInFlight, Live, ScreenOf
<1>2. CASE Leave
  <2>1. calls' = Orphaned(calls) /\ busy' = FALSE
    BY <1>2 DEF Leave, Go, Navigate, Fresh
  <2> QED BY <1>0, <2>1, ScreenLeft
<1>3. ASSUME NEW c \in Calls, c.live = TRUE, page = ScreenOf(c), ~busy, busy' = TRUE, page' = page,
             NEW s \in Slots, calls' = [calls EXCEPT ![s] = c]
      PROVE  ScreenInv'
  <2>1. \A t \in Slots : ~Live(t)
    BY <1>3 DEF ScreenInv, BusyIsInFlight, Live
  <2>2. \A t \in Slots : Live(t)' <=> t = s
    BY <1>0, <1>3, <2>1, CallsAssumption DEF Live
  <2> QED BY <1>0, <1>3, <2>2 DEF ScreenInv, BusyIsInFlight, Live, ScreenOf
<1>4. CASE handleReview
  <2>1. Review(shown, form) \in Reviews /\ Review(shown, form).live = TRUE
    BY <1>4 DEF handleReview, Inv, TypeOK, Review, Reviews
  <2> QED BY <1>3, <1>4, <2>1 DEF handleReview, Calls, ScreenOf
<1>5. CASE handleApprove
  <2>1. Approval(preview, password) \in Approvals /\ Approval(preview, password).live = TRUE
    BY <1>5 DEF handleApprove, Inv, TypeOK, Approval, Approvals
  <2>2. Approval(preview, password) \in Calls /\ Approval(preview, password) \notin Reviews
    BY <2>1, ReviewsApart DEF Calls, Approvals
  <2> QED BY <1>3, <1>5, <2>1, <2>2 DEF handleApprove, ScreenOf
<1>6. ASSUME NEW s \in Slots, calls[s] # Null, NEW to, NEW d, NEW t, Navigate(to, d, t, Settle(s)),
             IF page = to THEN UNCHANGED <<busy, error>> ELSE Fresh,
             page = to => ~calls[s].live
      PROVE  ScreenInv'
  <2>1. Settle(s) \in [Slots -> Calls \cup {Null}]
    BY <1>0 DEF Settle
  <2>2. CASE page = to
    BY <1>6, <2>2, ScreenSettled DEF Navigate
  <2>3. CASE page # to
    BY <1>6, <2>1, <2>3, ScreenLeft DEF Navigate, Fresh
  <2> QED BY <2>2, <2>3
<1>7. ASSUME NEW s \in Slots, ReviewUnreachable(s) \/ ReviewAnswered(s)
      PROVE  ScreenInv'
  <2>1. calls[s] # Null /\ calls[s] \in Reviews
    BY <1>0, <1>7 DEF ReviewUnreachable, ReviewAnswered, Calls
  <2>2. page = "confirm" => ~calls[s].live
    BY <2>1 DEF ScreenInv, ScreenOf, Live
  <2>3. CASE \E e : ReviewFails(s, e)
    BY <2>1, <2>3, ScreenSettled DEF ReviewFails
  <2>4. CASE \E inputs : Confirm(s, inputs)
    BY <1>6, <2>1, <2>2, <2>4 DEF Confirm
  <2> QED BY <1>7, <2>3, <2>4 DEF ReviewUnreachable, ReviewAnswered
<1>8. ASSUME NEW s \in Slots, signDraft(s) \/ TimeOut(s) \/ Answered(s) \/ Deliver(s)
      PROVE  ScreenInv'
  <2>1. calls[s] \in Approvals /\ calls[s] # Null
    BY <1>8 DEF Inv, CallsOK, CallOK, signDraft, TimeOut, Answered, Deliver
  <2>2. page = "sent" => ~calls[s].live
    BY <2>1, ReviewsApart DEF ScreenInv, ScreenOf, Live
  <2>3. CASE \E e : Fails(s, e)
    BY <2>1, <2>3, ScreenSettled DEF Fails
  <2>4. CASE Succeeds(s)
    BY <1>6, <2>1, <2>2, <2>4 DEF Succeeds
  <2>5. ASSUME NEW c \in Approvals, c.live = calls[s].live, UNCHANGED <<page, busy>>,
               calls' = [calls EXCEPT ![s] = c]
        PROVE  ScreenInv'
    BY <2>1, <2>5, ReviewsApart, ScreenStays DEF Calls, Approvals
  <2>6. CASE calls' = [calls EXCEPT ![s].stage = "post", ![s].signer = active] /\ UNCHANGED ui
    <3> DEFINE c == [calls[s] EXCEPT !.stage = "post", !.signer = active]
    <3>1. c \in Approvals /\ c.live = calls[s].live
      BY <2>1 DEF Approvals, Inv, TypeOK
    <3>2. calls' = [calls EXCEPT ![s] = c]
      BY <2>6
    <3> HIDE DEF c
    <3> QED BY <2>5, <2>6, <3>1, <3>2 DEF ui
  <2>7. CASE Deliver(s)
    <3> DEFINE v == Verdict(TxOf(s))
               c == [calls[s] EXCEPT !.stage = "answered", !.verdict = v]
    <3>1. v \in Verdicts
      BY VerdictType
    <3>2. calls' = [calls EXCEPT ![s] = c] /\ UNCHANGED ui
      BY <2>7 DEF Deliver
    <3> HIDE DEF v
    <3>3. c \in Approvals /\ c.live = calls[s].live
      BY <2>1, <3>1 DEF Approvals
    <3> HIDE DEF c
    <3> QED BY <2>5, <3>2, <3>3 DEF ui
  <2> QED BY <1>8, <2>3, <2>4, <2>6, <2>7 DEF signDraft, TimeOut, Answered
<1>9. ASSUME NEW s \in Slots, Stall(s)
      PROVE  ScreenInv'
  <2> DEFINE c == [calls[s] EXCEPT !.stage = "stalled"]
  <2>1. calls[s] # Null /\ calls[s] \in Calls /\ calls' = [calls EXCEPT ![s] = c] /\ UNCHANGED ui
    BY <1>0, <1>9 DEF Stall
  <2>2. CASE calls[s] \in Reviews
    <3>1. c \in Reviews /\ c.live = calls[s].live
      BY <2>2 DEF Reviews
    <3> HIDE DEF c
    <3> QED BY <2>1, <2>2, <3>1, ScreenStays DEF ui, Calls
  <2>3. CASE calls[s] \in Approvals
    <3>1. c \in Approvals /\ c.live = calls[s].live
      BY <2>3 DEF Approvals
    <3> HIDE DEF c
    <3> QED BY <2>1, <2>3, <3>1, ReviewsApart, ScreenStays DEF ui, Calls, Approvals
  <2> QED BY <2>1, <2>2, <2>3 DEF Calls, Approvals
<1>10. CASE Switch \/ Refresh \/ Type \/ EnterPassword \/ DeliverStray
  BY <1>1, <1>10 DEF Switch, Refresh, Type, EnterPassword, DeliverStray, ui
<1>11. CASE UNCHANGED vars
  BY <1>1, <1>11 DEF vars, ui
<1> QED BY <1>2, <1>4, <1>5, <1>7, <1>8, <1>9, <1>10, <1>11 DEF Next, Respond

(* The buttons are disabled exactly while the screen has a call in flight, *)
(* and it never has two, for any number of calls that outlive their screen.*)
THEOREM BusyIsAlwaysInFlight == Spec => []BusyIsInFlight
<1>1. Init => ScreenInv
  BY DEF Init, ScreenInv, BusyIsInFlight, Live
<1>2. ScreenInv => BusyIsInFlight
  BY DEF ScreenInv
<1> QED BY <1>1, <1>2, InvHolds, ScreenStep, PTL DEF Spec

(***************************************************************************)
(* Maturity.  What a draft spends was listed as spendable, which is what   *)
(* the node asks of it, whoever has signed it by then.                     *)
(***************************************************************************)
MatureDraft(d) == \A c \in d.inputs \cap Coinbase : Confs[c] >= COINBASE_MATURITY
MatureCall(c)  == c \notin Reviews => MatureDraft(c.draft) /\ c.verdict # "immature"

MatureInv ==
    /\ preview # Null => MatureDraft(preview)
    /\ \A s \in Slots : calls[s] # Null => MatureCall(calls[s])

LEMMA MatureOrphaned ==
    ASSUME NEW cs \in [Slots -> Calls \cup {Null}],
           \A s \in Slots : cs[s] # Null => MatureCall(cs[s]),
           NEW s \in Slots, Orphaned(cs)[s] # Null
    PROVE  MatureCall(Orphaned(cs)[s])
<1>1. cs[s] # Null /\ Orphaned(cs)[s] = [cs[s] EXCEPT !.live = FALSE] /\ cs[s] \in Calls
  BY DEF Orphaned
<1>2. CASE cs[s] \in Reviews
  <2>1. Orphaned(cs)[s] \in Reviews
    BY <1>1, <1>2 DEF Reviews
  <2> QED BY <2>1 DEF MatureCall
<1>3. CASE cs[s] \in Approvals
  <2>1. Orphaned(cs)[s].draft = cs[s].draft /\ Orphaned(cs)[s].verdict = cs[s].verdict
    BY <1>1, <1>3 DEF Approvals
  <2> QED BY <1>1, <1>3, <2>1, ReviewsApart DEF MatureCall
<1> QED BY <1>1, <1>2, <1>3 DEF Calls, Approvals

(* Navigation changes the preview and loses calls, a settled one too.      *)
LEMMA MatureNavigate ==
    ASSUME Inv, MatureInv, NEW to, NEW d, NEW t, NEW cs \in {calls} \cup {Settle(s) : s \in Slots},
           Navigate(to, d, t, cs), d # Null => MatureDraft(d)
    PROVE  MatureInv'
<1>1. /\ cs \in [Slots -> Calls \cup {Null}]
      /\ \A s \in Slots : cs[s] # Null => MatureCall(cs[s])
  BY DEF Settle, Inv, TypeOK, MatureInv
<1>2. calls' \in {cs, Orphaned(cs)} /\ preview' = d
  BY DEF Navigate
<1>3. \A s \in Slots : calls'[s] # Null => MatureCall(calls'[s])
  BY <1>1, <1>2, MatureOrphaned
<1> QED BY <1>2, <1>3 DEF MatureInv

LEMMA MaturePut ==
    ASSUME Inv, MatureInv, preview' = preview, NEW s \in Slots, NEW c, c # Null => MatureCall(c),
           calls' = [calls EXCEPT ![s] = c]
    PROVE  MatureInv'
BY DEF Inv, TypeOK, MatureInv

(* The node finds no draft immature that is not. *)
LEMMA MatureVerdict ==
    ASSUME NEW tx, tx.draft \in Drafts, MatureDraft(tx.draft)
    PROVE  Verdict(tx) # "immature"
<1>1. ~\E c \in tx.draft.inputs \cap Coinbase : Confs[c] < COINBASE_MATURITY
  BY ConstantsAssumption DEF MatureDraft, COINBASE_MATURITY, Drafts
<1>2. CASE tx.draft \in known
  BY <1>2 DEF Verdict
<1>3. CASE tx.draft \notin known /\ \E c \in tx.draft.inputs : c \in SpentBy(known)
  BY <1>3 DEF Verdict
<1>4. CASE tx.draft \notin known /\ \A c \in tx.draft.inputs : c \notin SpentBy(known)
  BY <1>1, <1>4 DEF Verdict
<1> QED BY <1>2, <1>3, <1>4

LEMMA MatureStep ==
    ASSUME Inv, MatureInv, [Next]_vars
    PROVE  MatureInv'
<1>1. CASE UNCHANGED <<preview, calls>>
  BY <1>1 DEF MatureInv
<1>2. CASE Leave
  BY <1>2, MatureNavigate DEF Leave, Go
<1>3. CASE handleReview
  <2>1. Review(shown, form) \in Reviews
    BY <1>3 DEF handleReview, Inv, TypeOK, Review, Reviews
  <2> QED BY <1>3, <2>1, MaturePut DEF handleReview, MatureCall
<1>4. CASE handleApprove
  <2>1. preview # Null /\ MatureDraft(preview)
    BY <1>4 DEF handleApprove, Inv, TypeOK, MatureInv
  <2>2. MatureCall(Approval(preview, password))
    BY <2>1, CallsAssumption, ConstantsAssumption DEF MatureCall, Approval, Verdicts
  <2> QED BY <1>4, <2>2, MaturePut DEF handleApprove
<1>5. ASSUME NEW s \in Slots, calls' = Settle(s), preview' = preview
      PROVE  MatureInv'
  BY <1>5, MaturePut DEF Settle
<1>6. ASSUME NEW s \in Slots, ReviewAnswered(s)
      PROVE  MatureInv'
  <2>1. CASE \E e : ReviewFails(s, e)
    BY <1>5, <2>1 DEF ReviewFails
  <2>2. ASSUME NEW indexed, NEW inputs \in SUBSET Listed(calls[s].acct, indexed), Confirm(s, inputs)
        PROVE  MatureInv'
    <3> DEFINE d == [acct |-> calls[s].acct, pay |-> calls[s].pay, inputs |-> inputs]
    <3>1. MatureDraft(d)
      BY DEF Listed, Spendable, MatureDraft
    <3> HIDE DEF d
    <3>2. Navigate("confirm", d, Null, Settle(s))
      BY <2>2 DEF Confirm, d
    <3> QED BY <3>1, <3>2, MatureNavigate
  <2> QED BY <1>6, <2>1, <2>2 DEF ReviewAnswered
<1>7. ASSUME NEW s \in Slots, signDraft(s) \/ TimeOut(s) \/ Answered(s) \/ Deliver(s)
      PROVE  MatureInv'
  <2>1. calls[s] \in Approvals /\ calls[s] # Null /\ OwnDraft(calls[s].draft)
    BY <1>7 DEF Inv, CallsOK, CallOK, signDraft, TimeOut, Answered, Deliver
  <2>2. MatureDraft(calls[s].draft) /\ calls[s].verdict # "immature"
    BY <2>1, ReviewsApart DEF MatureInv, MatureCall
  <2>3. CASE \E e : Fails(s, e)
    BY <1>5, <2>3 DEF Fails
  <2>4. CASE Succeeds(s)
    BY <2>4, MatureNavigate DEF Succeeds
  <2>5. CASE calls' = [calls EXCEPT ![s].stage = "post", ![s].signer = active] /\ UNCHANGED ui
    <3> DEFINE c == [calls[s] EXCEPT !.stage = "post", !.signer = active]
    <3>1. MatureCall(c)
      BY <2>1, <2>2 DEF Approvals, MatureCall
    <3>2. calls' = [calls EXCEPT ![s] = c]
      BY <2>5
    <3> HIDE DEF c
    <3> QED BY <2>5, <3>1, <3>2, MaturePut DEF ui
  <2>6. CASE Deliver(s)
    <3> DEFINE v == Verdict(TxOf(s))
               c == [calls[s] EXCEPT !.stage = "answered", !.verdict = v]
    <3>1. v # "immature"
      BY <2>1, <2>2, MatureVerdict DEF TxOf, OwnDraft
    <3>2. calls' = [calls EXCEPT ![s] = c] /\ preview' = preview
      BY <2>6 DEF Deliver, ui
    <3> HIDE DEF v
    <3>3. MatureCall(c)
      BY <2>1, <2>2, <3>1 DEF Approvals, MatureCall
    <3> HIDE DEF c
    <3> QED BY <3>2, <3>3, MaturePut
  <2> QED BY <1>7, <2>3, <2>4, <2>5, <2>6 DEF signDraft, TimeOut, Answered
<1>8. ASSUME NEW s \in Slots, Stall(s)
      PROVE  MatureInv'
  <2> DEFINE c == [calls[s] EXCEPT !.stage = "stalled"]
  <2>1. /\ calls[s] # Null /\ calls[s] \in Calls /\ calls' = [calls EXCEPT ![s] = c]
        /\ preview' = preview /\ MatureCall(calls[s])
    BY <1>8 DEF Stall, ui, Inv, TypeOK, MatureInv
  <2>2. MatureCall(c)
    <3>1. CASE calls[s] \in Reviews
      <4>1. c \in Reviews
        BY <3>1 DEF Reviews
      <4> QED BY <4>1 DEF MatureCall
    <3>2. CASE calls[s] \in Approvals
      BY <2>1, <3>2, ReviewsApart DEF Approvals, MatureCall
    <3> QED BY <2>1, <3>1, <3>2 DEF Calls, Approvals
  <2> HIDE DEF c
  <2> QED BY <2>1, <2>2, MaturePut
<1>9. CASE Switch \/ Refresh \/ Type \/ EnterPassword \/ DeliverStray
  BY <1>1, <1>9 DEF Switch, Refresh, Type, EnterPassword, DeliverStray, ui
<1>10. CASE UNCHANGED vars
  BY <1>1, <1>10 DEF vars, ui
<1>11. ASSUME NEW s \in Slots, ReviewUnreachable(s)
       PROVE  MatureInv'
  BY <1>5, <1>11 DEF ReviewUnreachable, ReviewFails
<1> QED BY <1>2, <1>3, <1>4, <1>6, <1>7, <1>8, <1>9, <1>10, <1>11 DEF Next, Respond

(* The wallet never signs for a coin that the node would call immature,    *)
(* for any coins and confirmations.                                        *)
THEOREM NothingIsImmature == Spec => []NeverImmature
<1>1. Init => MatureInv
  BY DEF Init, MatureInv
<1>2. MatureInv => NeverImmature
  BY DEF MatureInv, MatureCall, NeverImmature
<1> QED BY <1>1, <1>2, InvHolds, MatureStep, PTL DEF Spec
=============================================================================
