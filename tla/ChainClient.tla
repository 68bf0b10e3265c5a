----------------------------- MODULE ChainClient -----------------------------
(***************************************************************************)
(* What the popup makes of an answer of the chain backend: the two         *)
(* ChainClients, api/blockbook-client.ts and api/client.ts, and the error  *)
(* kinds of api/errors.ts.  A fetch that rejects, or that the timer        *)
(* aborts, is NODE_DOWN and has no response at all.                        *)
(*                                                                         *)
(* A body is what its schema makes of it: "data" it accepts, an "error"    *)
(* envelope with a code, JSON of some "other" shape, or "broken".          *)
(***************************************************************************)
EXTENDS Integers

Plain(status, kind) == [status |-> status, body |-> kind, code |-> "none"]
Failed(status, code) == [status |-> status, body |-> "error", code |-> code]

IsOk(r) == r.status = 200

(* BlockbookClient.json: a body that is JSON is handed on whatever the     *)
(* status is.                                                              *)
BlockbookUnreadable(r) ==
    IF IsOk(r) THEN "BAD_RESPONSE" ELSE IF r.status >= 500 THEN "NODE_DOWN" ELSE "UNKNOWN"

BlockbookRead(r) ==
    CASE r.body = "broken" -> BlockbookUnreadable(r)
      [] r.body = "error" -> "UNKNOWN"
      [] r.body = "data" -> "ok"
      [] r.body = "other" -> "BAD_RESPONSE"

(* Mutant of mapBroadcastError: what spends a spent output passes for known. *)
mapSpentAsKnown(code) ==
    CASE code \in {"-27", "-25"} -> "ALREADY_KNOWN"
      [] code = "-22" -> "MALFORMED_TX"
      [] code = "-26" -> "INSUFFICIENT_FEE"
      [] OTHER -> "TX_REJECTED"

(* The node's RPC code is looked for in the text of its message. *)
mapBroadcastError(code) ==
    CASE code = "-27" -> "ALREADY_KNOWN"
      [] code = "-22" -> "MALFORMED_TX"
      [] code = "-26" -> "INSUFFICIENT_FEE"
      [] OTHER -> "TX_REJECTED"

BlockbookBroadcast(r) ==
    CASE r.body = "broken" -> BlockbookUnreadable(r)
      [] r.body = "data" -> "ok"
      [] r.body = "error" -> mapBroadcastError(r.code)
      [] r.body = "other" -> "BAD_RESPONSE"

KindFromCode(code) ==
    IF code \in {"MALFORMED", "WRONG_NETWORK", "MALFORMED_TX", "TX_REJECTED",
                 "INSUFFICIENT_FEE", "ALREADY_KNOWN", "NODE_DOWN"} THEN code
    ELSE "UNKNOWN"

(* ApiClient: a status that is not ok is an error, told by the envelope or *)
(* else by the status.                                                     *)
throwForStatus(r) ==
    CASE r.body = "error" -> KindFromCode(r.code)
      [] r.body # "error" /\ r.status = 503 -> "NODE_DOWN"
      [] r.body # "error" /\ r.status = 409 -> "ALREADY_KNOWN"
      [] OTHER -> "UNKNOWN"

ApiResult(r) ==
    IF ~IsOk(r) THEN throwForStatus(r) ELSE IF r.body = "data" THEN "ok" ELSE "BAD_RESPONSE"

Read(backend, r) ==
    IF backend = "blockbook" THEN BlockbookRead(r) ELSE ApiResult(r)

Broadcast(backend, r) ==
    IF backend = "blockbook" THEN BlockbookBroadcast(r) ELSE ApiResult(r)

(* A 409 of ApiClient, or a -27 of Blockbook: the transaction is there.    *)
isAlreadyKnown(kind) == kind = "ALREADY_KNOWN"

----------------------------------------------------------------------------
(* The backends themselves. *)

(* Errors and pages of a proxy, maintenance, captive portal... in between. *)
Garbled == {Plain(s, b) : s \in {200, 404, 503}, b \in {"broken", "other"}}

ListResponses == {Plain(200, "data"), Failed(400, "UNAVAILABLE")} \cup Garbled

(* How a backend says what the node made of a transaction. *)
Verdicts == {"accepted", "known", "spent", "stranger", "immature"}

Replies(backend, verdict) ==
    CASE verdict = "accepted" -> {Plain(200, "data")}
      [] verdict = "known" /\ backend = "blockbook" -> {Failed(400, "-27")}
      [] verdict = "known" /\ backend = "api" ->
            {Plain(409, "other"), Failed(409, "ALREADY_KNOWN"), Plain(200, "data")}
      [] verdict = "spent" /\ backend = "blockbook" -> {Failed(400, "-25"), Failed(400, "-26")}
      [] OTHER -> IF backend = "blockbook" THEN {Failed(400, "-26")}
                  ELSE {Failed(400, "TX_REJECTED")}
=============================================================================
