------------------------------- MODULE Pages -------------------------------
(***************************************************************************)
(* The screens that read: Home, Activity, TransactionDetail and            *)
(* AddressLookup fetch what they show from the chain backend, Home and     *)
(* AddressLookup also the price (usePrlPrice.ts, price-provider.ts).       *)
(*                                                                         *)
(* One screen is mounted at a time, and what it fetches is lost when it is *)
(* left.  Answers come in any order.  What is fetched is known by what it  *)
(* was asked for: an address or a txid.                                    *)
(***************************************************************************)
EXTENDS Integers, FiniteSetsExt, SequencesExt

CONSTANTS
    Accounts,   \* addresses of the wallet
    Queries,    \* addresses looked up
    Txids,
    Transactions,   \* what Blockbook may say of a transaction
    MaxFetches, \* bound: requests of the mounted screen in flight
    MaxQuotes,  \* bound: requests for the ticker in flight
    Null

ASSUME ConstantsAssumption ==
    /\ Accounts # {} /\ IsFiniteSet(Accounts)
    /\ \A t \in Transactions : \A ios \in {t.vin, t.vout} :
          /\ IsFiniteSet(DOMAIN ios)
          /\ \A i \in DOMAIN ios : ios[i].value = Null \/ ios[i].value \in Nat
    /\ MaxFetches \in Nat \ {0} /\ MaxQuotes \in Nat \ {0}
    /\ Null \notin Accounts \cup Queries \cup Txids

Keys  == Accounts \cup Queries \cup Txids

VARIABLES
    active,     \* state.address of the popup
    due,        \* the account a switch has made active, until the popup knows
    page,       \* route.name
    key,        \* txid of the txdetail route, or the query of AddressLookup
    view,       \* the state of the screen
    fetches,    \* its requests in flight, oldest first
    quotes,     \* those of usePrlPrice
    overtaken   \* the screen shows an answer that a later request had overtaken

screen == <<page, key, view, fetches, quotes, overtaken>>
vars   == <<active, due, screen>>

ReadPages  == {"home", "activity", "txdetail"}
PricePages == {"home", "lookup"}

Blank(p) ==
    [data |-> Null, loading |-> p \in ReadPages, error |-> FALSE,
     price |-> "loading", ticker |-> FALSE, candles |-> FALSE]

Fetch(k) == [key |-> k, passed |-> FALSE]

TypeOK ==
    /\ active \in Accounts /\ due \in Accounts \cup {Null}
    /\ page \in ReadPages \cup {"lookup", "accounts", "settings", "receive", "send", "contacts"}
    /\ key \in Queries \cup Txids \cup {Null}
    /\ page = "txdetail" => key \in Txids
    /\ view \in [data : Keys \cup {Null}, loading : BOOLEAN, error : BOOLEAN,
                 price : {"loading", "ok", "error"}, ticker : BOOLEAN, candles : BOOLEAN]
    /\ fetches \in Seq([key : Keys, passed : BOOLEAN]) /\ Len(fetches) <= MaxFetches
    /\ quotes \in [ticker : 0..MaxQuotes, candles : 0..1]
    /\ overtaken \in BOOLEAN

----------------------------------------------------------------------------
(* Navigation. *)

(* What the mounted screen fetches, or Null: AddressLookup before a query. *)
KeyOf(p, k, acct) ==
    CASE p \in {"home", "activity"} -> acct
      [] p \in {"txdetail", "lookup"} -> k
      [] OTHER -> Null

Key == KeyOf(page, key, active)

Mount(p, k) ==
    /\ page' = p /\ key' = k
    /\ view' = Blank(p)
    /\ fetches' = IF p \in ReadPages THEN <<Fetch(KeyOf(p, k, active))>> ELSE <<>>
    /\ quotes' = IF p \in PricePages THEN [ticker |-> 1, candles |-> 1] ELSE [ticker |-> 0, candles |-> 0]
    /\ overtaken' = FALSE
    /\ UNCHANGED active

(* The buttons of each screen. *)
HomeLinks     == {"accounts", "lookup", "settings", "send", "receive", "activity"}
SendLinks     == {"home", "contacts"}
SettingsLinks == {"home", "accounts"}

Links(p) ==
    CASE p = "home" -> HomeLinks
      [] p = "send" -> SendLinks
      [] p = "settings" -> SettingsLinks
      [] p = "contacts" -> {"send"}
      [] p = "txdetail" -> {"activity"}
      [] OTHER -> {"home"}

Navigate == \E p \in Links(page) : Mount(p, Null) /\ UNCHANGED due

(* Mutant of OpenTransaction: the route carries no txid. *)
OpenTransactionBare == page = "activity" /\ Mount("txdetail", Null) /\ UNCHANGED due

(* The transactions of the account listed. *)
OpenTransaction ==
    /\ page = "activity" /\ ~view.loading /\ ~view.error /\ view.data # Null
    /\ \E t \in Txids : Mount("txdetail", t)
    /\ UNCHANGED due

(* switchTo: the popup reads the state again, and goes Home meanwhile.     *)
SwitchAccount ==
    /\ page = "accounts"
    /\ due' \in Accounts \ {active}
    /\ Mount("home", Null)

----------------------------------------------------------------------------
(* Fetching. *)

Began == [view EXCEPT !.loading = TRUE, !.error = FALSE]

(* Mutant of SwitchKnown: the account is no dependency of the effect. *)
SwitchKnownLate ==
    /\ due # Null
    /\ active' = due /\ due' = Null
    /\ UNCHANGED screen

(* The new state reaches the screen: an effect that depends on the address *)
(* runs again, beside what is in flight; what is shown stays.              *)
SwitchKnown ==
    /\ due # Null
    /\ active' = due /\ due' = Null
    /\ IF page \in {"home", "activity"}
       THEN /\ Len(fetches) < MaxFetches
            /\ fetches' = Append(fetches, Fetch(due))
            /\ view' = Began
       ELSE UNCHANGED <<fetches, view>>
    /\ UNCHANGED <<page, key, quotes, overtaken>>

Request(k) ==
    /\ Len(fetches) < MaxFetches
    /\ fetches' = Append(fetches, Fetch(k))
    /\ view' = Began

(* A failed screen offers to try again. *)
Retry ==
    /\ page \in ReadPages /\ view.error /\ ~view.loading
    /\ Request(Key)
    /\ UNCHANGED <<active, due, page, key, quotes, overtaken>>

(* submit() blanks the card also for the address that is on it, which runs *)
(* no effect: the card stays blank until the next poll.                    *)
submit ==
    /\ page = "lookup"
    /\ \E q \in Queries :
          IF q = key
          THEN /\ view' = [view EXCEPT !.data = Null, !.error = FALSE]
               /\ UNCHANGED <<key, fetches>>
          ELSE /\ Len(fetches) < MaxFetches
               /\ key' = q
               /\ fetches' = Append(fetches, Fetch(q))
               /\ view' = [Began EXCEPT !.data = Null]
    /\ UNCHANGED <<active, due, page, quotes, overtaken>>

(* Mutant of Poll: it stops at the first answer. *)
PollUntilShown ==
    /\ page = "lookup" /\ key # Null /\ view.data = Null
    /\ Request(key)
    /\ UNCHANGED <<active, due, page, key, quotes, overtaken>>

(* The interval of the query that is shown, and its refresh button. *)
Poll ==
    /\ page = "lookup" /\ key # Null
    /\ Request(key)
    /\ UNCHANGED <<active, due, page, key, quotes, overtaken>>

(* The requests sent before the i-th are overtaken by its answer. *)
Passed(i) ==
    RemoveAt([j \in DOMAIN fetches |->
                 IF j < i THEN [fetches[j] EXCEPT !.passed = TRUE] ELSE fetches[j]], i)

Shown(i, ok) ==
    [view EXCEPT !.loading = FALSE,
                 !.data = IF ok THEN fetches[i].key ELSE @,
                 !.error = @ \/ ~ok]

(* An answer, an error or the timeout of a request. *)
Answer(i, ok) ==
    /\ i \in DOMAIN fetches
    /\ fetches' = Passed(i)
    /\ view' = Shown(i, ok)
    /\ overtaken' = IF ok THEN fetches[i].passed ELSE overtaken
    /\ UNCHANGED <<active, due, page, key, quotes>>

----------------------------------------------------------------------------
(* The price: usePrlPrice.  Its requests have no timeout that works.       *)

Tick ==
    /\ page \in PricePages /\ quotes.ticker < MaxQuotes
    /\ quotes' = [quotes EXCEPT !.ticker = @ + 1]
    /\ UNCHANGED <<active, due, page, key, view, fetches, overtaken>>

(* Mutant of Quoted: a failure blanks the price. *)
QuotedBlank(ok) == [view EXCEPT !.price = IF ok THEN "ok" ELSE "error", !.ticker = ok]

Quoted(ok) == [view EXCEPT !.price = IF ok THEN "ok" ELSE "error", !.ticker = @ \/ ok]

Quote ==
    /\ quotes.ticker > 0
    /\ quotes' = [quotes EXCEPT !.ticker = @ - 1]
    /\ \E ok \in BOOLEAN : view' = Quoted(ok)
    /\ UNCHANGED <<active, due, page, key, fetches, overtaken>>

Candles ==
    /\ quotes.candles > 0
    /\ quotes' = [quotes EXCEPT !.candles = 0]
    /\ view' \in {view, [view EXCEPT !.candles = TRUE]}
    /\ UNCHANGED <<active, due, page, key, fetches, overtaken>>

----------------------------------------------------------------------------
Init ==
    /\ active \in Accounts /\ due = Null
    /\ page = "home" /\ key = Null
    /\ view = Blank("home") /\ fetches = <<Fetch(active)>>
    /\ quotes = [ticker |-> 1, candles |-> 1]
    /\ overtaken = FALSE

Next ==
    \/ Navigate \/ OpenTransaction \/ SwitchAccount \/ SwitchKnown
    \/ Retry \/ submit \/ Poll
    \/ \E i \in 1..MaxFetches, ok \in BOOLEAN : Answer(i, ok)
    \/ Tick \/ Quote \/ Candles

Spec == Init /\ [][Next]_vars

(* Every request is answered or times out, and the interval keeps running. *)
FairSpec == Spec /\ WF_vars(Poll) /\ WF_vars(\E ok \in BOOLEAN : Answer(1, ok))

----------------------------------------------------------------------------
(* What the transactions mean.  An input or output has the address it pays *)
(* or none, and a value, which the input of a coinbase does not have.      *)

ValueOf(io) == IF io.value = Null THEN 0 ELSE io.value

(* The places of a list that belong to the given addresses, and what is    *)
(* there.                                                                  *)
Owned(ios, addrs) == {i \in DOMAIN ios : ios[i].address \in addrs}

SumAt(ios, places) == MapThenSumSet(LAMBDA i : ValueOf(ios[i]), places)

(* Mutant of NetValue: change that comes back counts as received only. *)
NetValueOfOne(t, addr) ==
    IF Owned(t.vin, {addr}) # {}
    THEN -SumAt(t.vin, Owned(t.vin, {addr}))
    ELSE SumAt(t.vout, Owned(t.vout, {addr}))

(* A row of Activity: what the address gained or lost. *)
NetValue(t, addr) ==
    SumAt(t.vout, Owned(t.vout, {addr})) - SumAt(t.vin, Owned(t.vin, {addr}))

direction(t, addr) ==
    CASE NetValue(t, addr) > 0 -> "received"
      [] NetValue(t, addr) < 0 -> "sent"
      [] OTHER -> "self"

TxDetail(t) == [inputs |-> t.vin, outputs |-> t.vout, valueOut |-> SumAt(t.vout, DOMAIN t.vout)]

(* The heading of TransactionDetail: the same for all accounts together.   *)
net(detail, mine) ==
    SumAt(detail.outputs, Owned(detail.outputs, mine))
    - SumAt(detail.inputs, Owned(detail.inputs, mine))

----------------------------------------------------------------------------
(* Properties. *)

(* The two screens that tell what a transaction did to the wallet agree:   *)
(* the amount TransactionDetail shows is the sum of what Activity lists    *)
(* for each account, no more than the transaction pays out is gained, and  *)
(* what an account receives of a payment of the wallet, another has sent.  *)
NetsAgree ==
    page = "txdetail" /\ view.data # Null => \A t \in Transactions :
        LET gained == net(TxDetail(t), Accounts)
        IN  /\ gained = MapThenSumSet(LAMBDA a : NetValue(t, a), Accounts)
            /\ gained <= TxDetail(t).valueOut
            /\ \A a \in Accounts :
                  direction(t, a) = "received" /\ gained < 0 =>
                      \E b \in Accounts : direction(t, b) = "sent"

(* A screen that has its answers shows what belongs to the account, the    *)
(* transaction or the address it names, or an error: whatever was switched *)
(* while a request was under way.  The exception is an answer that comes   *)
(* after that of a later request; and AddressLookup may show nothing.      *)
SettledShowsItsKey ==
    Key # Null /\ fetches = <<>> /\ ~overtaken =>
        /\ ~view.loading
        /\ view.error \/ view.data = Key \/ (page = "lookup" /\ view.data = Null)

(* An answer for another address does not stay: once the user leaves the   *)
(* lookup at one address, polling replaces what came late, or says that it *)
(* fails.                                                                  *)
LookupRecovers ==
    \A q \in Queries :
        <>[](page = "lookup" /\ key = q) =>
            <>[](view.data \in {Null, q} \/ view.error \/ view.loading)

(* "Errors keep the last-good values rather than blanking the UI"          *)
(* (usePrlPrice.ts): as long as the screen is there, whatever fails.       *)
PriceStays ==
    [][page' = page => (view.ticker => view'.ticker) /\ (view.candles => view'.candles)]_vars

=============================================================================
