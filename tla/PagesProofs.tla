---------------------------- MODULE PagesProofs ----------------------------
(* What the screens that read never get wrong, for any number of accounts, *)
(* queries, transactions and requests in flight.                           *)
EXTENDS Pages, SumTheorems, SequenceTheorems

Fetches == [key : Keys, passed : BOOLEAN]

(***************************************************************************)
(* The inductive invariant.  Who has no key asks nothing, and who loads    *)
(* has asked.  Answers overtake what was asked before, so the overtaken    *)
(* requests come first; the newest, unless overtaken, is for the key of    *)
(* the screen, because whatever changes the key asks again; and until it   *)
(* is answered the screen need not show what it should.                    *)
(***************************************************************************)
AsksForSomething ==
    /\ Key = Null => fetches = <<>>
    /\ view.loading => fetches # <<>>

PassedFirst == \A i, j \in 1..Len(fetches) : i < j /\ fetches[j].passed => fetches[i].passed

NewestIsCurrent ==
    fetches # <<>> => fetches[Len(fetches)].passed \/ fetches[Len(fetches)].key = Key

ShowsOrWill ==
    Key # Null /\ ~overtaken =>
        \/ fetches # <<>> /\ ~fetches[Len(fetches)].passed
        \/ view.error \/ view.data = Key \/ (page = "lookup" /\ view.data = Null)

Inv == TypeOK /\ AsksForSomething /\ PassedFirst /\ NewestIsCurrent /\ ShowsOrWill

Views ==
    [data : Keys \cup {Null}, loading : BOOLEAN, error : BOOLEAN,
     price : {"loading", "ok", "error"}, ticker : BOOLEAN, candles : BOOLEAN]

----------------------------------------------------------------------------
(* The operators. *)

LEMMA RemoveAtIs ==
    ASSUME NEW T, NEW s \in Seq(T), NEW i \in 1..Len(s)
    PROVE  /\ RemoveAt(s, i) \in Seq(T)
           /\ Len(RemoveAt(s, i)) = Len(s) - 1
           /\ \A j \in 1..(Len(s) - 1) : RemoveAt(s, i)[j] = IF j < i THEN s[j] ELSE s[j + 1]
<1> DEFINE a == SubSeq(s, 1, i - 1)
           b == SubSeq(s, i + 1, Len(s))
<1>1. /\ a \in Seq(T) /\ Len(a) = i - 1
      /\ \A j \in 1..(i - 1) : a[j] = s[j]
  OBVIOUS
<1>2. /\ b \in Seq(T) /\ Len(b) = Len(s) - i
      /\ \A j \in 1..(Len(s) - i) : b[j] = s[i + j]
  OBVIOUS
<1>3. RemoveAt(s, i) = a \o b
  BY DEF RemoveAt
<1> HIDE DEF a, b
<1>4. /\ a \o b \in Seq(T) /\ Len(a \o b) = Len(a) + Len(b)
      /\ \A j \in 1..(Len(a) + Len(b)) : (a \o b)[j] = IF j <= Len(a) THEN a[j] ELSE b[j - Len(a)]
  BY <1>1, <1>2, ConcatProperties
<1>5. Len(a) + Len(b) = Len(s) - 1
  BY <1>1, <1>2
<1>6. ASSUME NEW j \in 1..(Len(s) - 1)
      PROVE  (a \o b)[j] = IF j < i THEN s[j] ELSE s[j + 1]
  <2>1. CASE j < i
    BY <1>1, <1>4, <1>5, <2>1
  <2>2. CASE ~(j < i)
    <3>1. j - Len(a) \in 1..(Len(s) - i) /\ ~(j <= Len(a))
      BY <1>1, <2>2
    <3>2. (a \o b)[j] = b[j - Len(a)]
      BY <1>4, <1>5, <3>1
    <3>3. b[j - Len(a)] = s[i + (j - Len(a))]
      BY <1>2, <3>1
    <3>4. i + (j - Len(a)) = j + 1
      BY <1>1
    <3> QED BY <2>2, <3>2, <3>3, <3>4
  <2> QED BY <2>1, <2>2
<1> QED BY <1>3, <1>4, <1>5, <1>6

(* What an answer leaves: the requests before it are overtaken.            *)
LEMMA PassedIs ==
    ASSUME fetches \in Seq(Fetches), NEW i \in 1..Len(fetches)
    PROVE  /\ Passed(i) \in Seq(Fetches) /\ Len(Passed(i)) = Len(fetches) - 1
           /\ \A j \in 1..(Len(fetches) - 1) :
                IF j < i THEN Passed(i)[j].passed /\ Passed(i)[j].key = fetches[j].key
                ELSE Passed(i)[j] = fetches[j + 1]
<1> DEFINE s == [j \in DOMAIN fetches |->
                    IF j < i THEN [fetches[j] EXCEPT !.passed = TRUE] ELSE fetches[j]]
<1>1. \A j \in 1..Len(fetches) : fetches[j] \in Fetches
  OBVIOUS
<1>2. \A f \in Fetches : LET g == [f EXCEPT !.passed = TRUE]
                         IN  g \in Fetches /\ g.passed /\ g.key = f.key
  BY DEF Fetches
<1>3. DOMAIN fetches = 1..Len(fetches) /\ Len(fetches) \in Nat
  OBVIOUS
<1>4. \A j \in 1..Len(fetches) :
        IF j < i THEN s[j].passed /\ s[j].key = fetches[j].key ELSE s[j] = fetches[j]
  BY <1>1, <1>2, <1>3
<1>5. s \in Seq(Fetches) /\ Len(s) = Len(fetches)
  <2>1. s \in [1..Len(fetches) -> Fetches]
    BY <1>1, <1>2, <1>3
  <2> QED BY <1>3, <2>1
<1>6. Passed(i) = RemoveAt(s, i)
  BY DEF Passed
<1> HIDE DEF s
<1>7. /\ RemoveAt(s, i) \in Seq(Fetches) /\ Len(RemoveAt(s, i)) = Len(fetches) - 1
      /\ \A j \in 1..(Len(fetches) - 1) : RemoveAt(s, i)[j] = IF j < i THEN s[j] ELSE s[j + 1]
  BY <1>5, RemoveAtIs
<1>8. ASSUME NEW j \in 1..(Len(fetches) - 1)
      PROVE  IF j < i THEN Passed(i)[j].passed /\ Passed(i)[j].key = fetches[j].key
             ELSE Passed(i)[j] = fetches[j + 1]
  <2>1. CASE j < i
    <3>1. Passed(i)[j] = s[j] /\ j \in 1..Len(fetches)
      BY <1>3, <1>6, <1>7, <2>1
    <3> QED BY <1>4, <2>1, <3>1
  <2>2. CASE ~(j < i)
    <3>1. Passed(i)[j] = s[j + 1] /\ j + 1 \in 1..Len(fetches) /\ ~(j + 1 < i)
      BY <1>3, <1>6, <1>7, <2>2
    <3> QED BY <1>4, <2>2, <3>1
  <2> QED BY <2>1, <2>2
<1> QED BY <1>6, <1>7, <1>8

LEMMA KeyIs ==
    ASSUME TypeOK
    PROVE  /\ Key \in Keys \cup {Null}
           /\ page \in ReadPages => Key \in Keys
           /\ page = "lookup" => Key = key
           /\ page \notin ReadPages \cup {"lookup"} => Key = Null
           /\ Null \notin Keys
BY ConstantsAssumption DEF TypeOK, Key, KeyOf, Keys, ReadPages

LEMMA BlankIs ==
    ASSUME NEW p
    PROVE  /\ Blank(p) \in Views /\ Blank(p).data = Null
           /\ Blank(p).loading <=> p \in ReadPages
           /\ Blank(p).loading \in BOOLEAN
<1>1. (p \in ReadPages) \in BOOLEAN
  OBVIOUS
<1> DEFINE reads == p \in ReadPages
<1>2. Blank(p) = [data |-> Null, loading |-> reads, error |-> FALSE,
                  price |-> "loading", ticker |-> FALSE, candles |-> FALSE]
  BY DEF Blank
<1>3. reads \in BOOLEAN /\ reads = (p \in ReadPages)
  BY <1>1
<1> HIDE DEF reads
<1>4. Blank(p) \in Views /\ Blank(p).data = Null /\ Blank(p).loading = reads
  BY <1>2, <1>3 DEF Views
<1>5. Blank(p).loading <=> p \in ReadPages
  BY <1>3, <1>4, Zenon
<1>6. Blank(p).loading \in BOOLEAN
  BY <1>3, <1>4
<1> QED BY <1>4, <1>5, <1>6

LEMMA BeganIs ==
    ASSUME view \in Views
    PROVE  /\ Began \in Views /\ Began.loading
           /\ [Began EXCEPT !.data = Null] \in Views /\ [Began EXCEPT !.data = Null].loading
BY DEF Began, Views

LEMMA FetchIs ==
    ASSUME NEW k \in Keys
    PROVE  Fetch(k) \in Fetches /\ Fetch(k).key = k /\ ~Fetch(k).passed
BY DEF Fetch, Fetches

(* A request that is sent is the newest, and not overtaken. *)
LEMMA Newest ==
    ASSUME fetches \in Seq(Fetches), Len(fetches) < MaxFetches, PassedFirst, NEW k \in Keys,
           fetches' = Append(fetches, Fetch(k))
    PROVE  /\ fetches' \in Seq(Fetches) /\ Len(fetches') <= MaxFetches
           /\ fetches' # <<>> /\ PassedFirst'
           /\ ~fetches'[Len(fetches')].passed /\ fetches'[Len(fetches')].key = k
<1>1. Len(fetches) \in Nat /\ MaxFetches \in Nat
  BY ConstantsAssumption
<1>2. /\ fetches' \in Seq(Fetches) /\ Len(fetches') = Len(fetches) + 1
      /\ fetches'[Len(fetches) + 1] = Fetch(k)
      /\ \A j \in 1..Len(fetches) : fetches'[j] = fetches[j]
  BY FetchIs
<1>3. fetches' # <<>>
  BY <1>1, <1>2
<1>4. ~fetches'[Len(fetches')].passed /\ fetches'[Len(fetches')].key = k
  BY <1>2, FetchIs
<1>5. PassedFirst'
  <2> SUFFICES ASSUME NEW i \in 1..Len(fetches'), NEW j \in 1..Len(fetches'), i < j, fetches'[j].passed
               PROVE  fetches'[i].passed
    BY DEF PassedFirst
  <2>1. j # Len(fetches')
    BY <1>4
  <2>2. i \in 1..Len(fetches) /\ j \in 1..Len(fetches)
    BY <1>1, <1>2, <2>1
  <2> QED BY <1>2, <2>2 DEF PassedFirst
<1> QED BY <1>1, <1>2, <1>3, <1>4, <1>5

----------------------------------------------------------------------------
(* The steps. *)

LEMMA Types ==
    ASSUME TypeOK
    PROVE  view \in Views /\ fetches \in Seq(Fetches) /\ Len(fetches) \in Nat /\ key \in Keys \cup {Null}
BY DEF TypeOK, Views, Fetches, Keys

LEMMA MountKeeps ==
    ASSUME Inv,
           NEW p \in ReadPages \cup {"lookup", "accounts", "settings", "receive", "send", "contacts"},
           NEW k \in Txids \cup {Null}, IF p = "txdetail" THEN k \in Txids ELSE k = Null,
           Mount(p, k), due' \in Accounts \cup {Null}
    PROVE  Inv'
<1>1. /\ page' = p /\ key' = k /\ view' = Blank(p) /\ overtaken' = FALSE /\ active' = active
      /\ fetches' = IF p \in ReadPages THEN <<Fetch(KeyOf(p, k, active))>> ELSE <<>>
      /\ quotes' = IF p \in PricePages THEN [ticker |-> 1, candles |-> 1] ELSE [ticker |-> 0, candles |-> 0]
  BY DEF Mount
<1>2. active \in Accounts /\ TypeOK
  BY DEF Inv, TypeOK
<1>3. Key' = KeyOf(p, k, active)
  BY <1>1 DEF Key, KeyOf
<1>4. /\ p \in ReadPages => KeyOf(p, k, active) \in Keys
      /\ p \notin ReadPages => KeyOf(p, k, active) = Null
  BY <1>2 DEF KeyOf, ReadPages, Keys
<1>5. Null \notin Keys
  BY <1>2, KeyIs
<1>6. quotes' \in [ticker : 0..MaxQuotes, candles : 0..1]
  <2>1. MaxQuotes \in Nat \ {0}
    BY ConstantsAssumption
  <2> QED BY <1>1, <2>1
<1>7. fetches' \in Seq(Fetches) /\ Len(fetches') <= MaxFetches
  <2>1. MaxFetches \in Nat \ {0}
    BY ConstantsAssumption
  <2>2. CASE p \in ReadPages
    <3>1. Fetch(KeyOf(p, k, active)) \in Fetches
      BY <1>4, <2>2, FetchIs
    <3> QED BY <1>1, <2>1, <2>2, <3>1
  <2>3. CASE p \notin ReadPages
    BY <1>1, <2>1, <2>3
  <2> QED BY <2>2, <2>3
<1>8. /\ view' \in Views /\ view'.data = Null
      /\ view'.loading \in BOOLEAN /\ (view'.loading <=> p \in ReadPages)
  BY <1>1, BlankIs
<1>9. TypeOK'
  <2>1. view' \in [data : Keys \cup {Null}, loading : BOOLEAN, error : BOOLEAN,
                   price : {"loading", "ok", "error"}, ticker : BOOLEAN, candles : BOOLEAN]
    BY <1>8 DEF Views
  <2>2. fetches' \in Seq([key : Keys, passed : BOOLEAN])
    BY <1>7 DEF Fetches
  <2> QED BY <1>1, <1>2, <1>6, <1>7, <2>1, <2>2 DEF TypeOK, Keys
<1>10. CASE p \in ReadPages
  <2>1. /\ fetches' # <<>> /\ Len(fetches') = 1 /\ fetches'[1].key = Key' /\ ~fetches'[1].passed
    BY <1>1, <1>3, <1>4, <1>10, FetchIs
  <2>2. PassedFirst'
    BY <2>1 DEF PassedFirst
  <2>3. AsksForSomething' /\ NewestIsCurrent' /\ ShowsOrWill'
    BY <1>3, <1>4, <1>5, <1>10, <2>1 DEF AsksForSomething, NewestIsCurrent, ShowsOrWill
  <2> QED BY <1>9, <2>2, <2>3 DEF Inv
<1>11. CASE p \notin ReadPages
  <2>1. fetches' = <<>> /\ Len(fetches') = 0 /\ Key' = Null /\ view'.loading = FALSE
    <3>1. fetches' = <<>>
      BY <1>1, <1>11
    <3>2. view'.loading = FALSE
      BY <1>8, <1>11
    <3> QED BY <1>3, <1>4, <1>11, <3>1, <3>2
  <2>2. PassedFirst' /\ AsksForSomething' /\ NewestIsCurrent' /\ ShowsOrWill'
    BY <2>1 DEF PassedFirst, AsksForSomething, NewestIsCurrent, ShowsOrWill
  <2> QED BY <1>9, <2>2 DEF Inv
<1> QED BY <1>10, <1>11

(* A screen that asks for what is its key. *)
LEMMA RequestKeeps ==
    ASSUME Inv, NEW k \in Keys, Len(fetches) < MaxFetches, fetches' = Append(fetches, Fetch(k)),
           view' \in Views, Key' = k, page' = page, quotes' = quotes, overtaken' = overtaken,
           active' \in Accounts, due' \in Accounts \cup {Null}, key' \in Queries \cup Txids \cup {Null},
           page = "txdetail" => key' = key
    PROVE  Inv'
<1>1. TypeOK /\ fetches \in Seq(Fetches) /\ PassedFirst
  BY Types DEF Inv
<1>2. /\ fetches' \in Seq(Fetches) /\ Len(fetches') <= MaxFetches
      /\ fetches' # <<>> /\ PassedFirst'
      /\ ~fetches'[Len(fetches')].passed /\ fetches'[Len(fetches')].key = k
  BY <1>1, Newest
<1>3. TypeOK'
  <2>1. view' \in [data : Keys \cup {Null}, loading : BOOLEAN, error : BOOLEAN,
                   price : {"loading", "ok", "error"}, ticker : BOOLEAN, candles : BOOLEAN]
    BY DEF Views
  <2>2. fetches' \in Seq([key : Keys, passed : BOOLEAN])
    BY <1>2 DEF Fetches
  <2> QED BY <1>1, <1>2, <2>1, <2>2 DEF TypeOK, Keys
<1>4. Key' # Null
  BY <1>1, KeyIs
<1>5. AsksForSomething' /\ NewestIsCurrent' /\ ShowsOrWill'
  BY <1>2, <1>4 DEF AsksForSomething, NewestIsCurrent, ShowsOrWill
<1> QED BY <1>2, <1>3, <1>5 DEF Inv

LEMMA AnswerKeeps ==
    ASSUME Inv, NEW i \in 1..MaxFetches, NEW ok \in BOOLEAN, Answer(i, ok)
    PROVE  Inv'
<1>1. /\ TypeOK /\ view \in Views /\ fetches \in Seq(Fetches) /\ Len(fetches) \in Nat
      /\ Len(fetches) <= MaxFetches /\ MaxFetches \in Nat
  BY Types, ConstantsAssumption DEF Inv, TypeOK
<1>2. /\ i \in 1..Len(fetches) /\ fetches' = Passed(i) /\ view' = Shown(i, ok)
      /\ overtaken' = IF ok THEN fetches[i].passed ELSE overtaken
      /\ active' = active /\ due' = due /\ page' = page /\ key' = key /\ quotes' = quotes
  BY <1>1 DEF Answer
<1>3. /\ fetches[i] \in Fetches /\ fetches[i].key \in Keys /\ fetches[i].passed \in BOOLEAN
  <2>1. fetches[i] \in Fetches
    BY <1>1, <1>2
  <2> QED BY <2>1 DEF Fetches
<1>4. /\ fetches' \in Seq(Fetches) /\ Len(fetches') = Len(fetches) - 1
      /\ \A j \in 1..(Len(fetches) - 1) :
            IF j < i THEN fetches'[j].passed /\ fetches'[j].key = fetches[j].key
            ELSE fetches'[j] = fetches[j + 1]
  BY <1>1, <1>2, PassedIs
<1>5. /\ view' \in Views /\ ~view'.loading
      /\ view'.data = IF ok THEN fetches[i].key ELSE view.data
      /\ view'.error = (view.error \/ ~ok)
  <2>1. (view.error \/ ~ok) \in BOOLEAN
    OBVIOUS
  <2> DEFINE d == IF ok THEN fetches[i].key ELSE view.data
             e == view.error \/ ~ok
  <2>2. d \in Keys \cup {Null} /\ e \in BOOLEAN
    BY <1>1, <1>3, <2>1 DEF Views
  <2>3. view' = [view EXCEPT !.loading = FALSE, !.data = d, !.error = e]
    BY <1>2 DEF Shown
  <2> HIDE DEF d, e
  <2>4. view' \in Views /\ ~view'.loading /\ view'.data = d /\ view'.error = e
    BY <1>1, <2>2, <2>3 DEF Views
  <2> QED BY <2>4 DEF d, e
<1>6. Key' = Key
  BY <1>2 DEF Key
<1>7. TypeOK'
  <2>1. view' \in [data : Keys \cup {Null}, loading : BOOLEAN, error : BOOLEAN,
                   price : {"loading", "ok", "error"}, ticker : BOOLEAN, candles : BOOLEAN]
    BY <1>5 DEF Views
  <2>2. fetches' \in Seq([key : Keys, passed : BOOLEAN]) /\ Len(fetches') <= MaxFetches
    BY <1>1, <1>4 DEF Fetches
  <2>3. overtaken' \in BOOLEAN
    BY <1>1, <1>2, <1>3 DEF TypeOK
  <2> QED BY <1>1, <1>2, <2>1, <2>2, <2>3 DEF TypeOK, Keys
<1>8. AsksForSomething'
  <2>1. Key # Null
    BY <1>1, <1>2 DEF Inv, AsksForSomething
  <2> QED BY <1>5, <1>6, <2>1 DEF AsksForSomething
<1>9. PassedFirst'
  <2> SUFFICES ASSUME NEW g \in 1..Len(fetches'), NEW h \in 1..Len(fetches'), g < h, fetches'[h].passed
               PROVE  fetches'[g].passed
    BY DEF PassedFirst
  <2>1. g \in 1..(Len(fetches) - 1) /\ h \in 1..(Len(fetches) - 1)
    BY <1>4
  <2>2. CASE g < i
    BY <1>4, <2>1, <2>2
  <2>3. CASE ~(g < i)
    <3>1. ~(h < i)
      BY <1>1, <1>2, <2>1, <2>3
    <3>2. fetches'[g] = fetches[g + 1] /\ fetches'[h] = fetches[h + 1]
      BY <1>4, <2>1, <2>3, <3>1
    <3>3. g + 1 \in 1..Len(fetches) /\ h + 1 \in 1..Len(fetches) /\ g + 1 < h + 1
      BY <1>1, <2>1
    <3> QED BY <3>2, <3>3 DEF Inv, PassedFirst
  <2> QED BY <2>2, <2>3
<1> DEFINE n == Len(fetches)
<1>10. CASE i = n
  <2>1. fetches' # <<>> => fetches'[Len(fetches')].passed
    <3>1. fetches' # <<>> => Len(fetches') \in 1..(n - 1) /\ Len(fetches') < i
      BY <1>1, <1>4, <1>10
    <3> QED BY <1>4, <3>1
  <2>2. NewestIsCurrent'
    BY <2>1 DEF NewestIsCurrent
  <2>3. ok /\ ~fetches[i].passed => view'.data = Key
    <3>1. fetches # <<>>
      BY <1>1, <1>2
    <3> QED BY <1>5, <1>10, <3>1 DEF Inv, NewestIsCurrent
  <2>4. ShowsOrWill'
    <3>1. CASE ok
      BY <1>2, <1>6, <2>3, <3>1 DEF ShowsOrWill
    <3>2. CASE ~ok
      BY <1>5, <3>2 DEF ShowsOrWill
    <3> QED BY <3>1, <3>2
  <2> QED BY <1>7, <1>8, <1>9, <2>2, <2>4 DEF Inv
<1>11. CASE i # n
  <2>1. /\ n - 1 \in 1..(n - 1) /\ ~(n - 1 < i) /\ Len(fetches') = n - 1 /\ (n - 1) + 1 = n
    BY <1>1, <1>2, <1>4, <1>11
  <2>2. fetches'[Len(fetches')] = fetches[n] /\ fetches' # <<>> /\ fetches # <<>>
    BY <1>1, <1>2, <1>4, <2>1
  <2>3. NewestIsCurrent'
    BY <1>6, <2>2 DEF Inv, NewestIsCurrent
  <2>4. ~fetches[i].passed => ~fetches[n].passed
    BY <1>1, <1>2, <1>11 DEF Inv, PassedFirst
  <2>5. ShowsOrWill'
    <3>1. CASE ok
      BY <1>2, <2>2, <2>4, <3>1 DEF ShowsOrWill
    <3>2. CASE ~ok
      BY <1>5, <3>2 DEF ShowsOrWill
    <3> QED BY <3>1, <3>2
  <2> QED BY <1>7, <1>8, <1>9, <2>3, <2>5 DEF Inv
<1> QED BY <1>10, <1>11

(* The last answer, or the last poll: nothing else is asked. *)
LEMMA ViewKeeps ==
    ASSUME Inv, view' \in Views, view'.loading = view.loading,
           active' = active, due' = due, page' = page, key' = key, fetches' = fetches,
           overtaken' = overtaken, quotes' \in [ticker : 0..MaxQuotes, candles : 0..1],
           \/ view'.error = view.error /\ view'.data = view.data
           \/ page = "lookup" /\ view'.data = Null
    PROVE  Inv'
<1>1. Key' = Key
  BY DEF Key
<1>2. TypeOK'
  <2>1. view' \in [data : Keys \cup {Null}, loading : BOOLEAN, error : BOOLEAN,
                   price : {"loading", "ok", "error"}, ticker : BOOLEAN, candles : BOOLEAN]
    BY DEF Views
  <2> QED BY <2>1 DEF Inv, TypeOK, Keys
<1>3. AsksForSomething' /\ PassedFirst' /\ NewestIsCurrent'
  BY <1>1 DEF Inv, AsksForSomething, PassedFirst, NewestIsCurrent
<1>4. ShowsOrWill'
  BY <1>1 DEF Inv, ShowsOrWill
<1> QED BY <1>2, <1>3, <1>4 DEF Inv

LEMMA SwitchKnownKeeps ==
    ASSUME Inv, SwitchKnown
    PROVE  Inv'
<1>1. /\ due \in Accounts /\ active' = due /\ due' = Null /\ page' = page /\ key' = key
      /\ quotes' = quotes /\ overtaken' = overtaken
  BY DEF SwitchKnown, Inv, TypeOK
<1>2. TypeOK /\ view \in Views /\ key' \in Queries \cup Txids \cup {Null}
  BY <1>1, Types DEF Inv, TypeOK
<1>3. CASE page \in {"home", "activity"}
  <2>1. Key' = due /\ due \in Keys
    BY <1>1, <1>3 DEF Key, KeyOf, Keys
  <2>2. Len(fetches) < MaxFetches /\ fetches' = Append(fetches, Fetch(due)) /\ view' \in Views
    BY <1>2, <1>3, BeganIs DEF SwitchKnown
  <2> QED BY <1>1, <1>2, <1>3, <2>1, <2>2, RequestKeeps
<1>4. CASE page \notin {"home", "activity"}
  <2>1. fetches' = fetches /\ view' = view
    BY <1>4 DEF SwitchKnown
  <2>2. Key' = Key
    BY <1>1, <1>4 DEF Key, KeyOf
  <2>3. TypeOK'
    BY <1>1, <2>1 DEF Inv, TypeOK, Keys
  <2>4. AsksForSomething' /\ PassedFirst' /\ NewestIsCurrent' /\ ShowsOrWill'
    BY <1>1, <2>1, <2>2 DEF Inv, AsksForSomething, PassedFirst, NewestIsCurrent, ShowsOrWill
  <2> QED BY <2>3, <2>4 DEF Inv
<1> QED BY <1>3, <1>4

LEMMA submitKeeps ==
    ASSUME Inv, submit
    PROVE  Inv'
<1>1. PICK q \in Queries :
          IF q = key
          THEN /\ view' = [view EXCEPT !.data = Null, !.error = FALSE]
               /\ UNCHANGED <<key, fetches>>
          ELSE /\ Len(fetches) < MaxFetches
               /\ key' = q
               /\ fetches' = Append(fetches, Fetch(q))
               /\ view' = [Began EXCEPT !.data = Null]
  BY DEF submit
<1>2. /\ page = "lookup" /\ active' = active /\ due' = due /\ page' = page
      /\ quotes' = quotes /\ overtaken' = overtaken
  BY DEF submit
<1>3. TypeOK /\ view \in Views
  BY Types DEF Inv
<1>4. CASE q = key
  <2>1. view' = [view EXCEPT !.data = Null, !.error = FALSE] /\ key' = key /\ fetches' = fetches
    BY <1>1, <1>4
  <2>2. view' \in Views /\ view'.data = Null /\ view'.loading = view.loading
    BY <1>3, <2>1 DEF Views
  <2>3. quotes' \in [ticker : 0..MaxQuotes, candles : 0..1]
    BY <1>2, <1>3 DEF TypeOK
  <2> QED BY <1>2, <2>1, <2>2, <2>3, ViewKeeps
<1>5. CASE q # key
  <2>1. /\ Len(fetches) < MaxFetches /\ key' = q /\ fetches' = Append(fetches, Fetch(q))
        /\ view' \in Views
    BY <1>1, <1>3, <1>5, BeganIs
  <2>2. Key' = q /\ q \in Keys
    BY <1>2, <2>1 DEF Key, KeyOf, Keys
  <2>3. active' \in Accounts /\ due' \in Accounts \cup {Null} /\ page # "txdetail"
    BY <1>2, <1>3 DEF TypeOK
  <2> QED BY <1>2, <2>1, <2>2, <2>3, RequestKeeps
<1> QED BY <1>4, <1>5

LEMMA AgainKeeps ==
    ASSUME Inv, Retry \/ Poll
    PROVE  Inv'
<1>1. /\ TypeOK /\ view \in Views
      /\ active' = active /\ due' = due /\ page' = page /\ key' = key
      /\ quotes' = quotes /\ overtaken' = overtaken
  BY Types DEF Inv, Retry, Poll
<1>2. Key' = Key
  BY <1>1 DEF Key
<1>3. Request(Key) /\ Key \in Keys
  <2>1. CASE Retry
    BY <1>1, <2>1, KeyIs DEF Retry
  <2>2. CASE Poll
    BY <1>1, <2>2, KeyIs DEF Poll
  <2> QED BY <2>1, <2>2
<1>4. Len(fetches) < MaxFetches /\ fetches' = Append(fetches, Fetch(Key)) /\ view' \in Views
  BY <1>1, <1>3, BeganIs DEF Request
<1> QED BY <1>1, <1>2, <1>3, <1>4, RequestKeeps DEF TypeOK

(* The price is beside what the screen fetches. *)
LEMMA PriceIs ==
    ASSUME Inv, Tick \/ Quote \/ Candles
    PROVE  /\ view' \in Views /\ view'.loading = view.loading
           /\ view'.error = view.error /\ view'.data = view.data
           /\ view.ticker => view'.ticker
           /\ view.candles => view'.candles
           /\ active' = active /\ due' = due /\ page' = page /\ key' = key
           /\ fetches' = fetches /\ overtaken' = overtaken
           /\ quotes' \in [ticker : 0..MaxQuotes, candles : 0..1]
<1>1. view \in Views /\ quotes \in [ticker : 0..MaxQuotes, candles : 0..1] /\ MaxQuotes \in Nat
  BY Types, ConstantsAssumption DEF Inv, TypeOK
<1>2. CASE Tick
  BY <1>1, <1>2 DEF Tick
<1>3. CASE Quote
  <2>1. quotes' \in [ticker : 0..MaxQuotes, candles : 0..1]
    BY <1>1, <1>3 DEF Quote
  <2>2. PICK ok \in BOOLEAN : view' = Quoted(ok)
    BY <1>3 DEF Quote
  <2> DEFINE t == view.ticker \/ ok
             p == IF ok THEN "ok" ELSE "error"
  <2>3. t \in BOOLEAN /\ p \in {"loading", "ok", "error"} /\ (view.ticker => t)
    OBVIOUS
  <2>4. view' = [view EXCEPT !.price = p, !.ticker = t]
    BY <2>2 DEF Quoted
  <2> HIDE DEF t, p
  <2>5. /\ view' \in Views /\ view'.loading = view.loading
        /\ view'.error = view.error /\ view'.data = view.data
        /\ view'.ticker = t /\ view'.candles = view.candles
    BY <1>1, <2>3, <2>4 DEF Views
  <2> QED BY <1>3, <2>1, <2>3, <2>5 DEF Quote
<1>4. CASE Candles
  <2>1. quotes' \in [ticker : 0..MaxQuotes, candles : 0..1]
    BY <1>1, <1>4 DEF Candles
  <2>2. view' = view \/ view' = [view EXCEPT !.candles = TRUE]
    BY <1>4 DEF Candles
  <2>3. /\ view' \in Views /\ view'.loading = view.loading
        /\ view'.error = view.error /\ view'.data = view.data
        /\ view'.ticker = view.ticker /\ (view.candles => view'.candles)
    BY <1>1, <2>2 DEF Views
  <2> QED BY <1>4, <2>1, <2>3 DEF Candles
<1> QED BY <1>2, <1>3, <1>4

(* No screen leads to itself. *)
LEMMA LinksLeadAway ==
    ASSUME TypeOK, NEW p \in Links(page)
    PROVE  /\ p # page
           /\ p \in {"home", "activity", "lookup", "accounts", "settings", "receive", "send", "contacts"}
BY DEF TypeOK, Links, HomeLinks, SendLinks, SettingsLinks, ReadPages

LEMMA NavigationIs ==
    ASSUME Inv, Navigate \/ OpenTransaction \/ SwitchAccount
    PROVE  Inv' /\ page' # page
<1>1. TypeOK /\ due \in Accounts \cup {Null}
  BY DEF Inv, TypeOK
<1>2. PICK p \in ReadPages \cup {"lookup", "accounts", "settings", "receive", "send", "contacts"},
           k \in Txids \cup {Null} :
        /\ Mount(p, k) /\ p # page
        /\ IF p = "txdetail" THEN k \in Txids ELSE k = Null
        /\ due' \in Accounts \cup {Null}
  <2>1. CASE Navigate
    BY <1>1, <2>1, LinksLeadAway DEF Navigate, ReadPages
  <2>2. CASE OpenTransaction
    BY <1>1, <2>2 DEF OpenTransaction, ReadPages
  <2>3. CASE SwitchAccount
    BY <2>3 DEF SwitchAccount, ReadPages
  <2> QED BY <2>1, <2>2, <2>3
<1>3. Inv'
  BY <1>2, MountKeeps
<1> QED BY <1>2, <1>3 DEF Mount

LEMMA InitInv == Init => Inv
<1> SUFFICES ASSUME Init PROVE Inv
  OBVIOUS
<1>1. Key = active /\ active \in Keys /\ view \in Views /\ view.loading
  BY BlankIs DEF Init, Key, KeyOf, Keys, ReadPages
<1>2. Fetch(active) \in Fetches /\ Fetch(active).key = active /\ ~Fetch(active).passed
  BY <1>1, FetchIs
<1>3. /\ fetches = <<Fetch(active)>> /\ fetches \in Seq(Fetches) /\ Len(fetches) = 1
      /\ fetches # <<>> /\ fetches[1] = Fetch(active)
  BY <1>2 DEF Init
<1>4. TypeOK
  <2>1. MaxFetches \in Nat \ {0} /\ MaxQuotes \in Nat \ {0}
    BY ConstantsAssumption
  <2>2. quotes \in [ticker : 0..MaxQuotes, candles : 0..1]
    BY <2>1 DEF Init
  <2>3. view \in [data : Keys \cup {Null}, loading : BOOLEAN, error : BOOLEAN,
                  price : {"loading", "ok", "error"}, ticker : BOOLEAN, candles : BOOLEAN]
    BY <1>1 DEF Views
  <2>4. fetches \in Seq([key : Keys, passed : BOOLEAN]) /\ Len(fetches) <= MaxFetches
    BY <1>3, <2>1 DEF Fetches
  <2> QED BY <2>2, <2>3, <2>4 DEF Init, TypeOK, ReadPages
<1>5. Key # Null
  BY <1>1, <1>4, KeyIs
<1>6. PassedFirst
  BY <1>3 DEF PassedFirst
<1>7. AsksForSomething /\ NewestIsCurrent /\ ShowsOrWill
  BY <1>1, <1>2, <1>3, <1>5 DEF AsksForSomething, NewestIsCurrent, ShowsOrWill
<1> QED BY <1>4, <1>6, <1>7 DEF Inv

LEMMA NextInv == Inv /\ [Next]_vars => Inv'
<1> SUFFICES ASSUME Inv, [Next]_vars PROVE Inv'
  OBVIOUS
<1>1. CASE Navigate \/ OpenTransaction \/ SwitchAccount
  BY <1>1, NavigationIs
<1>2. CASE SwitchKnown \/ submit \/ Retry \/ Poll
  BY <1>2, SwitchKnownKeeps, submitKeeps, AgainKeeps
<1>3. CASE \E i \in 1..MaxFetches, ok \in BOOLEAN : Answer(i, ok)
  BY <1>3, AnswerKeeps
<1>4. CASE Tick \/ Quote \/ Candles
  BY <1>4, PriceIs, ViewKeeps
<1>5. CASE UNCHANGED vars
  <2>1. /\ view' = view /\ active' = active /\ due' = due /\ page' = page /\ key' = key
        /\ fetches' = fetches /\ overtaken' = overtaken /\ quotes' = quotes
    BY <1>5 DEF vars, screen
  <2>2. view \in Views /\ quotes \in [ticker : 0..MaxQuotes, candles : 0..1]
    BY Types DEF Inv, TypeOK
  <2> QED BY <2>1, <2>2, ViewKeeps
<1> QED BY <1>1, <1>2, <1>3, <1>4, <1>5 DEF Next

----------------------------------------------------------------------------
LEMMA InvIsInvariant == Spec => []Inv
BY InitInv, NextInv, PTL DEF Spec

(* A screen asks for what its route names, has a bounded number of         *)
(* requests in flight, and shows nothing that was never asked for.         *)
THEOREM TypesHold == Spec => []TypeOK
BY InvIsInvariant, PTL DEF Inv

(* A screen that has its answers shows what belongs to its account,        *)
(* transaction or query, or an error, whatever was switched while a        *)
(* request was under way; but for an answer that a later one has overtaken.*)
THEOREM WhatIsShownBelongs == Spec => []SettledShowsItsKey
<1>1. Inv => SettledShowsItsKey
  BY Types DEF Inv, AsksForSomething, ShowsOrWill, SettledShowsItsKey, Views
<1> QED BY <1>1, InvIsInvariant, PTL

(* While a screen stays, no failure of the price source takes a price or a *)
(* chart away that it has shown (usePrlPrice.ts).                          *)
THEOREM FailuresKeepThePrice == Spec => PriceStays
<1>1. ASSUME Inv, [Next]_vars
      PROVE  [page' = page => (view.ticker => view'.ticker) /\ (view.candles => view'.candles)]_vars
  <2>1. view \in Views
    BY <1>1, Types DEF Inv
  <2>2. SUFFICES ASSUME Next, page' = page
                 PROVE  (view.ticker => view'.ticker) /\ (view.candles => view'.candles)
    BY <1>1
  <2>3. CASE Navigate \/ OpenTransaction \/ SwitchAccount
    BY <1>1, <2>2, <2>3, NavigationIs
  <2>4. CASE SwitchKnown \/ submit \/ Retry \/ Poll
    <3>1. view' \in {view, Began, [Began EXCEPT !.data = Null], [view EXCEPT !.data = Null, !.error = FALSE]}
      BY <2>4 DEF SwitchKnown, submit, Retry, Poll, Request
    <3> QED BY <2>1, <3>1 DEF Began, Views
  <2>5. CASE \E i \in 1..MaxFetches, ok \in BOOLEAN : Answer(i, ok)
    <3>1. PICK i \in 1..MaxFetches, ok \in BOOLEAN : view' = Shown(i, ok)
      BY <2>5 DEF Answer
    <3> DEFINE d == IF ok THEN fetches[i].key ELSE view.data
               e == view.error \/ ~ok
    <3>2. view' = [view EXCEPT !.loading = FALSE, !.data = d, !.error = e]
      BY <3>1 DEF Shown
    <3> HIDE DEF d, e
    <3> QED BY <2>1, <3>2 DEF Views
  <2>6. CASE Tick \/ Quote \/ Candles
    BY <1>1, <2>6, PriceIs
  <2> QED BY <2>2, <2>3, <2>4, <2>5, <2>6 DEF Next
<1> QED BY <1>1, InvIsInvariant, PTL DEF Spec, PriceStays

----------------------------------------------------------------------------
(* What a transaction did to the wallet. *)

ValuesOf(ios) == [i \in DOMAIN ios |-> ValueOf(ios[i])]
IsList(ios) == IsFiniteSet(DOMAIN ios) /\ ValuesOf(ios) \in [DOMAIN ios -> Int]
               /\ \A i \in DOMAIN ios : ValuesOf(ios)[i] >= 0

LEMMA ListsAre ==
    ASSUME NEW t \in Transactions
    PROVE  IsList(t.vin) /\ IsList(t.vout)
BY ConstantsAssumption DEF IsList, ValuesOf, ValueOf

LEMMA SumAtIs ==
    ASSUME NEW ios, IsList(ios), NEW places \in SUBSET DOMAIN ios
    PROVE  SumAt(ios, places) = Sums(ValuesOf(ios))[places]
<1> DEFINE w == ValuesOf(ios)
           u == [i \in places |-> w[i]]
<1>1. w \in [DOMAIN ios -> Int] /\ IsFiniteSet(DOMAIN ios)
  BY DEF IsList
<1>2. \A i \in places : w[i] = ValueOf(ios[i])
  BY DEF ValuesOf
<1> HIDE DEF w
<1>3. DOMAIN u = places /\ \A i \in places : u[i] = ValueOf(ios[i])
  BY <1>2
<1> HIDE DEF u
<1>4. SumAt(ios, places) = Sums(u)[places]
  <2> DEFINE f(g) == [s \in SUBSET places |->
                         IF s = {} THEN 0 ELSE ValueOf(ios[Pick(s)]) + g[s \ {Pick(s)}]]
             h(g) == [s \in SUBSET places |-> IF s = {} THEN 0 ELSE u[Pick(s)] + g[s \ {Pick(s)}]]
  <2>1. ASSUME NEW g PROVE f(g) = h(g)
    <3>1. ASSUME NEW s \in SUBSET places, s # {} PROVE ValueOf(ios[Pick(s)]) = u[Pick(s)]
      BY <1>3, <3>1, PickIn
    <3> QED BY <3>1
  <2>2. SumAt(ios, places) = (CHOOSE g : g = f(g))[places]
    BY Zenon DEF SumAt, MapThenSumSet, MapThenFoldSet, Pick
  <2>3. Sums(u) = CHOOSE g : g = h(g)
    BY <1>3, Zenon DEF Sums
  <2> HIDE DEF f, h
  <2>4. (CHOOSE g : g = f(g)) = (CHOOSE g : g = h(g))
    BY <2>1, Zenon
  <2> QED BY <2>2, <2>3, <2>4
<1>5. Sums(u)[places] = Sums(w)[places]
  BY <1>1, SumRestrict DEF u
<1> QED BY <1>4, <1>5 DEF w

(* One more address adds what is there of it. *)
LEMMA OneMoreOwner ==
    ASSUME NEW ios, IsList(ios), NEW A, NEW a, a \notin A
    PROVE  /\ SumAt(ios, Owned(ios, A \cup {a})) = SumAt(ios, Owned(ios, A)) + SumAt(ios, Owned(ios, {a}))
           /\ SumAt(ios, Owned(ios, A)) \in Int /\ SumAt(ios, Owned(ios, {a})) \in Int
<1> DEFINE w == ValuesOf(ios)
           D == DOMAIN ios
           P == Owned(ios, A)
           Q == Owned(ios, {a})
<1>1. w \in [D -> Int] /\ IsFiniteSet(D)
  BY DEF IsList
<1>2. P \in SUBSET D /\ Q \in SUBSET D /\ P \cap Q = {} /\ P \cup Q = Owned(ios, A \cup {a})
  BY DEF Owned
<1>3. P \in SUBSET D /\ Q \in SUBSET D /\ P \cap Q = {}
  BY <1>2
<1>4. /\ SumAt(ios, P) = Sums(w)[P] /\ SumAt(ios, Q) = Sums(w)[Q]
      /\ SumAt(ios, P \cup Q) = Sums(w)[P \cup Q]
  BY <1>2, SumAtIs
<1> HIDE DEF w, D, P, Q
<1>5. Sums(w)[P \cup Q] = Sums(w)[P] + Sums(w)[Q]
  BY <1>1, <1>3, SumUnion
<1>6. SumLaw(w, D)
  BY <1>1, SumsIs
<1>7. Sums(w)[P] \in Int /\ Sums(w)[Q] \in Int
  BY <1>3, <1>6 DEF SumLaw
<1> QED BY <1>2, <1>4, <1>5, <1>7 DEF P, Q

LEMMA NobodyOwns ==
    ASSUME NEW ios, IsList(ios)
    PROVE  SumAt(ios, Owned(ios, {})) = 0
<1>1. Owned(ios, {}) = {} /\ {} \in SUBSET DOMAIN ios
  BY DEF Owned
<1>2. SumLaw(ValuesOf(ios), DOMAIN ios)
  BY SumsIs DEF IsList
<1> QED BY <1>1, <1>2, SumAtIs DEF SumLaw

(* Nobody owns more than there is. *)
LEMMA OwnedIsBounded ==
    ASSUME NEW ios, IsList(ios), NEW A
    PROVE  /\ SumAt(ios, Owned(ios, A)) \in Nat /\ SumAt(ios, DOMAIN ios) \in Nat
           /\ SumAt(ios, Owned(ios, A)) <= SumAt(ios, DOMAIN ios)
<1> DEFINE w == ValuesOf(ios)
           D == DOMAIN ios
           P == Owned(ios, A)
           Q == D \ P
<1>1. w \in [D -> Int] /\ IsFiniteSet(D) /\ \A i \in D : w[i] >= 0
  BY DEF IsList
<1>2. P \in SUBSET D /\ Q \in SUBSET D /\ P \cap Q = {} /\ P \cup Q = D
  BY DEF Owned
<1>3. SumAt(ios, P) = Sums(w)[P] /\ SumAt(ios, D) = Sums(w)[D]
  BY <1>2, SumAtIs
<1> HIDE DEF w, D, P, Q
<1>4. Sums(w)[D] = Sums(w)[P] + Sums(w)[Q]
  BY <1>1, <1>2, SumUnion
<1>5. Sums(w)[P] \in Nat
  BY <1>1, <1>2, SumOfNaturals
<1>6. Sums(w)[Q] \in Nat
  BY <1>1, <1>2, SumOfNaturals
<1> QED BY <1>3, <1>4, <1>5, <1>6 DEF P, D

Nets(t) == [a \in Accounts |-> NetValue(t, a)]

LEMMA NetValueIs ==
    ASSUME NEW t \in Transactions
    PROVE  /\ Nets(t) \in [Accounts -> Int]
           /\ MapThenSumSet(LAMBDA a : NetValue(t, a), Accounts) = Sums(Nets(t))[Accounts]
<1>1. \A a \in Accounts : NetValue(t, a) \in Int
  BY ListsAre, OwnedIsBounded DEF NetValue
<1>2. DOMAIN Nets(t) = Accounts /\ \A a \in Accounts : Nets(t)[a] = NetValue(t, a)
  BY DEF Nets
<1>3. MapThenSumSet(LAMBDA a : NetValue(t, a), Accounts) = Sums(Nets(t))[Accounts]
  <2> DEFINE f(g) == [s \in SUBSET Accounts |->
                         IF s = {} THEN 0 ELSE NetValue(t, Pick(s)) + g[s \ {Pick(s)}]]
             h(g) == [s \in SUBSET Accounts |->
                         IF s = {} THEN 0 ELSE Nets(t)[Pick(s)] + g[s \ {Pick(s)}]]
  <2>1. ASSUME NEW g PROVE f(g) = h(g)
    <3>1. ASSUME NEW s \in SUBSET Accounts, s # {} PROVE NetValue(t, Pick(s)) = Nets(t)[Pick(s)]
      BY <1>2, <3>1, PickIn
    <3> QED BY <3>1
  <2>2. MapThenSumSet(LAMBDA a : NetValue(t, a), Accounts) = (CHOOSE g : g = f(g))[Accounts]
    BY Zenon DEF MapThenSumSet, MapThenFoldSet, Pick
  <2>3. Sums(Nets(t)) = CHOOSE g : g = h(g)
    BY <1>2, Zenon DEF Sums
  <2> HIDE DEF f, h
  <2>4. (CHOOSE g : g = f(g)) = (CHOOSE g : g = h(g))
    BY <2>1, Zenon
  <2> QED BY <2>2, <2>3, <2>4
<1> QED BY <1>1, <1>3 DEF Nets

(* Adding up per account and adding up for all accounts is the same. *)
LEMMA NetIsSum ==
    ASSUME NEW t \in Transactions
    PROVE  net(TxDetail(t), Accounts) = Sums(Nets(t))[Accounts]
<1> DEFINE Out(A) == SumAt(t.vout, Owned(t.vout, A))
           In(A) == SumAt(t.vin, Owned(t.vin, A))
           Good == {A \in SUBSET Accounts : Out(A) - In(A) = Sums(Nets(t))[A]}
<1>1. IsFiniteSet(Accounts) /\ IsList(t.vin) /\ IsList(t.vout)
  BY ListsAre, ConstantsAssumption
<1>2. SumLaw(Nets(t), Accounts)
  BY <1>1, NetValueIs, SumsIs
<1>3. ASSUME NEW A \in SUBSET Accounts, \A B \in SUBSET A : B # A => B \in Good
      PROVE  A \in Good
  <2>1. CASE A = {}
    <3>1. Out(A) = 0 /\ In(A) = 0
      BY <1>1, <2>1, NobodyOwns
    <3> QED BY <1>2, <2>1, <3>1 DEF SumLaw
  <2>2. CASE A # {}
    <3> DEFINE a == Pick(A)
               B == A \ {a}
    <3>1. a \in A
      BY <2>2, PickIn
    <3>2. Sums(Nets(t))[A] = Nets(t)[a] + Sums(Nets(t))[B]
      BY <1>2, <2>2 DEF SumLaw
    <3> HIDE DEF a
    <3>3. B \in Good /\ a \notin B /\ B \cup {a} = A /\ a \in Accounts
      BY <1>3, <3>1
    <3> HIDE DEF B
    <3>4. Out(A) = Out(B) + Out({a}) /\ Out(B) \in Int /\ Out({a}) \in Int
      BY <1>1, <3>3, OneMoreOwner
    <3>5. In(A) = In(B) + In({a}) /\ In(B) \in Int /\ In({a}) \in Int
      BY <1>1, <3>3, OneMoreOwner
    <3>6. Nets(t)[a] = Out({a}) - In({a})
      BY <3>3 DEF Nets, NetValue
    <3>7. Out(B) - In(B) = Sums(Nets(t))[B]
      BY <3>3
    <3> HIDE DEF Out, In
    <3>8. Out(A) - In(A) = Sums(Nets(t))[A]
      BY <3>2, <3>4, <3>5, <3>6, <3>7
    <3> QED BY <3>8
  <2> QED BY <2>1, <2>2
<1> HIDE DEF Good
<1>4. \A A \in SUBSET Accounts : A \in Good
  BY <1>1, <1>3, SubsetInduction
<1>5. Out(Accounts) - In(Accounts) = Sums(Nets(t))[Accounts]
  BY <1>4 DEF Good
<1> QED BY <1>5 DEF net, TxDetail

(* For every transaction the backend may report, of any number of inputs   *)
(* and outputs, the heading of TransactionDetail is the sum of the rows of *)
(* Activity, at most what the transaction pays; and a loss of the wallet   *)
(* is listed as sent by one of its accounts.                               *)
THEOREM NetsAlwaysAgree == Spec => []NetsAgree
<1>1. ASSUME NEW t \in Transactions
      PROVE  LET gained == net(TxDetail(t), Accounts)
             IN  /\ gained = MapThenSumSet(LAMBDA a : NetValue(t, a), Accounts)
                 /\ gained <= TxDetail(t).valueOut
                 /\ \A a \in Accounts :
                       direction(t, a) = "received" /\ gained < 0 =>
                           \E b \in Accounts : direction(t, b) = "sent"
  <2> DEFINE gained == net(TxDetail(t), Accounts)
  <2>1. gained = Sums(Nets(t))[Accounts]
        /\ gained = MapThenSumSet(LAMBDA a : NetValue(t, a), Accounts)
    BY NetIsSum, NetValueIs
  <2>2. gained <= TxDetail(t).valueOut
    <3>1. /\ SumAt(t.vout, Owned(t.vout, Accounts)) \in Nat /\ SumAt(t.vout, DOMAIN t.vout) \in Nat
          /\ SumAt(t.vout, Owned(t.vout, Accounts)) <= SumAt(t.vout, DOMAIN t.vout)
          /\ SumAt(t.vin, Owned(t.vin, Accounts)) \in Nat
      BY ListsAre, OwnedIsBounded
    <3> QED BY <3>1 DEF net, TxDetail
  <2>3. ASSUME gained < 0 PROVE \E b \in Accounts : direction(t, b) = "sent"
    <3>1. PICK b \in Accounts : ~(Nets(t)[b] >= 0)
      <4>1. ~(Sums(Nets(t))[Accounts] \in Nat)
        BY <2>1, <2>3
      <4>2. Accounts \in SUBSET Accounts /\ IsFiniteSet(Accounts) /\ Nets(t) \in [Accounts -> Int]
        BY NetValueIs, ConstantsAssumption
      <4> QED BY <4>1, <4>2, SumOfNaturals
    <3>2. NetValue(t, b) \in Int /\ NetValue(t, b) < 0 /\ ~(NetValue(t, b) > 0)
      <4>1. Nets(t) \in [Accounts -> Int]
        BY NetValueIs
      <4>2. Nets(t)[b] = NetValue(t, b)
        BY DEF Nets
      <4>3. Nets(t)[b] \in Int
        BY <4>1
      <4> QED BY <3>1, <4>2, <4>3
    <3>3. direction(t, b) = "sent"
      BY <3>2 DEF direction
    <3> QED BY <3>3
  <2> QED BY <2>1, <2>2, <2>3
<1>2. NetsAgree
  BY <1>1 DEF NetsAgree
<1> QED BY <1>2, PTL
=============================================================================
