--------------------------- MODULE SendFormProofs ---------------------------
(* The address book and the two address decoders, for every set of          *)
(* addresses, every number of overlapping edits and every text.             *)
EXTENDS SendForm, SumTheorems, SequenceTheorems

(***************************************************************************)
(* The decoders.  A program of 32 bytes takes 52 words of five bits, so    *)
(* neither length limit is ever what decides.                              *)
(***************************************************************************)
LEMMA WordsOfProgram ==
    ASSUME NEW w \in Int, (w * 5) % 8 < 5, (w * 5) \div 8 = 32
    PROVE  w = 52
<1>1. \A x \in Int : x % 8 < 5 /\ x \div 8 = 32 => x >= 256 /\ x <= 260
  OBVIOUS
<1>2. w * 5 >= 256 /\ w * 5 <= 260
  BY <1>1
<1> QED BY <1>2

(* What the form takes for a recipient is exactly what wallet-core decodes *)
(* as a Taproot address of the network, whatever the text.                 *)
THEOREM RecipientDecodersAgree == \A t \in Texts : DecodersAgree(t)
<1> SUFFICES ASSUME NEW t \in Texts
             PROVE  DecodersAgree(t)
  OBVIOUS
<1>1. t.chars \in Nat /\ t.version \in 0..31 /\ t.hrp \in Hrps
  BY DEF Texts
<1>2. t.hrp = "prl" => HrpLength[t.hrp] = 3
  BY HrpAssumption
<1>3. ASSUME WholeBytes(t), ProgramLength(t) = 32
      PROVE  t.chars = 59
  <2>1. Words(t) - 1 = 52
    BY <1>1, <1>3, WordsOfProgram DEF WholeBytes, ProgramLength, Words
  <2> QED BY <1>1, <2>1 DEF Words
<1>4. validateAddress(t) = "valid" <=>
        decodeSegwitAddress(t) /\ t.hrp = "prl" /\ ProgramLength(t) = 32 /\ t.version = 1
  BY DEF validateAddress
<1>5. ASSUME t.hrp = "prl", t.version = 1, WholeBytes(t), ProgramLength(t) = 32
      PROVE  decodeSegwitAddress(t) <=> decodeAddress(t)
  <2>1. t.chars = 59 /\ HrpLength[t.hrp] = 3
    BY <1>2, <1>3, <1>5
  <2>2. Length(t) = 63 /\ Words(t) > 0
    BY <2>1 DEF Length, Words
  <2>3. decodeRaw(t) <=> LibraryDecodes(t)
    BY <2>2 DEF decodeRaw, LibraryDecodes
  <2> QED BY <1>5, <2>2, <2>3 DEF decodeSegwitAddress, decodeAddress
<1>6. decodeSegwitAddress(t) => WholeBytes(t)
  BY DEF decodeSegwitAddress
<1>7. decodeAddress(t) => WholeBytes(t) /\ ProgramLength(t) = 32
  BY DEF decodeAddress
<1> QED BY <1>4, <1>5, <1>6, <1>7 DEF DecodersAgree

(***************************************************************************)
(* The address book.  Uniqueness is kept because each edit filters the     *)
(* very copy it writes back, which may be older than the book.             *)
(***************************************************************************)
CopiesDistinct ==
    \A s \in Slots : edits[s] # Null =>
        Distinct(edits[s].copy) /\ (edits[s].op = "add" => edits[s].addr \in Typed)

FieldOK == address \in Typed \cup {Null}

BookInv == ContactsTypeOK /\ FieldOK /\ UniqueContacts /\ CopiesDistinct

LEMMA DistinctEdited ==
    ASSUME NEW e \in Calls, NEW cs, Distinct(cs)
    PROVE  Distinct(Edited(e, cs))
<1>1. Distinct(Without(cs, e.addr))
  BY DEF Distinct, Without
<1>2. Distinct(Without(cs, e.addr) \cup {e.addr})
  BY <1>1 DEF Distinct, Without, SameContact
<1> QED BY <1>1, <1>2 DEF Edited

LEMMA EditedIsBook ==
    ASSUME NEW e \in Calls, e.op = "add" => e.addr \in Typed, NEW cs \in Books
    PROVE  Edited(e, cs) \in Books
BY DEF Edited, Without, Books

LEMMA DistinctEmpty == Distinct({})
BY DEF Distinct

LEMMA CallsMade ==
    /\ Reading \in Calls /\ Distinct(Reading.copy) /\ Reading.op # "add"
    /\ \A op \in {"add", "remove"}, addr \in Typed :
          Edit(op, addr) \in Calls /\ Distinct(Edit(op, addr).copy)
BY DistinctEmpty DEF Reading, Edit, Calls, Books

LEMMA BookInitInv == Init => BookInv
BY DistinctEmpty, ContactsAssumption
   DEF Init, ContactsInit, BookInv, ContactsTypeOK, FieldOK, UniqueContacts, CopiesDistinct, Books

(* A screen that opens or closes starts no edit and forgets no edit.       *)
LEMMA MountKeeps ==
    ASSUME BookInv, NEW screen \in {"send", "contacts", "away"}, Mount(screen)
    PROVE  ContactsTypeOK' /\ UniqueContacts' /\ CopiesDistinct'
<1>1. \A s \in Slots : edits[s] \in Calls \cup {Null}
  BY DEF BookInv, ContactsTypeOK
<1>2. \A s \in Slots :
         Abandoned[s] # Null =>
            /\ edits[s] # Null
            /\ Abandoned[s] \in Calls /\ Abandoned[s].copy = edits[s].copy
            /\ Abandoned[s].op = edits[s].op /\ Abandoned[s].addr = edits[s].addr
  BY <1>1 DEF Abandoned, Calls
<1>3. /\ Abandoned \in [Slots -> Calls \cup {Null}]
      /\ \A s \in Slots : Abandoned[s] # Null =>
            Distinct(Abandoned[s].copy) /\ (Abandoned[s].op = "add" => Abandoned[s].addr \in Typed)
  <2>1. \A s \in Slots : Abandoned[s] \in Calls \cup {Null}
    BY <1>2
  <2>2. Abandoned \in [Slots -> Calls \cup {Null}]
    BY <2>1 DEF Abandoned
  <2> QED BY <1>2, <2>2 DEF BookInv, CopiesDistinct
<1>4. \/ edits' = Abandoned
      \/ \E s \in Slots : edits' = [Abandoned EXCEPT ![s] = Reading]
  BY DEF Mount
<1> HIDE DEF Abandoned
<1>5. edits' \in [Slots -> Calls \cup {Null}] /\ CopiesDistinct'
  BY <1>3, <1>4, CallsMade DEF CopiesDistinct
<1> QED BY <1>5 DEF Mount, BookInv, ContactsTypeOK, UniqueContacts, Books

LEMMA BeginEditKeeps ==
    ASSUME BookInv, NEW op \in {"add", "remove"}, NEW addr \in Typed, BeginEdit(op, addr)
    PROVE  ContactsTypeOK' /\ UniqueContacts' /\ CopiesDistinct'
<1>1. PICK s \in Slots : edits' = [edits EXCEPT ![s] = Edit(op, addr)]
  BY DEF BeginEdit
<1>2. Edit(op, addr) \in Calls /\ Distinct(Edit(op, addr).copy) /\ Edit(op, addr).addr = addr
  BY CallsMade DEF Edit
<1>3. edits' \in [Slots -> Calls \cup {Null}] /\ CopiesDistinct'
  BY <1>1, <1>2 DEF BookInv, ContactsTypeOK, CopiesDistinct
<1> QED BY <1>3 DEF BeginEdit, Busy, Editing, BookInv, ContactsTypeOK, UniqueContacts

LEMMA GetKeeps ==
    ASSUME BookInv, NEW s \in Slots, Get(s)
    PROVE  ContactsTypeOK' /\ UniqueContacts' /\ CopiesDistinct'
<1>1. edits[s] \in Calls /\ edits \in [Slots -> Calls \cup {Null}]
  BY DEF Get, BookInv, ContactsTypeOK
<1>2. PICK cs \in {book, {}} : edits' = [edits EXCEPT ![s].stage = "set", ![s].copy = cs]
  BY DEF Get
<1>3. cs \in Books /\ Distinct(cs)
  BY <1>2, DistinctEmpty DEF BookInv, ContactsTypeOK, UniqueContacts, Books
<1>4. /\ edits'[s] \in Calls /\ edits'[s].copy = cs
      /\ edits'[s].op = edits[s].op /\ edits'[s].addr = edits[s].addr
      /\ \A r \in Slots \ {s} : edits'[r] = edits[r]
      /\ edits' \in [Slots -> Calls \cup {Null}]
  BY <1>1, <1>2, <1>3 DEF Calls
<1>5. CopiesDistinct'
  BY <1>3, <1>4 DEF BookInv, CopiesDistinct, Get
<1> QED BY <1>4, <1>5 DEF Get, BookInv, ContactsTypeOK, UniqueContacts

LEMMA SetKeeps ==
    ASSUME BookInv, NEW s \in Slots, Set(s)
    PROVE  ContactsTypeOK' /\ UniqueContacts' /\ CopiesDistinct'
<1> DEFINE e == edits[s]
<1>1. /\ e \in Calls /\ Distinct(e.copy) /\ (e.op = "add" => e.addr \in Typed)
      /\ e.copy \in Books /\ meant \in Books
  BY DEF Set, BookInv, ContactsTypeOK, CopiesDistinct, Calls
<1>2. /\ Edited(e, e.copy) \in Books /\ Distinct(Edited(e, e.copy)) /\ Edited(e, meant) \in Books
  BY <1>1, DistinctEdited, EditedIsBook
<1>3. edits' \in [Slots -> Calls \cup {Null}] /\ CopiesDistinct'
  <2>1. PICK x \in {Reading, Null} : edits' = [edits EXCEPT ![s] = x]
    BY DEF Set
  <2> QED BY <2>1, CallsMade DEF BookInv, ContactsTypeOK, CopiesDistinct
<1> QED BY <1>2, <1>3 DEF Set, BookInv, ContactsTypeOK, UniqueContacts

LEMMA ListKeeps ==
    ASSUME BookInv, NEW s \in Slots, List(s)
    PROVE  ContactsTypeOK' /\ UniqueContacts' /\ CopiesDistinct'
<1>1. edits' \in [Slots -> Calls \cup {Null}] /\ CopiesDistinct'
  BY DEF List, BookInv, ContactsTypeOK, CopiesDistinct
<1> QED BY <1>1 DEF List, Editing, BookInv, ContactsTypeOK, UniqueContacts, Books

LEMMA BookNextInv ==
    ASSUME BookInv, [Next]_vars
    PROVE  BookInv'
<1>1. CASE Navigate
  <2>1. ASSUME NEW from, NEW to \in {"send", "contacts", "away"}, NEW r \in Typed \cup {Null},
               Open(from, to, r)
        PROVE  BookInv'
    BY <2>1, MountKeeps DEF Open, BookInv, FieldOK
  <2>2. list # Null => \A c \in list : c \in Typed
    BY DEF BookInv, ContactsTypeOK, Books
  <2> QED BY <1>1, <2>1, <2>2 DEF Navigate
<1>2. CASE TypeAddress
  BY <1>2 DEF TypeAddress, contacts, BookInv, ContactsTypeOK, FieldOK, UniqueContacts, CopiesDistinct
<1>3. CASE TypeAmount
  BY <1>3 DEF TypeAmount, contacts, BookInv, ContactsTypeOK, FieldOK, UniqueContacts, CopiesDistinct
<1>4. CASE Save
  <2>1. address \in Typed /\ BeginEdit("add", address)
    BY <1>4 DEF Save, saveContact, BookInv, FieldOK
  <2> QED BY <1>4, <2>1, BeginEditKeeps DEF Save, BookInv, FieldOK
<1>5. CASE RemoveContact
  <2>1. PICK c \in Typed : BeginEdit("remove", c)
    BY <1>5 DEF RemoveContact, removeContact, BookInv, ContactsTypeOK, Books
  <2> QED BY <1>5, <2>1, BeginEditKeeps DEF RemoveContact, BookInv, FieldOK
<1>6. CASE handleReview
  BY <1>6, MountKeeps DEF handleReview, BookInv, FieldOK
<1>7. CASE Storage /\ UNCHANGED <<address, amount, draft>>
  <2>1. PICK s \in Slots : Get(s) \/ Set(s) \/ List(s)
    BY <1>7 DEF Storage
  <2>2. ContactsTypeOK' /\ UniqueContacts' /\ CopiesDistinct'
    BY <2>1, GetKeeps, SetKeeps, ListKeeps
  <2> QED BY <1>7, <2>2 DEF BookInv, FieldOK
<1>8. CASE UNCHANGED vars
  BY <1>8 DEF vars, contacts, BookInv, ContactsTypeOK, FieldOK, UniqueContacts, CopiesDistinct
<1> QED BY <1>1, <1>2, <1>3, <1>4, <1>5, <1>6, <1>7, <1>8 DEF Next

(* No address is ever in the book twice, for any number of edits in flight *)
(* and whatever reads and writes of the storage fail.                      *)
THEOREM ContactsStayUnique == Spec => []UniqueContacts
<1>1. BookInv => UniqueContacts
  BY DEF BookInv
<1> QED BY <1>1, BookInitInv, BookNextInv, PTL DEF Spec

(***************************************************************************)
(* Edits take effect.  While nothing has overlapped or failed, one edit at *)
(* most is under way, it writes back a copy of the book as it is, and the  *)
(* screen will read the book after it: through a reading in flight, or     *)
(* when the edit is done.                                                  *)
(***************************************************************************)
UnderWay(e) == e # Null /\ e.stage \in {"get", "set"}

Calm ==
    ~rushed =>
        /\ book = meant
        /\ \A s, r \in Slots : UnderWay(edits[s]) /\ UnderWay(edits[r]) => s = r
        /\ \A s \in Slots : edits[s] # Null /\ edits[s].stage = "set" => edits[s].copy = book
        /\ at # "away" =>
            \/ \E s \in Slots : edits[s] # Null /\ edits[s].stage = "list"
            \/ \E s \in Slots : UnderWay(edits[s]) /\ edits[s].live
            \/ list = book /\ \A s \in Slots : ~UnderWay(edits[s])


LEMMA MountCalm ==
    ASSUME BookInv, Calm, NEW screen \in {"send", "contacts", "away"}, Mount(screen)
    PROVE  Calm'
<1>1. /\ at' = screen /\ book' = book /\ meant' = meant /\ rushed' = rushed
      /\ edits' = Abandoned
         \/ \E s \in Slots : Abandoned[s] = Null /\ edits' = [Abandoned EXCEPT ![s] = Reading]
      /\ screen # "away" =>
            \E s \in Slots : Abandoned[s] = Null /\ edits' = [Abandoned EXCEPT ![s] = Reading]
  BY DEF Mount
<1>2. \A s \in Slots : edits[s] \in Calls \cup {Null}
  BY DEF BookInv, ContactsTypeOK
<1>3. \A s \in Slots : Abandoned[s] # Null =>
         /\ edits[s] # Null /\ UnderWay(edits[s])
         /\ Abandoned[s].copy = edits[s].copy /\ Abandoned[s].stage = edits[s].stage
  <2> SUFFICES ASSUME NEW s \in Slots, Abandoned[s] # Null
               PROVE  /\ edits[s] # Null /\ UnderWay(edits[s])
                      /\ Abandoned[s].copy = edits[s].copy /\ Abandoned[s].stage = edits[s].stage
    OBVIOUS
  <2>1. edits[s] # Null /\ edits[s].stage # "list" /\ Abandoned[s] = [edits[s] EXCEPT !.live = FALSE]
    BY DEF Abandoned
  <2>2. edits[s] \in Calls
    BY <1>2, <2>1
  <2> QED BY <2>1, <2>2 DEF Calls, UnderWay
<1>4. Reading.stage = "list" /\ Reading # Null
  BY CallsMade, CallsAssumption DEF Reading
<1>5. Abandoned = [s \in Slots |-> Abandoned[s]]
  BY DEF Abandoned
<1> HIDE DEF Abandoned
<1>6. \A s \in Slots : edits'[s] = Abandoned[s] \/ edits'[s] = Reading
  BY <1>1, <1>5
<1>7. \A s \in Slots : UnderWay(edits'[s]) =>
         UnderWay(edits[s]) /\ edits'[s].copy = edits[s].copy /\ edits'[s].stage = edits[s].stage
  BY <1>3, <1>4, <1>6 DEF UnderWay
<1>8. screen # "away" => \E s \in Slots : edits'[s] = Reading
  BY <1>1, <1>5
<1>9. \A s \in Slots : edits'[s] # Null /\ edits'[s].stage = "set" => UnderWay(edits'[s])
  BY DEF UnderWay
<1>10. SUFFICES ASSUME ~rushed
                PROVE  /\ book = meant
                       /\ \A s, r \in Slots : UnderWay(edits'[s]) /\ UnderWay(edits'[r]) => s = r
                       /\ \A s \in Slots :
                             edits'[s] # Null /\ edits'[s].stage = "set" => edits'[s].copy = book
                       /\ screen # "away" =>
                             \E s \in Slots : edits'[s] # Null /\ edits'[s].stage = "list"
  BY <1>1 DEF Calm
<1>11. \A s, r \in Slots : UnderWay(edits[s]) /\ UnderWay(edits[r]) => s = r
  BY <1>10 DEF Calm
<1>12. \A s \in Slots : edits'[s] # Null /\ edits'[s].stage = "set" => edits'[s].copy = book
  BY <1>7, <1>9, <1>10 DEF Calm, UnderWay
<1>13. screen # "away" => \E s \in Slots : edits'[s] # Null /\ edits'[s].stage = "list"
  BY <1>4, <1>8
<1>14. book = meant
  BY <1>10 DEF Calm
<1> QED BY <1>7, <1>11, <1>12, <1>13, <1>14

LEMMA BeginEditCalm ==
    ASSUME BookInv, Calm, NEW op \in {"add", "remove"}, NEW addr \in Typed, BeginEdit(op, addr)
    PROVE  Calm'
<1>1. PICK s \in Slots : edits[s] = Null /\ edits' = [edits EXCEPT ![s] = Edit(op, addr)]
  BY DEF BeginEdit
<1>2. /\ at' = at /\ list' = list /\ book' = book
      /\ rushed' = (Busy /\ (rushed \/ Editing)) /\ meant' = IF Busy THEN meant ELSE book
  BY DEF BeginEdit
<1>3. edits \in [Slots -> Calls \cup {Null}]
  BY DEF BookInv, ContactsTypeOK
<1>4. /\ edits'[s] = Edit(op, addr) /\ \A r \in Slots : r # s => edits'[r] = edits[r]
      /\ UnderWay(edits'[s]) /\ edits'[s].live /\ edits'[s].stage = "get"
  <2>1. Edit(op, addr) # Null
    BY CallsMade, CallsAssumption
  <2> QED BY <1>1, <1>3, <2>1 DEF Edit, UnderWay
<1>5. SUFFICES ASSUME ~rushed' PROVE Calm'
  BY DEF Calm
<1>6. \A r \in Slots : ~UnderWay(edits[r])
  BY <1>2, <1>5 DEF Busy, Editing, UnderWay
<1>7. book' = meant'
  BY <1>2, <1>5 DEF Calm
<1>8. \A r, q \in Slots : UnderWay(edits'[r]) /\ UnderWay(edits'[q]) => r = q
  BY <1>4, <1>6
<1>9. \A r \in Slots : ~(edits'[r] # Null /\ edits'[r].stage = "set")
  BY <1>4, <1>6 DEF UnderWay
<1> QED BY <1>4, <1>7, <1>8, <1>9 DEF Calm

LEMMA GetCalm ==
    ASSUME BookInv, Calm, NEW s \in Slots, Get(s)
    PROVE  Calm'
<1>1. SUFFICES ASSUME ~rushed' PROVE Calm'
  BY DEF Calm
<1>2. /\ ~rushed /\ at' = at /\ list' = list /\ book' = book /\ meant' = meant
      /\ edits' = [edits EXCEPT ![s].stage = "set", ![s].copy = book]
      /\ UnderWay(edits[s]) /\ edits[s] # Null
  BY <1>1 DEF Get, UnderWay
<1>3. edits \in [Slots -> Calls \cup {Null}] /\ edits[s] \in Calls /\ book \in Books
  BY <1>2 DEF BookInv, ContactsTypeOK
<1>4. /\ edits'[s] \in Calls /\ edits'[s].stage = "set" /\ edits'[s].copy = book
      /\ edits'[s].live = edits[s].live
      /\ \A r \in Slots : r # s => edits'[r] = edits[r]
  <2> DEFINE c == [edits[s] EXCEPT !.stage = "set", !.copy = book]
  <2>1. c \in Calls /\ c.stage = "set" /\ c.copy = book /\ c.live = edits[s].live
    BY <1>3 DEF Calls
  <2>2. edits' = [edits EXCEPT ![s] = c]
    BY <1>2
  <2> HIDE DEF c
  <2> QED BY <1>3, <2>1, <2>2
<1>5. edits'[s] # Null
  BY <1>4, CallsAssumption
<1>6. \A r \in Slots : UnderWay(edits'[r]) <=> UnderWay(edits[r])
  BY <1>2, <1>4, <1>5 DEF UnderWay
<1>7. \A r \in Slots : edits'[r] # Null /\ edits'[r].stage = "set" => edits'[r].copy = book
  BY <1>2, <1>4 DEF Calm
<1>8. (\E r \in Slots : edits[r] # Null /\ edits[r].stage = "list") =>
         \E r \in Slots : edits'[r] # Null /\ edits'[r].stage = "list"
  BY <1>2, <1>4 DEF UnderWay
<1>9. (\E r \in Slots : UnderWay(edits[r]) /\ edits[r].live) =>
         \E r \in Slots : UnderWay(edits'[r]) /\ edits'[r].live
  BY <1>2, <1>4, <1>6
<1> QED BY <1>2, <1>6, <1>7, <1>8, <1>9 DEF Calm

LEMMA SetCalm ==
    ASSUME BookInv, Calm, NEW s \in Slots, Set(s)
    PROVE  Calm'
<1>1. SUFFICES ASSUME ~rushed' PROVE Calm'
  BY DEF Calm
<1>2. /\ ~rushed /\ at' = at /\ list' = list
      /\ book' = Edited(edits[s], edits[s].copy) /\ meant' = Edited(edits[s], meant)
      /\ edits' = [edits EXCEPT ![s] = IF edits[s].live THEN Reading ELSE Null]
      /\ UnderWay(edits[s]) /\ edits[s].stage = "set" /\ edits[s] # Null
  BY <1>1 DEF Set, UnderWay
<1>3. edits \in [Slots -> Calls \cup {Null}]
  BY DEF BookInv, ContactsTypeOK
<1>4. book' = meant'
  BY <1>2 DEF Calm
<1>5. Reading.stage = "list" /\ Reading # Null /\ ~UnderWay(Reading) /\ ~UnderWay(Null)
  BY CallsMade, CallsAssumption DEF Reading, UnderWay
<1>6. \A r \in Slots : ~UnderWay(edits'[r])
  BY <1>2, <1>3, <1>5 DEF Calm
<1>7. \A r \in Slots : ~(edits'[r] # Null /\ edits'[r].stage = "set")
  BY <1>6 DEF UnderWay
<1>8. at # "away" => \E r \in Slots : edits'[r] # Null /\ edits'[r].stage = "list"
  <2>1. CASE edits[s].live
    BY <1>2, <1>3, <1>5, <2>1
  <2>2. CASE ~edits[s].live
    <3>1. at # "away" => \E r \in Slots : edits[r] # Null /\ edits[r].stage = "list"
      BY <1>2, <2>2 DEF Calm
    <3> QED BY <1>2, <1>3, <3>1
  <2> QED BY <2>1, <2>2
<1> QED BY <1>2, <1>4, <1>6, <1>7, <1>8 DEF Calm

LEMMA ListCalm ==
    ASSUME BookInv, Calm, NEW s \in Slots, List(s)
    PROVE  Calm'
<1>1. SUFFICES ASSUME ~rushed' PROVE Calm'
  BY DEF Calm
<1>2. /\ ~rushed /\ ~Editing /\ at' = at /\ list' = book /\ book' = book /\ meant' = meant
      /\ edits' = [edits EXCEPT ![s] = Null]
  BY <1>1 DEF List
<1>3. edits \in [Slots -> Calls \cup {Null}]
  BY DEF BookInv, ContactsTypeOK
<1>4. \A r \in Slots : ~UnderWay(edits'[r])
  BY <1>2, <1>3 DEF Editing, UnderWay
<1>5. \A r \in Slots : ~(edits'[r] # Null /\ edits'[r].stage = "set")
  BY <1>4 DEF UnderWay
<1> QED BY <1>2, <1>4, <1>5 DEF Calm

(* An edit of the book that overlaps no other, and no reading of the list, *)
(* does what it means to (addContact, removeContact), also if its screen   *)
(* is left at once; and a screen at rest lists what is stored.             *)
THEOREM EditsDoWhatTheyMean == Spec => []EditsTakeEffect
<1>1. Init => Calm
  BY DEF Init, ContactsInit, Calm, UnderWay
<1>2. ASSUME BookInv, Calm, [Next]_vars
      PROVE  Calm'
  <2>1. CASE Navigate
    <3>1. \E screen \in {"send", "contacts", "away"} : Mount(screen)
      BY <2>1 DEF Navigate, Open
    <3> QED BY <1>2, <3>1, MountCalm
  <2>2. CASE TypeAddress \/ TypeAmount \/ UNCHANGED vars
    BY <1>2, <2>2 DEF TypeAddress, TypeAmount, vars, contacts, Calm
  <2>3. CASE Save
    <3>1. address \in Typed /\ BeginEdit("add", address)
      BY <1>2, <2>3 DEF Save, saveContact, BookInv, FieldOK
    <3> QED BY <1>2, <3>1, BeginEditCalm
  <2>4. CASE RemoveContact
    <3>1. PICK c \in Typed : BeginEdit("remove", c)
      BY <1>2, <2>4 DEF RemoveContact, removeContact, BookInv, ContactsTypeOK, Books
    <3> QED BY <1>2, <3>1, BeginEditCalm
  <2>5. CASE handleReview
    BY <1>2, <2>5, MountCalm DEF handleReview
  <2>6. CASE Storage
    BY <1>2, <2>6, GetCalm, SetCalm, ListCalm DEF Storage
  <2> QED BY <1>2, <2>1, <2>2, <2>3, <2>4, <2>5, <2>6 DEF Next
<1>3. Calm => EditsTakeEffect
  BY DEF Calm, EditsTakeEffect, Busy, UnderWay
<1> QED BY <1>1, <1>2, <1>3, BookInitInv, BookNextInv, PTL DEF Spec

(***************************************************************************)
(* Only payable recipients: a copy of the book on its way back to the      *)
(* storage, and an address that is on its way in, are as good as the book. *)
(***************************************************************************)
SavableInv ==
    /\ book \subseteq Savable
    /\ \A s \in Slots : edits[s] # Null =>
          edits[s].copy \subseteq Savable /\ (edits[s].op = "add" => edits[s].addr \in Savable)
    /\ draft # Null => draft.recipient \in Savable

LEMMA SavableIsPayable == \A a \in Savable : Payable(a)
<1> SUFFICES ASSUME NEW a \in Savable PROVE Payable(a)
  OBVIOUS
<1>1. TextOf[a] \in Texts /\ validateAddress(TextOf[a]) = "valid"
  BY FormAssumption
<1> QED BY <1>1, RecipientDecodersAgree DEF DecodersAgree, Payable

LEMMA MountSavable ==
    ASSUME BookInv, SavableInv, NEW screen, Mount(screen)
    PROVE  /\ book' = book
           /\ \A s \in Slots : edits'[s] # Null =>
                edits'[s].copy \subseteq Savable /\ (edits'[s].op = "add" => edits'[s].addr \in Savable)
<1>1. \A s \in Slots : edits[s] \in Calls \cup {Null}
  BY DEF BookInv, ContactsTypeOK
<1>2. \A s \in Slots : Abandoned[s] # Null =>
         /\ edits[s] # Null /\ Abandoned[s].copy = edits[s].copy
         /\ Abandoned[s].op = edits[s].op /\ Abandoned[s].addr = edits[s].addr
  BY <1>1 DEF Abandoned, Calls
<1>3. \/ edits' = Abandoned
      \/ \E s \in Slots : edits' = [Abandoned EXCEPT ![s] = Reading]
  BY DEF Mount
<1>4. Abandoned = [s \in Slots |-> Abandoned[s]]
  BY DEF Abandoned
<1> HIDE DEF Abandoned
<1>5. Reading.copy = {} /\ Reading.op = "list"
  BY DEF Reading
<1>6. \A s \in Slots : edits'[s] = Abandoned[s] \/ edits'[s] = Reading
  BY <1>3, <1>4
<1> QED BY <1>2, <1>5, <1>6 DEF SavableInv, Mount

LEMMA BeginEditSavable ==
    ASSUME BookInv, SavableInv, NEW op \in {"add", "remove"}, NEW addr \in Typed, BeginEdit(op, addr),
           op = "add" => addr \in Savable, draft' = draft
    PROVE  SavableInv'
<1>1. PICK s \in Slots : edits' = [edits EXCEPT ![s] = Edit(op, addr)]
  BY DEF BeginEdit
<1>2. Edit(op, addr).copy = {} /\ Edit(op, addr).op = op /\ Edit(op, addr).addr = addr
  BY DEF Edit
<1>3. edits'[s] = Edit(op, addr) /\ \A r \in Slots : r # s => edits'[r] = edits[r]
  BY <1>1 DEF BookInv, ContactsTypeOK
<1>4. \A r \in Slots : edits'[r] # Null =>
         edits'[r].copy \subseteq Savable /\ (edits'[r].op = "add" => edits'[r].addr \in Savable)
  BY <1>2, <1>3 DEF SavableInv
<1> QED BY <1>4 DEF BeginEdit, SavableInv

LEMMA StorageSavable ==
    ASSUME BookInv, SavableInv, NEW s \in Slots, Get(s) \/ Set(s) \/ List(s), draft' = draft
    PROVE  SavableInv'
<1>1. edits \in [Slots -> Calls \cup {Null}] /\ edits[s] # Null /\ edits[s] \in Calls
  BY DEF BookInv, ContactsTypeOK, Get, Set, List
<1>2. CASE Get(s)
  <2>1. PICK cs \in {book, {}} : edits' = [edits EXCEPT ![s].stage = "set", ![s].copy = cs]
    BY <1>2 DEF Get
  <2>2. cs \in Books /\ cs \subseteq Savable
    BY <2>1 DEF BookInv, ContactsTypeOK, Books, SavableInv
  <2>3. /\ edits'[s].copy = cs /\ edits'[s].op = edits[s].op /\ edits'[s].addr = edits[s].addr
        /\ \A r \in Slots : r # s => edits'[r] = edits[r]
    BY <1>1, <2>1, <2>2 DEF Calls
  <2>4. \A r \in Slots : edits'[r] # Null =>
           edits'[r].copy \subseteq Savable /\ (edits'[r].op = "add" => edits'[r].addr \in Savable)
    BY <1>1, <2>2, <2>3 DEF SavableInv
  <2> QED BY <1>2, <2>4 DEF Get, SavableInv
<1>3. CASE Set(s)
  <2>1. Edited(edits[s], edits[s].copy) \subseteq Savable
    BY <1>1 DEF SavableInv, Edited, Without
  <2>2. book' \subseteq Savable
    BY <1>3, <2>1 DEF Set, SavableInv
  <2>3. Reading.copy = {} /\ Reading.op = "list"
    BY DEF Reading
  <2>4. \A r \in Slots : edits'[r] = edits[r] \/ edits'[r] = Reading \/ edits'[r] = Null
    BY <1>1, <1>3 DEF Set
  <2> QED BY <2>2, <2>3, <2>4 DEF SavableInv
<1>4. CASE List(s)
  <2>1. \A r \in Slots : edits'[r] = edits[r] \/ edits'[r] = Null
    BY <1>1, <1>4 DEF List
  <2> QED BY <1>4, <2>1 DEF List, SavableInv
<1> QED BY <1>2, <1>3, <1>4

(* Every contact, and the recipient of every draft, is one that wallet-    *)
(* core's decodeAddress pays as a Taproot address of the network: nothing  *)
(* that validateAddress lets pass fails when the transaction is built.     *)
THEOREM RecipientsCanBePaid == Spec => []OnlyPayable
<1>1. Init => SavableInv
  BY DEF Init, ContactsInit, SavableInv
<1>2. ASSUME BookInv, SavableInv, [Next]_vars
      PROVE  SavableInv'
  <2>1. CASE Navigate
    <3>1. draft' = Null /\ \E screen : Mount(screen)
      BY <2>1 DEF Navigate, Open
    <3> QED BY <1>2, <3>1, MountSavable DEF SavableInv
  <2>2. CASE TypeAddress \/ TypeAmount \/ UNCHANGED vars
    BY <1>2, <2>2 DEF TypeAddress, TypeAmount, vars, contacts, SavableInv
  <2>3. CASE Save
    <3>1. address \in Typed /\ address \in Savable /\ BeginEdit("add", address) /\ draft' = draft
      BY <1>2, <2>3 DEF Save, saveContact, BookInv, FieldOK
    <3> QED BY <1>2, <3>1, BeginEditSavable
  <2>4. CASE RemoveContact
    <3>1. PICK c \in Typed : BeginEdit("remove", c) /\ draft' = draft
      BY <1>2, <2>4 DEF RemoveContact, removeContact, BookInv, ContactsTypeOK, Books
    <3> QED BY <1>2, <3>1, BeginEditSavable
  <2>5. CASE handleReview
    <3>1. address \in Savable
      BY <1>2, <2>5, FormAssumption DEF handleReview, canReview, BookInv, FieldOK
    <3>2. draft'.recipient = address
      BY <2>5 DEF handleReview
    <3> QED BY <1>2, <2>5, <3>1, <3>2, MountSavable DEF handleReview, SavableInv
  <2>6. CASE Storage /\ UNCHANGED <<address, amount, draft>>
    BY <1>2, <2>6, StorageSavable DEF Storage
  <2> QED BY <1>2, <2>1, <2>2, <2>3, <2>4, <2>5, <2>6 DEF Next
<1>3. SavableInv => OnlyPayable
  BY SavableIsPayable DEF SavableInv, OnlyPayable
<1> QED BY <1>1, <1>2, <1>3, BookInitInv, BookNextInv, PTL DEF Spec

(***************************************************************************)
(* Amounts.  The value of a text is a sum over its digits, and what it is  *)
(* follows by induction on how many there are.                             *)
(***************************************************************************)
(* The powers of ten exist: those up to n extend to n + 1 in one way only. *)
LEMMA TenToIs ==
    /\ TenTo \in [Nat -> Nat] /\ TenTo[0] = 1
    /\ \A n \in Nat : TenTo[n + 1] = 10 * TenTo[n] /\ TenTo[n] > 0
<1> DEFINE Upto(n) == {g \in [Nat -> Nat] : g[0] = 1 /\ \A m \in Nat : m < n => g[m + 1] = 10 * g[m]}
           Chosen(n) == CHOOSE g : g \in Upto(n)
           f == [n \in Nat |-> Chosen(n)[n]]
           Step(g) == [n \in Nat |-> IF n = 0 THEN 1 ELSE 10 * g[n - 1]]
<1>1. \A n \in Nat : Upto(n) # {}
  <2> DEFINE Good == {n \in Nat : Upto(n) # {}}
  <2>1. 0 \in Good
    <3>1. [n \in Nat |-> 1] \in Upto(0)
      OBVIOUS
    <3> QED BY <3>1
  <2>2. ASSUME NEW n \in Nat, n \in Good PROVE n + 1 \in Good
    <3>1. PICK g \in Upto(n) : TRUE
      BY <2>2
    <3> DEFINE h == [m \in Nat |-> IF m = n + 1 THEN 10 * g[n] ELSE g[m]]
    <3>2. g \in [Nat -> Nat] /\ g[0] = 1 /\ \A m \in Nat : m < n => g[m + 1] = 10 * g[m]
      BY <3>1
    <3>3. h \in [Nat -> Nat] /\ h[0] = 1
      <4>1. \A m \in Nat : (IF m = n + 1 THEN 10 * g[n] ELSE g[m]) \in Nat
        <5>1. g[n] \in Nat
          BY <3>2
        <5>2. 10 * g[n] \in Nat
          BY <5>1
        <5> QED BY <3>2, <5>2
      <4> QED BY <3>2, <4>1
    <3>4. \A m \in Nat : m < n + 1 => h[m + 1] = 10 * h[m]
      <4>1. h[n + 1] = 10 * g[n] /\ \A m \in Nat : m # n + 1 => h[m] = g[m]
        OBVIOUS
      <4> HIDE DEF h
      <4> TAKE m \in Nat
      <4> HAVE m < n + 1
      <4>2. CASE m = n
        BY <4>1, <4>2
      <4>3. CASE m < n
        <5>1. m # n + 1 /\ m + 1 # n + 1 /\ m + 1 \in Nat
          BY <4>3
        <5> QED BY <3>2, <4>1, <4>3, <5>1
      <4> QED BY <4>2, <4>3
    <3> HIDE DEF h
    <3>5. h \in Upto(n + 1)
      BY <3>3, <3>4
    <3> QED BY <3>5
  <2> HIDE DEF Good
  <2>3. \A n \in Nat : n \in Good
    BY <2>1, <2>2, NatInduct
  <2> QED BY <2>3 DEF Good
<1>2. \A n \in Nat : Chosen(n) \in Upto(n)
  BY <1>1
<1>3. \A n \in Nat : \A g, h \in Upto(n) : g[n] = h[n]
  <2> DEFINE Good == {n \in Nat : \A g, h \in Upto(n) : g[n] = h[n]}
  <2>1. 0 \in Good
    OBVIOUS
  <2>2. ASSUME NEW n \in Nat, n \in Good PROVE n + 1 \in Good
    <3> SUFFICES ASSUME NEW g \in Upto(n + 1), NEW h \in Upto(n + 1)
                 PROVE  g[n + 1] = h[n + 1]
      OBVIOUS
    <3>1. g \in Upto(n) /\ h \in Upto(n)
      OBVIOUS
    <3>2. g[n] = h[n]
      BY <2>2, <3>1
    <3>3. g[n + 1] = 10 * g[n] /\ h[n + 1] = 10 * h[n]
      OBVIOUS
    <3> QED BY <3>2, <3>3
  <2> HIDE DEF Good
  <2>3. \A n \in Nat : n \in Good
    BY <2>1, <2>2, NatInduct
  <2> QED BY <2>3 DEF Good
<1>4. f \in [Nat -> Nat] /\ f[0] = 1
  BY <1>2
<1>5. ASSUME NEW n \in Nat PROVE f[n + 1] = 10 * f[n]
  <2>1. \A g \in Upto(n + 1) : g \in Upto(n) /\ g[n + 1] = 10 * g[n]
    OBVIOUS
  <2>2. f[n] = Chosen(n)[n] /\ f[n + 1] = Chosen(n + 1)[n + 1]
    OBVIOUS
  <2> HIDE DEF Upto, Chosen, f
  <2>3. Chosen(n) \in Upto(n) /\ Chosen(n + 1) \in Upto(n + 1)
    BY <1>2
  <2>4. Chosen(n + 1)[n] = Chosen(n)[n]
    BY <1>3, <2>1, <2>3
  <2> QED BY <2>1, <2>2, <2>3, <2>4
<1>6. f = Step(f)
  <2>1. \A n \in Nat : f[n] = IF n = 0 THEN 1 ELSE 10 * f[n - 1]
    <3> TAKE n \in Nat
    <3>1. CASE n = 0
      BY <1>4, <3>1
    <3>2. CASE n # 0
      <4>1. n - 1 \in Nat /\ (n - 1) + 1 = n
        BY <3>2
      <4>2. f[(n - 1) + 1] = 10 * f[n - 1]
        BY <1>5, <4>1
      <4> HIDE DEF f
      <4> QED BY <3>2, <4>1, <4>2
    <3> QED BY <3>1, <3>2
  <2>2. f = [n \in Nat |-> f[n]]
    OBVIOUS
  <2> HIDE DEF f
  <2> QED BY <2>1, <2>2
<1>7. TenTo = CHOOSE g : g = Step(g)
  BY DEF TenTo
<1> HIDE DEF f, Step
<1>8. TenTo = Step(TenTo)
  BY <1>6, <1>7
<1>9. \A n \in Nat : TenTo[n] = IF n = 0 THEN 1 ELSE 10 * TenTo[n - 1]
  <2> DEFINE T == TenTo
  <2> HIDE DEF T
  <2>1. T = [n \in Nat |-> IF n = 0 THEN 1 ELSE 10 * T[n - 1]]
    BY <1>8 DEF T, Step
  <2>2. \A n \in Nat : T[n] = IF n = 0 THEN 1 ELSE 10 * T[n - 1]
    BY <2>1
  <2> QED BY <2>2 DEF T
<1>10. TenTo[0] = 1 /\ \A n \in Nat : TenTo[n + 1] = 10 * TenTo[n]
  BY <1>9
<1>11. \A n \in Nat : TenTo[n] \in Nat /\ TenTo[n] > 0
  <2> DEFINE Good == {n \in Nat : TenTo[n] \in Nat /\ TenTo[n] > 0}
  <2>1. 0 \in Good /\ \A n \in Nat : n \in Good => n + 1 \in Good
    BY <1>10
  <2> HIDE DEF Good
  <2>2. \A n \in Nat : n \in Good
    BY <2>1, NatInduct
  <2> QED BY <2>2 DEF Good
<1>12. TenTo = [n \in Nat |-> TenTo[n]]
  <2> DEFINE T == TenTo
  <2> HIDE DEF T
  <2>1. T = [n \in Nat |-> IF n = 0 THEN 1 ELSE 10 * T[n - 1]]
    BY <1>8 DEF T, Step
  <2>2. T = [n \in Nat |-> T[n]]
    BY <2>1
  <2> QED BY <2>2 DEF T
<1> QED BY <1>10, <1>11, <1>12

LEMMA TenToType == TenTo \in [Nat -> Nat] /\ \A n \in Nat : TenTo[n] \in Nat /\ TenTo[n] > 0
BY TenToIs

LEMMA NatProducts ==
    /\ \A a, b \in Nat : a * b \in Nat
    /\ \A a, b, c \in Nat : a * (b * c) = (a * b) * c /\ (a * b) * c = (a * c) * b
    /\ \A a, b, c \in Nat : (a + b) * c = a * c + b * c
    /\ \A a, b \in Nat : a * (10 * b) = 10 * (a * b)
OBVIOUS

(* Powers of ten multiply by adding their exponents. *)
LEMMA TenToSum ==
    \A a, b \in Nat : TenTo[a + b] = TenTo[a] * TenTo[b]
<1> SUFFICES ASSUME NEW a \in Nat PROVE \A b \in Nat : TenTo[a + b] = TenTo[a] * TenTo[b]
  OBVIOUS
<1> DEFINE Good == {b \in Nat : TenTo[a + b] = TenTo[a] * TenTo[b]}
<1>1. 0 \in Good
  <2>1. a + 0 = a /\ TenTo[0] = 1 /\ TenTo[a] \in Nat
    BY TenToIs
  <2>2. TenTo[a] * 1 = TenTo[a]
    BY <2>1
  <2> QED BY <2>1, <2>2
<1>2. ASSUME NEW b \in Nat, b \in Good PROVE b + 1 \in Good
  <2>1. TenTo[a + b] = TenTo[a] * TenTo[b]
    BY <1>2
  <2>2. a + b \in Nat /\ a + (b + 1) = (a + b) + 1
    OBVIOUS
  <2>3. TenTo[(a + b) + 1] = 10 * TenTo[a + b] /\ TenTo[b + 1] = 10 * TenTo[b]
    BY <2>2, TenToIs
  <2>4. TenTo[a] * (10 * TenTo[b]) = 10 * (TenTo[a] * TenTo[b])
    BY NatProducts, TenToType
  <2> QED BY <2>1, <2>2, <2>3, <2>4
<1> HIDE DEF Good
<1>3. \A b \in Nat : b \in Good
  BY <1>1, <1>2, NatInduct
<1> QED BY <1>3 DEF Good

(* What each digit counts. *)
Weights(d) == [i \in 1..Len(d) |-> d[i] * TenTo[Len(d) - i]]

LEMMA WeightsAre ==
    ASSUME NEW d \in Seq(Nat)
    PROVE  /\ Weights(d) \in [1..Len(d) -> Int] /\ IsFiniteSet(1..Len(d)) /\ Len(d) \in Nat
           /\ \A i \in 1..Len(d) : Weights(d)[i] = d[i] * TenTo[Len(d) - i] /\ Weights(d)[i] >= 0
<1>1. Len(d) \in Nat /\ \A i \in 1..Len(d) : d[i] \in Nat /\ Len(d) - i \in Nat
  OBVIOUS
<1>2. \A i \in 1..Len(d) : TenTo[Len(d) - i] \in Nat
  BY <1>1, TenToType
<1>3. \A i \in 1..Len(d) : d[i] * TenTo[Len(d) - i] \in Nat
  BY <1>1, <1>2, NatProducts
<1>4. IsFiniteSet(1..Len(d))
  BY <1>1, FS_Interval
<1>5. \A i \in 1..Len(d) : Weights(d)[i] = d[i] * TenTo[Len(d) - i]
  BY DEF Weights
<1>6. \A i \in 1..Len(d) : Weights(d)[i] \in Nat
  BY <1>3, <1>5
<1>7. DOMAIN Weights(d) = 1..Len(d) /\ Weights(d) = [i \in 1..Len(d) |-> Weights(d)[i]]
  BY DEF Weights
<1>8. Weights(d) \in [1..Len(d) -> Int] /\ \A i \in 1..Len(d) : Weights(d)[i] >= 0
  <2> DEFINE W == Weights(d)
  <2> HIDE DEF W
  <2>1. W = [i \in 1..Len(d) |-> W[i]] /\ \A i \in 1..Len(d) : W[i] \in Nat
    BY <1>6, <1>7 DEF W
  <2>2. W \in [1..Len(d) -> Int] /\ \A i \in 1..Len(d) : W[i] >= 0
    BY <2>1
  <2> QED BY <2>2 DEF W
<1> QED BY <1>1, <1>4, <1>5, <1>8

(* So a number is the sum of what its digits count, *)
LEMMA NumberIs ==
    ASSUME NEW d \in Seq(Nat)
    PROVE  Number(d) = Sums(Weights(d))[1..Len(d)] /\ Number(d) \in Nat
<1> DEFINE D == DOMAIN d
           f(g) == [s \in SUBSET D |->
                       IF s = {} THEN 0 ELSE d[Pick(s)] * TenTo[Len(d) - Pick(s)] + g[s \ {Pick(s)}]]
           h(g) == [s \in SUBSET D |-> IF s = {} THEN 0 ELSE Weights(d)[Pick(s)] + g[s \ {Pick(s)}]]
<1>1. D = 1..Len(d) /\ DOMAIN Weights(d) = D
  BY WeightsAre
<1>2. ASSUME NEW g PROVE f(g) = h(g)
  <2>1. ASSUME NEW s \in SUBSET D, s # {}
        PROVE  Weights(d)[Pick(s)] = d[Pick(s)] * TenTo[Len(d) - Pick(s)]
    BY <1>1, <2>1, PickIn, WeightsAre
  <2> QED BY <2>1
<1>3. Number(d) = (CHOOSE g : g = f(g))[D]
  BY Zenon DEF Number, MapThenSumSet, MapThenFoldSet, Pick
<1>4. Sums(Weights(d)) = CHOOSE g : g = h(g)
  BY <1>1, Zenon DEF Sums
<1> HIDE DEF f, h
<1>5. (CHOOSE g : g = f(g)) = (CHOOSE g : g = h(g))
  BY <1>2, Zenon
<1>6. Number(d) = Sums(Weights(d))[1..Len(d)]
  BY <1>1, <1>3, <1>4, <1>5
<1>7. Sums(Weights(d))[1..Len(d)] \in Nat
  BY WeightsAre, SumOfNaturals
<1> QED BY <1>6, <1>7

(* and a digit more is ten times the number and the digit. *)
LEMMA NumberAppend ==
    ASSUME NEW d \in Seq(Nat), NEW x \in Nat
    PROVE  Number(Append(d, x)) = 10 * Number(d) + x
<1> DEFINE n == Len(d)
           e == Append(d, x)
           u == Weights(e)
           v == [i \in 1..n |-> u[i]]
<1>1. e \in Seq(Nat) /\ Len(e) = n + 1 /\ n \in Nat /\ e[n + 1] = x /\ \A i \in 1..n : e[i] = d[i]
  OBVIOUS
<1> HIDE DEF e
<1>2. /\ u \in [1..(n + 1) -> Int] /\ IsFiniteSet(1..(n + 1))
      /\ \A i \in 1..(n + 1) : u[i] = e[i] * TenTo[n + 1 - i]
  <2> HIDE DEF n
  <2>1. /\ u \in [1..Len(e) -> Int] /\ IsFiniteSet(1..Len(e))
        /\ \A i \in 1..Len(e) : u[i] = e[i] * TenTo[Len(e) - i]
    BY <1>1, WeightsAre
  <2> QED BY <1>1, <2>1
<1> HIDE DEF u
<1>3. u[n + 1] = x
  <2>1. n + 1 - (n + 1) = 0 /\ n + 1 \in 1..(n + 1)
    BY <1>1
  <2>2. u[n + 1] = e[n + 1] * TenTo[n + 1 - (n + 1)]
    BY <1>2, <2>1
  <2>3. TenTo[n + 1 - (n + 1)] = 1
    BY <2>1, TenToIs
  <2>4. u[n + 1] = x * 1
    BY <1>1, <2>2, <2>3
  <2> QED BY <2>4
<1>4. \A i \in 1..n : u[i] = 10 * Weights(d)[i]
  <2> TAKE i \in 1..n
  <2>1. n + 1 - i = (n - i) + 1 /\ n - i \in Nat /\ i \in 1..(n + 1) /\ d[i] \in Nat
    BY <1>1
  <2>2. TenTo[n + 1 - i] = 10 * TenTo[n - i]
    BY <2>1, TenToIs
  <2>3. u[i] = d[i] * (10 * TenTo[n - i])
    BY <1>1, <1>2, <2>1, <2>2
  <2>4. Weights(d)[i] = d[i] * TenTo[n - i]
    BY WeightsAre
  <2>5. d[i] * (10 * TenTo[n - i]) = 10 * (d[i] * TenTo[n - i])
    <3>1. TenTo[n - i] \in Nat
      BY <2>1, TenToType
    <3> QED BY <2>1, <3>1, NatProducts, Zenon
  <2> QED BY <2>3, <2>4, <2>5
<1>5. Sums(u)[1..(n + 1)] = u[n + 1] + Sums(u)[1..n]
  <2>1. (1..(n + 1)) \ {n + 1} = 1..n /\ n + 1 \in 1..(n + 1)
    BY <1>1
  <2> DEFINE S == 1..(n + 1)
             x1 == n + 1
  <2>2. S \in SUBSET S /\ x1 \in S /\ u \in [S -> Int] /\ IsFiniteSet(S)
    BY <1>2, <2>1
  <2> HIDE DEF S, x1
  <2>3. Sums(u)[S] = u[x1] + Sums(u)[S \ {x1}]
    BY <2>2, SumTakeOne
  <2> QED BY <2>1, <2>3 DEF S, x1
<1>6. v \in [1..n -> Int] /\ \A i \in 1..n : v[i] = 10 * Weights(d)[i]
  BY <1>1, <1>2, <1>4
<1>7. Sums(v)[1..n] = Sums(u)[1..n]
  <2>1. 1..n \in SUBSET (1..(n + 1))
    BY <1>1
  <2> QED BY <1>2, <2>1, SumRestrict
<1> HIDE DEF v
<1>8. Sums(v)[1..n] = 10 * Sums(Weights(d))[1..n]
  BY <1>6, WeightsAre, SumOfTenfold
<1>9. Number(e) = Sums(u)[1..(n + 1)] /\ Number(d) = Sums(Weights(d))[1..n] /\ Number(d) \in Nat
  BY <1>1, NumberIs DEF u
<1>10. Number(e) = x + 10 * Number(d)
  BY <1>3, <1>5, <1>7, <1>8, <1>9
<1> QED BY <1>9, <1>10 DEF e

LEMMA NumberOfNothing == Number(<<>>) = 0
<1>1. <<>> \in Seq(Nat) /\ Len(<<>>) = 0 /\ 1..0 = {}
  OBVIOUS
<1>2. Number(<<>>) = Sums(Weights(<<>>))[{}]
  BY <1>1, NumberIs
<1>3. SumLaw(Weights(<<>>), 1..Len(<<>>))
  BY <1>1, WeightsAre, SumsIs
<1> QED BY <1>2, <1>3 DEF SumLaw

LEMMA SplitLast ==
    ASSUME NEW X, NEW d \in Seq(X), NEW n \in Nat, Len(d) = n + 1
    PROVE  \E c \in Seq(X), x \in X : d = Append(c, x) /\ Len(c) = n
<1>1. d # <<>>
  OBVIOUS
<1>2. PICK c \in Seq(X), x \in X : d = Append(c, x)
  BY <1>1, SequenceEmptyOrAppend
<1>3. Len(d) = Len(c) + 1 /\ Len(c) \in Nat
  BY <1>2, AppendProperties
<1>4. Len(c) = n
  BY <1>3
<1> QED BY <1>2, <1>4

(* The digits of two texts in a row. *)
LEMMA NumberConcat ==
    ASSUME NEW s \in Seq(Nat), NEW t \in Seq(Nat)
    PROVE  Number(s \o t) = Number(s) * TenTo[Len(t)] + Number(t)
<1> DEFINE Holds(u) == Number(s \o u) = Number(s) * TenTo[Len(u)] + Number(u)
           Good == {n \in Nat : \A u \in Seq(Nat) : Len(u) = n => Holds(u)}
<1>0. Number(s) \in Nat
  BY NumberIs
<1>1. 0 \in Good
  <2> SUFFICES ASSUME NEW u \in Seq(Nat), Len(u) = 0 PROVE Holds(u)
    OBVIOUS
  <2>1. u = <<>> /\ s \o <<>> = s
    OBVIOUS
  <2>2. TenTo[Len(u)] = 1 /\ Number(u) = 0
    BY <2>1, TenToIs, NumberOfNothing
  <2>3. Number(s) * 1 + 0 = Number(s)
    BY <1>0
  <2> QED BY <2>1, <2>2, <2>3
<1>2. ASSUME NEW n \in Nat, n \in Good PROVE n + 1 \in Good
  <2> SUFFICES ASSUME NEW u \in Seq(Nat), Len(u) = n + 1 PROVE Holds(u)
    OBVIOUS
  <2>1. PICK c \in Seq(Nat), x \in Nat : u = Append(c, x) /\ Len(c) = n
    BY SplitLast
  <2>2. Number(s \o c) = Number(s) * TenTo[n] + Number(c)
    BY <1>2, <2>1
  <2>3. s \o u = Append(s \o c, x) /\ s \o c \in Seq(Nat)
    <3>1. s \o c \in Seq(Nat)
      OBVIOUS
    <3>2. /\ s \o u \in Seq(Nat) /\ Append(s \o c, x) \in Seq(Nat)
          /\ Len(s \o u) = Len(Append(s \o c, x))
      BY <2>1
    <3>3. \A i \in 1..Len(s \o u) : (s \o u)[i] = Append(s \o c, x)[i]
      BY <2>1
    <3> QED BY <3>1, <3>2, <3>3, SeqEqual
  <2>4. Number(s \o u) = 10 * Number(s \o c) + x /\ Number(u) = 10 * Number(c) + x
    BY <2>1, <2>3, NumberAppend
  <2> DEFINE P == Number(s) * TenTo[n]
  <2>5. TenTo[n + 1] = 10 * TenTo[n] /\ TenTo[n] \in Nat
    BY TenToIs, TenToType
  <2>6. P \in Nat /\ Number(s) * TenTo[n + 1] = 10 * P
    BY <1>0, <2>5, NatProducts
  <2>7. Number(c) \in Nat
    BY NumberIs
  <2> HIDE DEF P
  <2>8. 10 * (P + Number(c)) + x = 10 * P + (10 * Number(c) + x)
    BY <2>6, <2>7
  <2>9. Number(s \o c) = P + Number(c)
    BY <2>2 DEF P
  <2> QED BY <2>4, <2>6, <2>8, <2>9
<1> HIDE DEF Good
<1>3. \A n \in Nat : n \in Good
  BY <1>1, <1>2, NatInduct
<1>4. Len(t) \in Nat
  OBVIOUS
<1> QED BY <1>3, <1>4 DEF Good

LEMMA NumberOfZeros ==
    ASSUME NEW n \in Nat
    PROVE  Number([i \in 1..n |-> 0]) = 0
<1> DEFINE z == [i \in 1..n |-> 0]
<1>1. z \in Seq(Nat) /\ Len(z) = n /\ \A i \in 1..n : z[i] = 0
  OBVIOUS
<1> HIDE DEF z
<1>2. /\ Weights(z) \in [1..n -> Int] /\ IsFiniteSet(1..n)
      /\ \A i \in 1..n : Weights(z)[i] = 0 * TenTo[n - i]
  BY <1>1, WeightsAre
<1>3. \A i \in 1..n : n - i \in Nat
  OBVIOUS
<1>4. \A i \in 1..n : TenTo[n - i] \in Nat
  BY <1>3, TenToType
<1>5. \A i \in 1..n : Weights(z)[i] = 0
  BY <1>2, <1>4
<1>6. Sums(Weights(z))[1..n] = 0
  BY <1>2, <1>5, SumOfZeros
<1> QED BY <1>1, <1>6, NumberIs DEF z

(* Zeros after the digits. *)
LEMMA NumberOfPadded ==
    ASSUME NEW d \in Seq(Nat), NEW n \in Nat, Len(d) <= n
    PROVE  Number(PadEnd(d, n)) = Number(d) * TenTo[n - Len(d)]
<1> DEFINE z == [i \in 1..(n - Len(d)) |-> 0]
<1>1. n - Len(d) \in Nat /\ z \in Seq(Nat) /\ Len(z) = n - Len(d)
  OBVIOUS
<1>2. Number(z) = 0
  BY <1>1, NumberOfZeros
<1>3. PadEnd(d, n) = d \o z
  BY DEF PadEnd
<1> HIDE DEF z
<1>4. Number(d \o z) = Number(d) * TenTo[n - Len(d)] + 0
  BY <1>1, <1>2, NumberConcat
<1>5. Number(d) * TenTo[n - Len(d)] \in Nat
  BY <1>1, NumberIs, TenToType, NatProducts
<1> QED BY <1>3, <1>4, <1>5

LEMMA DecimalsAre ==
    ASSUME NEW t \in Decimals
    PROVE  /\ t.neg \in BOOLEAN /\ t.point \in BOOLEAN /\ t.whole \in Seq(Nat) /\ t.frac \in Seq(Nat)
           /\ Len(t.frac) \in Nat /\ Number(t.whole) \in Nat /\ Number(t.frac) \in Nat
<1>1. t.neg \in BOOLEAN /\ t.point \in BOOLEAN /\ t.whole \in Seq(0..9) /\ t.frac \in Seq(0..9)
  BY DEF Decimals
<1>2. t.whole \in Seq(Nat) /\ t.frac \in Seq(Nat)
  <2>1. \A s \in Seq(0..9) : s \in Seq(Nat)
    <3> TAKE s \in Seq(0..9)
    <3>1. Len(s) \in Nat /\ s \in [1..Len(s) -> 0..9]
      OBVIOUS
    <3>2. s \in [1..Len(s) -> Nat]
      BY <3>1
    <3> QED BY <3>1, <3>2
  <2> QED BY <1>1, <2>1
<1> QED BY <1>1, <1>2, NumberIs

(* The value at a granularity: what is before the point and what is after. *)
Units(t, n) == Number(t.whole) * TenTo[n] + Number(t.frac) * TenTo[n - Len(t.frac)]

LEMMA ScaledIs ==
    ASSUME NEW t \in Decimals, NEW n \in Nat, Len(t.frac) <= n
    PROVE  Scaled(t, n) = (IF t.neg THEN -Units(t, n) ELSE Units(t, n)) /\ Units(t, n) \in Nat
<1>1. Number(PadEnd(t.frac, n)) = Number(t.frac) * TenTo[n - Len(t.frac)]
  BY DecimalsAre, NumberOfPadded
<1>2. n - Len(t.frac) \in Nat
  BY DecimalsAre
<1>3. /\ Number(t.whole) * TenTo[n] \in Nat
      /\ Number(t.frac) * TenTo[n - Len(t.frac)] \in Nat
  BY <1>2, DecimalsAre, TenToType, NatProducts
<1>4. Units(t, n) \in Nat
  <2> DEFINE a == Number(t.whole) * TenTo[n]
             b == Number(t.frac) * TenTo[n - Len(t.frac)]
  <2>1. a \in Nat /\ b \in Nat
    BY <1>3
  <2>2. Units(t, n) = a + b
    BY DEF Units
  <2> HIDE DEF a, b
  <2> QED BY <2>1, <2>2
<1> QED BY <1>1, <1>4 DEF Scaled, Units

(* So many decimals more are so many powers of ten. *)
LEMMA ScaledUp ==
    ASSUME NEW t \in Decimals, NEW n \in Nat, NEW m \in Nat, Len(t.frac) <= n
    PROVE  Units(t, n + m) = Units(t, n) * TenTo[m]
<1> DEFINE a == Number(t.whole)
           b == Number(t.frac)
           k == n - Len(t.frac)
<1>1. a \in Nat /\ b \in Nat /\ k \in Nat /\ n + m - Len(t.frac) = k + m /\ n + m \in Nat
  BY DecimalsAre
<1>2. /\ Units(t, n + m) = a * TenTo[n + m] + b * TenTo[k + m]
      /\ Units(t, n) = a * TenTo[n] + b * TenTo[k]
  BY <1>1 DEF Units
<1> HIDE DEF a, b, k
<1>3. TenTo[n + m] = TenTo[n] * TenTo[m] /\ TenTo[k + m] = TenTo[k] * TenTo[m]
  BY <1>1, TenToSum
<1> DEFINE N == TenTo[n]
           K == TenTo[k]
           M == TenTo[m]
<1>4. N \in Nat /\ K \in Nat /\ M \in Nat
  BY <1>1, TenToType
<1>5. Units(t, n + m) = a * (N * M) + b * (K * M) /\ Units(t, n) = a * N + b * K
  BY <1>2, <1>3
<1> HIDE DEF N, K, M
<1>6. a * (N * M) + b * (K * M) = (a * N) * M + (b * K) * M /\ a * N \in Nat /\ b * K \in Nat
  BY <1>1, <1>4, NatProducts
<1>7. (a * N) * M + (b * K) * M = (a * N + b * K) * M
  BY <1>4, <1>6, NatProducts
<1> QED BY <1>5, <1>6, <1>7 DEF M

(* The units of the ladder agree on every text: what unitToGrain makes of   *)
(* it in a larger unit is the multiple of what it makes of it in a smaller. *)
THEOREM UnitsAlwaysAgree == \A t \in Decimals : UnitsAgree(t)
<1> SUFFICES ASSUME NEW t \in Decimals, NEW u \in DOMAIN UnitDecimals, NEW w \in DOMAIN UnitDecimals,
                    Len(t.frac) <= UnitDecimals[u], UnitDecimals[u] <= UnitDecimals[w]
             PROVE  unitToGrain(t, w) = unitToGrain(t, u) * TenTo[UnitDecimals[w] - UnitDecimals[u]]
  BY DEF UnitsAgree, Converts
<1> DEFINE n == UnitDecimals[u]
           m == UnitDecimals[w] - n
<1>1. n \in Nat /\ m \in Nat /\ UnitDecimals[w] = n + m /\ Len(t.frac) \in Nat /\ t.neg \in BOOLEAN
  BY AmountsAssumption, DecimalsAre
<1>2. unitToGrain(t, w) = Scaled(t, n + m) /\ unitToGrain(t, u) = Scaled(t, n)
  BY <1>1 DEF unitToGrain
<1>3. Len(t.frac) <= n
  OBVIOUS
<1> HIDE DEF n, m
<1>4. Len(t.frac) <= n + m /\ n + m \in Nat
  BY <1>1, <1>3
<1> DEFINE M == TenTo[m]
           U == Units(t, n)
<1>5. Units(t, n + m) = U * M
  BY <1>1, <1>3, ScaledUp
<1>6. Scaled(t, n) = (IF t.neg THEN -U ELSE U) /\ U \in Nat
  BY <1>1, <1>3, ScaledIs
<1>7. Scaled(t, n + m) = (IF t.neg THEN -(U * M) ELSE U * M)
  BY <1>4, <1>5, ScaledIs
<1>8. M \in Nat
  BY <1>1, TenToType
<1> HIDE DEF M, U
<1>9. -(U * M) = (-U) * M
  BY <1>6, <1>8
<1>10. Scaled(t, n + m) = Scaled(t, n) * M
  BY <1>6, <1>7, <1>9
<1> QED BY <1>2, <1>10 DEF M, m, n

(* A text without a sign denotes the digits it is typed with. *)
LEMMA ScaledIsTyped ==
    ASSUME NEW t \in Decimals, ~t.neg, Len(t.frac) <= PRL_DECIMALS
    PROVE  prlToGrain(t) * TenTo[Len(t.frac)] = Number(t.whole \o t.frac) * GRAIN_PER_PRL
<1> DEFINE D == PRL_DECIMALS
           l == Len(t.frac)
           a == Number(t.whole)
           b == Number(t.frac)
<1>1. D \in Nat /\ l \in Nat /\ D - l \in Nat /\ l <= D /\ a \in Nat /\ b \in Nat
  BY DecimalsAre, AmountsAssumption
<1>2. prlToGrain(t) = Units(t, D)
  BY <1>1, ScaledIs DEF prlToGrain
<1>3. Units(t, D) = a * TenTo[D] + b * TenTo[D - l]
  BY DEF Units
<1>4. Number(t.whole \o t.frac) = a * TenTo[l] + b
  BY DecimalsAre, NumberConcat
<1> HIDE DEF D, l, a, b
<1> DEFINE P == TenTo[D]
           Q == TenTo[D - l]
           R == TenTo[l]
<1>5. P \in Nat /\ Q \in Nat /\ R \in Nat
  BY <1>1, TenToType
<1>6. Q * R = P
  <2>1. (D - l) + l = D
    BY <1>1
  <2> QED BY <1>1, <2>1, TenToSum
<1> HIDE DEF P, Q, R
<1>7. (a * P + b * Q) * R = (a * R + b) * P
  <2>1. a * P \in Nat /\ b * Q \in Nat /\ a * R \in Nat
    BY <1>1, <1>5, NatProducts
  <2>2. (a * P + b * Q) * R = (a * P) * R + (b * Q) * R /\ (a * R + b) * P = (a * R) * P + b * P
    BY <1>1, <1>5, <2>1, NatProducts
  <2>3. (a * P) * R = (a * R) * P /\ (b * Q) * R = b * (Q * R)
    BY <1>1, <1>5, NatProducts
  <2> QED BY <1>6, <2>2, <2>3
<1> QED BY <1>2, <1>3, <1>4, <1>7 DEF D, l, P, Q, R, GRAIN_PER_PRL

(* Division by its bounds. *)
LEMMA DivisionIs ==
    ASSUME NEW a \in Nat, NEW p \in Nat, p > 0
    PROVE  /\ a \div p \in Nat /\ a % p \in 0..(p - 1)
           /\ a = p * (a \div p) + (a % p)
OBVIOUS

LEMMA QuotientIs ==
    ASSUME NEW a \in Nat, NEW p \in Nat, p > 0, NEW q \in Nat,
           p * q <= a, a < p * q + p
    PROVE  a \div p = q
<1> DEFINE r == a \div p
<1>1. r \in Nat /\ p * r <= a /\ a < p * r + p
  <2>1. a % p \in 0..(p - 1) /\ r \in Nat /\ a = p * r + (a % p) /\ p * r \in Nat
    BY DivisionIs, NatProducts
  <2> HIDE DEF r
  <2> DEFINE x == p * r
             y == a % p
  <2>2. x \in Nat /\ y \in 0..(p - 1) /\ a = x + y
    BY <2>1
  <2> HIDE DEF x, y
  <2>3. x <= a /\ a < x + p
    BY <2>2
  <2> QED BY <2>1, <2>3 DEF x
<1> HIDE DEF r
<1>2. ASSUME NEW x \in Nat, NEW y \in Nat, x < y PROVE p * y >= p * x + p
  <2>1. PICK z \in Nat : y = x + 1 + z
    <3>1. y - x - 1 \in Nat /\ y = x + 1 + (y - x - 1)
      BY <1>2
    <3> QED BY <3>1
  <2>2. p * y = p * x + p + p * z /\ p * z \in Nat /\ p * x \in Nat
    BY <2>1
  <2> QED BY <2>2
<1>3. p * q \in Nat /\ p * r \in Nat
  BY <1>1, NatProducts
<1>4. ~(r < q)
  <2> SUFFICES ASSUME r < q PROVE FALSE
    OBVIOUS
  <2>1. p * q >= p * r + p
    BY <1>1, <1>2
  <2> QED BY <1>1, <1>3, <2>1
<1>5. ~(q < r)
  <2> SUFFICES ASSUME q < r PROVE FALSE
    OBVIOUS
  <2>1. p * r >= p * q + p
    BY <1>1, <1>2
  <2> QED BY <1>1, <1>3, <2>1
<1> QED BY <1>1, <1>4, <1>5 DEF r

(* Dividing by ten first. *)
LEMMA TenthsDivide ==
    ASSUME NEW n \in Nat, NEW p \in Nat, p > 0
    PROVE  n \div (10 * p) = (n \div 10) \div p
<1> DEFINE q == (n \div 10) \div p
           a == n \div 10
<1>1. a \in Nat /\ n = 10 * a + (n % 10) /\ n % 10 \in 0..9
  OBVIOUS
<1>2. q \in Nat /\ a % p \in 0..(p - 1) /\ a = p * q + (a % p) /\ p * q \in Nat
  BY <1>1, DivisionIs, NatProducts
<1>3. (10 * p) * q = 10 * (p * q) /\ 10 * p \in Nat /\ 10 * p > 0
  <2>1. q \in Nat
    BY <1>2
  <2> HIDE DEF q
  <2> QED BY <2>1
<1> DEFINE x == p * q
           y == a % p
           z == n % 10
<1>4. x \in Nat /\ y \in 0..(p - 1) /\ a = x + y /\ z \in 0..9 /\ n = 10 * a + z
  BY <1>1, <1>2
<1>5. (10 * p) * q = 10 * x
  BY <1>3
<1>6. q \in Nat
  BY <1>2
<1> HIDE DEF x, y, z, a, q
<1>7. 10 * x <= n /\ n < 10 * x + 10 * p
  BY <1>4
<1>8. (10 * p) * q <= n /\ n < (10 * p) * q + 10 * p
  BY <1>5, <1>7
<1>9. n \div (10 * p) = q
  BY <1>3, <1>6, <1>8, QuotientIs
<1> QED BY <1>9 DEF q

(* The digits of a number, and how many it has. *)
LEMMA DigitsAre ==
    ASSUME NEW n \in Nat, NEW c \in Nat
    PROVE  Digits(n, c) \in Seq(0..9) /\ Digits(n, c) \in Seq(Nat) /\ Len(Digits(n, c)) = c
<1> DEFINE d == Digits(n, c)
<1>1. \A i \in 1..c : d[i] \in 0..9
  <2> TAKE i \in 1..c
  <2>1. c - i \in Nat
    OBVIOUS
  <2>2. TenTo[c - i] \in Nat /\ TenTo[c - i] > 0
    BY <2>1, TenToType
  <2>3. n \div TenTo[c - i] \in Nat
    BY <2>2, DivisionIs
  <2>4. d[i] = (n \div TenTo[c - i]) % 10
    BY DEF Digits
  <2> QED BY <2>3, <2>4
<1>2. d = [i \in 1..c |-> d[i]]
  BY DEF Digits
<1> HIDE DEF d
<1>3. d \in [1..c -> 0..9] /\ d \in [1..c -> Nat]
  BY <1>1, <1>2
<1>4. d \in Seq(0..9) /\ d \in Seq(Nat) /\ Len(d) = c
  BY <1>3
<1> QED BY <1>4 DEF d

(* The digits of a number denote it, when there are enough of them. *)
LEMMA NumberOfDigits ==
    ASSUME NEW c \in Nat
    PROVE  \A n \in Nat : n < TenTo[c] => Number(Digits(n, c)) = n
<1> DEFINE Good == {k \in Nat : \A n \in Nat : n < TenTo[k] => Number(Digits(n, k)) = n}
<1>1. 0 \in Good
  <2> SUFFICES ASSUME NEW n \in Nat, n < TenTo[0] PROVE Number(Digits(n, 0)) = n
    OBVIOUS
  <2>1. n = 0
    BY TenToIs
  <2>2. Digits(n, 0) \in Seq(Nat) /\ Len(Digits(n, 0)) = 0
    BY DigitsAre
  <2>3. Digits(n, 0) = <<>>
    BY <2>2
  <2> QED BY <2>1, <2>3, NumberOfNothing
<1>2. ASSUME NEW k \in Nat, k \in Good PROVE k + 1 \in Good
  <2> SUFFICES ASSUME NEW n \in Nat, n < TenTo[k + 1] PROVE Number(Digits(n, k + 1)) = n
    OBVIOUS
  <2> DEFINE a == n \div 10
             z == n % 10
             T == TenTo[k]
  <2>1. a \in Nat /\ z \in 0..9 /\ n = 10 * a + z
    OBVIOUS
  <2>2. T \in Nat /\ n < 10 * T
    BY TenToIs
  <2>3. \A i \in 1..k : Digits(n, k + 1)[i] = Digits(a, k)[i]
    <3> TAKE i \in 1..k
    <3>1. k - i \in Nat /\ (k + 1) - i = (k - i) + 1 /\ i \in 1..(k + 1)
      OBVIOUS
    <3>2. TenTo[(k + 1) - i] = 10 * TenTo[k - i] /\ TenTo[k - i] \in Nat /\ TenTo[k - i] > 0
      BY <3>1, TenToIs, TenToType
    <3>3. n \div (10 * TenTo[k - i]) = a \div TenTo[k - i]
      BY <3>2, TenthsDivide
    <3>4. /\ Digits(n, k + 1)[i] = (n \div TenTo[(k + 1) - i]) % 10
          /\ Digits(a, k)[i] = (a \div TenTo[k - i]) % 10
      BY <3>1 DEF Digits
    <3> QED BY <3>2, <3>3, <3>4
  <2>4. Digits(n, k + 1)[k + 1] = z
    <3>1. (k + 1) - (k + 1) = 0 /\ k + 1 \in 1..(k + 1) /\ n \div 1 = n
      OBVIOUS
    <3>2. Digits(n, k + 1)[k + 1] = (n \div TenTo[(k + 1) - (k + 1)]) % 10
      BY <3>1 DEF Digits
    <3>3. TenTo[(k + 1) - (k + 1)] = 1
      BY <3>1, TenToIs
    <3> QED BY <3>1, <3>2, <3>3
  <2>5. Digits(n, k + 1) = Append(Digits(a, k), z)
    <3>1. Digits(n, k + 1) \in Seq(Nat) /\ Len(Digits(n, k + 1)) = k + 1
      BY DigitsAre
    <3>2. Digits(a, k) \in Seq(Nat) /\ Len(Digits(a, k)) = k /\ z \in Nat
      BY <2>1, DigitsAre
    <3> HIDE DEF a, z
    <3>3. /\ Append(Digits(a, k), z) \in Seq(Nat) /\ Len(Append(Digits(a, k), z)) = k + 1
          /\ Append(Digits(a, k), z)[k + 1] = z
          /\ \A i \in 1..k : Append(Digits(a, k), z)[i] = Digits(a, k)[i]
      BY <3>2, AppendProperties
    <3>4. \A i \in 1..(k + 1) : Digits(n, k + 1)[i] = Append(Digits(a, k), z)[i]
      <4> TAKE i \in 1..(k + 1)
      <4>1. i = k + 1 \/ i \in 1..k
        OBVIOUS
      <4> QED BY <2>3, <2>4, <3>3, <4>1
    <3> QED BY <3>1, <3>3, <3>4, SeqEqual
  <2> HIDE DEF a, z
  <2>6. a < T
    <3> HIDE DEF T
    <3> QED BY <2>1, <2>2
  <2>7. Number(Digits(a, k)) = a
    BY <1>2, <2>1, <2>6
  <2>8. Number(Append(Digits(a, k), z)) = 10 * a + z
    <3>1. a \in Nat /\ z \in Nat
      BY <2>1
    <3>2. Digits(a, k) \in Seq(Nat)
      BY <3>1, DigitsAre, Zenon
    <3> QED BY <2>7, <3>1, <3>2, NumberAppend
  <2> QED BY <2>1, <2>5, <2>8
<1> HIDE DEF Good
<1>3. \A k \in Nat : k \in Good
  BY <1>1, <1>2, NatInduct
<1> QED BY <1>3 DEF Good

LEMMA TenToGrows == \A n \in Nat : n < TenTo[n]
<1> DEFINE Good == {n \in Nat : n < TenTo[n]}
<1>1. 0 \in Good
  BY TenToIs
<1>2. ASSUME NEW n \in Nat, n \in Good PROVE n + 1 \in Good
  <2> DEFINE T == TenTo[n]
  <2>1. T \in Nat /\ n < T /\ TenTo[n + 1] = 10 * T
    BY <1>2, TenToIs, TenToType
  <2> HIDE DEF T
  <2> QED BY <2>1
<1> HIDE DEF Good
<1>3. \A n \in Nat : n \in Good
  BY <1>1, <1>2, NatInduct
<1> QED BY <1>3 DEF Good

LEMMA DigitCountIs ==
    ASSUME NEW n \in Nat
    PROVE  DigitCount(n) \in Nat /\ DigitCount(n) >= 1 /\ n < TenTo[DigitCount(n)]
<1> DEFINE Enough == {k \in Nat : k >= 1 /\ n < TenTo[k]}
<1>1. n + 1 \in Enough
  <2>1. n + 1 \in Nat /\ n + 1 < TenTo[n + 1] /\ TenTo[n + 1] \in Nat
    BY TenToGrows, TenToType
  <2> QED BY <2>1
<1>2. PICK k \in Enough : \A j \in Enough : k <= j
  BY <1>1, LeastNat
<1>3. k \in 1..(n + 1) /\ n < TenTo[k]
  BY <1>1, <1>2
<1>4. \A j \in 1..(k - 1) : n >= TenTo[j]
  <2> TAKE j \in 1..(k - 1)
  <2>1. j \in Nat /\ j >= 1 /\ ~(k <= j)
    BY <1>3
  <2>2. ~(n < TenTo[j])
    BY <1>2, <2>1
  <2>3. TenTo[j] \in Nat
    BY <2>1, TenToType
  <2> QED BY <2>2, <2>3
<1>5. \E m \in 1..(n + 1) : n < TenTo[m] /\ \A j \in 1..(m - 1) : n >= TenTo[j]
  BY <1>3, <1>4
<1>6. DigitCount(n) \in 1..(n + 1) /\ n < TenTo[DigitCount(n)]
  BY <1>5 DEF DigitCount
<1> QED BY <1>6

(* Trailing zeros can be left out. *)
LEMMA TrailingZeros ==
    ASSUME NEW d \in Seq(0..9)
    PROVE  LET w == WithoutTrailingZeros(d)
           IN  /\ w \in Seq(0..9) /\ Len(w) <= Len(d) /\ PadEnd(w, Len(d)) = d
               /\ w # <<>> => w[Len(w)] # 0
<1> DEFINE Fits(k) == /\ \A i \in (k + 1)..Len(d) : d[i] = 0
                      /\ k > 0 => d[k] # 0
           Enough == {k \in Nat : k <= Len(d) /\ \A i \in (k + 1)..Len(d) : d[i] = 0}
           k == CHOOSE x \in 0..Len(d) : Fits(x)
           w == SubSeq(d, 1, k)
<1>0. Len(d) \in Nat /\ \A i \in 1..Len(d) : d[i] \in 0..9
  OBVIOUS
<1>1. Len(d) \in Enough
  BY <1>0
<1>2. PICK x \in Enough : \A j \in Enough : x <= j
  BY <1>1, LeastNat
<1>3. x \in 0..Len(d) /\ \A i \in (x + 1)..Len(d) : d[i] = 0
  BY <1>0, <1>2
<1>4. x > 0 => d[x] # 0
  <2> SUFFICES ASSUME x > 0, d[x] = 0 PROVE FALSE
    OBVIOUS
  <2>1. x - 1 \in Nat /\ x - 1 <= Len(d) /\ ~(x <= x - 1)
    BY <1>0, <1>3
  <2>2. \A i \in ((x - 1) + 1)..Len(d) : d[i] = 0
    BY <1>0, <1>3
  <2>3. x - 1 \in Enough
    BY <2>1, <2>2
  <2> QED BY <1>2, <2>1, <2>3
<1>5. \E m \in 0..Len(d) : Fits(m)
  BY <1>3, <1>4
<1>6. k \in 0..Len(d) /\ Fits(k)
  <2> HIDE DEF Fits
  <2> QED BY <1>5
<1>7. WithoutTrailingZeros(d) = w
  BY DEF WithoutTrailingZeros
<1> HIDE DEF k
<1>8. w \in Seq(0..9) /\ Len(w) = k /\ \A i \in 1..k : w[i] = d[i]
  BY <1>0, <1>6
<1> HIDE DEF w
<1>9. PadEnd(w, Len(d)) = d
  <2> DEFINE z == [i \in 1..(Len(d) - Len(w)) |-> 0]
  <2>1. Len(d) - Len(w) = Len(d) - k /\ Len(d) - k \in Nat /\ k \in Nat
    BY <1>0, <1>6, <1>8
  <2>2. z \in Seq(0..9) /\ Len(z) = Len(d) - k /\ \A i \in 1..(Len(d) - k) : z[i] = 0
    BY <2>1
  <2>3. PadEnd(w, Len(d)) = w \o z
    BY DEF PadEnd
  <2> HIDE DEF z
  <2>4. /\ w \o z \in Seq(0..9) /\ Len(w \o z) = Len(d)
        /\ \A i \in 1..Len(d) : (w \o z)[i] = IF i <= k THEN w[i] ELSE z[i - k]
    <3>1. /\ w \o z \in Seq(0..9) /\ Len(w \o z) = Len(w) + Len(z)
          /\ \A i \in 1..(Len(w) + Len(z)) : (w \o z)[i] = IF i <= Len(w) THEN w[i] ELSE z[i - Len(w)]
      <4> DEFINE X == 0..9
      <4>1. w \in Seq(X) /\ z \in Seq(X)
        BY <1>8, <2>2
      <4> HIDE DEF X
      <4>2. /\ w \o z \in Seq(X) /\ Len(w \o z) = Len(w) + Len(z)
            /\ \A i \in 1..(Len(w) + Len(z)) :
                  (w \o z)[i] = IF i <= Len(w) THEN w[i] ELSE z[i - Len(w)]
        BY <4>1, ConcatProperties
      <4> QED BY <4>2 DEF X
    <3>2. Len(w) + Len(z) = Len(d)
      BY <1>0, <1>8, <2>1, <2>2
    <3> QED BY <1>8, <3>1, <3>2
  <2>5. \A i \in 1..Len(d) : (w \o z)[i] = d[i]
    <3> TAKE i \in 1..Len(d)
    <3>1. CASE i <= k
      <4>1. i \in 1..k
        BY <2>1, <3>1
      <4>2. (w \o z)[i] = w[i]
        BY <2>4, <3>1
      <4> QED BY <1>8, <4>1, <4>2
    <3>2. CASE i > k
      <4>1. i - k \in 1..(Len(d) - k) /\ i \in (k + 1)..Len(d)
        BY <1>0, <2>1, <3>2
      <4>2. (w \o z)[i] = z[i - k]
        BY <2>1, <2>4, <3>2
      <4>3. d[i] = 0
        BY <1>6, <4>1
      <4>4. z[i - k] = 0
        BY <2>2, <4>1
      <4> QED BY <4>2, <4>3, <4>4
    <3>3. i <= k \/ i > k
      BY <1>0, <2>1
    <3> QED BY <3>1, <3>2, <3>3
  <2> QED BY <2>3, <2>4, <2>5, SeqEqual
<1>10. w # <<>> => w[Len(w)] # 0
  <2> SUFFICES ASSUME w # <<>> PROVE w[Len(w)] # 0
    OBVIOUS
  <2>1. k > 0 /\ k \in 1..k
    BY <1>0, <1>6, <1>8
  <2> QED BY <1>6, <1>8, <2>1
<1>11. Len(w) <= Len(d)
  BY <1>0, <1>6, <1>8
<1> QED BY <1>7, <1>8, <1>9, <1>10, <1>11

(* The two halves of what is shown. *)
LEMMA ShownParts ==
    ASSUME NEW n \in Nat
    PROVE  LET whole == n \div GRAIN_PER_PRL
               frac  == WithoutTrailingZeros(Digits(n % GRAIN_PER_PRL, PRL_DECIMALS))
               ws    == Digits(whole, DigitCount(whole))
           IN  /\ ws \in Seq(0..9) /\ ws # <<>> /\ frac \in Seq(0..9) /\ Len(frac) <= PRL_DECIMALS
               /\ frac # <<>> => frac[Len(frac)] # 0
               /\ Number(ws) * TenTo[PRL_DECIMALS] + Number(PadEnd(frac, PRL_DECIMALS)) = n
<1> DEFINE G == GRAIN_PER_PRL
           a == n \div G
           r == n % G
           ds == Digits(r, PRL_DECIMALS)
           frac == WithoutTrailingZeros(ds)
           ws == Digits(a, DigitCount(a))
<1>1. G = TenTo[PRL_DECIMALS] /\ PRL_DECIMALS \in Nat
  BY AmountsAssumption DEF GRAIN_PER_PRL
<1>2. G \in Nat /\ G > 0
  BY <1>1, TenToType
<1> HIDE DEF G
<1>3. a \in Nat /\ r \in 0..(G - 1) /\ n = G * a + r
  BY <1>2, DivisionIs
<1> HIDE DEF a, r
<1>4. ws \in Seq(0..9) /\ Len(ws) = DigitCount(a) /\ ws # <<>>
  <2>1. ws \in Seq(0..9) /\ Len(ws) = DigitCount(a) /\ DigitCount(a) >= 1
    BY <1>3, DigitCountIs, DigitsAre
  <2> HIDE DEF ws
  <2>2. ws # <<>>
    BY <2>1
  <2> QED BY <2>1, <2>2
<1>5. Number(ws) = a
  BY <1>3, DigitCountIs, NumberOfDigits
<1>6. ds \in Seq(0..9) /\ Len(ds) = PRL_DECIMALS /\ Number(ds) = r
  <2>1. r \in Nat /\ r < TenTo[PRL_DECIMALS]
    BY <1>1, <1>2, <1>3
  <2> QED BY <1>1, <2>1, DigitsAre, NumberOfDigits
<1> HIDE DEF ds, ws
<1>7. /\ frac \in Seq(0..9) /\ Len(frac) <= PRL_DECIMALS /\ PadEnd(frac, PRL_DECIMALS) = ds
      /\ frac # <<>> => frac[Len(frac)] # 0
  BY <1>6, TrailingZeros
<1> HIDE DEF frac
<1>8. Number(ws) * TenTo[PRL_DECIMALS] + Number(PadEnd(frac, PRL_DECIMALS)) = a * G + r
  BY <1>1, <1>5, <1>6, <1>7
<1>9. a * G + r = n
  BY <1>2, <1>3
<1> QED BY <1>4, <1>7, <1>8, <1>9 DEF frac, ws, ds, a, r, G

(* What grainToPrl shows of any amount denotes it, has no trailing zero,    *)
(* and is what validateAmount takes from the dust floor to the supply cap   *)
(* and nowhere else.                                                        *)
THEOREM ShownIsAlwaysTyped == \A g \in Int : ShownIsTyped(g)
<1> SUFFICES ASSUME NEW g \in Int PROVE ShownIsTyped(g)
  OBVIOUS
<1> DEFINE n == IF g < 0 THEN -g ELSE g
           t == grainToPrl(g)
           D == PRL_DECIMALS
<1>1. n \in Nat /\ D \in Nat
  BY AmountsAssumption
<1>2. /\ t.whole \in Seq(0..9) /\ t.whole # <<>> /\ t.frac \in Seq(0..9) /\ Len(t.frac) <= D
      /\ t.frac # <<>> => t.frac[Len(t.frac)] # 0
      /\ Number(t.whole) * TenTo[D] + Number(PadEnd(t.frac, D)) = n
      /\ t.neg = (g < 0) /\ t.point = (t.frac # <<>>)
  <2> DEFINE whole == n \div GRAIN_PER_PRL
             frac  == WithoutTrailingZeros(Digits(n % GRAIN_PER_PRL, PRL_DECIMALS))
             ws    == Digits(whole, DigitCount(whole))
  <2>1. /\ ws \in Seq(0..9) /\ ws # <<>> /\ frac \in Seq(0..9) /\ Len(frac) <= D
        /\ frac # <<>> => frac[Len(frac)] # 0
        /\ Number(ws) * TenTo[D] + Number(PadEnd(frac, D)) = n
    BY <1>1, ShownParts
  <2>2. t = [neg |-> g < 0, whole |-> ws, point |-> frac # <<>>, frac |-> frac]
    BY DEF grainToPrl, Text
  <2> HIDE DEF whole, frac, ws, t
  <2>3. t.whole = ws /\ t.frac = frac /\ t.neg = (g < 0) /\ t.point = (frac # <<>>)
    BY <2>2
  <2> QED BY <2>1, <2>3
<1> HIDE DEF t
<1>3. IsNumber(t)
  BY <1>2 DEF IsNumber
<1>4. Scaled(t, D) = g
  <2>1. Scaled(t, D) = IF t.neg THEN -n ELSE n
    BY <1>2 DEF Scaled
  <2>2. CASE g < 0
    <3>1. t.neg
      BY <1>2, <2>2
    <3>2. Scaled(t, D) = -n
      BY <2>1, <3>1, Zenon
    <3> QED BY <2>2, <3>2
  <2>3. CASE ~(g < 0)
    <3>1. ~t.neg
      BY <1>2, <2>3
    <3>2. Scaled(t, D) = n
      BY <2>1, <3>1, Zenon
    <3> QED BY <2>3, <3>2
  <2> QED BY <2>2, <2>3
<1>5. prlToGrain(t) = g
  BY <1>4 DEF prlToGrain
<1>6. validateAmount(t) = "valid" <=> g >= DUST_THRESHOLD_GRAIN /\ g <= MAX_GRAIN
  <2>1. ~IsEmpty(t) /\ ~(Len(t.frac) > D) /\ DUST_THRESHOLD_GRAIN \in Nat /\ DUST_THRESHOLD_GRAIN > 0
        /\ MAX_GRAIN \in Nat
    <3>1. Len(t.frac) \in Nat
      BY <1>2
    <3>2. MAX_GRAIN \in Nat
      BY <1>1, AmountsAssumption, TenToType, NatProducts DEF MAX_GRAIN, GRAIN_PER_PRL
    <3> QED BY <1>1, <1>2, <3>1, <3>2, AmountsAssumption DEF IsEmpty
  <2>2. Converts(t, D) <=> g >= 0 /\ g <= MAX_GRAIN
    BY <1>2, <1>3, <1>4 DEF Converts, isValidGrain
  <2>3. CASE Converts(t, D)
    <3>1. validateAmount(t) = IF g <= 0 THEN "ZERO_OR_NEGATIVE"
                              ELSE IF g < DUST_THRESHOLD_GRAIN THEN "BELOW_DUST" ELSE "valid"
      BY <1>5, <2>1, <2>3 DEF validateAmount
    <3> QED BY <2>1, <2>2, <2>3, <3>1
  <2>4. CASE ~Converts(t, D)
    <3>1. validateAmount(t) = "NOT_A_NUMBER"
      BY <2>1, <2>4 DEF validateAmount
    <3> QED BY <2>1, <2>2, <2>4, <3>1
  <2> QED BY <2>3, <2>4
<1> QED BY <1>2, <1>3, <1>5, <1>6 DEF ShownIsTyped, t

(***************************************************************************)
(* The fields and the draft.                                               *)
(***************************************************************************)
Pays(value) ==
    /\ value \in DUST_THRESHOLD_GRAIN..MAX_GRAIN
    /\ \E t \in AmountTexts :
          value * TenTo[Len(t.frac)] = Number(t.whole \o t.frac) * GRAIN_PER_PRL

LEMMA ReviewedValue ==
    ASSUME amount \in AmountTexts \cup {NoAmount}, ~amount.neg, validateAmount(amount) = "valid"
    PROVE  prlToGrain(amount) \in Nat /\ Pays(prlToGrain(amount))
<1>1. ~IsEmpty(amount) /\ Converts(amount, PRL_DECIMALS)
  <2>1. IsEmpty(amount) => ~Converts(amount, PRL_DECIMALS)
    BY DEF IsEmpty, Converts, IsNumber
  <2> QED BY <2>1 DEF validateAmount
<1>2. IsEmpty(NoAmount)
  BY DEF NoAmount, IsEmpty, Text
<1>3. amount \in AmountTexts /\ amount \in Decimals /\ Len(amount.frac) <= PRL_DECIMALS
  BY <1>1, <1>2, FormAssumption DEF Converts
<1>4. prlToGrain(amount) \in Nat
  BY <1>3, AmountsAssumption, ScaledIs DEF prlToGrain
<1>5. prlToGrain(amount) <= MAX_GRAIN /\ ~(prlToGrain(amount) < DUST_THRESHOLD_GRAIN)
  BY <1>1 DEF Converts, isValidGrain, prlToGrain, validateAmount
<1>6. MAX_GRAIN \in Nat /\ DUST_THRESHOLD_GRAIN \in Nat
  BY AmountsAssumption, TenToType, NatProducts DEF MAX_GRAIN, GRAIN_PER_PRL
<1>7. prlToGrain(amount) \in DUST_THRESHOLD_GRAIN..MAX_GRAIN
  BY <1>4, <1>5, <1>6
<1>8. prlToGrain(amount) * TenTo[Len(amount.frac)] = Number(amount.whole \o amount.frac) * GRAIN_PER_PRL
  BY <1>3, ScaledIsTyped
<1> QED BY <1>3, <1>4, <1>7, <1>8 DEF Pays

(* Only texts without a sign get into the field, and a draft was made of   *)
(* one that was valid.                                                     *)
FormInv ==
    /\ amount \in AmountTexts \cup {NoAmount} /\ ~amount.neg
    /\ at # "send" => address = Null /\ amount = NoAmount
    /\ draft = Null \/ (draft \in [recipient : Typed, value : Nat] /\ Pays(draft.value))

LEMMA FormInit == Init => FormInv
BY DEF Init, FormInv, NoAmount, Text

LEMMA FormNext ==
    ASSUME BookInv, FormInv, [Next]_vars
    PROVE  FormInv'
<1>0. ~NoAmount.neg
  BY DEF NoAmount, Text
<1>1. CASE Navigate
  <2>1. \E to : /\ at' = to /\ amount' = NoAmount /\ draft' = Null
                /\ to # "send" => address' = Null
    BY <1>1 DEF Navigate, Open, Mount
  <2> QED BY <1>0, <2>1 DEF FormInv
<1>2. CASE TypeAddress \/ TypeAmount \/ UNCHANGED vars
  BY <1>2 DEF TypeAddress, TypeAmount, Typable, vars, contacts, FormInv
<1>3. CASE Save \/ RemoveContact \/ (Storage /\ UNCHANGED <<address, amount, draft>>)
  <2>1. at' = at /\ UNCHANGED <<address, amount, draft>>
    BY <1>3 DEF Save, saveContact, RemoveContact, removeContact, BeginEdit, Storage, Get, Set, List
  <2> QED BY <2>1 DEF FormInv
<1>4. CASE handleReview
  <2>1. address \in Typed /\ validateAmount(amount) = "valid"
    BY <1>4 DEF handleReview, canReview, BookInv, FieldOK
  <2>2. prlToGrain(amount) \in Nat /\ Pays(prlToGrain(amount))
    BY <2>1, ReviewedValue DEF FormInv
  <2>3. draft' = [recipient |-> address, value |-> prlToGrain(amount)]
    BY <1>4 DEF handleReview
  <2>4. draft' \in [recipient : Typed, value : Nat] /\ Pays(draft'.value)
    BY <2>1, <2>2, <2>3
  <2> QED BY <1>0, <1>4, <2>4 DEF handleReview, FormInv
<1> QED BY <1>1, <1>2, <1>3, <1>4 DEF Next

(* The fields of Send are empty on every other screen, and a draft is a    *)
(* recipient that was typed and a number of Grain.                         *)
THEOREM FormTypes == Spec => []TypeOK
<1>1. BookInv /\ FormInv => TypeOK
  BY DEF BookInv, FieldOK, FormInv, TypeOK
<1> QED BY <1>1, FormInit, FormNext, BookInitInv, BookNextInv, PTL DEF Spec

(* The draft handleReview makes pays what was typed to the last digit, for *)
(* any number of decimals, and from the dust floor to the supply cap.      *)
THEOREM DraftsPayWhatWasTyped == Spec => []PaysWhatWasTyped
<1>1. FormInv => PaysWhatWasTyped
  BY DEF FormInv, Pays, PaysWhatWasTyped
<1> QED BY <1>1, FormInit, FormNext, BookInitInv, BookNextInv, PTL DEF Spec
=============================================================================
