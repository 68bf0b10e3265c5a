------------------------------ MODULE Contacts ------------------------------
(***************************************************************************)
(* The address book: contacts/contacts-store.ts, the Contacts screen and   *)
(* the part of the Send screen that lists contacts and saves one.  Every   *)
(* edit reads the whole list from chrome.storage.local and writes a whole  *)
(* list back, and goes on when its screen is left.                         *)
(*                                                                         *)
(* A contact is its address as typed; the name goes with it.               *)
(***************************************************************************)
EXTENDS Integers

CONSTANTS
    Typed,      \* addresses as they may be typed
    Norm,       \* what norm() makes of them: trimmed, in lower case
    Savable,    \* those that are valid
    Slots,      \* bound: calls of the address book in flight
    Null

ASSUME ContactsAssumption ==
    /\ Norm \in [Typed -> Typed] /\ Savable \subseteq Typed
    /\ Null \notin Typed

VARIABLES
    at,         \* the screen: "send", "contacts", or "away" on any other
    list,       \* the contacts it shows, Null before they are read
    book,       \* the contacts stored
    edits,      \* calls in flight
    meant,      \* the contacts as the finished edits meant to leave them
    rushed      \* edits overlapped one another or a reading, or the storage failed

contacts == <<at, list, book, edits, meant, rushed>>

Books == SUBSET Typed

Calls ==
    [op : {"list", "add", "remove"}, addr : Typed \cup {Null}, live : BOOLEAN,
     stage : {"get", "set", "list"}, copy : Books]

ASSUME CallsAssumption == Null \notin Calls

ContactsTypeOK ==
    /\ at \in {"send", "contacts", "away"}
    /\ (list = Null \/ list \in Books) /\ book \in Books /\ meant \in Books
    /\ edits \in [Slots -> Calls \cup {Null}]
    /\ rushed \in BOOLEAN

----------------------------------------------------------------------------
(* Mutant of SameContact: addresses are compared as they are typed. *)
SameText(a, b) == a = b

SameContact(a, b) == Norm[a] = Norm[b]

Without(cs, addr) == {c \in cs : ~SameContact(c, addr)}

Edited(e, cs) ==
    IF e.op = "add" THEN Without(cs, e.addr) \cup {e.addr} ELSE Without(cs, e.addr)

Reading        == [op |-> "list", addr |-> Null, live |-> TRUE, stage |-> "list", copy |-> {}]
Edit(op, addr) == [op |-> op, addr |-> addr, live |-> TRUE, stage |-> "get", copy |-> {}]

Distinct(cs) == \A c, d \in cs : Norm[c] = Norm[d] => c = d

ContactsInit ==
    /\ at = "away" /\ list = Null
    /\ book \in {b \in SUBSET Savable : Distinct(b)}
    /\ edits = [s \in Slots |-> Null]
    /\ meant = book /\ rushed = FALSE

----------------------------------------------------------------------------
Busy    == \E s \in Slots : edits[s] # Null
Editing == \E s \in Slots : edits[s] # Null /\ edits[s].stage \in {"get", "set"}

(* Of the calls of a screen that is gone only the edits matter. *)
Abandoned ==
    [s \in Slots |-> IF edits[s] = Null THEN Null
                     ELSE IF edits[s].stage = "list" THEN Null ELSE [edits[s] EXCEPT !.live = FALSE]]

(* Both screens read the list when they are mounted. *)
Mount(screen) ==
    /\ at' = screen
    /\ list' = IF screen = "send" THEN {} ELSE Null
    /\ IF screen = "away" THEN edits' = Abandoned
       ELSE \E s \in Slots : Abandoned[s] = Null /\ edits' = [Abandoned EXCEPT ![s] = Reading]
    /\ UNCHANGED <<book, meant, rushed>>

BeginEdit(op, addr) ==
    /\ \E s \in Slots : edits[s] = Null /\ edits' = [edits EXCEPT ![s] = Edit(op, addr)]
    /\ rushed' = (Busy /\ (rushed \/ Editing))
    /\ meant' = IF Busy THEN meant ELSE book
    /\ UNCHANGED <<at, list, book>>

(* Send offers to save a valid address that its list does not have.        *)
saveContact(addr) ==
    /\ at = "send" /\ addr \in Savable
    /\ \A c \in list : ~SameContact(c, addr)
    /\ BeginEdit("add", addr)

removeContact ==
    /\ at = "contacts" /\ list # Null
    /\ \E c \in list : BeginEdit("remove", c)

(* A read that fails is taken for an empty book. *)
Get(s) ==
    /\ edits[s] # Null /\ edits[s].stage = "get"
    /\ \/ edits' = [edits EXCEPT ![s].stage = "set", ![s].copy = book] /\ UNCHANGED rushed
       \/ edits' = [edits EXCEPT ![s].stage = "set", ![s].copy = {}] /\ rushed' = TRUE
    /\ UNCHANGED <<at, list, book, meant>>

(* A write that fails is let pass.  The screen, if it is still there,      *)
(* lists the contacts again.                                               *)
Set(s) ==
    /\ edits[s] # Null /\ edits[s].stage = "set"
    /\ \/ book' = Edited(edits[s], edits[s].copy) /\ UNCHANGED rushed
       \/ rushed' = TRUE /\ UNCHANGED book
    /\ meant' = Edited(edits[s], meant)
    /\ edits' = [edits EXCEPT ![s] = IF edits[s].live THEN Reading ELSE Null]
    /\ UNCHANGED <<at, list>>

(* Mutant of List: what the screen knows is only added to. *)
ListMore(s) ==
    /\ edits[s] # Null /\ edits[s].stage = "list"
    /\ edits' = [edits EXCEPT ![s] = Null]
    /\ list' = (IF list = Null THEN book ELSE list \cup book)
    /\ rushed' = (rushed \/ Editing)
    /\ UNCHANGED <<at, book, meant>>

List(s) ==
    /\ edits[s] # Null /\ edits[s].stage = "list"
    /\ edits' = [edits EXCEPT ![s] = Null]
    /\ \/ list' = book /\ rushed' = (rushed \/ Editing)
       \/ list' = {} /\ rushed' = TRUE
    /\ UNCHANGED <<at, book, meant>>

Storage == \E s \in Slots : Get(s) \/ Set(s) \/ List(s)

----------------------------------------------------------------------------
(* No address is in the book twice, however it is typed and whatever edits *)
(* overlap or fail: addContact and removeContact compare norm().           *)
UniqueContacts == Distinct(book)

(* Edits that overlap neither one another nor a reading do all they mean   *)
(* to and nothing else, also those whose screen is left at once; and a     *)
(* screen with nothing under way lists what is stored.                     *)
EditsTakeEffect ==
    ~rushed =>
        /\ book = meant
        /\ ~Busy /\ at # "away" => list = book
=============================================================================
