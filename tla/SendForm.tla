------------------------------ MODULE SendForm ------------------------------
(***************************************************************************)
(* The form of Send.tsx: a recipient typed, pasted or picked from the      *)
(* address book, and an amount, of which handleReview makes a draft.  What *)
(* becomes of the draft is in SendFlow.                                    *)
(***************************************************************************)
EXTENDS Contacts, Addresses, Amounts

CONSTANTS
    TextOf,         \* what a typed address is as a text
    AmountTexts     \* amounts that are typed or pasted

ASSUME FormAssumption ==
    /\ TextOf \in [Typed -> Texts]
    /\ Savable = {a \in Typed : validateAddress(TextOf[a]) = "valid"}
    /\ \A a, b \in Typed : Norm[a] = Norm[b] => TextOf[a] = TextOf[b]
    /\ AmountTexts \subseteq Decimals

VARIABLES
    address,    \* the recipient field, Null when it is empty
    amount,     \* the amount field
    draft       \* the recipient and value last reviewed, until Send is open again

vars == <<contacts, address, amount, draft>>

NoAmount == Text(FALSE, <<>>, FALSE, <<>>)

TypeOK ==
    /\ ContactsTypeOK
    /\ address \in Typed \cup {Null} /\ amount \in AmountTexts \cup {NoAmount}
    /\ at # "send" => address = Null /\ amount = NoAmount
    /\ draft = Null \/ draft \in [recipient : Typed, value : Nat]

Init ==
    /\ ContactsInit
    /\ address = Null /\ amount = NoAmount
    /\ draft = Null

(* Mutant of Open: the fields outlive the screen. *)
OpenKeeping(from, to, recipient) ==
    /\ at = from
    /\ Mount(to)
    /\ address' = (IF address = Null THEN recipient ELSE address) /\ amount' = amount
    /\ draft' = Null

(* The Send screen begins empty, or with the contact that was picked. *)
Open(from, to, recipient) ==
    /\ at = from
    /\ Mount(to)
    /\ address' = recipient /\ amount' = NoAmount
    /\ draft' = Null

Navigate ==
    \/ Open("away", "send", Null) \/ Open("send", "away", Null)
    \/ Open("send", "contacts", Null) \/ Open("contacts", "send", Null)
    \/ list # Null /\ \E c \in list : Open("contacts", "send", c)

TypeAddress ==
    /\ at = "send" /\ address' \in Typed \ {address}
    /\ UNCHANGED <<contacts, amount, draft>>

(* AmountInput.handleChange. *)
TypeAmount ==
    /\ at = "send" /\ amount' \in {t \in AmountTexts : Typable(t)} \ {amount}
    /\ UNCHANGED <<contacts, address, draft>>

Save == address # Null /\ saveContact(address) /\ UNCHANGED <<address, amount, draft>>

RemoveContact == removeContact /\ UNCHANGED <<address, amount, draft>>

(* Mutant of canReview: an amount the form complains about will do. *)
canReviewAnyAmount ==
    address # Null /\ validateAddress(TextOf[address]) = "valid" /\ Converts(amount, PRL_DECIMALS)

(* Mutant of canReview: any text in the recipient field will do. *)
canReviewAnyone == address # Null /\ validateAmount(amount) = "valid"

canReview ==
    /\ address # Null /\ validateAddress(TextOf[address]) = "valid"
    /\ validateAmount(amount) = "valid"

(* A review that succeeds leaves the screen. *)
handleReview ==
    /\ at = "send" /\ canReview
    /\ Mount("away")
    /\ draft' = [recipient |-> address, value |-> prlToGrain(amount)]
    /\ address' = Null /\ amount' = NoAmount

Next ==
    \/ Navigate \/ TypeAddress \/ TypeAmount \/ Save \/ RemoveContact \/ handleReview
    \/ Storage /\ UNCHANGED <<address, amount, draft>>

Spec == Init /\ [][Next]_vars

----------------------------------------------------------------------------
Payable(a) == decodeAddress(TextOf[a]) /\ TextOf[a].hrp = "prl" /\ TextOf[a].version = 1

(* Whatever is typed or picked, a draft pays a recipient that wallet-core  *)
(* can pay, and so could every contact be paid.                            *)
OnlyPayable ==
    /\ \A c \in book : Payable(c)
    /\ draft # Null => Payable(draft.recipient)

(* A draft pays the amount that was typed, to the last digit, within what  *)
(* the network takes.                                                      *)
PaysWhatWasTyped ==
    draft # Null =>
        /\ draft.value \in DUST_THRESHOLD_GRAIN..MAX_GRAIN
        /\ \E t \in AmountTexts :
              draft.value * TenTo[Len(t.frac)] = Number(t.whole \o t.frac) * GRAIN_PER_PRL
=============================================================================
