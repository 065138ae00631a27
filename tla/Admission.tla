------------------------------ MODULE Admission ------------------------------
(***************************************************************************)
(* What the webhooks keep true of classes and items together.              *)
(*                                                                         *)
(* Users create, edit and delete NamespaceClasses and NamespaceClassItems; *)
(* every write is admitted, or not, against the copies the webhooks'       *)
(* informers hold at that moment, which may be of any age.  A class and an *)
(* item written at once are each checked against the other as it was: the  *)
(* history variable raced keeps which pairs were last written in this way, *)
(* so that the properties can say what is true of all others.              *)
(***************************************************************************)
EXTENDS UserWrites

CONSTANT
    MaxEdits        \* bound: writes

VARIABLES
    raced,          \* history: <<c, i>> was checked against an old copy
    edits           \* what is used of the bound

vars == <<nsStore, classStore, itemStore, raced, edits>>

-----------------------------------------------------------------------------
\* The objects of which the webhooks hold an old copy.
OldItems == {i \in Items : itemCache[i] # items[i]}
OldClasses == {c \in Classes : classCache[c] # classes[c]}

Holding(i) == {c \in Classes : Lists(classes[c], i)}

\* The classes for which the check of an edit of i looks at an old copy: of the class
\* or of another of its items.
Overlooked(i) ==
    {c \in Holding(i) : c \in OldClasses \/ (classes[c].obj.items \ {i}) \cap OldItems # {}}

\* The last check of i in its classes was right but for these.
ItemChecked(i, missed) == raced' = {p \in raced : p[2] # i} \cup (missed \X {i})

ClassChecked(c, missed) == raced' = {p \in raced : p[1] # c} \cup ({c} \X missed)

WriteItem(i) ==
    \/ \E t \in Templates :
          \/ CreateItem(i, t) /\ UNCHANGED raced
          \/ EditItem(i, t) /\ ItemChecked(i, Overlooked(i))
    \/ DeleteItem(i) /\ ItemChecked(i, Holding(i) \cap OldClasses)

WriteClass(c) ==
    \/ \E set \in SUBSET Items :
          /\ CreateClass(c, set) \/ EditClass(c, set)
          /\ ClassChecked(c, set \cap OldItems)
    \/ DeleteClass(c) /\ UNCHANGED raced

Users ==
    /\ edits < MaxEdits
    /\ edits' = edits + 1
    /\ (\E i \in Items : WriteItem(i)) \/ (\E c \in Classes : WriteClass(c))
    /\ UNCHANGED <<nsStore, classCache, itemCache>>

SyncItems ==
    /\ itemCache # items
    /\ itemCache' = items
    /\ UNCHANGED <<nsStore, classStore, items, raced, edits>>

SyncClasses ==
    /\ classCache # classes
    /\ classCache' = classes
    /\ UNCHANGED <<nsStore, classes, itemStore, raced, edits>>

-----------------------------------------------------------------------------
\* No object exists yet, and no namespace has a label.
Init ==
    /\ NamespacesInit
    /\ classes = [c \in Classes |-> Vacant(NoClassObject)] /\ classCache = classes
    /\ items = [i \in Items |-> Vacant(NoItem)] /\ itemCache = items
    /\ raced = {}
    /\ edits = 0

Next == Users \/ SyncItems \/ SyncClasses

Spec == Init /\ [][Next]_vars

-----------------------------------------------------------------------------
\* Every variable holds values of its kind, a class always lists something and an
\* item can always be read (namespaceclass_webhook.go:122,
\* namespaceclassitem_webhook.go:139-166).
TypeOK ==
    /\ ItemsTypeOK
    /\ ClassesTypeOK
    /\ raced \subseteq Classes \X Items
    /\ \A c \in Classes : classes[c].live => classes[c].obj.items # {}
    /\ \A i \in Items : items[i].live => items[i].obj.template \in Parses

\* The items a class lists exist, unless the class and the item were written at
\* once: a class that lists a missing one could not be written again, not even to take
\* its finalizer off, and no other order of writes leads there, however old the
\* copies were that other writes were checked against
\* (namespaceclass_webhook.go:131-135, namespaceclassitem_webhook.go:124-134).
ItemsExist ==
    \A c \in Classes : classes[c].live =>
        \A i \in classes[c].obj.items : items[i].live \/ <<c, i>> \in raced

\* Nor do two items of a class have one key, unless one of them was written at once
\* with the class or with another of its items: their instances would overwrite each
\* other's for ever (namespaceclass_webhook.go:151-158,
\* namespaceclassitem_webhook.go:168-234).
NoTwoShareKey ==
    \A c \in Classes : classes[c].live =>
        \A i, j \in classes[c].obj.items :
            /\ i # j
            /\ items[i].live /\ items[j].live
            /\ {<<c, i>>, <<c, j>>} \cap raced = {}
            => KeyOf[items[i].obj.template] # KeyOf[items[j].obj.template]
=============================================================================
