--------------------------- MODULE AdmissionProofs ---------------------------
(***************************************************************************)
(* Proofs about Admission, for any set of classes, items and templates and *)
(* any number of writes: what the webhooks keep true as long as they are   *)
(* on, however old the copies are that their informers hold.               *)
(***************************************************************************)
EXTENDS Admission, ApiObjectsProofs

\* The invariant behind all three: none of the parts is inductive alone, for a class
\* is checked when it is written and its items when they are.
Sound == TypeOK /\ ItemsExist /\ NoTwoShareKey

-----------------------------------------------------------------------------
LEMMA NoneTypes ==
    /\ NoItem \in NamespaceClassItem /\ Vacant(NoItem) \in Slot(NamespaceClassItem)
    /\ NoClassObject \in NamespaceClass /\ Vacant(NoClassObject) \in Slot(NamespaceClass)
    /\ ~Vacant(NoItem).live /\ ~Vacant(NoClassObject).live
BY TemplatesAssumption DEF NoItem, NamespaceClassItem, NoClassObject, NamespaceClass, Slot, Vacant

-----------------------------------------------------------------------------
(***************************************************************************)
(* What a write of one object may change                                   *)
(***************************************************************************)
\* An item takes its new place among its classes; in those that are not missed it has
\* been checked.
LEMMA ItemWritten ==
    ASSUME Sound, UNCHANGED <<classes, classCache, itemCache>>,
           NEW i \in Items, NEW new \in Slot(NamespaceClassItem),
           items' = [items EXCEPT ![i] = new],
           NEW missed \in SUBSET Classes, ItemChecked(i, missed),
           new.live => new.obj.template \in Parses,
           \A c \in Holding(i) \ missed :
               /\ new.live
               /\ \A j \in classes[c].obj.items \ {i} : items[j].live =>
                     KeyOf[items[j].obj.template] # KeyOf[new.obj.template]
    PROVE  Sound'
<1> USE DEF Sound
<1>1. /\ items'[i] = new
      /\ \A j \in Items \ {i} : items'[j] = items[j]
  BY DEF TypeOK, ItemsTypeOK
<1>2. \A c \in Classes : classes[c].obj.items \subseteq Items
  BY DEF TypeOK, ClassesTypeOK, Slot, NamespaceClass
<1>3. \A c \in Classes, j \in Items :
          <<c, j>> \in raced' <=> IF j = i THEN c \in missed ELSE <<c, j>> \in raced
  BY DEF ItemChecked
<1>4. TypeOK'
  <2>1. raced' \subseteq Classes \X Items
    BY DEF ItemChecked, TypeOK
  <2> QED BY <2>1 DEF TypeOK, ItemsTypeOK, ClassesTypeOK
<1>5. ItemsExist'
  <2> SUFFICES ASSUME NEW c \in Classes, classes[c].live, NEW j \in classes[c].obj.items
               PROVE  items'[j].live \/ <<c, j>> \in raced'
    BY DEF ItemsExist
  <2>1. CASE j = i
    BY <1>1, <1>2, <1>3, <2>1 DEF Holding, Lists
  <2>2. CASE j # i
    BY <1>1, <1>2, <1>3, <2>2 DEF ItemsExist
  <2> QED BY <2>1, <2>2
<1>6. NoTwoShareKey'
  <2> SUFFICES ASSUME NEW c \in Classes, classes[c].live,
                      NEW j \in classes[c].obj.items, NEW k \in classes[c].obj.items, j # k,
                      items'[j].live, items'[k].live,
                      <<c, j>> \notin raced', <<c, k>> \notin raced'
               PROVE  KeyOf[items'[j].obj.template] # KeyOf[items'[k].obj.template]
    BY DEF NoTwoShareKey
  <2>1. j \in Items /\ k \in Items
    BY <1>2
  <2>2. CASE j # i /\ k # i
    <3>1. items[j].live /\ items[k].live /\ <<c, j>> \notin raced /\ <<c, k>> \notin raced
      BY <1>1, <1>3, <2>1, <2>2
    <3> QED BY <1>1, <2>1, <2>2, <3>1 DEF NoTwoShareKey
  <2>3. CASE j = i
    BY <1>1, <1>3, <2>1, <2>3 DEF Holding, Lists
  <2>4. CASE k = i
    BY <1>1, <1>3, <2>1, <2>4 DEF Holding, Lists
  <2> QED BY <2>2, <2>3, <2>4
<1> QED BY <1>4, <1>5, <1>6

\* A class comes to list what it lists, if it is there; of the items that are not missed
\* it has been checked.
LEMMA ClassWritten ==
    ASSUME Sound, UNCHANGED <<items, itemCache, classCache>>,
           NEW c \in Classes, NEW new \in Slot(NamespaceClass),
           classes' = [classes EXCEPT ![c] = new],
           NEW missed \in SUBSET Items, ClassChecked(c, missed),
           new.live =>
               /\ new.obj.items # {}
               /\ \A i \in new.obj.items \ missed : items[i].live
               /\ \A i, j \in new.obj.items \ missed : i # j =>
                     KeyOf[items[i].obj.template] # KeyOf[items[j].obj.template]
    PROVE  Sound'
<1> USE DEF Sound
<1>1. /\ classes'[c] = new
      /\ \A d \in Classes \ {c} : classes'[d] = classes[d]
  BY DEF TypeOK, ClassesTypeOK
<1>2. \A d \in Classes, i \in Items :
          <<d, i>> \in raced' <=> IF d = c THEN i \in missed ELSE <<d, i>> \in raced
  BY DEF ClassChecked
<1>3. /\ new.obj.items \subseteq Items
      /\ \A d \in Classes : classes[d].obj.items \subseteq Items
  BY DEF TypeOK, ClassesTypeOK, Slot, NamespaceClass
<1>4. TypeOK'
  <2>1. raced' \subseteq Classes \X Items
    BY DEF ClassChecked, TypeOK
  <2> QED BY <1>1, <2>1 DEF TypeOK, ItemsTypeOK, ClassesTypeOK
<1>5. ItemsExist'
  <2> SUFFICES ASSUME NEW d \in Classes, classes'[d].live, NEW i \in classes'[d].obj.items
               PROVE  items[i].live \/ <<d, i>> \in raced'
    BY DEF ItemsExist
  <2>1. CASE d = c
    BY <1>1, <1>2, <1>3, <2>1
  <2>2. CASE d # c
    BY <1>1, <1>2, <1>3, <2>2 DEF ItemsExist
  <2> QED BY <2>1, <2>2
<1>6. NoTwoShareKey'
  <2> SUFFICES ASSUME NEW d \in Classes, classes'[d].live,
                      NEW i \in classes'[d].obj.items, NEW j \in classes'[d].obj.items, i # j,
                      items'[i].live, items'[j].live,
                      {<<d, i>>, <<d, j>>} \cap raced' = {}
               PROVE  KeyOf[items'[i].obj.template] # KeyOf[items'[j].obj.template]
    BY DEF NoTwoShareKey
  <2>1. CASE d = c
    BY <1>1, <1>2, <1>3, <2>1
  <2>2. CASE d # c
    BY <1>1, <1>2, <1>3, <2>2 DEF NoTwoShareKey
  <2> QED BY <2>1, <2>2
<1> QED BY <1>4, <1>5, <1>6

\* A class that lists what it did, if it is there still.
LEMMA ClassRewritten ==
    ASSUME Sound, UNCHANGED <<items, itemCache, classCache, raced>>,
           NEW c \in Classes, NEW new \in Slot(NamespaceClass), classes[c].live,
           classes' = [classes EXCEPT ![c] = new],
           new.live => new.obj.items = classes[c].obj.items
    PROVE  Sound'
<1> USE DEF Sound
<1>1. /\ classes'[c] = new
      /\ \A d \in Classes \ {c} : classes'[d] = classes[d]
  BY DEF TypeOK, ClassesTypeOK
<1>2. TypeOK'
  BY <1>1 DEF TypeOK, ItemsTypeOK, ClassesTypeOK
<1>3. \A d \in Classes : classes'[d].live =>
          classes[d].live /\ classes'[d].obj.items = classes[d].obj.items
  BY <1>1
<1>4. ItemsExist'
  BY <1>3 DEF ItemsExist
<1>5. NoTwoShareKey'
  BY <1>3 DEF NoTwoShareKey
<1> QED BY <1>2, <1>4, <1>5

\* What the webhook of a class has made sure of.
LEMMA ClassAdmitted ==
    ASSUME WebhooksEnabled, NEW set \in SUBSET Items, AdmitsClass(set)
    PROVE  /\ set # {}
           /\ \A i \in set \ OldItems : items[i].live
           /\ \A i, j \in set \ OldItems : i # j =>
                 KeyOf[items[i].obj.template] # KeyOf[items[j].obj.template]
BY DEF AdmitsClass, Readable, Conflict, KeyOfItem, OldItems

-----------------------------------------------------------------------------
(***************************************************************************)
(* The steps                                                               *)
(***************************************************************************)
LEMMA SoundInit == Init => Sound
BY NoneTypes DEF Init, Sound, TypeOK, ItemsTypeOK, ClassesTypeOK, ItemsExist, NoTwoShareKey

LEMMA ItemsStep ==
    ASSUME Sound, WebhooksEnabled, UNCHANGED <<classCache, itemCache>>,
           NEW i \in Items, WriteItem(i)
    PROVE  Sound'
<1> USE DEF Sound
<1>1. items[i] \in Slot(NamespaceClassItem)
  BY DEF TypeOK, ItemsTypeOK
<1>2. ASSUME NEW t \in Templates, CreateItem(i, t), UNCHANGED raced
      PROVE  Sound'
  <2> DEFINE obj == [gen |-> 1, template |-> t, obs |-> 0, refs |-> {}]
             new == Created(items[i], obj)
             missed == {c \in Classes : <<c, i>> \in raced}
  <2>1. obj \in NamespaceClassItem
    BY DEF NamespaceClassItem
  <2>2. new \in Slot(NamespaceClassItem) /\ new.obj = obj /\ new.live
    BY <1>1, <2>1, SlotTypes, SlotHolds
  <2>3. new.obj.template \in Parses
    BY <1>2, <2>2 DEF CreateItem, AdmitsItem, DryRunPasses
  <2>4. Holding(i) \ missed = {}
    BY <1>2 DEF CreateItem, ItemsExist, Holding, Lists
  <2>5. items' = [items EXCEPT ![i] = new] /\ UNCHANGED classes
    BY <1>2 DEF CreateItem
  <2>6. ItemChecked(i, missed)
    <3>1. raced \subseteq Classes \X Items
      BY DEF TypeOK
    <3>2. raced = {p \in raced : p[2] # i} \cup (missed \X {i})
      BY <3>1
    <3> QED BY <1>2, <3>2 DEF ItemChecked
  <2> HIDE DEF obj, new
  <2> QED BY <2>2, <2>3, <2>4, <2>5, <2>6, ItemWritten
<1>3. ASSUME NEW t \in Templates, EditItem(i, t), ItemChecked(i, Overlooked(i))
      PROVE  Sound'
  <2> DEFINE old == items[i].obj
             obj == [gen |-> old.gen + 1, template |-> t, obs |-> old.obs,
                     refs |-> old.refs]
             new == Updated(items[i], obj)
  <2>1. old \in NamespaceClassItem /\ items[i].live
    BY <1>1, <1>3 DEF Slot, EditItem
  <2>2. items' = [items EXCEPT ![i] = new] /\ UNCHANGED classes
    BY <1>3 DEF EditItem
  <2>3. obj \in NamespaceClassItem /\ obj.template = t
    BY <2>1 DEF NamespaceClassItem
  <2>4. new \in Slot(NamespaceClassItem) /\ new.obj = obj /\ new.live
    <3>1. ASSUME NEW o \in NamespaceClassItem
          PROVE  /\ Updated(items[i], o) \in Slot(NamespaceClassItem)
                 /\ Updated(items[i], o).obj = o
      BY <1>1, SlotTypes, SlotHolds
    <3>2. ASSUME NEW o \in NamespaceClassItem
          PROVE  Updated(items[i], o).live
      BY <1>1, <2>1, UpdatedLives
    <3> QED BY <2>3, <3>1, <3>2
  <2>5. new.obj.template = t /\ t \in Parses
    BY <1>3, <2>3, <2>4 DEF EditItem, AdmitsItemUpdate, AdmitsItem, DryRunPasses
  <2>6. ASSUME NEW c \in Holding(i) \ Overlooked(i),
               NEW j \in classes[c].obj.items \ {i}, items[j].live
        PROVE  KeyOf[items[j].obj.template] # KeyOf[new.obj.template]
    <3>1. c \in Classes /\ classCache[c] = classes[c] /\ j \notin OldItems
      BY <2>6 DEF Holding, Overlooked, OldClasses
    <3>2. j \in Items
      BY <3>1 DEF TypeOK, ClassesTypeOK, Slot, NamespaceClass
    <3>3. itemCache[j] = items[j]
      BY <3>1, <3>2 DEF OldItems
    <3> QED BY <1>3, <2>5, <2>6, <3>1, <3>3 DEF EditItem, AdmitsItemUpdate, Holding, Lists, KeyOfItem
  <2>7. Overlooked(i) \in SUBSET Classes
    BY DEF Overlooked, Holding
  <2> HIDE DEF obj, new
  <2>8. new.live => new.obj.template \in Parses
    BY <2>5
  <2>9. \A c \in Holding(i) \ Overlooked(i) :
            /\ new.live
            /\ \A j \in classes[c].obj.items \ {i} : items[j].live =>
                  KeyOf[items[j].obj.template] # KeyOf[new.obj.template]
    BY <2>4, <2>6
  <2> QED BY <1>3, <2>2, <2>4, <2>7, <2>8, <2>9, ItemWritten
<1>4. ASSUME DeleteItem(i), ItemChecked(i, Holding(i) \cap OldClasses)
      PROVE  Sound'
  <2> DEFINE new == Deleted(items[i], NoItem)
             missed == Holding(i) \cap OldClasses
  <2>1. new \in Slot(NamespaceClassItem) /\ ~new.live
    BY <1>1, NoneTypes, SlotTypes, SlotHolds
  <2>2. Holding(i) \ missed = {}
    BY <1>4 DEF DeleteItem, AdmitsItemDelete, Holding, OldClasses
  <2>3. items' = [items EXCEPT ![i] = new] /\ UNCHANGED classes
    BY <1>4 DEF DeleteItem
  <2>4. missed \in SUBSET Classes
    BY DEF Holding
  <2>5. ItemChecked(i, missed)
    BY <1>4
  <2> HIDE DEF new, missed
  <2> QED BY <2>1, <2>2, <2>3, <2>4, <2>5, ItemWritten
<1> QED BY <1>2, <1>3, <1>4 DEF WriteItem

LEMMA ClassesStep ==
    ASSUME Sound, WebhooksEnabled, UNCHANGED <<classCache, itemCache>>,
           NEW c \in Classes, WriteClass(c)
    PROVE  Sound'
<1> USE DEF Sound
<1>1. classes[c] \in Slot(NamespaceClass)
  BY DEF TypeOK, ClassesTypeOK
<1>2. ASSUME NEW set \in SUBSET Items, CreateClass(c, set), ClassChecked(c, set \cap OldItems)
      PROVE  Sound'
  <2> DEFINE obj == [items |-> set, finalizer |-> FALSE, deleting |-> FALSE,
                     itemUpdated |-> FALSE]
             new == Created(classes[c], obj)
  <2>1. obj \in NamespaceClass /\ obj.items = set
    BY DEF NamespaceClass
  <2>2. new \in Slot(NamespaceClass) /\ new.obj = obj
    BY <1>1, <2>1, SlotTypes, SlotHolds
  <2>3. classes' = [classes EXCEPT ![c] = new] /\ UNCHANGED items /\ AdmitsClass(set)
    BY <1>2 DEF CreateClass
  <2> HIDE DEF obj, new
  <2> QED BY <1>2, <2>1, <2>2, <2>3, ClassAdmitted, ClassWritten
<1>3. ASSUME NEW set \in SUBSET Items, EditClass(c, set), ClassChecked(c, set \cap OldItems)
      PROVE  Sound'
  <2> DEFINE obj == [classes[c].obj EXCEPT !.items = set]
             new == Updated(classes[c], obj)
  <2>1. obj \in NamespaceClass /\ obj.items = set
    BY <1>1 DEF Slot, NamespaceClass
  <2>2. new \in Slot(NamespaceClass) /\ new.obj = obj
    BY <1>1, <2>1, SlotTypes, SlotHolds
  <2>3. classes' = [classes EXCEPT ![c] = new] /\ UNCHANGED items /\ AdmitsClass(set)
    BY <1>3 DEF EditClass
  <2> HIDE DEF obj, new
  <2> QED BY <1>3, <2>1, <2>2, <2>3, ClassAdmitted, ClassWritten
<1>4. ASSUME DeleteClass(c), UNCHANGED raced
      PROVE  Sound'
  <2> DEFINE obj == [classes[c].obj EXCEPT !.deleting = TRUE]
             new == IF classes[c].obj.finalizer THEN Updated(classes[c], obj)
                    ELSE Deleted(classes[c], NoClassObject)
  <2>1. obj \in NamespaceClass /\ obj.items = classes[c].obj.items
    BY <1>1 DEF Slot, NamespaceClass
  <2>2. new \in Slot(NamespaceClass) /\ (new.live => new.obj.items = classes[c].obj.items)
    <3>1. ASSUME NEW o \in NamespaceClass
          PROVE  Updated(classes[c], o) \in Slot(NamespaceClass)
                 /\ Updated(classes[c], o).obj = o
      BY <1>1, SlotTypes, SlotHolds
    <3>2. CASE classes[c].obj.finalizer
      BY <2>1, <3>1, <3>2
    <3>3. CASE ~classes[c].obj.finalizer
      BY <1>1, <3>3, NoneTypes, SlotTypes, SlotHolds
    <3> QED BY <3>2, <3>3
  <2>3. classes' = [classes EXCEPT ![c] = new] /\ UNCHANGED items /\ classes[c].live
    BY <1>4 DEF DeleteClass
  <2> HIDE DEF obj, new
  <2> QED BY <1>4, <2>2, <2>3, ClassRewritten
<1> QED BY <1>2, <1>3, <1>4 DEF WriteClass

LEMMA SoundStep ==
    ASSUME WebhooksEnabled, Sound, [Next]_vars
    PROVE  Sound'
<1>1. CASE Users
  BY <1>1, ItemsStep, ClassesStep DEF Users
<1>2. CASE SyncItems
  BY <1>2 DEF SyncItems, Sound, TypeOK, ItemsTypeOK, ClassesTypeOK, ItemsExist,
              NoTwoShareKey, classStore
<1>3. CASE SyncClasses
  BY <1>3 DEF SyncClasses, Sound, TypeOK, ItemsTypeOK, ClassesTypeOK, ItemsExist,
              NoTwoShareKey, itemStore
<1>4. CASE UNCHANGED vars
  BY <1>4 DEF vars, Sound, TypeOK, ItemsTypeOK, ClassesTypeOK, ItemsExist,
              NoTwoShareKey, classStore, itemStore
<1> QED BY <1>1, <1>2, <1>3, <1>4 DEF Next

-----------------------------------------------------------------------------
LEMMA SoundHolds ==
    ASSUME WebhooksEnabled
    PROVE  Spec => []Sound
<1>1. Init => Sound
  BY SoundInit
<1>2. Sound /\ [Next]_vars => Sound'
  BY SoundStep
<1> QED
  BY <1>1, <1>2, PTL DEF Spec

\* However old the webhooks' copies are, every class lists something and every item can
\* be read (namespaceclass_webhook.go:122, namespaceclassitem_webhook.go:139-166).
THEOREM AdmissionTypes ==
    ASSUME WebhooksEnabled
    PROVE  Spec => []TypeOK
<1>1. Sound => TypeOK
  BY DEF Sound
<1> QED
  BY <1>1, SoundHolds, PTL

\* Every class lists items that exist, but for those written at once with the class
\* (namespaceclass_webhook.go:131-135, namespaceclassitem_webhook.go:124-134).
THEOREM ListedItemsExist ==
    ASSUME WebhooksEnabled
    PROVE  Spec => []ItemsExist
<1>1. Sound => ItemsExist
  BY DEF Sound
<1> QED
  BY <1>1, SoundHolds, PTL

\* And items of different keys, but for those written at once with the class or with one
\* another, whatever is edited later
\* (namespaceclass_webhook.go:151-158, namespaceclassitem_webhook.go:168-234).
THEOREM ListedItemsDiffer ==
    ASSUME WebhooksEnabled
    PROVE  Spec => []NoTwoShareKey
<1>1. Sound => NoTwoShareKey
  BY DEF Sound
<1> QED
  BY <1>1, SoundHolds, PTL
=============================================================================
