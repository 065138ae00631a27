--------------------------- MODULE OperatorProofs ---------------------------
(***************************************************************************)
(* Proofs about Operator, for any set of namespaces, classes, items and    *)
(* templates, any start, any lag of the caches, any failures and restarts: *)
(* how a class and its items come to know each other and part.             *)
(***************************************************************************)
EXTENDS Operator, ApiObjectsProofs

\* What these proofs are about; whatever else there is stays out of them.
sideVars == <<classes, classCache, items, itemCache, classWorker, itemWorker>>

\* The calls of the class reconciler that hold these copies of NamespaceStates.
ClCallWith(seen) ==
    [pc : {"idle", "addFinalizer", "list", "update", "addRef", "release", "dropRef"},
     key : Classes, class : Slot(NamespaceClass), marks : SUBSET Namespaces,
     seen : {seen}, todo : SUBSET Items, at : Items, item : Slot(NamespaceClassItem)]

SidesTypeOK ==
    /\ ClassesTypeOK
    /\ ItemsTypeOK
    /\ classWorker \in ClCallWith(classWorker.seen)
    /\ itemWorker \in ItCall

-----------------------------------------------------------------------------
(***************************************************************************)
(* Values                                                                  *)
(***************************************************************************)
LEMMA NoneTypes ==
    /\ NoItem \in NamespaceClassItem /\ Vacant(NoItem) \in Slot(NamespaceClassItem)
    /\ NoClassObject \in NamespaceClass /\ Vacant(NoClassObject) \in Slot(NamespaceClass)
BY TemplatesAssumption DEF NoItem, NamespaceClassItem, NoClassObject, NamespaceClass, Slot, Vacant

\* A call that has only begun.
LEMMA ClAtTypes ==
    ASSUME NEW c \in Classes, NEW class \in Slot(NamespaceClass), NEW todo \in SUBSET Items,
           NEW pc \in {"idle", "addFinalizer", "list", "update", "release"}
    PROVE  LET w == ClAt(pc, c, class, todo)
           IN  /\ w \in ClCallWith(w.seen)
               /\ w.pc = pc /\ w.key = c /\ w.class = class /\ w.todo = todo
<1>1. (CHOOSE i \in Items : TRUE) \in Items
  BY StartAssumption
<1> QED
  BY <1>1, NoneTypes DEF ClAt, ClCallWith

LEMMA ClIdleTypes == ClIdle \in ClCallWith(ClIdle.seen) /\ ClIdle.pc = "idle"
<1>1. (CHOOSE c \in Classes : TRUE) \in Classes
  BY StartAssumption
<1> QED
  BY <1>1, NoneTypes, ClAtTypes DEF ClIdle

LEMMA ItAtTypes ==
    ASSUME NEW i \in Items, NEW item \in Slot(NamespaceClassItem), NEW todo \in SUBSET Classes,
           NEW pc \in {"idle", "observe", "announce"}
    PROVE  LET w == ItAt(pc, i, item, todo)
           IN  w \in ItCall /\ w.pc = pc /\ w.key = i /\ w.item = item
<1>1. (CHOOSE c \in Classes : TRUE) \in Classes
  BY StartAssumption
<1> QED
  BY <1>1, NoneTypes DEF ItAt, ItCall

LEMMA ItIdleTypes == ItIdle \in ItCall /\ ItIdle.pc = "idle"
<1>1. (CHOOSE i \in Items : TRUE) \in Items
  BY StartAssumption
<1> QED
  BY <1>1, NoneTypes, ItAtTypes DEF ItIdle

-----------------------------------------------------------------------------
(***************************************************************************)
(* What a step does to the classes and items                               *)
(***************************************************************************)
UserWrite ==
    /\ \/ \E i \in Items : \/ \E t \in Templates : CreateItem(i, t) \/ EditItem(i, t)
                           \/ DeleteItem(i)
       \/ \E c \in Classes : \/ \E set \in SUBSET Items : CreateClass(c, set) \/ EditClass(c, set)
                             \/ DeleteClass(c)
    /\ UNCHANGED <<classCache, itemCache, classWorker, itemWorker>>

Sync ==
    /\ \/ classCache' = classes /\ UNCHANGED itemCache
       \/ itemCache' = items /\ UNCHANGED classCache
    /\ UNCHANGED <<classes, items, classWorker, itemWorker>>

ClSide == ClReconcile /\ UNCHANGED <<classCache, itemCache, itemWorker>>

ItSide == ItReconcile /\ UNCHANGED <<classCache, itemCache, classWorker>>

\* A call is given up, by one reconciler or by both with the manager.
GivenUp ==
    /\ \/ classWorker' = ClIdle /\ UNCHANGED <<itemWorker, classCache, itemCache>>
       \/ itemWorker' = ItIdle /\ UNCHANGED <<classWorker, classCache, itemCache>>
       \/ /\ classWorker' = ClIdle /\ itemWorker' = ItIdle
          /\ classCache' = classes /\ itemCache' = items
    /\ UNCHANGED <<classes, items>>

LEMMA NextSides ==
    ASSUME [Next]_vars
    PROVE  UserWrite \/ Sync \/ ClSide \/ ItSide \/ GivenUp \/ UNCHANGED sideVars
<1> USE DEF sideVars, classStore, itemStore, clVars, itVars
<1>1. CASE Users
  <2>1. CASE UNCHANGED <<items, classes>>
    BY <1>1, <2>1 DEF Users
  <2>2. CASE ~UNCHANGED <<items, classes>>
    <3>1. UNCHANGED <<classCache, itemCache, classWorker, itemWorker>>
      BY <1>1 DEF Users
    <3>2. ASSUME NEW c \in Classes, NEW set \in ItemsWanted[c]
          PROVE  set \in SUBSET Items
      BY <3>2, StartAssumption
    <3> QED BY <1>1, <2>2, <3>1, <3>2 DEF Users, UserWrite
  <2> QED BY <2>1, <2>2
<1>2. CASE Kubernetes
  BY <1>2 DEF Kubernetes
<1>3. CASE SyncNamespaces \/ SyncStates \/ SyncInstances
  BY <1>3 DEF SyncNamespaces, SyncStates, SyncInstances
<1>4. CASE SyncClasses \/ SyncItems
  BY <1>4 DEF SyncClasses, SyncItems, Sync
<1>5. CASE NsStep \/ StateStep \/ InstanceStep
  BY <1>5 DEF NsStep, StateStep, InstanceStep
<1>6. CASE ClassStep
  BY <1>6 DEF ClassStep, ClSide
<1>7. CASE ItemStep
  BY <1>7 DEF ItemStep, ItSide
<1>8. CASE Fault
  <2>1. UNCHANGED <<classCache, itemCache>>
    BY <1>8 DEF Fault
  <2>2. CASE UNCHANGED <<classes, items, clVars, itVars>>
    BY <2>1, <2>2
  <2>3. CASE ClCallFails /\ UNCHANGED itVars
    BY <2>1, <2>3 DEF ClCallFails, ClRequeue, GivenUp
  <2>4. CASE ItCallFails /\ UNCHANGED clVars
    BY <2>1, <2>4 DEF ItCallFails, ItRequeue, GivenUp
  <2> QED BY <1>8, <2>2, <2>3, <2>4 DEF Fault
<1>9. CASE Restart
  BY <1>9 DEF Restart, GivenUp
<1>10. CASE Resync
  BY <1>10 DEF Resync, stores
<1>11. CASE UNCHANGED vars
  BY <1>11 DEF vars, stores
<1> QED
  BY <1>1, <1>2, <1>3, <1>4, <1>5, <1>6, <1>7, <1>8, <1>9, <1>10, <1>11 DEF Next

-----------------------------------------------------------------------------
(***************************************************************************)
(* Types, and how a step of the users, the informers or the manager        *)
(* changes classes and items                                               *)
(***************************************************************************)
LEMMA InitTypes ==
    ASSUME Init
    PROVE  /\ SidesTypeOK
           /\ classCache = classes /\ itemCache = items
           /\ classWorker.pc = "idle" /\ itemWorker.pc = "idle"
           /\ \A i \in Items : items[i].live
<1>1. PICK start \in Starts :
          /\ classes = [c \in Classes |-> FirstClass(c, start)] /\ classCache = classes
          /\ items = [i \in Items |-> FirstItem(i, start)] /\ itemCache = items
          /\ classWorker = ClIdle /\ itemWorker = ItIdle
  BY DEF Init
<1>2. ASSUME NEW c \in Classes
      PROVE  FirstClass(c, start) \in Slot(NamespaceClass)
  BY StartAssumption, NoneTypes DEF FirstClass, First, Slot, NamespaceClass
<1>3. ASSUME NEW i \in Items
      PROVE  FirstItem(i, start) \in Slot(NamespaceClassItem) /\ FirstItem(i, start).live
  BY StartAssumption DEF FirstItem, First, Slot, NamespaceClassItem
<1> QED
  BY <1>1, <1>2, <1>3, ClIdleTypes, ItIdleTypes DEF SidesTypeOK, ClassesTypeOK, ItemsTypeOK

LEMMA Written ==
    ASSUME SidesTypeOK, UNCHANGED <<classCache, itemCache>>
    PROVE  /\ \A i \in Items, new \in Slot(NamespaceClassItem) :
                 items' = [items EXCEPT ![i] = new] =>
                     /\ ItemsTypeOK' /\ items'[i] = new
                     /\ \A j \in Items \ {i} : items'[j] = items[j]
           /\ \A c \in Classes, new \in Slot(NamespaceClass) :
                 classes' = [classes EXCEPT ![c] = new] =>
                     /\ ClassesTypeOK' /\ classes'[c] = new
                     /\ \A d \in Classes \ {c} : classes'[d] = classes[d]
           /\ UNCHANGED items => ItemsTypeOK'
           /\ UNCHANGED classes => ClassesTypeOK'
BY DEF SidesTypeOK, ItemsTypeOK, ClassesTypeOK

\* What users may do to an item, and to a class.
ItemGoesOn(old, new) ==
    /\ Later(old, new)
    /\ new.obj.refs \subseteq old.obj.refs
    /\ new.obj.refs # {} /\ old.live => new.live

ClassGoesOn(old, new) ==
    /\ Later(old, new)
    /\ HasFinalizer(old) => HasFinalizer(new)

LEMMA UserTypes ==
    ASSUME SidesTypeOK, UserWrite
    PROVE  /\ SidesTypeOK'
           /\ \A i \in Items : ItemGoesOn(items[i], items'[i])
           /\ \A c \in Classes : ClassGoesOn(classes[c], classes'[c])
<1>1. /\ \A i \in Items : items[i] \in Slot(NamespaceClassItem)
      /\ \A c \in Classes : classes[c] \in Slot(NamespaceClass)
      /\ UNCHANGED <<classCache, itemCache, classWorker, itemWorker>>
  BY DEF SidesTypeOK, ItemsTypeOK, ClassesTypeOK, UserWrite
<1>2. /\ \A i \in Items : ItemGoesOn(items[i], items[i])
      /\ \A c \in Classes : ClassGoesOn(classes[c], classes[c])
  BY DEF ItemGoesOn, ClassGoesOn, Later
<1>3. ASSUME NEW i \in Items, NEW new \in Slot(NamespaceClassItem), UNCHANGED classes,
             items' = [items EXCEPT ![i] = new], ItemGoesOn(items[i], new)
      PROVE  /\ SidesTypeOK'
             /\ \A j \in Items : ItemGoesOn(items[j], items'[j])
             /\ \A c \in Classes : ClassGoesOn(classes[c], classes'[c])
  <2>1. ItemsTypeOK' /\ ClassesTypeOK'
    BY <1>1, <1>3, Written
  <2>2. items'[i] = new /\ \A j \in Items \ {i} : items'[j] = items[j]
    BY <1>1, <1>3, Written
  <2>3. SidesTypeOK'
    BY <1>1, <2>1 DEF SidesTypeOK
  <2> QED BY <1>2, <1>3, <2>2, <2>3
<1>4. ASSUME NEW c \in Classes, NEW new \in Slot(NamespaceClass), UNCHANGED items,
             classes' = [classes EXCEPT ![c] = new], ClassGoesOn(classes[c], new)
      PROVE  /\ SidesTypeOK'
             /\ \A i \in Items : ItemGoesOn(items[i], items'[i])
             /\ \A d \in Classes : ClassGoesOn(classes[d], classes'[d])
  <2>1. ItemsTypeOK' /\ ClassesTypeOK'
    BY <1>1, <1>4, Written
  <2>2. classes'[c] = new /\ \A d \in Classes \ {c} : classes'[d] = classes[d]
    BY <1>1, <1>4, Written
  <2>3. SidesTypeOK'
    BY <1>1, <2>1 DEF SidesTypeOK
  <2> QED BY <1>2, <1>4, <2>2, <2>3
<1>5. ASSUME NEW i \in Items, NEW t \in Templates, CreateItem(i, t)
      PROVE  \E new \in Slot(NamespaceClassItem) :
                 items' = [items EXCEPT ![i] = new] /\ ItemGoesOn(items[i], new)
  <2> DEFINE obj == [gen |-> 1, template |-> t, obs |-> 0, refs |-> {}]
             new == Created(items[i], obj)
  <2>1. obj \in NamespaceClassItem /\ obj.refs = {}
    BY DEF NamespaceClassItem
  <2>2. items' = [items EXCEPT ![i] = new]
    BY <1>5 DEF CreateItem
  <2> HIDE DEF obj
  <2>3. new \in Slot(NamespaceClassItem) /\ new.obj = obj /\ Later(items[i], new)
    BY <1>1, <2>1, SlotTypes, SlotHolds, WritesGrow
  <2> QED BY <2>1, <2>2, <2>3 DEF ItemGoesOn
<1>6. ASSUME NEW i \in Items, NEW t \in Templates, EditItem(i, t)
      PROVE  \E new \in Slot(NamespaceClassItem) :
                 items' = [items EXCEPT ![i] = new] /\ ItemGoesOn(items[i], new)
  <2> DEFINE old == items[i].obj
             obj == [gen |-> old.gen + 1, template |-> t, obs |-> old.obs, refs |-> old.refs]
             new == Updated(items[i], obj)
  <2>1. old \in NamespaceClassItem
    BY <1>1 DEF Slot
  <2>2. obj \in NamespaceClassItem /\ obj.refs = old.refs
    BY <2>1 DEF NamespaceClassItem
  <2>3. items[i].live /\ items' = [items EXCEPT ![i] = new]
    BY <1>6 DEF EditItem
  <2> HIDE DEF obj
  <2>4. new \in Slot(NamespaceClassItem) /\ new.obj = obj /\ Later(items[i], new)
    BY <1>1, <2>2, SlotTypes, SlotHolds, WritesGrow
  <2>5. new.live
    BY <1>1, <2>2, <2>3, UpdatedLives
  <2> HIDE DEF new
  <2> QED BY <2>2, <2>3, <2>4, <2>5 DEF ItemGoesOn
<1>7. ASSUME NEW i \in Items, DeleteItem(i)
      PROVE  \E new \in Slot(NamespaceClassItem) :
                 items' = [items EXCEPT ![i] = new] /\ ItemGoesOn(items[i], new)
  <2> DEFINE new == Deleted(items[i], NoItem)
  <2>1. items' = [items EXCEPT ![i] = new]
    BY <1>7 DEF DeleteItem
  <2>2. new \in Slot(NamespaceClassItem) /\ new.obj = NoItem /\ Later(items[i], new)
    BY <1>1, NoneTypes, SlotTypes, SlotHolds, WritesGrow
  <2>3. NoItem.refs = {}
    BY DEF NoItem
  <2> QED BY <2>1, <2>2, <2>3 DEF ItemGoesOn
<1>8. ASSUME NEW c \in Classes, NEW set \in SUBSET Items, CreateClass(c, set)
      PROVE  \E new \in Slot(NamespaceClass) :
                 classes' = [classes EXCEPT ![c] = new] /\ ClassGoesOn(classes[c], new)
  <2> DEFINE obj == [items |-> set, finalizer |-> FALSE, deleting |-> FALSE,
                     itemUpdated |-> FALSE]
             new == Created(classes[c], obj)
  <2>1. obj \in NamespaceClass
    BY DEF NamespaceClass
  <2>2. ~classes[c].live /\ classes' = [classes EXCEPT ![c] = new]
    BY <1>8 DEF CreateClass
  <2> HIDE DEF obj
  <2>3. new \in Slot(NamespaceClass) /\ Later(classes[c], new)
    BY <1>1, <2>1, SlotTypes, WritesGrow
  <2> QED BY <2>2, <2>3 DEF ClassGoesOn, HasFinalizer
<1>9. ASSUME NEW c \in Classes, NEW set \in SUBSET Items, EditClass(c, set)
      PROVE  \E new \in Slot(NamespaceClass) :
                 classes' = [classes EXCEPT ![c] = new] /\ ClassGoesOn(classes[c], new)
  <2> DEFINE old == classes[c].obj
             obj == [old EXCEPT !.items = set]
             new == Updated(classes[c], obj)
  <2>1. old \in NamespaceClass
    BY <1>1 DEF Slot
  <2>2. obj \in NamespaceClass /\ obj.finalizer = old.finalizer
    BY <2>1 DEF NamespaceClass
  <2>3. classes[c].live /\ classes' = [classes EXCEPT ![c] = new]
    BY <1>9 DEF EditClass
  <2> HIDE DEF obj
  <2>4. new \in Slot(NamespaceClass) /\ new.obj = obj /\ Later(classes[c], new)
    BY <1>1, <2>2, SlotTypes, SlotHolds, WritesGrow
  <2>5. new.live
    BY <1>1, <2>2, <2>3, UpdatedLives
  <2> HIDE DEF new
  <2> QED BY <2>2, <2>3, <2>4, <2>5 DEF ClassGoesOn, HasFinalizer
<1>10. ASSUME NEW c \in Classes, DeleteClass(c)
       PROVE  \E new \in Slot(NamespaceClass) :
                  classes' = [classes EXCEPT ![c] = new] /\ ClassGoesOn(classes[c], new)
  <2>1. CASE classes[c].obj.finalizer
    <3> DEFINE old == classes[c].obj
               obj == [old EXCEPT !.deleting = TRUE]
               new == Updated(classes[c], obj)
    <3>1. old \in NamespaceClass
      BY <1>1 DEF Slot
    <3>2. obj \in NamespaceClass /\ obj.finalizer = old.finalizer
      BY <3>1 DEF NamespaceClass
    <3>3. classes[c].live /\ classes' = [classes EXCEPT ![c] = new]
      BY <1>10, <2>1 DEF DeleteClass
    <3> HIDE DEF obj
    <3>4. new \in Slot(NamespaceClass) /\ new.obj = obj /\ Later(classes[c], new)
      BY <1>1, <3>2, SlotTypes, SlotHolds, WritesGrow
    <3>5. new.live
      BY <1>1, <3>2, <3>3, UpdatedLives
    <3> HIDE DEF new
    <3> QED BY <3>2, <3>3, <3>4, <3>5 DEF ClassGoesOn, HasFinalizer
  <2>2. CASE ~classes[c].obj.finalizer
    <3> DEFINE new == Deleted(classes[c], NoClassObject)
    <3>1. classes' = [classes EXCEPT ![c] = new]
      BY <1>10, <2>2 DEF DeleteClass
    <3>2. new \in Slot(NamespaceClass) /\ Later(classes[c], new)
      BY <1>1, NoneTypes, SlotTypes, WritesGrow
    <3> QED BY <2>2, <3>1, <3>2 DEF ClassGoesOn, HasFinalizer
  <2> QED BY <2>1, <2>2
<1>11. CASE \E i \in Items : \/ \E t \in Templates : CreateItem(i, t) \/ EditItem(i, t)
                             \/ DeleteItem(i)
  <2>1. UNCHANGED classes
    BY <1>11 DEF CreateItem, EditItem, DeleteItem
  <2> QED BY <1>3, <1>5, <1>6, <1>7, <1>11, <2>1
<1>12. CASE \E c \in Classes : \/ \E set \in SUBSET Items : CreateClass(c, set) \/ EditClass(c, set)
                               \/ DeleteClass(c)
  <2>1. UNCHANGED items
    BY <1>12 DEF CreateClass, EditClass, DeleteClass
  <2> QED BY <1>4, <1>8, <1>9, <1>10, <1>12, <2>1
<1> QED BY <1>11, <1>12 DEF UserWrite

-----------------------------------------------------------------------------
(***************************************************************************)
(* The parts of ListingSound, and what keeps each of them                  *)
(***************************************************************************)
StoresSound ==
    /\ \A c \in Classes : Fresh(classCache[c], classes[c])
    /\ \A i \in Items : Fresh(itemCache[i], items[i])
    /\ \A c \in Classes :
          HasFinalizer(classCache[c]) /\ ~classCache[c].obj.deleting =>
              HasFinalizer(classes[c])
    /\ \A i \in Items : items[i].obj.refs # {} => items[i].live /\ itemCache[i].live

ClassWorkerSound ==
    LET w == classWorker
    IN
    /\ w.pc # "idle" => Fresh(w.class, classes[w.key])
    /\ w.pc \in {"addRef", "dropRef"} =>
          Fresh(w.item, items[w.at]) /\ w.item.rv <= itemCache[w.at].rv
    /\ w.pc \in {"list", "update", "addRef"} => HasFinalizer(classes[w.key])
    /\ w.pc \in {"release", "dropRef"} =>
          /\ w.class.obj.deleting /\ w.class.rv <= classCache[w.key].rv
          /\ \A i \in w.class.obj.items \ w.todo : w.key \notin items[i].obj.refs

ItemWorkerSound ==
    LET w == itemWorker
    IN
    /\ w.pc = "observe" => Fresh(w.item, items[w.key])
    /\ w.pc = "annotate" => Fresh(w.class, classes[w.at])

LEMMA Parts == ListingSound <=> StoresSound /\ ClassWorkerSound /\ ItemWorkerSound
BY DEF ListingSound, CopiesOK, HeldOK, RefsOK, StoresSound, ClassWorkerSound, ItemWorkerSound

LEMMA Slots ==
    ASSUME SidesTypeOK
    PROVE  /\ \A i \in Items : /\ items[i] \in Slot(NamespaceClassItem)
                               /\ itemCache[i] \in Slot(NamespaceClassItem)
                               /\ items[i].rv \in Nat /\ itemCache[i].rv \in Nat
           /\ \A c \in Classes : /\ classes[c] \in Slot(NamespaceClass)
                                 /\ classCache[c] \in Slot(NamespaceClass)
                                 /\ classes[c].rv \in Nat /\ classCache[c].rv \in Nat
BY DEF SidesTypeOK, ItemsTypeOK, ClassesTypeOK, Slot

LEMMA ClassCall ==
    ASSUME SidesTypeOK
    PROVE  LET w == classWorker
           IN  /\ w.key \in Classes /\ w.at \in Items
               /\ w.class \in Slot(NamespaceClass) /\ w.class.rv \in Nat
               /\ w.class.obj \in NamespaceClass /\ w.class.obj.items \in SUBSET Items
               /\ w.item \in Slot(NamespaceClassItem) /\ w.item.rv \in Nat
               /\ w.item.obj \in NamespaceClassItem /\ w.item.obj.refs \in SUBSET Classes
               /\ w.todo \in SUBSET Items /\ w.marks \in SUBSET Namespaces
BY DEF SidesTypeOK, ClCallWith, Slot, NamespaceClass, NamespaceClassItem

LEMMA ItemCall ==
    ASSUME SidesTypeOK
    PROVE  LET w == itemWorker
           IN  /\ w.key \in Items /\ w.at \in Classes
               /\ w.class \in Slot(NamespaceClass) /\ w.class.rv \in Nat
               /\ w.class.obj \in NamespaceClass
               /\ w.item \in Slot(NamespaceClassItem) /\ w.item.rv \in Nat
               /\ w.item.obj \in NamespaceClassItem /\ w.item.obj.refs \in SUBSET Classes
BY DEF SidesTypeOK, ItCall, Slot, NamespaceClass, NamespaceClassItem

LEMMA StoresKept ==
    ASSUME SidesTypeOK, SidesTypeOK', StoresSound,
           classCache' = classCache \/ classCache' = classes',
           itemCache' = itemCache \/ itemCache' = items',
           \A i \in Items : ItemGoesOn(items[i], items'[i]),
           \A c \in Classes : ClassGoesOn(classes[c], classes'[c])
    PROVE  StoresSound'
<1>1. ASSUME NEW c \in Classes
      PROVE  Fresh(classCache'[c], classes'[c])
  <2>1. Fresh(classCache[c], classes[c]) /\ Later(classes[c], classes'[c])
    BY DEF StoresSound, ClassGoesOn
  <2> QED BY <2>1, Slots, CachedStays DEF SidesTypeOK, ClassesTypeOK
<1>2. ASSUME NEW i \in Items
      PROVE  Fresh(itemCache'[i], items'[i])
  <2>1. Fresh(itemCache[i], items[i]) /\ Later(items[i], items'[i])
    BY DEF StoresSound, ItemGoesOn
  <2> QED BY <2>1, Slots, CachedStays DEF SidesTypeOK, ItemsTypeOK
<1>3. ASSUME NEW c \in Classes,
             HasFinalizer(classCache'[c]), ~classCache'[c].obj.deleting
      PROVE  HasFinalizer(classes'[c])
  BY <1>3 DEF StoresSound, ClassGoesOn
<1>4. ASSUME NEW i \in Items, items'[i].obj.refs # {}
      PROVE  items'[i].live /\ itemCache'[i].live
  <2>1. items'[i].obj.refs \subseteq items[i].obj.refs
    BY DEF ItemGoesOn
  <2>2. items[i].live /\ itemCache[i].live
    BY <1>4, <2>1 DEF StoresSound
  <2>3. items'[i].live
    BY <1>4, <2>2 DEF ItemGoesOn
  <2> QED BY <2>2, <2>3
<1> QED BY <1>1, <1>2, <1>3, <1>4 DEF StoresSound

LEMMA ClassWorkerKept ==
    ASSUME SidesTypeOK, SidesTypeOK', StoresSound, ClassWorkerSound, UNCHANGED classWorker,
           classCache' = classCache \/ classCache' = classes',
           itemCache' = itemCache \/ itemCache' = items',
           \A i \in Items : ItemGoesOn(items[i], items'[i]),
           \A c \in Classes : ClassGoesOn(classes[c], classes'[c])
    PROVE  ClassWorkerSound'
<1> DEFINE w == classWorker
<1>1. /\ w.key \in Classes /\ w.at \in Items
      /\ w.class \in Slot(NamespaceClass) /\ w.class.rv \in Nat
      /\ w.item \in Slot(NamespaceClassItem) /\ w.item.rv \in Nat
      /\ w.class.obj.items \in SUBSET Items
  BY ClassCall
<1>2. /\ classes[w.key] \in Slot(NamespaceClass) /\ classes'[w.key] \in Slot(NamespaceClass)
      /\ classCache[w.key] \in Slot(NamespaceClass)
      /\ classCache[w.key].rv \in Nat /\ classCache'[w.key].rv \in Nat
      /\ items[w.at] \in Slot(NamespaceClassItem) /\ items'[w.at] \in Slot(NamespaceClassItem)
      /\ itemCache[w.at] \in Slot(NamespaceClassItem)
      /\ itemCache[w.at].rv \in Nat /\ itemCache'[w.at].rv \in Nat
  BY <1>1, Slots DEF SidesTypeOK, ItemsTypeOK, ClassesTypeOK, Slot
<1>3. /\ Later(classes[w.key], classes'[w.key]) /\ Later(items[w.at], items'[w.at])
      /\ Fresh(classCache[w.key], classes[w.key]) /\ Fresh(itemCache[w.at], items[w.at])
  BY <1>1 DEF StoresSound, ClassGoesOn, ItemGoesOn
<1>4. /\ classCache[w.key].rv <= classCache'[w.key].rv
      /\ itemCache[w.at].rv <= itemCache'[w.at].rv
  <2>1. classCache'[w.key] = classCache[w.key] \/ classCache'[w.key] = classes'[w.key]
    OBVIOUS
  <2>2. itemCache'[w.at] = itemCache[w.at] \/ itemCache'[w.at] = items'[w.at]
    OBVIOUS
  <2>3. classCache[w.key].rv <= classCache'[w.key].rv
    BY <1>2, <1>3, <2>1, CachedStays
  <2>4. itemCache[w.at].rv <= itemCache'[w.at].rv
    BY <1>2, <1>3, <2>2, CachedStays
  <2> QED BY <2>3, <2>4
<1>5. w.pc # "idle" => Fresh(w.class, classes'[w.key])
  BY <1>1, <1>2, <1>3, FreshStays DEF ClassWorkerSound
<1>6. w.pc \in {"addRef", "dropRef"} =>
          Fresh(w.item, items'[w.at]) /\ w.item.rv <= itemCache'[w.at].rv
  <2>1. SUFFICES ASSUME w.pc \in {"addRef", "dropRef"}
                 PROVE  Fresh(w.item, items'[w.at]) /\ w.item.rv <= itemCache'[w.at].rv
    OBVIOUS
  <2>2. Fresh(w.item, items[w.at]) /\ w.item.rv <= itemCache[w.at].rv
    BY <2>1 DEF ClassWorkerSound
  <2>3. Fresh(w.item, items'[w.at])
    BY <1>1, <1>2, <1>3, <2>2, FreshStays
  <2> QED BY <1>1, <1>2, <1>4, <2>2, <2>3
<1>7. w.pc \in {"list", "update", "addRef"} => HasFinalizer(classes'[w.key])
  BY <1>1 DEF ClassWorkerSound, ClassGoesOn
<1>8. w.pc \in {"release", "dropRef"} =>
          /\ w.class.obj.deleting /\ w.class.rv <= classCache'[w.key].rv
          /\ \A i \in w.class.obj.items \ w.todo : w.key \notin items'[i].obj.refs
  <2>1. SUFFICES ASSUME w.pc \in {"release", "dropRef"}
                 PROVE  /\ w.class.obj.deleting /\ w.class.rv <= classCache'[w.key].rv
                        /\ \A i \in w.class.obj.items \ w.todo : w.key \notin items'[i].obj.refs
    OBVIOUS
  <2>2. /\ w.class.obj.deleting /\ w.class.rv <= classCache[w.key].rv
        /\ \A i \in w.class.obj.items \ w.todo : w.key \notin items[i].obj.refs
    BY <2>1 DEF ClassWorkerSound
  <2>3. w.class.rv <= classCache'[w.key].rv
    BY <1>1, <1>2, <1>4, <2>2
  <2>4. \A i \in w.class.obj.items \ w.todo : items'[i].obj.refs \subseteq items[i].obj.refs
    BY <1>1 DEF ItemGoesOn
  <2> QED BY <2>2, <2>3, <2>4
<1> QED BY <1>5, <1>6, <1>7, <1>8 DEF ClassWorkerSound

LEMMA ItemWorkerKept ==
    ASSUME SidesTypeOK, SidesTypeOK', ItemWorkerSound, UNCHANGED itemWorker,
           \A i \in Items : Later(items[i], items'[i]),
           \A c \in Classes : Later(classes[c], classes'[c])
    PROVE  ItemWorkerSound'
<1> DEFINE w == itemWorker
<1>1. /\ w.key \in Items /\ w.at \in Classes
      /\ w.class \in Slot(NamespaceClass) /\ w.item \in Slot(NamespaceClassItem)
  BY ItemCall
<1>2. /\ classes[w.at] \in Slot(NamespaceClass) /\ classes'[w.at] \in Slot(NamespaceClass)
      /\ items[w.key] \in Slot(NamespaceClassItem) /\ items'[w.key] \in Slot(NamespaceClassItem)
  BY <1>1, Slots DEF SidesTypeOK, ItemsTypeOK, ClassesTypeOK
<1>3. Later(items[w.key], items'[w.key]) /\ Later(classes[w.at], classes'[w.at])
  BY <1>1
<1>4. w.pc = "observe" => Fresh(w.item, items'[w.key])
  BY <1>1, <1>2, <1>3, FreshStays DEF ItemWorkerSound
<1>5. w.pc = "annotate" => Fresh(w.class, classes'[w.at])
  BY <1>1, <1>2, <1>3, FreshStays DEF ItemWorkerSound
<1> QED BY <1>4, <1>5 DEF ItemWorkerSound

-----------------------------------------------------------------------------
(***************************************************************************)
(* The reconciler of items                                                 *)
(***************************************************************************)
\* What the item reconciler may have done: its worker is of its kind and what it writes
\* from is sound.
ItDone ==
    /\ SidesTypeOK'
    /\ \A i \in Items : ItemGoesOn(items[i], items'[i])
    /\ \A c \in Classes : ClassGoesOn(classes[c], classes'[c])
    /\ ItemWorkerSound'

LEMMA Reflexive ==
    /\ \A i \in Items : ItemGoesOn(items[i], items[i])
    /\ \A c \in Classes : ClassGoesOn(classes[c], classes[c])
BY DEF ItemGoesOn, ClassGoesOn, Later

\* A step that only moves the worker on.
LEMMA ItOnlyMoves ==
    ASSUME SidesTypeOK, UNCHANGED <<classes, items, classCache, itemCache, classWorker>>,
           itemWorker' \in ItCall,
           itemWorker'.pc = "observe" => Fresh(itemWorker'.item, items[itemWorker'.key]),
           itemWorker'.pc = "annotate" => Fresh(itemWorker'.class, classes[itemWorker'.at])
    PROVE  ItDone
<1>1. SidesTypeOK'
  BY DEF SidesTypeOK, ItemsTypeOK, ClassesTypeOK
<1>2. ItemWorkerSound'
  BY DEF ItemWorkerSound
<1> QED BY <1>1, <1>2, Reflexive DEF ItDone

LEMMA ItStops ==
    ASSUME SidesTypeOK, UNCHANGED <<classes, items, classCache, itemCache, classWorker>>,
           itemWorker' = ItIdle
    PROVE  ItDone
BY ItIdleTypes, ItOnlyMoves

LEMMA ItObserves ==
    ASSUME SidesTypeOK, StoresSound, ItemWorkerSound, ItObserve,
           UNCHANGED <<classCache, itemCache, classWorker>>
    PROVE  ItDone
<1> DEFINE w == itemWorker
           old == w.item.obj
           obj == Observed(old)
           new == Updated(items[w.key], obj)
<1>1. /\ w.key \in Items /\ w.item \in Slot(NamespaceClassItem)
      /\ old \in NamespaceClassItem
      /\ items[w.key] \in Slot(NamespaceClassItem) /\ w \in ItCall
  BY ItemCall, Slots DEF SidesTypeOK
<1>2. /\ w.pc = "observe" /\ SameVersion(items[w.key], w.item)
      /\ items' = [items EXCEPT ![w.key] = new]
      /\ itemWorker' = [w EXCEPT !.pc = "refetch"] /\ UNCHANGED classes
  BY DEF ItObserve
<1>3. items[w.key].live /\ items[w.key].obj = old
  BY <1>1, <1>2 DEF ItemWorkerSound, SameVersion, Fresh, Slot
<1>4. obj \in NamespaceClassItem /\ obj.refs = items[w.key].obj.refs
  BY <1>1, <1>3 DEF Observed, NamespaceClassItem
<1> HIDE DEF obj
<1>5. new \in Slot(NamespaceClassItem) /\ new.obj = obj /\ Later(items[w.key], new)
  <2>1. new \in Slot(NamespaceClassItem)
    BY <1>1, <1>4, SlotTypes
  <2>2. new.obj = obj
    BY <1>1, <1>4, SlotHolds
  <2>3. Later(items[w.key], new)
    BY <1>1, <1>4, WritesGrow
  <2> QED BY <2>1, <2>2, <2>3
<1>6. new.live
  BY <1>1, <1>3, <1>4, UpdatedLives
<1> HIDE DEF new
<1>7. ItemGoesOn(items[w.key], new)
  BY <1>4, <1>5, <1>6 DEF ItemGoesOn
<1>8. ItemsTypeOK' /\ items'[w.key] = new /\ \A j \in Items \ {w.key} : items'[j] = items[j]
  BY <1>1, <1>2, <1>5, Written
<1>9. itemWorker' \in ItCall /\ itemWorker'.pc = "refetch"
  BY <1>1, <1>2 DEF ItCall
<1>10. ClassesTypeOK'
  BY <1>2, Written
<1>11. SidesTypeOK'
  BY <1>8, <1>9, <1>10 DEF SidesTypeOK
<1>12. ItemWorkerSound'
  BY <1>9 DEF ItemWorkerSound
<1> QED BY <1>2, <1>7, <1>8, <1>11, <1>12, Reflexive DEF ItDone

LEMMA ItAnnotates ==
    ASSUME SidesTypeOK, StoresSound, ItemWorkerSound, ItAnnotateClass,
           UNCHANGED <<classCache, itemCache, classWorker>>
    PROVE  ItDone
<1> DEFINE w == itemWorker
           old == w.class.obj
           obj == WithTrigger(old)
           new == Updated(classes[w.at], obj)
<1>1. /\ w.key \in Items /\ w.at \in Classes /\ w.class \in Slot(NamespaceClass)
      /\ old \in NamespaceClass /\ w.item \in Slot(NamespaceClassItem)
      /\ classes[w.at] \in Slot(NamespaceClass) /\ w.todo \in SUBSET Classes
  BY ItemCall, Slots DEF SidesTypeOK, ItCall
<1>2. /\ w.pc = "annotate" /\ SameVersion(classes[w.at], w.class)
      /\ classes' = [classes EXCEPT ![w.at] = new]
      /\ itemWorker' = ItAt("announce", w.key, w.item, w.todo \ {w.at}) /\ UNCHANGED items
  BY DEF ItAnnotateClass, ItMayUpdate
<1>3. classes[w.at].live /\ classes[w.at].obj = old
  BY <1>1, <1>2 DEF ItemWorkerSound, SameVersion, Fresh, Slot
<1>4. obj \in NamespaceClass /\ obj.finalizer = classes[w.at].obj.finalizer
  BY <1>1, <1>3 DEF WithTrigger, NamespaceClass
<1> HIDE DEF obj
<1>5. new \in Slot(NamespaceClass) /\ new.obj = obj /\ Later(classes[w.at], new)
  <2>1. new \in Slot(NamespaceClass)
    BY <1>1, <1>4, SlotTypes
  <2>2. new.obj = obj
    BY <1>1, <1>4, SlotHolds
  <2>3. Later(classes[w.at], new)
    BY <1>1, <1>4, WritesGrow
  <2> QED BY <2>1, <2>2, <2>3
<1>6. new.live
  BY <1>1, <1>3, <1>4, UpdatedLives
<1> HIDE DEF new
<1>7. ClassGoesOn(classes[w.at], new)
  BY <1>4, <1>5, <1>6 DEF ClassGoesOn, HasFinalizer
<1>8. ClassesTypeOK' /\ classes'[w.at] = new /\ \A d \in Classes \ {w.at} : classes'[d] = classes[d]
  BY <1>1, <1>2, <1>5, Written
<1>9. itemWorker' \in ItCall /\ itemWorker'.pc = "announce"
  BY <1>1, <1>2, ItAtTypes
<1>10. ItemsTypeOK'
  BY <1>2, Written
<1>11. SidesTypeOK'
  BY <1>8, <1>9, <1>10 DEF SidesTypeOK
<1>12. ItemWorkerSound'
  BY <1>9 DEF ItemWorkerSound
<1> QED BY <1>2, <1>7, <1>8, <1>11, <1>12, Reflexive DEF ItDone

LEMMA ItSideDone ==
    ASSUME SidesTypeOK, StoresSound, ItemWorkerSound, ItSide
    PROVE  ItDone
<1> DEFINE w == itemWorker
<1>1. UNCHANGED <<classCache, itemCache, classWorker>>
  BY DEF ItSide
<1>2. ASSUME NEW i \in Items, ItGetItem(i)
      PROVE  ItDone
  <2>1. UNCHANGED <<items, classes>>
    BY <1>2 DEF ItGetItem
  <2>2. CASE itemWorker' = ItIdle
    BY <1>1, <2>1, <2>2, ItStops
  <2>3. CASE itemWorker' = ItAt("observe", i, itemCache[i], {})
    <3>1. Fresh(itemCache[i], items[i]) /\ itemCache[i] \in Slot(NamespaceClassItem)
      BY Slots DEF StoresSound
    <3>2. /\ itemWorker' \in ItCall /\ itemWorker'.pc = "observe"
          /\ itemWorker'.key = i /\ itemWorker'.item = itemCache[i]
      BY <2>3, <3>1, ItAtTypes
    <3> QED BY <1>1, <2>1, <3>1, <3>2, ItOnlyMoves
  <2> QED BY <1>2, <2>2, <2>3 DEF ItGetItem
<1>3. CASE ItObserve
  BY <1>1, <1>3, ItObserves
<1>4. CASE ItRefetch
  <2>1. UNCHANGED <<items, classes>>
    BY <1>4 DEF ItRefetch
  <2>2. CASE itemWorker' = ItIdle
    BY <1>1, <2>1, <2>2, ItStops
  <2>3. CASE itemWorker' = ItAt("announce", w.key, itemCache[w.key], itemCache[w.key].obj.refs)
    <3>1. /\ w.key \in Items /\ itemCache[w.key] \in Slot(NamespaceClassItem)
          /\ itemCache[w.key].obj.refs \in SUBSET Classes
      BY ItemCall, Slots DEF Slot, NamespaceClassItem
    <3>2. itemWorker' \in ItCall /\ itemWorker'.pc = "announce"
      BY <2>3, <3>1, ItAtTypes
    <3> QED BY <1>1, <2>1, <3>2, ItOnlyMoves
  <2> QED BY <1>4, <2>2, <2>3 DEF ItRefetch, ItRequeue
<1>5. ASSUME NEW c \in Classes, ItGetClass(c)
      PROVE  ItDone
  <2>1. UNCHANGED <<items, classes>> /\ w.pc = "announce"
    BY <1>5 DEF ItGetClass
  <2>2. /\ w \in ItCall /\ Fresh(classCache[c], classes[c])
        /\ classCache[c] \in Slot(NamespaceClass)
    BY Slots DEF SidesTypeOK, StoresSound
  <2>3. CASE itemWorker' = [w EXCEPT !.todo = @ \ {c}]
    <3>1. itemWorker' \in ItCall /\ itemWorker'.pc = "announce"
      BY <2>1, <2>2, <2>3 DEF ItCall
    <3> QED BY <1>1, <2>1, <3>1, ItOnlyMoves
  <2>4. CASE itemWorker' = [pc |-> "annotate", key |-> w.key, item |-> w.item,
                            todo |-> w.todo, at |-> c, class |-> classCache[c]]
    <3>1. /\ itemWorker' \in ItCall /\ itemWorker'.pc = "annotate"
          /\ itemWorker'.class = classCache[c] /\ itemWorker'.at = c
      BY <2>2, <2>4 DEF ItCall
    <3> QED BY <1>1, <2>1, <2>2, <3>1, ItOnlyMoves
  <2> QED BY <1>5, <2>3, <2>4 DEF ItGetClass
<1>6. CASE ItAnnotateClass
  BY <1>1, <1>6, ItAnnotates
<1>7. CASE ItAnnounced \/ ItRejected
  BY <1>1, <1>7, ItStops DEF ItAnnounced, ItReturn, ItRejected, ItRequeue
<1> QED
  BY <1>2, <1>3, <1>4, <1>5, <1>6, <1>7 DEF ItSide, ItReconcile

-----------------------------------------------------------------------------
(***************************************************************************)
(* The reconciler of classes                                               *)
(***************************************************************************)
\* What the class reconciler may have done: only the last step of a deletion takes a
\* finalizer off, only ClAddRef lists a class.
ClDone ==
    /\ SidesTypeOK'
    /\ StoresSound'
    /\ ClassWorkerSound'
    /\ \A i \in Items : Later(items[i], items'[i])
    /\ \A c \in Classes : Later(classes[c], classes'[c])
    /\ ClAddRef \/ \A i \in Items : ItemGoesOn(items[i], items'[i])
    /\ ClRemoveFinalizer \/ \A c \in Classes : ClassGoesOn(classes[c], classes'[c])

\* A step that only moves the worker on.
LEMMA ClOnlyMoves ==
    ASSUME SidesTypeOK, StoresSound, UNCHANGED <<classes, items, classCache, itemCache, itemWorker>>,
           classWorker' \in ClCallWith(classWorker'.seen), ClassWorkerSound'
    PROVE  ClDone
<1>1. SidesTypeOK'
  BY DEF SidesTypeOK, ItemsTypeOK, ClassesTypeOK
<1>2. StoresSound'
  BY DEF StoresSound
<1> QED BY <1>1, <1>2, Reflexive DEF ClDone, Later

LEMMA ClStops ==
    ASSUME SidesTypeOK, StoresSound, UNCHANGED <<classes, items, classCache, itemCache, itemWorker>>,
           classWorker' = ClIdle
    PROVE  ClDone
<1>1. ClassWorkerSound'
  BY ClIdleTypes DEF ClassWorkerSound
<1> QED BY <1>1, ClIdleTypes, ClOnlyMoves

\* A write that takes nothing from the classes and items, and ends the call.
LEMMA ClWritesLast ==
    ASSUME SidesTypeOK, SidesTypeOK', StoresSound, UNCHANGED <<classCache, itemCache>>,
           \A i \in Items : ItemGoesOn(items[i], items'[i]),
           \A c \in Classes : ClassGoesOn(classes[c], classes'[c]),
           ClassWorkerSound'
    PROVE  ClDone
BY StoresKept DEF ClDone, ItemGoesOn, ClassGoesOn

\* A class is written from a copy of the version that is stored.
LEMMA ClassWritten ==
    ASSUME SidesTypeOK, ClassWorkerSound, classWorker.pc # "idle", ClMayUpdate,
           UNCHANGED <<items, classCache, itemCache>>,
           NEW obj \in NamespaceClass,
           classes' = [classes EXCEPT ![classWorker.key] =
                          Updated(classes[classWorker.key], obj)]
    PROVE  LET c == classWorker.key
               new == Updated(classes[c], obj)
           IN  /\ new \in Slot(NamespaceClass) /\ new.live /\ new.obj = obj
               /\ Later(classes[c], new)
               /\ classes[c].live /\ classes[c].obj = classWorker.class.obj
               /\ ItemsTypeOK' /\ ClassesTypeOK' /\ classes'[c] = new
               /\ \A d \in Classes \ {c} : classes'[d] = classes[d]
<1> DEFINE c == classWorker.key
           new == Updated(classes[c], obj)
<1>1. /\ c \in Classes /\ classes[c] \in Slot(NamespaceClass)
      /\ classWorker.class \in Slot(NamespaceClass)
  BY ClassCall, Slots
<1>2. classes[c].live /\ classes[c] = classWorker.class
  BY <1>1 DEF ClassWorkerSound, ClMayUpdate, SameVersion, Fresh, Slot
<1>3. new \in Slot(NamespaceClass) /\ new.live /\ new.obj = obj /\ Later(classes[c], new)
  BY <1>1, <1>2, SlotTypes, SlotHolds, WritesGrow, UpdatedLives
<1>4. classes' = [classes EXCEPT ![c] = new]
  OBVIOUS
<1> HIDE DEF new
<1>5. /\ ItemsTypeOK' /\ ClassesTypeOK' /\ classes'[c] = new
      /\ \A d \in Classes \ {c} : classes'[d] = classes[d]
  BY <1>1, <1>3, <1>4, Written
<1> QED BY <1>2, <1>3, <1>5 DEF new

\* So is an item.
LEMMA RefsWritten ==
    ASSUME SidesTypeOK, ClassWorkerSound, UNCHANGED <<classCache, itemCache, itemWorker>>,
           NEW pc \in {"addRef", "dropRef"}, NEW next \in {"update", "release"},
           NEW refs \in SUBSET Classes, ClWriteRefs(pc, refs, next)
    PROVE  LET w == classWorker
               i == classWorker.at
           IN  /\ SidesTypeOK'
               /\ items[i].live /\ items[i] = w.item
               /\ items'[i].live /\ items'[i].obj.refs = refs /\ Later(items[i], items'[i])
               /\ \A j \in Items \ {i} : items'[j] = items[j]
               /\ w.pc = pc /\ classWorker'.pc = next /\ UNCHANGED classes
               /\ classWorker'.key = w.key /\ classWorker'.class = w.class
               /\ classWorker'.todo = w.todo \ {i}
<1> DEFINE w == classWorker
           i == classWorker.at
           obj == WithRefs(w.item.obj, refs)
           new == Updated(items[i], obj)
<1>1. /\ i \in Items /\ items[i] \in Slot(NamespaceClassItem) /\ w \in ClCallWith(w.seen)
      /\ w.item \in Slot(NamespaceClassItem) /\ w.item.obj \in NamespaceClassItem
  BY ClassCall, Slots DEF SidesTypeOK
<1>2. /\ w.pc = pc /\ SameVersion(items[i], w.item)
      /\ items' = [items EXCEPT ![i] = new] /\ UNCHANGED classes
      /\ classWorker' = [pc |-> next, key |-> w.key, class |-> w.class, marks |-> {},
                         seen |-> w.seen, todo |-> w.todo \ {w.at}, at |-> w.at,
                         item |-> w.item]
  BY <1>1 DEF ClWriteRefs
<1>3. items[i].live /\ items[i] = w.item
  BY <1>1, <1>2 DEF ClassWorkerSound, SameVersion, Fresh, Slot
<1>4. obj \in NamespaceClassItem /\ obj.refs = refs
  BY <1>1 DEF WithRefs, NamespaceClassItem
<1> HIDE DEF obj
<1>5. /\ new \in Slot(NamespaceClassItem) /\ new.live /\ new.obj = obj
      /\ Later(items[i], new)
  BY <1>1, <1>3, <1>4, SlotTypes, SlotHolds, WritesGrow, UpdatedLives
<1> HIDE DEF new
<1>6. /\ ItemsTypeOK' /\ ClassesTypeOK' /\ items'[i] = new
      /\ \A j \in Items \ {i} : items'[j] = items[j]
  BY <1>1, <1>2, <1>5, Written
<1>7. classWorker' \in ClCallWith(classWorker'.seen)
  BY <1>1, <1>2 DEF ClCallWith
<1>8. SidesTypeOK'
  BY <1>6, <1>7 DEF SidesTypeOK
<1> QED BY <1>2, <1>3, <1>4, <1>5, <1>6, <1>8

LEMMA ClGets ==
    ASSUME SidesTypeOK, StoresSound, UNCHANGED <<classCache, itemCache, itemWorker>>,
           NEW c \in Classes, ClGetClass(c)
    PROVE  ClDone
<1> DEFINE class == classCache[c]
           pc == ClFirst(class)
<1>1. /\ class \in Slot(NamespaceClass) /\ class.obj.items \in SUBSET Items
      /\ class.rv \in Nat /\ Fresh(class, classes[c])
  BY Slots DEF StoresSound, Slot, NamespaceClass
<1>2. UNCHANGED <<items, classes>>
  BY DEF ClGetClass
<1>3. CASE ~class.live
  BY <1>2, <1>3, ClStops DEF ClGetClass
<1>4. CASE class.live
  <2>1. classWorker' = ClAt(pc, c, class, class.obj.items)
    BY <1>4 DEF ClGetClass
  <2>2. /\ pc \in {"release", "addFinalizer", "list"}
        /\ pc = "release" => class.obj.deleting
        /\ pc = "list" => ~class.obj.deleting /\ class.obj.finalizer
    BY <1>1 DEF ClFirst, Slot, NamespaceClass
  <2>3. /\ classWorker' \in ClCallWith(classWorker'.seen)
        /\ classWorker'.pc = pc /\ classWorker'.key = c /\ classWorker'.class = class
        /\ classWorker'.todo = class.obj.items
    BY <1>1, <2>1, <2>2, ClAtTypes
  <2> HIDE DEF pc
  <2>4. pc = "list" => HasFinalizer(classes[c])
    BY <1>4, <2>2 DEF StoresSound, HasFinalizer
  <2>5. class.rv <= classCache[c].rv
    BY <1>1
  <2>6. ClassWorkerSound'
    BY <1>1, <1>2, <2>2, <2>3, <2>4, <2>5 DEF ClassWorkerSound
  <2> QED BY <1>2, <2>3, <2>6, ClOnlyMoves
<1> QED BY <1>3, <1>4

LEMMA ClHolds ==
    ASSUME SidesTypeOK, StoresSound, ClassWorkerSound, ClAddFinalizer,
           UNCHANGED <<classCache, itemCache, itemWorker>>
    PROVE  ClDone
<1> DEFINE w == classWorker
           c == w.key
           obj == WithFinalizer(w.class.obj)
           new == Updated(classes[c], obj)
<1>1. /\ c \in Classes /\ w.class.obj \in NamespaceClass /\ w.todo \in SUBSET Items
      /\ classes[c] \in Slot(NamespaceClass)
  BY ClassCall, Slots
<1>2. /\ w.pc = "addFinalizer" /\ ClMayUpdate /\ UNCHANGED items
      /\ classes' = [classes EXCEPT ![c] = new]
      /\ classWorker' = ClAt("list", c, new, w.todo)
  BY DEF ClAddFinalizer
<1>3. obj \in NamespaceClass /\ obj.finalizer
  BY <1>1 DEF WithFinalizer, NamespaceClass
<1> HIDE DEF obj
<1>4. /\ new \in Slot(NamespaceClass) /\ new.live /\ new.obj = obj
      /\ Later(classes[c], new)
      /\ ItemsTypeOK' /\ ClassesTypeOK' /\ classes'[c] = new
      /\ \A d \in Classes \ {c} : classes'[d] = classes[d]
  BY <1>2, <1>3, ClassWritten
<1> HIDE DEF new
<1>5. /\ classWorker' \in ClCallWith(classWorker'.seen)
      /\ classWorker'.pc = "list" /\ classWorker'.key = c /\ classWorker'.class = new
  BY <1>1, <1>2, <1>4, ClAtTypes
<1>6. SidesTypeOK'
  BY <1>4, <1>5 DEF SidesTypeOK
<1>7. HasFinalizer(new) /\ Fresh(new, new)
  BY <1>3, <1>4, FreshSelf DEF HasFinalizer
<1>8. ClassWorkerSound'
  BY <1>4, <1>5, <1>7 DEF ClassWorkerSound
<1>9. ClassGoesOn(classes[c], new)
  BY <1>4, <1>7 DEF ClassGoesOn
<1>10. /\ \A i \in Items : ItemGoesOn(items[i], items'[i])
       /\ \A d \in Classes : ClassGoesOn(classes[d], classes'[d])
  BY <1>2, <1>4, <1>9, Reflexive
<1> QED BY <1>6, <1>8, <1>10, ClWritesLast

LEMMA ClLists ==
    ASSUME SidesTypeOK, StoresSound, ClassWorkerSound,
           ClListStates \/ \E n \in Namespaces : ClAnnotateState(n),
           UNCHANGED <<classCache, itemCache, itemWorker>>
    PROVE  ClDone
<1> DEFINE w == classWorker
<1>1. w \in ClCallWith(w.seen) /\ UNCHANGED <<items, classes>>
  BY DEF SidesTypeOK, ClListStates, ClAnnotateState
<1>2. /\ w.pc \in {"list", "update"} /\ classWorker'.pc = "update"
      /\ classWorker'.key = w.key /\ classWorker'.class = w.class
      /\ classWorker' \in ClCallWith(classWorker'.seen)
  <2>1. CASE ClListStates
    <3>1. ToAnnotate(w.key, stateCache) \in SUBSET Namespaces
      BY DEF ToAnnotate
    <3> QED BY <1>1, <2>1, <3>1 DEF ClListStates, ClCallWith
  <2>2. CASE \E n \in Namespaces : ClAnnotateState(n)
    <3>1. PICK n \in Namespaces : w.pc = "update" /\ classWorker' = [w EXCEPT !.marks = @ \ {n}]
      BY <2>2 DEF ClAnnotateState
    <3> QED BY <1>1, <3>1 DEF ClCallWith
  <2> QED BY <2>1, <2>2
<1>3. Fresh(w.class, classes[w.key]) /\ HasFinalizer(classes[w.key])
  BY <1>2 DEF ClassWorkerSound
<1>4. ClassWorkerSound'
  BY <1>1, <1>2, <1>3 DEF ClassWorkerSound
<1> QED BY <1>1, <1>2, <1>4, ClOnlyMoves

LEMMA ClGetsItem ==
    ASSUME SidesTypeOK, StoresSound, ClassWorkerSound, NEW i \in Items, ClGetItem(i),
           UNCHANGED <<classCache, itemCache, itemWorker>>
    PROVE  ClDone
<1> DEFINE w == classWorker
           item == itemCache[i]
<1>1. /\ w \in ClCallWith(w.seen) /\ UNCHANGED <<items, classes>>
      /\ w.pc \in {"update", "release"} /\ w.class.obj.items \in SUBSET Items
      /\ item \in Slot(NamespaceClassItem) /\ item.rv \in Nat /\ Fresh(item, items[i])
  BY ClassCall, Slots DEF SidesTypeOK, StoresSound, ClGetItem
<1>2. Fresh(w.class, classes[w.key])
  BY <1>1 DEF ClassWorkerSound
<1>3. w.pc = "update" => HasFinalizer(classes[w.key])
  BY DEF ClassWorkerSound
<1>4. w.pc = "release" =>
          /\ w.class.obj.deleting /\ w.class.rv <= classCache[w.key].rv
          /\ \A j \in w.class.obj.items \ w.todo : w.key \notin items[j].obj.refs
  BY DEF ClassWorkerSound
<1>5. CASE ClPasses(w, item)
  <2>1. classWorker' = [w EXCEPT !.todo = @ \ {i}]
    BY <1>5 DEF ClGetItem
  <2>2. /\ classWorker'.pc = w.pc /\ classWorker'.key = w.key
        /\ classWorker'.class = w.class /\ classWorker'.todo = w.todo \ {i}
        /\ classWorker' \in ClCallWith(classWorker'.seen)
    BY <1>1, <2>1 DEF ClCallWith
  <2>3. w.pc = "release" => w.key \notin items[i].obj.refs
    BY <1>5 DEF ClPasses, StoresSound
  <2>4. w.pc = "release" =>
            \A j \in w.class.obj.items \ (w.todo \ {i}) : w.key \notin items[j].obj.refs
    BY <1>4, <2>3
  <2>5. ClassWorkerSound'
    BY <1>1, <1>2, <1>3, <1>4, <2>2, <2>4 DEF ClassWorkerSound
  <2> QED BY <1>1, <2>2, <2>5, ClOnlyMoves
<1>6. CASE ~ClPasses(w, item)
  <2> DEFINE pc == IF w.pc = "update" THEN "addRef" ELSE "dropRef"
  <2>1. classWorker' = [pc |-> pc, key |-> w.key, class |-> w.class, marks |-> {},
                        seen |-> w.seen, todo |-> w.todo, at |-> i, item |-> item]
    BY <1>6 DEF ClGetItem
  <2>2. /\ classWorker'.pc = pc /\ classWorker'.key = w.key
        /\ classWorker'.class = w.class /\ classWorker'.todo = w.todo
        /\ classWorker'.at = i /\ classWorker'.item = item
        /\ classWorker' \in ClCallWith(classWorker'.seen)
    BY <1>1, <2>1 DEF ClCallWith
  <2>3. item.rv <= itemCache[i].rv
    BY <1>1
  <2>4. /\ pc \in {"addRef", "dropRef"}
        /\ pc = "addRef" => w.pc = "update"
        /\ pc = "dropRef" => w.pc = "release"
    BY <1>1
  <2> HIDE DEF pc
  <2>5. ClassWorkerSound'
    BY <1>1, <1>2, <1>3, <1>4, <2>2, <2>3, <2>4 DEF ClassWorkerSound
  <2> QED BY <1>1, <2>2, <2>5, ClOnlyMoves
<1> QED BY <1>5, <1>6

\* The class is listed in an item that exists and that the informer knows to exist.
LEMMA ClLinks ==
    ASSUME SidesTypeOK, StoresSound, ClassWorkerSound, ClAddRef,
           UNCHANGED <<classCache, itemCache, itemWorker>>
    PROVE  ClDone
<1> DEFINE w == classWorker
           i == w.at
           refs == w.item.obj.refs \cup {w.key}
<1>1. /\ w.key \in Classes /\ i \in Items /\ refs \in SUBSET Classes
      /\ w.item.rv \in Nat /\ w.class.obj.items \in SUBSET Items
      /\ \A j \in Items : /\ items[j] \in Slot(NamespaceClassItem)
                          /\ itemCache[j] \in Slot(NamespaceClassItem)
                          /\ items[j].rv \in Nat /\ itemCache[j].rv \in Nat
  BY ClassCall, Slots
<1>2. ClWriteRefs("addRef", refs, "update")
  BY DEF ClAddRef
<1> HIDE DEF refs
<1>3. /\ SidesTypeOK'
      /\ items[i].live /\ items[i] = w.item
      /\ items'[i].live /\ Later(items[i], items'[i])
      /\ \A j \in Items \ {i} : items'[j] = items[j]
      /\ w.pc = "addRef" /\ classWorker'.pc = "update" /\ UNCHANGED classes
      /\ classWorker'.key = w.key /\ classWorker'.class = w.class
  BY <1>1, <1>2, RefsWritten
<1>4. itemCache[i].live
  <2>1. w.item.rv <= itemCache[i].rv /\ Fresh(itemCache[i], items[i])
    BY <1>1, <1>3 DEF ClassWorkerSound, StoresSound
  <2>2. itemCache[i] = items[i]
    BY <1>1, <1>3, <2>1 DEF Fresh
  <2> QED BY <1>3, <2>2
<1>5. \A j \in Items : Later(items[j], items'[j])
  BY <1>3 DEF Later
<1>6. \A j \in Items : items[j] \in Slot(NamespaceClassItem) /\ items'[j] \in Slot(NamespaceClassItem)
  BY <1>3, Slots DEF SidesTypeOK, ItemsTypeOK
<1>7. ASSUME NEW j \in Items
      PROVE  /\ Fresh(itemCache[j], items'[j])
             /\ items'[j].obj.refs # {} => items'[j].live /\ itemCache[j].live
  <2>1. Fresh(itemCache[j], items[j])
    BY DEF StoresSound
  <2>2. Fresh(itemCache[j], items'[j])
    BY <1>1, <1>5, <1>6, <2>1, FreshStays
  <2>3. items'[j].obj.refs # {} => items'[j].live /\ itemCache[j].live
    BY <1>3, <1>4 DEF StoresSound
  <2> QED BY <2>2, <2>3
<1>8. StoresSound'
  BY <1>3, <1>7 DEF StoresSound
<1>9. Fresh(w.class, classes[w.key]) /\ HasFinalizer(classes[w.key])
  BY <1>3 DEF ClassWorkerSound
<1>10. ClassWorkerSound'
  BY <1>3, <1>9 DEF ClassWorkerSound
<1> QED BY <1>3, <1>5, <1>8, <1>10, Reflexive DEF ClDone, Later

LEMMA ClUnlinks ==
    ASSUME SidesTypeOK, StoresSound, ClassWorkerSound, ClDropRef,
           UNCHANGED <<classCache, itemCache, itemWorker>>
    PROVE  ClDone
<1> DEFINE w == classWorker
           i == w.at
           refs == w.item.obj.refs \ {w.key}
<1>1. /\ w.key \in Classes /\ i \in Items /\ refs \in SUBSET Classes
      /\ refs \subseteq w.item.obj.refs /\ w.key \notin refs
      /\ w.class.obj.items \in SUBSET Items
  BY ClassCall
<1>2. ClWriteRefs("dropRef", refs, "release")
  BY DEF ClDropRef
<1> HIDE DEF refs
<1>3. /\ SidesTypeOK'
      /\ items[i].live /\ items[i] = w.item
      /\ items'[i].live /\ items'[i].obj.refs = refs /\ Later(items[i], items'[i])
      /\ \A j \in Items \ {i} : items'[j] = items[j]
      /\ w.pc = "dropRef" /\ classWorker'.pc = "release" /\ UNCHANGED classes
      /\ classWorker'.key = w.key /\ classWorker'.class = w.class
      /\ classWorker'.todo = w.todo \ {i}
  BY <1>1, <1>2, RefsWritten
<1>4. ItemGoesOn(items[i], items'[i])
  BY <1>1, <1>3 DEF ItemGoesOn
<1>5. /\ \A j \in Items : ItemGoesOn(items[j], items'[j])
      /\ \A c \in Classes : ClassGoesOn(classes[c], classes'[c])
  BY <1>3, <1>4, Reflexive
<1>6. /\ Fresh(w.class, classes[w.key])
      /\ w.class.obj.deleting /\ w.class.rv <= classCache[w.key].rv
      /\ \A j \in w.class.obj.items \ w.todo : w.key \notin items[j].obj.refs
  BY <1>3 DEF ClassWorkerSound
<1>7. \A j \in w.class.obj.items \ (w.todo \ {i}) : w.key \notin items'[j].obj.refs
  BY <1>1, <1>3, <1>6
<1>8. ClassWorkerSound'
  BY <1>3, <1>6, <1>7 DEF ClassWorkerSound
<1> QED BY <1>3, <1>5, <1>8, ClWritesLast

LEMMA ClUnmarks ==
    ASSUME SidesTypeOK, StoresSound, ClassWorkerSound, ClRemoveTrigger,
           UNCHANGED <<classCache, itemCache, itemWorker>>
    PROVE  ClDone
<1> DEFINE w == classWorker
           c == w.key
           obj == WithoutTrigger(w.class.obj)
           new == Updated(classes[c], obj)
<1>1. c \in Classes /\ w.class.obj \in NamespaceClass
  BY ClassCall
<1>2. /\ w.pc = "update" /\ ClMayUpdate /\ UNCHANGED items
      /\ classes' = [classes EXCEPT ![c] = new] /\ classWorker' = ClIdle
  BY DEF ClRemoveTrigger, ClReturn
<1>3. obj \in NamespaceClass /\ obj.finalizer = w.class.obj.finalizer
  BY <1>1 DEF WithoutTrigger, NamespaceClass
<1> HIDE DEF obj
<1>4. /\ new.live /\ new.obj = obj
      /\ Later(classes[c], new) /\ classes[c].obj = w.class.obj
      /\ ItemsTypeOK' /\ ClassesTypeOK' /\ classes'[c] = new
      /\ \A d \in Classes \ {c} : classes'[d] = classes[d]
  BY <1>2, <1>3, ClassWritten
<1> HIDE DEF new
<1>5. SidesTypeOK'
  BY <1>2, <1>4, ClIdleTypes DEF SidesTypeOK
<1>6. ClassGoesOn(classes[c], new)
  BY <1>3, <1>4 DEF ClassGoesOn, HasFinalizer
<1>7. /\ \A i \in Items : ItemGoesOn(items[i], items'[i])
      /\ \A d \in Classes : ClassGoesOn(classes[d], classes'[d])
  BY <1>2, <1>4, <1>6, Reflexive
<1>8. ClassWorkerSound'
  BY <1>2, ClIdleTypes DEF ClassWorkerSound
<1> QED BY <1>5, <1>7, <1>8, ClWritesLast

\* The copy that says the class is being deleted is the class, and so is the informer's:
\* nobody takes the class for one that stays.
LEMMA ClLetsGo ==
    ASSUME SidesTypeOK, StoresSound, ClassWorkerSound, ClRemoveFinalizer,
           UNCHANGED <<classCache, itemCache, itemWorker>>
    PROVE  ClDone
<1> DEFINE w == classWorker
           c == w.key
           new == Deleted(classes[c], NoClassObject)
<1>1. /\ c \in Classes /\ w.class \in Slot(NamespaceClass)
      /\ \A d \in Classes : /\ classes[d] \in Slot(NamespaceClass)
                            /\ classCache[d] \in Slot(NamespaceClass)
                            /\ classes[d].rv \in Nat /\ classCache[d].rv \in Nat
      /\ w.class.rv \in Nat
  BY ClassCall, Slots
<1>2. /\ w.pc = "release" /\ SameVersion(classes[c], w.class) /\ UNCHANGED items
      /\ classes' = [classes EXCEPT ![c] = new] /\ classWorker' = ClIdle
  BY DEF ClRemoveFinalizer, ClMayUpdate, ClReturn
<1>3. /\ w.class.obj.deleting /\ w.class.rv <= classCache[c].rv
      /\ Fresh(w.class, classes[c]) /\ Fresh(classCache[c], classes[c])
  BY <1>1, <1>2 DEF ClassWorkerSound, StoresSound
<1>4. classCache[c].obj.deleting
  <2>1. classes[c].rv = w.class.rv /\ classes[c] = w.class
    BY <1>2, <1>3 DEF SameVersion, Fresh
  <2>2. classCache[c].rv = classes[c].rv
    BY <1>1, <1>3, <2>1 DEF Fresh
  <2>3. classCache[c] = classes[c]
    BY <1>3, <2>2 DEF Fresh
  <2> QED BY <1>3, <2>1, <2>3
<1>5. new \in Slot(NamespaceClass) /\ Later(classes[c], new)
  BY <1>1, NoneTypes, SlotTypes, WritesGrow
<1> HIDE DEF new
<1>6. /\ ItemsTypeOK' /\ ClassesTypeOK' /\ classes'[c] = new
      /\ \A d \in Classes \ {c} : classes'[d] = classes[d]
  BY <1>1, <1>2, <1>5, Written
<1>7. SidesTypeOK'
  BY <1>2, <1>6, ClIdleTypes DEF SidesTypeOK
<1>8. \A d \in Classes : Later(classes[d], classes'[d])
  BY <1>5, <1>6 DEF Later
<1>9. ASSUME NEW d \in Classes
      PROVE  /\ Fresh(classCache[d], classes'[d])
             /\ HasFinalizer(classCache[d]) /\ ~classCache[d].obj.deleting =>
                    HasFinalizer(classes'[d])
  <2>1. Fresh(classCache[d], classes[d]) /\ classes'[d] \in Slot(NamespaceClass)
    BY <1>6 DEF StoresSound, ClassesTypeOK
  <2>2. Fresh(classCache[d], classes'[d])
    BY <1>1, <1>8, <2>1, FreshStays
  <2>3. HasFinalizer(classCache[d]) /\ ~classCache[d].obj.deleting => HasFinalizer(classes'[d])
    BY <1>4, <1>6 DEF StoresSound
  <2> QED BY <2>2, <2>3
<1>10. StoresSound'
  BY <1>2, <1>9 DEF StoresSound
<1>11. ClassWorkerSound'
  BY <1>2, ClIdleTypes DEF ClassWorkerSound
<1> QED BY <1>2, <1>7, <1>8, <1>10, <1>11, Reflexive DEF ClDone, Later

LEMMA ClSideDone ==
    ASSUME SidesTypeOK, StoresSound, ClassWorkerSound, ClSide
    PROVE  ClDone
<1>1. UNCHANGED <<classCache, itemCache, itemWorker>>
  BY DEF ClSide
<1>2. CASE \E c \in Classes : ClGetClass(c)
  BY <1>1, <1>2, ClGets
<1>3. CASE ClAddFinalizer
  BY <1>1, <1>3, ClHolds
<1>4. CASE ClListStates \/ \E n \in Namespaces : ClAnnotateState(n)
  BY <1>1, <1>4, ClLists
<1>5. CASE \E i \in Items : ClGetItem(i)
  BY <1>1, <1>5, ClGetsItem
<1>6. CASE ClAddRef
  BY <1>1, <1>6, ClLinks
<1>7. CASE ClDropRef
  BY <1>1, <1>7, ClUnlinks
<1>8. CASE ClRemoveTrigger
  BY <1>1, <1>8, ClUnmarks
<1>9. CASE ClRemoveFinalizer
  BY <1>1, <1>9, ClLetsGo
<1>10. CASE ClNoTrigger \/ ClRejected
  BY <1>1, <1>10, ClStops DEF ClNoTrigger, ClReturn, ClRejected, ClRequeue
<1> QED
  BY <1>2, <1>3, <1>4, <1>5, <1>6, <1>7, <1>8, <1>9, <1>10 DEF ClSide, ClReconcile

-----------------------------------------------------------------------------
(***************************************************************************)
(* The theorems                                                            *)
(***************************************************************************)
IInv == SidesTypeOK /\ ListingSound

LEMMA IInvInit == Init => IInv
<1> SUFFICES ASSUME Init PROVE IInv
  OBVIOUS
<1>1. /\ SidesTypeOK /\ classCache = classes /\ itemCache = items
      /\ classWorker.pc = "idle" /\ itemWorker.pc = "idle"
      /\ \A i \in Items : items[i].live
  BY InitTypes
<1>2. /\ \A c \in Classes : Fresh(classes[c], classes[c])
      /\ \A i \in Items : Fresh(items[i], items[i])
  BY <1>1, Slots, FreshSelf
<1>3. StoresSound
  BY <1>1, <1>2 DEF StoresSound
<1>4. ClassWorkerSound /\ ItemWorkerSound
  BY <1>1 DEF ClassWorkerSound, ItemWorkerSound
<1> QED BY <1>1, <1>3, <1>4, Parts DEF IInv

LEMMA IInvStep == IInv /\ [Next]_vars => IInv'
<1> SUFFICES ASSUME IInv, [Next]_vars PROVE IInv'
  OBVIOUS
<1>1. SidesTypeOK /\ StoresSound /\ ClassWorkerSound /\ ItemWorkerSound
  BY Parts DEF IInv
<1>2. SUFFICES SidesTypeOK' /\ StoresSound' /\ ClassWorkerSound' /\ ItemWorkerSound'
  BY Parts DEF IInv, ListingSound, CopiesOK, HeldOK, RefsOK, StoresSound,
               ClassWorkerSound, ItemWorkerSound
<1>3. \A i \in Items : ItemGoesOn(items[i], items[i]) /\ Later(items[i], items[i])
  BY Reflexive DEF Later
<1>4. \A c \in Classes : ClassGoesOn(classes[c], classes[c]) /\ Later(classes[c], classes[c])
  BY Reflexive DEF Later
<1>5. CASE UserWrite
  <2>1. /\ SidesTypeOK' /\ UNCHANGED <<classCache, itemCache, classWorker, itemWorker>>
        /\ \A i \in Items : ItemGoesOn(items[i], items'[i])
        /\ \A c \in Classes : ClassGoesOn(classes[c], classes'[c])
    BY <1>1, <1>5, UserTypes DEF UserWrite
  <2>2. StoresSound' /\ ClassWorkerSound'
    BY <1>1, <2>1, StoresKept, ClassWorkerKept
  <2>3. ItemWorkerSound'
    BY <1>1, <2>1, ItemWorkerKept DEF ItemGoesOn, ClassGoesOn
  <2> QED BY <2>1, <2>2, <2>3
<1>6. CASE Sync
  <2>1. /\ UNCHANGED <<classes, items, classWorker, itemWorker>>
        /\ classCache' = classCache \/ classCache' = classes'
        /\ itemCache' = itemCache \/ itemCache' = items'
    BY <1>6 DEF Sync
  <2>2. SidesTypeOK'
    BY <1>1, <2>1 DEF SidesTypeOK, ItemsTypeOK, ClassesTypeOK
  <2>3. /\ \A i \in Items : ItemGoesOn(items[i], items'[i])
        /\ \A c \in Classes : ClassGoesOn(classes[c], classes'[c])
    BY <1>3, <1>4, <2>1
  <2>4. StoresSound' /\ ClassWorkerSound'
    BY <1>1, <2>1, <2>2, <2>3, StoresKept, ClassWorkerKept
  <2>5. ItemWorkerSound'
    BY <1>1, <2>1 DEF ItemWorkerSound
  <2> QED BY <2>2, <2>4, <2>5
<1>7. CASE ClSide
  <2>1. ClDone /\ UNCHANGED itemWorker
    BY <1>1, <1>7, ClSideDone DEF ClSide
  <2>2. ItemWorkerSound'
    BY <1>1, <2>1, ItemWorkerKept DEF ClDone
  <2> QED BY <2>1, <2>2 DEF ClDone
<1>8. CASE ItSide
  <2>1. ItDone /\ UNCHANGED <<classCache, itemCache, classWorker>>
    BY <1>1, <1>8, ItSideDone DEF ItSide
  <2>2. StoresSound' /\ ClassWorkerSound'
    BY <1>1, <2>1, StoresKept, ClassWorkerKept DEF ItDone
  <2> QED BY <2>1, <2>2 DEF ItDone
<1>9. CASE GivenUp
  <2>1. /\ UNCHANGED <<classes, items>>
        /\ classCache' = classCache \/ classCache' = classes'
        /\ itemCache' = itemCache \/ itemCache' = items'
    BY <1>9 DEF GivenUp
  <2>2. /\ classWorker' = classWorker \/ classWorker' = ClIdle
        /\ itemWorker' = itemWorker \/ itemWorker' = ItIdle
    BY <1>9 DEF GivenUp
  <2>3. SidesTypeOK'
    BY <1>1, <2>1, <2>2, ClIdleTypes, ItIdleTypes DEF SidesTypeOK, ItemsTypeOK, ClassesTypeOK
  <2>4. /\ \A i \in Items : ItemGoesOn(items[i], items'[i])
        /\ \A c \in Classes : ClassGoesOn(classes[c], classes'[c])
    BY <1>3, <1>4, <2>1
  <2>5. StoresSound'
    BY <1>1, <2>1, <2>3, <2>4, StoresKept
  <2>6. ClassWorkerSound'
    <3>1. CASE UNCHANGED classWorker
      BY <1>1, <2>1, <2>3, <2>4, <3>1, ClassWorkerKept
    <3>2. CASE classWorker' = ClIdle
      BY <3>2, ClIdleTypes DEF ClassWorkerSound
    <3> QED BY <2>2, <3>1, <3>2
  <2>7. ItemWorkerSound'
    <3>1. CASE UNCHANGED itemWorker
      BY <1>1, <2>1, <3>1 DEF ItemWorkerSound
    <3>2. CASE itemWorker' = ItIdle
      BY <3>2, ItIdleTypes DEF ItemWorkerSound
    <3> QED BY <2>2, <3>1, <3>2
  <2> QED BY <2>3, <2>5, <2>6, <2>7
<1>10. CASE UNCHANGED sideVars
  BY <1>1, <1>10 DEF sideVars, SidesTypeOK, ItemsTypeOK, ClassesTypeOK, StoresSound,
                     ClassWorkerSound, ItemWorkerSound
<1> QED BY <1>5, <1>6, <1>7, <1>8, <1>9, <1>10, NextSides

LEMMA IInvHolds == Spec => []IInv
BY IInvInit, IInvStep, PTL DEF Spec

\* However old the copies are the reconcilers work from and wherever a call is given
\* up: nobody writes from a copy that was never stored, a class stays while its items
\* are made to list it, and an item the class has left stays without it.
THEOREM ListingIsSound == Spec => []ListingSound
<1>1. IInv => ListingSound
  BY DEF IInv
<1> QED BY <1>1, IInvHolds, PTL

LEMMA ListsHeld ==
    ASSUME IInv, [Next]_vars,
           NEW i \in Items, NEW c \in items'[i].obj.refs \ items[i].obj.refs
    PROVE  classes[c].live /\ classes[c].obj.finalizer
<1>1. SidesTypeOK /\ StoresSound /\ ClassWorkerSound /\ ItemWorkerSound
  BY Parts DEF IInv
<1>2. ASSUME ItemGoesOn(items[i], items'[i])
      PROVE  FALSE
  BY <1>2 DEF ItemGoesOn
<1>3. CASE UserWrite
  BY <1>1, <1>2, <1>3, UserTypes
<1>4. CASE Sync \/ GivenUp \/ UNCHANGED sideVars
  BY <1>4 DEF Sync, GivenUp, sideVars
<1>5. CASE ItSide
  BY <1>1, <1>2, <1>5, ItSideDone DEF ItDone
<1>6. CASE ClSide
  <2> DEFINE w == classWorker
             refs == w.item.obj.refs \cup {w.key}
  <2>1. CASE ~ClAddRef
    BY <1>1, <1>2, <1>6, <2>1, ClSideDone DEF ClDone
  <2>2. CASE ClAddRef
    <3>1. ClWriteRefs("addRef", refs, "update") /\ refs \in SUBSET Classes
      BY <1>1, <2>2, ClassCall DEF ClAddRef
    <3>2. UNCHANGED <<classCache, itemCache, itemWorker>>
      BY <1>6 DEF ClSide
    <3> HIDE DEF refs
    <3>3. /\ items[w.at] = w.item /\ items'[w.at].obj.refs = refs /\ w.pc = "addRef"
          /\ \A j \in Items \ {w.at} : items'[j] = items[j]
      BY <1>1, <3>1, <3>2, RefsWritten
    <3>4. c = w.key
      BY <3>3 DEF refs
    <3> QED BY <1>1, <3>3, <3>4 DEF ClassWorkerSound, HasFinalizer
  <2> QED BY <2>1, <2>2
<1> QED BY <1>3, <1>4, <1>5, <1>6, NextSides

\* An item comes to list only a class that its finalizer holds.
THEOREM ListsOnlyHeldHolds == Spec => ListsOnlyHeld
<1>1. IInv /\ [Next]_vars =>
          [\A i \in Items : \A c \in items'[i].obj.refs \ items[i].obj.refs :
               classes[c].live /\ classes[c].obj.finalizer]_vars
  BY ListsHeld
<1> QED BY <1>1, IInvHolds, PTL DEF Spec, ListsOnlyHeld

LEMMA Released ==
    ASSUME IInv, [Next]_vars,
           NEW c \in Classes, HasFinalizer(classes[c]), ~classes'[c].live,
           NEW i \in classes[c].obj.items
    PROVE  c \notin items[i].obj.refs
<1>1. SidesTypeOK /\ StoresSound /\ ClassWorkerSound /\ ItemWorkerSound
  BY Parts DEF IInv
<1>2. ASSUME ClassGoesOn(classes[c], classes'[c])
      PROVE  FALSE
  BY <1>2 DEF ClassGoesOn, HasFinalizer
<1>3. CASE UserWrite
  BY <1>1, <1>2, <1>3, UserTypes
<1>4. CASE Sync \/ GivenUp \/ UNCHANGED sideVars
  BY <1>4 DEF Sync, GivenUp, sideVars, HasFinalizer
<1>5. CASE ItSide
  BY <1>1, <1>2, <1>5, ItSideDone DEF ItDone
<1>6. CASE ClSide
  <2> DEFINE w == classWorker
  <2>1. CASE ~ClRemoveFinalizer
    BY <1>1, <1>2, <1>6, <2>1, ClSideDone DEF ClDone
  <2>2. CASE ClRemoveFinalizer
    <3>1. /\ w.pc = "release" /\ w.todo = {} /\ SameVersion(classes[w.key], w.class)
          /\ classes' = [classes EXCEPT ![w.key] = Deleted(classes[w.key], NoClassObject)]
      BY <2>2 DEF ClRemoveFinalizer, ClItemsDone, ClMayUpdate
    <3>2. c = w.key
      BY <1>1, <3>1 DEF HasFinalizer, SidesTypeOK, ClassesTypeOK
    <3>3. classes[c] = w.class
      BY <1>1, <3>1, <3>2 DEF ClassWorkerSound, SameVersion, Fresh
    <3> QED BY <1>1, <3>1, <3>2, <3>3 DEF ClassWorkerSound
  <2> QED BY <2>1, <2>2
<1> QED BY <1>3, <1>4, <1>5, <1>6, NextSides

\* A deleted class is let go only when none of its items lists it.
THEOREM ReleasedBeforeGoneHolds == Spec => ReleasedBeforeGone
<1>1. IInv /\ [Next]_vars =>
          [\A c \in Classes :
              classes[c].live /\ classes[c].obj.finalizer /\ ~classes'[c].live
              => \A i \in classes[c].obj.items : c \notin items[i].obj.refs]_vars
  BY Released DEF HasFinalizer
<1> QED BY <1>1, IInvHolds, PTL DEF Spec, ReleasedBeforeGone
=============================================================================
