----------------------- MODULE OperatorDeliveryProofs -----------------------
(***************************************************************************)
(* Proofs about Operator, continued: that a change of a class or an item   *)
(* arrives.  When nothing is left to do, the namespaces have the resources *)
(* their classes ask for, as the items say now.                            *)
(***************************************************************************)
EXTENDS OperatorSettledProofs

-----------------------------------------------------------------------------
(***************************************************************************)
(* A step, as the items see it                                             *)
(***************************************************************************)
\* What an item asks for, and what it says of being seen.
SameItem(old, new) ==
    new.obj.gen = old.obj.gen /\ new.obj.template = old.obj.template /\ new.obj.obs = old.obj.obs

\* A user says something else.
ItemEdited(i) ==
    /\ "editItem" \in left.acts
    /\ items'[i].obj.gen = items[i].obj.gen + 1
    /\ items'[i].obj.obs = items[i].obj.obs
    /\ items'[i].obj.refs = items[i].obj.refs
    /\ AdmitsItem(items'[i].obj.template)

\* The reconciler of items has seen what the item says.
ItemObserved(i) ==
    /\ ItObserve /\ itemWorker.key = i /\ itemWorker.item = items[i]
    /\ items'[i].obj.gen = items[i].obj.gen
    /\ items'[i].obj.template = items[i].obj.template
    /\ items'[i].obj.refs = items[i].obj.refs
    /\ items'[i].obj.obs = items[i].obj.gen

ItemsMove ==
    \A i \in Items : SameItem(items[i], items'[i]) \/ ItemEdited(i) \/ ItemObserved(i)

LEMMA OneItemMoves ==
    ASSUME ItemsTypeOK, NEW i \in Items, NEW new, items' = [items EXCEPT ![i] = new]
    PROVE  items'[i] = new /\ \A j \in Items \ {i} : SameItem(items[j], items'[j])
BY DEF ItemsTypeOK, SameItem

LEMMA ItemsMoveStep ==
    ASSUME ItemsInv, [Next]_vars
    PROVE  ItemsMove
<1> USE DEF itemStore
<1>1. /\ SidesTypeOK /\ ItemsTypeOK /\ ClassWorkerSound /\ ItemWorkerSound
      /\ LeftOK /\ ItemsLive
      /\ \A i \in Items : items[i] \in Slot(NamespaceClassItem)
                          /\ items[i].obj \in NamespaceClassItem
  BY Parts, Slots DEF ItemsInv, IInv, SidesTypeOK, Slot
<1>2. UNCHANGED items => ItemsMove
  BY DEF ItemsMove, SameItem
<1>3. CASE Users
  <2>1. ASSUME NEW i \in Items, NEW t \in Templates, May("editItem"), EditItem(i, t)
        PROVE  ItemsMove
    <3> DEFINE old == items[i].obj
               obj == [gen |-> old.gen + 1, template |-> t, obs |-> old.obs,
                       refs |-> old.refs]
               new == Updated(items[i], obj)
    <3>1. /\ items[i].live /\ AdmitsItem(t)
          /\ items' = [items EXCEPT ![i] = new]
      BY <2>1 DEF EditItem, AdmitsItemUpdate
    <3>2. /\ obj \in NamespaceClassItem /\ obj.gen = old.gen + 1 /\ obj.template = t
          /\ obj.obs = old.obs /\ obj.refs = old.refs
      BY <1>1 DEF NamespaceClassItem
    <3> HIDE DEF obj
    <3>3. new.obj = obj
      BY <1>1, <3>1, <3>2, SlotHolds
    <3> HIDE DEF new
    <3>4. items'[i] = new /\ \A j \in Items \ {i} : SameItem(items[j], items'[j])
      BY <1>1, <3>1, OneItemMoves
    <3>5. ItemEdited(i)
      BY <2>1, <3>1, <3>2, <3>3, <3>4 DEF ItemEdited, May
    <3> QED BY <3>4, <3>5 DEF ItemsMove
  <2>2. \A i \in Items, t \in Templates : ~CreateItem(i, t)
    BY <1>1 DEF CreateItem, ItemsLive
  <2>3. ~May("deleteItem")
    BY <1>1 DEF May, LeftOK
  <2>4. UNCHANGED items \/ \E i \in Items, t \in Templates : May("editItem") /\ EditItem(i, t)
    BY <1>3, <2>2, <2>3 DEF Users, CreateClass, EditClass, DeleteClass
  <2> QED BY <1>2, <2>1, <2>4
<1>4. CASE ClassStep
  <2> DEFINE w == classWorker
             i == classWorker.at
  <2>1. /\ i \in Items /\ w.item \in Slot(NamespaceClassItem) /\ w.key \in Classes
        /\ w.item.obj \in NamespaceClassItem /\ w.item.obj.refs \in SUBSET Classes
    BY <1>1, ClassCall
  <2>2. ASSUME NEW refs \in SUBSET Classes, w.pc \in {"addRef", "dropRef"},
               SameVersion(items[i], w.item),
               items' = [items EXCEPT ![i] = Updated(items[i], WithRefs(w.item.obj, refs))]
        PROVE  ItemsMove
    <3> DEFINE obj == WithRefs(w.item.obj, refs)
               new == Updated(items[i], obj)
    <3>1. items[i].live /\ items[i] = w.item
      BY <1>1, <2>1, <2>2 DEF ClassWorkerSound, SameVersion, Fresh, Slot
    <3>2. /\ obj \in NamespaceClassItem /\ obj.gen = w.item.obj.gen
          /\ obj.template = w.item.obj.template /\ obj.obs = w.item.obj.obs
      BY <2>1 DEF WithRefs, NamespaceClassItem
    <3>3. items' = [items EXCEPT ![i] = new]
      BY <2>2
    <3> HIDE DEF obj
    <3>4. new.obj = obj
      BY <1>1, <2>1, <3>1, <3>2, SlotHolds
    <3> HIDE DEF new
    <3>5. items'[i] = new /\ \A j \in Items \ {i} : SameItem(items[j], items'[j])
      BY <1>1, <2>1, <3>3, OneItemMoves
    <3> QED BY <3>1, <3>2, <3>4, <3>5 DEF ItemsMove, SameItem
  <2>3. CASE ClAddRef
    BY <2>1, <2>2, <2>3 DEF ClAddRef, ClWriteRefs
  <2>4. CASE ClDropRef
    BY <2>1, <2>2, <2>4 DEF ClDropRef, ClWriteRefs
  <2> QED
    BY <1>2, <1>4, <2>3, <2>4
    DEF ClassStep, ClReconcile, ClGetClass, ClAddFinalizer, ClListStates, ClAnnotateState,
        ClGetItem, ClRemoveTrigger, ClNoTrigger, ClRemoveFinalizer, ClRejected
<1>5. CASE ItemStep
  <2> DEFINE w == itemWorker
             i == itemWorker.key
             obj == Observed(w.item.obj)
             new == Updated(items[i], obj)
  <2>1. i \in Items /\ w.item \in Slot(NamespaceClassItem) /\ w.item.obj \in NamespaceClassItem
    BY <1>1, ItemCall
  <2>2. CASE ItObserve
    <3>1. /\ w.pc = "observe" /\ SameVersion(items[i], w.item)
          /\ items' = [items EXCEPT ![i] = new]
      BY <2>2 DEF ItObserve
    <3>2. items[i].live /\ items[i] = w.item
      BY <1>1, <2>1, <3>1 DEF ItemWorkerSound, SameVersion, Fresh, Slot
    <3>3. /\ obj \in NamespaceClassItem /\ obj.refs = w.item.obj.refs
          /\ obj.gen = w.item.obj.gen /\ obj.obs = obj.gen
          /\ obj.template = w.item.obj.template
      BY <2>1 DEF Observed, NamespaceClassItem
    <3> HIDE DEF obj
    <3>4. new.obj = obj
      BY <1>1, <2>1, <3>2, <3>3, SlotHolds
    <3> HIDE DEF new
    <3>5. items'[i] = new /\ \A j \in Items \ {i} : SameItem(items[j], items'[j])
      BY <1>1, <2>1, <3>1, OneItemMoves
    <3>6. ItemObserved(i)
      BY <2>2, <3>2, <3>3, <3>4, <3>5 DEF ItemObserved
    <3> QED BY <3>5, <3>6 DEF ItemsMove
  <2> QED
    BY <1>2, <1>5, <2>2
    DEF ItemStep, ItReconcile, ItGetItem, ItRefetch, ItGetClass, ItAnnotateClass, ItAnnounced,
        ItRejected
<1>6. CASE ~(Users \/ ClassStep \/ ItemStep)
  <2>1. UNCHANGED items
    BY <1>6
    DEF Next, vars, stores, Kubernetes, SyncNamespaces, SyncStates, SyncClasses, SyncItems,
        SyncInstances, NsStep, StateStep, InstanceStep, Restart, Resync, Fault, ClCallFails,
        ItCallFails
  <2> QED BY <1>2, <2>1
<1> QED BY <1>3, <1>4, <1>5, <1>6
-----------------------------------------------------------------------------
(***************************************************************************)
(* A step, as the instances and their reconciler see it                    *)
(***************************************************************************)
\* The calls that are at work on what an item says.
Working == {"getResource", "getOld", "deleteOld", "create", "update", "status"}

CoreTypeOK ==
    /\ ItemsTypeOK
    /\ InstancesTypeOK
    /\ ResourcesTypeOK
    /\ instWorker \in InCall

\* The list the state reconciler works from holds copies of what was stored.
StSeenOK ==
    LET w == stateWorker
    IN  w.pc = "write" => \A i \in Items : Fresh(w.seen[i], instances[w.key][i])

\* What others than its reconciler do to an instance.
Comes(old, new) ==
    /\ Later(old, new)
    /\ \/ new.obj.obs = 0
       \/ old.live /\ new.uid = old.uid /\ new.obj.obs = old.obj.obs
    /\ new.live /\ new.uid = old.uid => old.live

ItemMoves == UNCHANGED <<itemCache, instStore, resources, instWorker>>

InstanceMoves ==
    /\ \A n \in Namespaces, i \in Items :
          instances'[n][i] = instances[n][i] \/ Comes(instances[n][i], instances'[n][i])
    /\ UNCHANGED <<itemStore, instCache, resources, instWorker>>

Collected ==
    /\ \E n \in Namespaces, r \in Resources : CollectResource(n, r)
    /\ UNCHANGED <<itemStore, instStore, instWorker>>

\* Informers catch up, or a call is given up, or both.
Informed ==
    /\ itemCache' = items \/ UNCHANGED itemCache
    /\ instCache' = instances \/ UNCHANGED instCache
    /\ instWorker' = InIdle \/ UNCHANGED instWorker
    /\ UNCHANGED <<items, instances, resources>>

\* A call that starts, and that turns out to have nothing to apply or something.
Begins ==
    /\ \E n \in Namespaces, i \in Items :
          instWorker' = [pc |-> "getItem", ns |-> n, key |-> i, inst |-> instCache[n][i],
                         item |-> Vacant(NoItem), found |-> Vacant(NoResource)]
    /\ UNCHANGED <<itemStore, instStore, resources>>

Looks ==
    LET w == instWorker
    IN
    /\ w.pc = "getItem"
    /\ \/ instWorker' = [pc |-> "unmark", ns |-> w.ns, key |-> w.key, inst |-> w.inst,
                         item |-> w.item, found |-> w.found]
       \/ /\ w.inst.obj.obs # itemCache[w.key].obj.gen
          /\ instWorker' = [pc |-> "getResource", ns |-> w.ns, key |-> w.key, inst |-> w.inst,
                            item |-> itemCache[w.key], found |-> w.found]
    /\ UNCHANGED <<itemStore, instStore, resources>>

\* A call that goes on with what it has in hand.
GoesOn ==
    /\ InGetResource \/ InGetOld \/ InGetOldFails \/ InDeleteOld \/ InCreate \/ InUpdate
    /\ UNCHANGED <<itemStore, instStore>>

Records == InWriteStatus /\ UNCHANGED <<itemStore, instCache>>

Unmarks == InUnmark /\ UNCHANGED <<itemStore, instCache>>

Move ==
    \/ ItemMoves \/ InstanceMoves \/ Collected \/ Informed \/ Begins \/ Looks \/ GoesOn
    \/ Records \/ Unmarks

LEMMA CoreTypes ==
    ASSUME RestTypeOK, SidesTypeOK
    PROVE  /\ CoreTypeOK
           /\ \A n \in Namespaces, i \in Items :
                 /\ instances[n][i] \in Slot(NamespaceItemInstance)
                 /\ instances[n][i].obj \in NamespaceItemInstance
                 /\ instCache[n][i] \in Slot(NamespaceItemInstance)
BY DEF CoreTypeOK, RestTypeOK, SidesTypeOK, StoresOK, WorkersOK, InstancesTypeOK, Slot

\* An instance that was written by one who knew what was stored.
LEMMA InstanceComes ==
    ASSUME InstancesTypeOK, NEW n \in Namespaces, NEW i \in Items,
           NEW new, Comes(instances[n][i], new), instances' = [instances EXCEPT ![n][i] = new]
    PROVE  \A m \in Namespaces, j \in Items :
              instances'[m][j] = instances[m][j] \/ Comes(instances[m][j], instances'[m][j])
<1>1. /\ instances'[n][i] = new
      /\ \A m \in Namespaces, j \in Items : m # n \/ j # i => instances'[m][j] = instances[m][j]
  BY DEF InstancesTypeOK
<1> QED BY <1>1

LEMMA InstanceGone ==
    ASSUME NEW old \in Slot(NamespaceItemInstance)
    PROVE  Comes(old, Deleted(old, NoInstance))
<1> DEFINE new == Deleted(old, NoInstance)
<1>1. /\ Later(old, new) /\ ~new.live /\ new.obj = NoInstance
  BY VacantTypes DEF Deleted, Slot, Later
<1>2. NoInstance.obs = 0
  BY DEF NoInstance
<1> QED BY <1>1, <1>2 DEF Comes

LEMMA StMoves ==
    ASSUME RestTypeOK, SidesTypeOK, StSeenOK, StReconcile
    PROVE  \A n \in Namespaces, i \in Items :
              instances'[n][i] = instances[n][i] \/ Comes(instances[n][i], instances'[n][i])
<1> DEFINE w == stateWorker
           n == stateWorker.key
<1>1. /\ InstancesTypeOK /\ n \in Namespaces /\ w.state \in Slot(NamespaceState)
      /\ w.state.uid \in Nat /\ w.seen \in [Items -> Slot(NamespaceItemInstance)]
      /\ \A i \in Items : /\ instances[n][i] \in Slot(NamespaceItemInstance)
                          /\ instances[n][i].obj \in NamespaceItemInstance
  BY StCallTypes, CoreTypes DEF RestTypeOK, WorkersOK, CoreTypeOK
<1>2. ASSUME NEW i \in Items, StAnnotateInstance(i)
      PROVE  \E new : /\ Comes(instances[n][i], new)
                      /\ instances' = [instances EXCEPT ![n][i] = new]
  <2> DEFINE old == instances[n][i]
             obj == Touched(w.seen[i].obj)
             new == Updated(old, obj)
  <2>1. /\ old.live /\ old.rv = w.seen[i].rv /\ w.pc = "write"
        /\ instances' = [instances EXCEPT ![n][i] = new]
    BY <1>2 DEF StAnnotateInstance, SameVersion
  <2>2. w.seen[i] = old
    BY <1>1, <2>1 DEF StSeenOK, Fresh
  <2>3. obj \in NamespaceItemInstance /\ obj.obs = old.obj.obs
    BY <1>1, <2>2 DEF Touched, NamespaceItemInstance
  <2> HIDE DEF obj
  <2>4. /\ Later(old, new) /\ new.obj = obj /\ new.uid = old.uid
    BY <1>1, <2>1, <2>3 DEF Updated, Slot, Later
  <2> HIDE DEF new
  <2>5. Comes(old, new)
    BY <2>1, <2>3, <2>4 DEF Comes
  <2> QED BY <2>1, <2>5
<1>3. ASSUME NEW i \in Items, StCreateInstance(i)
      PROVE  \E new : /\ Comes(instances[n][i], new)
                      /\ instances' = [instances EXCEPT ![n][i] = new]
  <2> DEFINE old == instances[n][i]
             obj == NewInstance(w.state)
             new == Created(old, obj)
  <2>1. instances' = [instances EXCEPT ![n][i] = new]
    BY <1>3 DEF StCreateInstance
  <2>2. obj.obs = 0
    BY DEF NewInstance
  <2> HIDE DEF obj
  <2>3. Later(old, new) /\ new.obj = obj /\ new.uid # old.uid
    BY <1>1 DEF Created, Slot, Later
  <2> HIDE DEF new
  <2>4. Comes(old, new)
    BY <2>2, <2>3 DEF Comes
  <2> QED BY <2>1, <2>4
<1>4. ASSUME NEW i \in Items, StDeleteInstance(i)
      PROVE  \E new : /\ Comes(instances[n][i], new)
                      /\ instances' = [instances EXCEPT ![n][i] = new]
  BY <1>1, <1>4, InstanceGone DEF StDeleteInstance
<1>5. \/ UNCHANGED instances
      \/ \E i \in Items : StAnnotateInstance(i) \/ StCreateInstance(i) \/ StDeleteInstance(i)
  BY DEF StReconcile, StGetState, StGetClass, StListInstances, StCommit, StNothingToCommit,
         StRejected
<1>6. ASSUME NEW i \in Items, NEW new, Comes(instances[n][i], new),
             instances' = [instances EXCEPT ![n][i] = new]
      PROVE  \A m \in Namespaces, j \in Items :
                instances'[m][j] = instances[m][j] \/ Comes(instances[m][j], instances'[m][j])
  BY <1>1, <1>6, InstanceComes
<1> QED
  BY <1>2, <1>3, <1>4, <1>5, <1>6

LEMMA Moves ==
    ASSUME RestTypeOK, SidesTypeOK, ItemsLive, StSeenOK, [Next]_vars
    PROVE  Move
<1> USE DEF itemStore, instStore, inVars, Move
<1>1. CASE Users \/ ClassStep \/ ItemStep
  BY <1>1 DEF Users, ClassStep, ItemStep, ItemMoves
<1>2. CASE Kubernetes
  <2>1. UNCHANGED <<itemStore, instCache, instWorker>>
    BY <1>2 DEF Kubernetes
  <2>2. ASSUME NEW n \in Namespaces, NEW i \in Items, CollectInstance(n, i), UNCHANGED resources
        PROVE  InstanceMoves
    <3>1. Comes(instances[n][i], Deleted(instances[n][i], NoInstance))
      BY CoreTypes, InstanceGone
    <3>2. instances' = [instances EXCEPT ![n][i] = Deleted(instances[n][i], NoInstance)]
      BY <2>2 DEF CollectInstance
    <3>3. \A m \in Namespaces, j \in Items :
             instances'[m][j] = instances[m][j] \/ Comes(instances[m][j], instances'[m][j])
      BY <3>1, <3>2, CoreTypes, InstanceComes DEF CoreTypeOK
    <3> QED BY <2>1, <2>2, <3>3 DEF InstanceMoves
  <2> QED
    BY <1>2, <2>1, <2>2 DEF Kubernetes, CollectState, Informed, Collected
<1>3. CASE SyncNamespaces \/ SyncStates \/ SyncClasses \/ SyncItems \/ SyncInstances \/ NsStep
           \/ Restart \/ Resync
  BY <1>3 DEF SyncNamespaces, SyncStates, SyncClasses, SyncItems, SyncInstances, NsStep,
              Restart, Resync, stores, Informed
<1>4. CASE StateStep
  BY <1>4, StMoves DEF StateStep, InstanceMoves
<1>5. CASE InstanceStep
  <2>1. UNCHANGED <<itemStore, instCache>>
    BY <1>5 DEF InstanceStep
  <2>2. ASSUME NEW n \in Namespaces, NEW i \in Items, InGetInstance(n, i)
        PROVE  Begins \/ Informed
    BY <2>1, <2>2 DEF InGetInstance, Begins, Informed
  <2>3. CASE InGetItem
    BY <2>1, <2>3 DEF InGetItem, InReturn, InRequeue, InUnmarkOrReturn, InNeedsUpdate, Looks,
                      Informed
  <2>4. CASE InGetResource \/ InGetOld \/ InDeleteOld \/ InCreate \/ InUpdate
    <3>1. UNCHANGED instances
      BY <2>4 DEF InGetResource, InGetOld, InDeleteOld, InCreate, InUpdate
    <3> QED BY <2>1, <2>4, <3>1 DEF GoesOn
  <2>5. CASE InRejected
    BY <2>1, <2>5 DEF InRejected, InRequeue, Informed
  <2> QED
    BY <1>5, <2>1, <2>2, <2>3, <2>4, <2>5 DEF InstanceStep, InReconcile, Records, Unmarks
<1>6. CASE Fault
  <2>1. UNCHANGED <<itemCache, instCache>>
    BY <1>6 DEF Fault
  <2>2. CASE InCallFails /\ UNCHANGED items
    BY <2>1, <2>2 DEF InCallFails, InRequeue, Informed
  <2>3. CASE InGetOldFails /\ UNCHANGED items
    BY <2>1, <2>3 DEF InGetOldFails, GoesOn
  <2>4. CASE ~((InCallFails \/ InGetOldFails) /\ UNCHANGED items)
    <3>1. UNCHANGED <<instances, resources, instWorker>>
      BY <1>6, <2>4 DEF Fault, StCallFails
    <3> QED BY <2>1, <3>1 DEF ItemMoves
  <2> QED BY <2>2, <2>3, <2>4
<1>7. CASE UNCHANGED vars
  BY <1>7 DEF vars, stores, Informed
<1> QED
  BY <1>1, <1>2, <1>3, <1>4, <1>5, <1>6, <1>7 DEF Next

LEMMA StSeenStep ==
    ASSUME RestTypeOK, SidesTypeOK, CachesOK, StSeenOK, [Next]_vars
    PROVE  StSeenOK'
<1> DEFINE w == stateWorker
<1>1. /\ InstancesMove /\ InstancesTypeOK' /\ StatesNext
      /\ w.key \in Namespaces /\ w.seen \in [Items -> Slot(NamespaceItemInstance)]
      /\ \A n \in Namespaces, i \in Items :
            /\ instances[n][i] \in Slot(NamespaceItemInstance)
            /\ instCache[n][i] \in Slot(NamespaceItemInstance)
            /\ instances'[n][i] \in Slot(NamespaceItemInstance)
            /\ Later(instances[n][i], instances'[n][i])
  BY InstancesTyped, NextStates, StCallTypes, CoreTypes
  DEF InstancesMove, InstanceGoesOn, RestTypeOK, WorkersOK
<1>2. ASSUME NEW i \in Items, NEW copy \in Slot(NamespaceItemInstance), NEW n \in Namespaces,
             Fresh(copy, instances[n][i])
      PROVE  Fresh(copy, instances'[n][i])
  BY <1>1, <1>2, FreshStays
<1>3. CASE w'.pc = "write" /\ w.pc = "write" /\ w'.key = w.key /\ w'.seen = w.seen
  BY <1>1, <1>2, <1>3 DEF StSeenOK
<1>4. CASE StListInstances
  <2>1. w'.key = w.key /\ w'.seen = instCache[w.key]
    BY <1>4 DEF StListInstances
  <2>2. \A i \in Items : Fresh(instCache[w.key][i], instances'[w.key][i])
    BY <1>1, <1>2 DEF CachesOK
  <2> QED BY <2>1, <2>2 DEF StSeenOK
<1>5. CASE w'.pc # "write"
  BY <1>5 DEF StSeenOK
<1>6. CASE UNCHANGED stateWorker
  BY <1>3, <1>5, <1>6
<1>7. ASSUME NEW i \in Items,
             StAnnotateInstance(i) \/ StCreateInstance(i) \/ StDeleteInstance(i)
      PROVE  w.pc = "write" /\ w'.key = w.key /\ w'.seen = w.seen /\ w'.pc = "write"
  <2>1. w \in StCall /\ w.pc = "write"
    BY <1>7 DEF StAnnotateInstance, StCreateInstance, StDeleteInstance, RestTypeOK, WorkersOK,
                StCallOK
  <2>2. \/ stateWorker' = [stateWorker EXCEPT !.todo = @ \ {i}]
        \/ stateWorker' = [stateWorker EXCEPT !.extra = @ \ {i}]
    BY <1>7 DEF StAnnotateInstance, StCreateInstance, StDeleteInstance
  <2> QED BY <2>1, <2>2 DEF StCall
<1>8. CASE StReconcile
  <2>1. ASSUME NEW n \in Namespaces, StGetState(n)
        PROVE  w'.pc # "write"
    BY <2>1, IdleTypes DEF StGetState
  <2>2. StGetClass => w'.pc # "write"
    BY DEF StGetClass
  <2>3. StCommit \/ StNothingToCommit \/ StRejected => w'.pc # "write"
    BY IdleTypes DEF StCommit, StNothingToCommit, StRejected, StReturn, StRequeue
  <2> QED BY <1>3, <1>4, <1>5, <1>7, <1>8, <2>1, <2>2, <2>3 DEF StReconcile
<1>9. CASE ~StReconcile
  <2>1. UNCHANGED stateWorker \/ stateWorker' = StIdle
    BY <1>1, <1>9 DEF StatesNext, SyncStates, StCallFails, StRequeue, Restart, Resync, stateVars
  <2> QED BY <1>5, <1>6, <2>1, IdleTypes
<1> QED BY <1>8, <1>9
-----------------------------------------------------------------------------
(***************************************************************************)
(* What the instance reconciler has in hand, and does                      *)
(***************************************************************************)
\* A call that goes on keeps what it has read, and so what it is going to write.
LEMMA HandKept ==
    ASSUME CoreTypeOK, GoesOn
    PROVE  LET w == instWorker
           IN  /\ w.pc \in Working /\ w'.pc \in Working
               /\ w'.ns = w.ns /\ w'.key = w.key /\ w'.inst = w.inst /\ w'.item = w.item
               /\ InTarget' = InTarget /\ InOldResource' = InOldResource
               /\ instWorker' \in InCall
<1> DEFINE w == instWorker
<1> USE DEF CoreTypeOK
<1>1. /\ w \in InCall /\ w.ns \in Namespaces /\ InTarget \in Resources
      /\ w.inst \in Slot(NamespaceItemInstance) /\ w.item \in Slot(NamespaceClassItem)
      /\ w.key \in Items
  BY TargetTypes
<1>2. ASSUME NEW pc \in Working, instWorker' = [instWorker EXCEPT !.pc = pc]
      PROVE  /\ w'.pc = pc /\ w'.ns = w.ns /\ w'.key = w.key /\ w'.inst = w.inst
             /\ w'.item = w.item /\ instWorker' \in InCall
  BY <1>1, <1>2 DEF InCall, InWrites, Working
<1>3. CASE InGetResource
  <2>1. w.pc = "getResource"
    BY <1>3 DEF InGetResource
  <2>2. CASE resources[w.ns][InTarget].live
    <3>1. instWorker' = [pc |-> "update", ns |-> w.ns, key |-> w.key, inst |-> w.inst,
                         item |-> w.item, found |-> resources[w.ns][InTarget]]
      BY <1>3, <2>2 DEF InGetResource
    <3>2. resources[w.ns][InTarget] \in Slot(Resource)
      BY <1>1 DEF ResourcesTypeOK
    <3>3. instWorker' \in InCall
      BY <1>1, <3>1, <3>2, InCallTypes DEF InWrites
    <3> QED BY <2>1, <3>1, <3>3 DEF Working, InTarget, InOldResource
  <2>3. CASE ~resources[w.ns][InTarget].live
    <3>1. PICK pc \in Working : instWorker' = [instWorker EXCEPT !.pc = pc]
      BY <1>3, <2>3 DEF InGetResource, InGoTo, Working
    <3> QED BY <1>2, <2>1, <3>1 DEF Working, InTarget, InOldResource
  <2> QED BY <2>2, <2>3
<1>4. CASE InGetOld \/ InGetOldFails \/ InDeleteOld \/ InCreate \/ InUpdate
  <2>1. w.pc \in Working
    BY <1>4 DEF InGetOld, InGetOldFails, InDeleteOld, InCreate, InUpdate, Working
  <2>2. PICK pc \in Working : instWorker' = [instWorker EXCEPT !.pc = pc]
    BY <1>4 DEF InGetOld, InGetOldFails, InDeleteOld, InCreate, InUpdate, InGoTo, Working
  <2> QED BY <1>2, <2>1, <2>2 DEF InTarget, InOldResource
<1> QED
  BY <1>3, <1>4 DEF GoesOn

\* What it does to the resources, and when.
LEMMA Deeds ==
    ASSUME CoreTypeOK, GoesOn
    PROVE  LET w == instWorker
               n == instWorker.ns
           IN
           \/ /\ w.pc = "getResource" /\ UNCHANGED resources
              /\ w'.pc # "update" => w'.pc \in {"getOld", "create"}
                                     /\ ~resources[n][InTarget].live
           \/ /\ w.pc = "getOld" /\ UNCHANGED resources
              /\ w'.pc # "create" => /\ w'.pc = "deleteOld" /\ InOldResource \in Resources
                                     /\ resources[n][InOldResource].live
                                     /\ resources[n][InOldResource].obj.from = w.key
           \/ /\ w.pc = "deleteOld" /\ w'.pc = "create"
              /\ resources[n][InOldResource].live
              /\ resources' = [resources EXCEPT ![n][InOldResource] = Deleted(@, NoResource)]
           \/ /\ w.pc \in {"create", "update"} /\ w'.pc = "status"
              /\ \E new \in Slot(Resource) :
                    /\ new.live /\ new.obj = InResource
                    /\ resources' = [resources EXCEPT ![n][InTarget] = new]
<1> DEFINE w == instWorker
           n == instWorker.ns
<1> USE DEF CoreTypeOK
<1>1. /\ w \in InCall /\ n \in Namespaces /\ InTarget \in Resources /\ InResource \in Resource
      /\ resources[n][InTarget] \in Slot(Resource)
  BY TargetTypes DEF ResourcesTypeOK
<1>2. ASSUME NEW pc, InGoTo(pc)
      PROVE  w'.pc = pc
  BY <1>1, <1>2 DEF InGoTo, InCall
<1>3. CASE InGetResource
  <2>1. w.pc = "getResource" /\ UNCHANGED resources
    BY <1>3 DEF InGetResource
  <2>2. CASE resources[n][InTarget].live
    <3>1. w'.pc = "update"
      BY <1>3, <2>2 DEF InGetResource
    <3> QED BY <2>1, <3>1
  <2>3. CASE ~resources[n][InTarget].live
    <3>1. InGoTo("getOld") \/ InGoTo("create")
      BY <1>3, <2>3 DEF InGetResource
    <3>2. w'.pc \in {"getOld", "create"}
      BY <1>2, <3>1
    <3> QED BY <2>1, <2>3, <3>2
  <2> QED BY <2>2, <2>3
<1>4. CASE InGetOld
  <2>1. w.pc = "getOld" /\ UNCHANGED resources
    BY <1>4 DEF InGetOld
  <2>2. CASE InOldResource \in Resources /\ InOwns(resources[n][InOldResource])
    <3>1. w'.pc = "deleteOld"
      BY <1>2, <1>4, <2>2 DEF InGetOld
    <3> QED BY <2>1, <2>2, <3>1 DEF InOwns, OwnedBy
  <2>3. CASE ~(InOldResource \in Resources /\ InOwns(resources[n][InOldResource]))
    <3>1. w'.pc = "create"
      BY <1>2, <1>4, <2>3 DEF InGetOld
    <3> QED BY <2>1, <3>1
  <2> QED BY <2>2, <2>3
<1>5. CASE InGetOldFails
  BY <1>1, <1>5, OldUnread
<1>6. CASE InDeleteOld
  BY <1>2, <1>6 DEF InDeleteOld
<1>7. CASE InCreate
  <2> DEFINE new == Created(resources[n][InTarget], InResource)
  <2>1. /\ w.pc = "create" /\ w'.pc = "status"
        /\ resources' = [resources EXCEPT ![n][InTarget] = new]
    BY <1>2, <1>7 DEF InCreate
  <2>2. new \in Slot(Resource) /\ new.live /\ new.obj = InResource
    BY <1>1 DEF Created, Slot
  <2> HIDE DEF new
  <2> QED BY <2>1, <2>2
<1>8. CASE InUpdate
  <2> DEFINE new == Updated(resources[n][InTarget], InResource)
  <2>1. /\ w.pc = "update" /\ w'.pc = "status" /\ resources[n][InTarget].live
        /\ resources' = [resources EXCEPT ![n][InTarget] = new]
    BY <1>2, <1>8 DEF InUpdate, SameVersion
  <2>2. new \in Slot(Resource) /\ new.live /\ new.obj = InResource
    BY <1>1, <2>1 DEF Updated, Slot
  <2> HIDE DEF new
  <2> QED BY <2>1, <2>2
<1> QED
  BY <1>3, <1>4, <1>5, <1>6, <1>7, <1>8 DEF GoesOn

\* The two writes of the instance.
LEMMA OwnWrites ==
    ASSUME CoreTypeOK, Records \/ Unmarks
    PROVE  LET w == instWorker
               n == instWorker.ns
               i == instWorker.key
           IN
           \E new \in Slot(NamespaceItemInstance) :
               /\ instances[n][i].live /\ instances[n][i].rv = w.inst.rv
               /\ instances' = [instances EXCEPT ![n][i] = new]
               /\ Later(instances[n][i], new) /\ new.live /\ new.uid = instances[n][i].uid
               /\ UNCHANGED <<itemStore, instCache, resources>>
               /\ \/ /\ w.pc = "status"
                     /\ new.obj.obs = w.item.obj.gen
                     /\ \/ instWorker' = InIdle
                        \/ instWorker' = [pc |-> "unmark", ns |-> n, key |-> i, inst |-> new,
                                          item |-> w.item, found |-> w.found]
                  \/ /\ w.pc = "unmark"
                     /\ new.obj.obs = w.inst.obj.obs
                     /\ instWorker' = InIdle
<1> DEFINE w == instWorker
           n == instWorker.ns
           i == instWorker.key
<1> USE DEF CoreTypeOK
<1>1. /\ n \in Namespaces /\ i \in Items /\ w.inst.obj \in NamespaceItemInstance
      /\ w.item.obj \in NamespaceClassItem /\ KindOf(InTarget) \in Kinds
      /\ instances[n][i] \in Slot(NamespaceItemInstance)
  BY TargetTypes DEF InstancesTypeOK, Slot
<1>2. CASE Records
  <2> DEFINE obj == WithStatus(w.inst.obj, w.item.obj.gen, KindOf(InTarget))
             new == Updated(instances[n][i], obj)
  <2>1. /\ obj \in NamespaceItemInstance
        /\ obj.obs = w.item.obj.gen /\ obj.kind = KindOf(InTarget)
    BY <1>1 DEF WithStatus, NamespaceItemInstance, NamespaceClassItem
  <2>2. /\ w.pc = "status" /\ instances[n][i].live /\ instances[n][i].rv = w.inst.rv
        /\ instances' = [instances EXCEPT ![n][i] = new] /\ InUnmarkOrReturn(new)
        /\ UNCHANGED <<itemStore, instCache, resources>>
    BY <1>2 DEF Records, InWriteStatus, SameVersion
  <2> HIDE DEF obj
  <2>3. /\ new \in Slot(NamespaceItemInstance) /\ Later(instances[n][i], new) /\ new.live
        /\ new.uid = instances[n][i].uid /\ new.obj = obj
    <3>1. CASE obj = instances[n][i].obj
      BY <1>1, <2>2, <3>1 DEF Updated, Later
    <3>2. CASE obj # instances[n][i].obj
      BY <1>1, <2>1, <2>2, <3>2 DEF Updated, Slot, Later
    <3> QED BY <3>1, <3>2
  <2> HIDE DEF new
  <2>4. \/ instWorker' = InIdle
        \/ instWorker' = [pc |-> "unmark", ns |-> n, key |-> i, inst |-> new,
                          item |-> w.item, found |-> w.found]
    BY <2>2 DEF InUnmarkOrReturn
  <2> QED BY <2>1, <2>2, <2>3, <2>4
<1>3. CASE Unmarks
  <2> DEFINE obj == Unmarked(w.inst.obj)
             new == Updated(instances[n][i], obj)
  <2>1. /\ obj \in NamespaceItemInstance
        /\ obj.obs = w.inst.obj.obs /\ obj.kind = w.inst.obj.kind
    BY <1>1 DEF Unmarked, NamespaceItemInstance
  <2>2. /\ w.pc = "unmark" /\ instances[n][i].live /\ instances[n][i].rv = w.inst.rv
        /\ instances' = [instances EXCEPT ![n][i] = new] /\ instWorker' = InIdle
        /\ UNCHANGED <<itemStore, instCache, resources>>
    BY <1>3 DEF Unmarks, InUnmark, SameVersion, InReturn
  <2> HIDE DEF obj
  <2>3. /\ new \in Slot(NamespaceItemInstance) /\ Later(instances[n][i], new) /\ new.live
        /\ new.uid = instances[n][i].uid /\ new.obj = obj
    <3>1. CASE obj = instances[n][i].obj
      BY <1>1, <2>2, <3>1 DEF Updated, Later
    <3>2. CASE obj # instances[n][i].obj
      BY <1>1, <2>1, <2>2, <3>2 DEF Updated, Slot, Later
    <3> QED BY <3>1, <3>2
  <2> HIDE DEF new
  <2> QED BY <2>1, <2>2, <2>3
<1> QED
  BY <1>2, <1>3
-----------------------------------------------------------------------------
(***************************************************************************)
(* Copies of items and of instances                                        *)
(***************************************************************************)
\* A copy of an item is an earlier generation of it, or what it is.
Older(copy, item) ==
    /\ copy.obj.gen <= item.obj.gen
    /\ copy.obj.gen = item.obj.gen => copy.obj.template = item.obj.template

\* Generations only grow, and none is recorded before the informer has it.
OlderOK ==
    /\ \A i \in Items : items[i].obj.gen # 0 /\ Older(itemCache[i], items[i])
    /\ \A n \in Namespaces, i \in Items : instances[n][i].obj.obs <= itemCache[i].obj.gen
    /\ instWorker.pc \in Working =>
          /\ Older(instWorker.item, itemCache[instWorker.key])
          /\ instances[instWorker.ns][instWorker.key].obj.obs <= instWorker.item.obj.gen

\* An instance that has observed something is the one that its copy is of.
SameObject(copy, stored) == stored.live /\ stored.obj.obs # 0 => copy.uid = stored.uid

OwnCopiesOK ==
    /\ \A n \in Namespaces, i \in Items : SameObject(instCache[n][i], instances[n][i])
    /\ LET w == instWorker
           stored == instances[w.ns][w.key]
       IN  /\ w.pc # "idle" => Fresh(w.inst, stored)
           /\ w.pc \notin {"idle", "unmark"} =>
                 w.inst.rv <= instCache[w.ns][w.key].rv /\ SameObject(w.inst, stored)

LEMMA OlderStays ==
    ASSUME NEW a \in Slot(NamespaceClassItem), NEW b \in Slot(NamespaceClassItem),
           NEW c \in Slot(NamespaceClassItem), Older(a, b), Older(b, c)
    PROVE  Older(a, c)
BY DEF Older, Slot, NamespaceClassItem

LEMMA OlderSelf ==
    ASSUME NEW a \in Slot(NamespaceClassItem)
    PROVE  Older(a, a)
BY DEF Older, Slot, NamespaceClassItem

LEMMA ItemValues ==
    ASSUME CoreTypeOK
    PROVE  /\ \A i \in Items : /\ items[i] \in Slot(NamespaceClassItem)
                               /\ itemCache[i] \in Slot(NamespaceClassItem)
                               /\ items[i].obj.gen \in Nat /\ itemCache[i].obj.gen \in Nat
                               /\ items[i].obj.obs \in Nat /\ itemCache[i].obj.obs \in Nat
                               /\ items[i].obj.template \in Templates
                               /\ itemCache[i].obj.template \in Templates
           /\ \A n \in Namespaces, i \in Items :
                 /\ instances[n][i] \in Slot(NamespaceItemInstance)
                 /\ instCache[n][i] \in Slot(NamespaceItemInstance)
                 /\ instances[n][i].obj.obs \in Nat /\ instances[n][i].uid \in Nat
                 /\ instances[n][i].rv \in Nat /\ instCache[n][i].rv \in Nat
           /\ LET w == instWorker
              IN  /\ w.ns \in Namespaces /\ w.key \in Items /\ InTarget \in Resources
                  /\ w.inst \in Slot(NamespaceItemInstance)
                  /\ w.inst.uid \in Nat /\ w.inst.rv \in Nat
                  /\ w.item \in Slot(NamespaceClassItem) /\ w.item.obj.gen \in Nat
                  /\ w.item.obj.template \in Templates
<1>1. ASSUME NEW item \in Slot(NamespaceClassItem)
      PROVE  item.obj.gen \in Nat /\ item.obj.obs \in Nat /\ item.obj.template \in Templates
  BY <1>1 DEF Slot, NamespaceClassItem
<1>2. ASSUME NEW inst \in Slot(NamespaceItemInstance)
      PROVE  inst.obj.obs \in Nat /\ inst.uid \in Nat /\ inst.rv \in Nat
  BY <1>2 DEF Slot, NamespaceItemInstance
<1>3. \A i \in Items : items[i] \in Slot(NamespaceClassItem)
                       /\ itemCache[i] \in Slot(NamespaceClassItem)
  BY DEF CoreTypeOK, ItemsTypeOK
<1>4. \A n \in Namespaces, i \in Items :
         instances[n][i] \in Slot(NamespaceItemInstance)
         /\ instCache[n][i] \in Slot(NamespaceItemInstance)
  BY DEF CoreTypeOK, InstancesTypeOK
<1>5. /\ instWorker.ns \in Namespaces /\ instWorker.key \in Items /\ InTarget \in Resources
      /\ instWorker.inst \in Slot(NamespaceItemInstance)
      /\ instWorker.item \in Slot(NamespaceClassItem)
  BY TargetTypes DEF CoreTypeOK
<1> QED BY <1>1, <1>2, <1>3, <1>4, <1>5

LEMMA ItemsOlder ==
    ASSUME CoreTypeOK, ItemsMove
    PROVE  \A i \in Items : /\ Older(items[i], items'[i])
                            /\ items[i].obj.gen # 0 => items'[i].obj.gen # 0
BY ItemValues DEF ItemsMove, SameItem, ItemEdited, ItemObserved, Older

LEMMA OlderStep ==
    ASSUME CoreTypeOK, CoreTypeOK', OlderOK, OwnCopiesOK, ItemsMove, Move
    PROVE  OlderOK'
<1> USE DEF itemStore, instStore, Move
<1>0. /\ \A i \in Items : /\ items[i] \in Slot(NamespaceClassItem)
                          /\ itemCache[i] \in Slot(NamespaceClassItem)
                          /\ items'[i] \in Slot(NamespaceClassItem)
                          /\ itemCache[i].obj.gen \in Nat /\ items[i].obj.gen \in Nat
      /\ \A n \in Namespaces, i \in Items :
            /\ instances[n][i] \in Slot(NamespaceItemInstance)
            /\ instances[n][i].obj.obs \in Nat
      /\ instWorker.ns \in Namespaces /\ instWorker.key \in Items
      /\ instWorker.item \in Slot(NamespaceClassItem) /\ instWorker.item.obj.gen \in Nat
  BY ItemValues DEF CoreTypeOK, ItemsTypeOK
<1>1. CASE ItemMoves
  <2>1. \A i \in Items : items'[i].obj.gen # 0 /\ Older(itemCache[i], items'[i])
    BY <1>0, ItemsOlder, OlderStays DEF OlderOK
  <2> QED BY <1>1, <2>1 DEF ItemMoves, OlderOK, Older
<1>2. CASE InstanceMoves
  <2>1. UNCHANGED <<itemStore, instCache, resources, instWorker>>
    BY <1>2 DEF InstanceMoves
  <2>2. \A m \in Namespaces, j \in Items, g \in Nat :
           instances[m][j].obj.obs <= g => instances'[m][j].obj.obs <= g
    BY <1>2 DEF InstanceMoves, Comes
  <2> QED BY <1>0, <2>1, <2>2 DEF OlderOK, Older
<1>3. CASE Collected
  BY <1>3 DEF Collected, OlderOK, Older
<1>4. CASE Informed
  <2>1. UNCHANGED <<items, instances, resources>>
    BY <1>4 DEF Informed
  <2>2. \A i \in Items :
           /\ Older(itemCache'[i], items[i]) /\ Older(itemCache[i], itemCache'[i])
           /\ itemCache'[i] \in Slot(NamespaceClassItem) /\ itemCache'[i].obj.gen \in Nat
    BY <1>0, <1>4, OlderSelf DEF Informed, OlderOK
  <2>3. \A n \in Namespaces, i \in Items : instances[n][i].obj.obs <= itemCache'[i].obj.gen
    BY <1>0, <2>2 DEF OlderOK, Older
  <2>4. CASE UNCHANGED instWorker
    <3>1. ASSUME instWorker.pc \in Working
          PROVE  Older(instWorker.item, itemCache'[instWorker.key])
      BY <1>0, <2>2, <3>1, OlderStays DEF OlderOK
    <3> QED BY <2>1, <2>2, <2>3, <2>4, <3>1 DEF OlderOK, Older
  <2>5. CASE instWorker' = InIdle
    BY <2>1, <2>2, <2>3, <2>5, IdleTypes DEF OlderOK, Older, Working
  <2> QED BY <1>4, <2>4, <2>5 DEF Informed
<1>5. CASE Begins
  <2>1. instWorker'.pc = "getItem" /\ UNCHANGED <<itemStore, instStore, resources>>
    BY <1>5 DEF Begins
  <2> QED BY <2>1 DEF OlderOK, Older, Working
<1>6. CASE Looks
  <2> DEFINE w == instWorker
  <2>1. UNCHANGED <<itemStore, instStore, resources>>
    BY <1>6 DEF Looks
  <2>2. \/ w'.pc = "unmark"
        \/ w'.item = itemCache[w.key] /\ w'.ns = w.ns /\ w'.key = w.key
    BY <1>6 DEF Looks
  <2>3. CASE w'.pc = "unmark"
    BY <2>1, <2>3 DEF OlderOK, Older, Working
  <2>4. CASE w'.item = itemCache[w.key] /\ w'.ns = w.ns /\ w'.key = w.key
    <3>1. Older(w'.item, itemCache[w.key])
      BY <1>0, <2>4, OlderSelf
    <3> QED BY <1>0, <2>1, <2>4, <3>1 DEF OlderOK, Older
  <2> QED BY <2>2, <2>3, <2>4
<1>7. CASE GoesOn
  <2> DEFINE w == instWorker
  <2>1. UNCHANGED <<itemStore, instStore>>
    BY <1>7 DEF GoesOn
  <2>2. w.pc \in Working /\ w'.ns = w.ns /\ w'.key = w.key /\ w'.item = w.item
    BY <1>7, HandKept
  <2> QED BY <2>1, <2>2 DEF OlderOK, Older
<1>8. CASE Records \/ Unmarks
  <2> DEFINE w == instWorker
             n == instWorker.ns
             i == instWorker.key
  <2>1. PICK new \in Slot(NamespaceItemInstance) :
           /\ instances[n][i].live /\ instances[n][i].rv = w.inst.rv
           /\ instances' = [instances EXCEPT ![n][i] = new]
           /\ UNCHANGED <<itemStore, instCache, resources>>
           /\ \/ /\ w.pc = "status"
                 /\ new.obj.obs = w.item.obj.gen
                 /\ \/ instWorker' = InIdle
                    \/ instWorker' = [pc |-> "unmark", ns |-> n, key |-> i, inst |-> new,
                                      item |-> w.item, found |-> w.found]
              \/ /\ w.pc = "unmark"
                 /\ new.obj.obs = w.inst.obj.obs
                 /\ instWorker' = InIdle
    BY <1>8, OwnWrites
  <2>2. /\ instances'[n][i] = new
        /\ \A m \in Namespaces, j \in Items :
              m # n \/ j # i => instances'[m][j] = instances[m][j]
    BY <1>0, <2>1 DEF CoreTypeOK, InstancesTypeOK
  <2>3. instWorker'.pc \notin Working
    BY <2>1, IdleTypes DEF Working
  <2>4. new.obj.obs <= itemCache[i].obj.gen
    <3>1. CASE w.pc = "status"
      <4>1. Older(w.item, itemCache[i])
        BY <3>1 DEF OlderOK, Working
      <4> QED BY <2>1, <3>1, <4>1 DEF Older
    <3>2. CASE w.pc = "unmark"
      <4>1. w.inst = instances[n][i]
        BY <2>1, <3>2 DEF OwnCopiesOK, Fresh
      <4> QED BY <1>0, <2>1, <3>2, <4>1 DEF OlderOK
    <3> QED BY <2>1, <3>1, <3>2
  <2>5. \A m \in Namespaces, j \in Items : instances'[m][j].obj.obs <= itemCache[j].obj.gen
    BY <2>2, <2>4 DEF OlderOK
  <2> QED BY <2>1, <2>3, <2>5 DEF OlderOK, Older
<1> QED
  BY <1>1, <1>2, <1>3, <1>4, <1>5, <1>6, <1>7, <1>8

\* Copies stay copies, the one the call has in hand too.
LEMMA OwnCopiesStep ==
    ASSUME CoreTypeOK, CoreTypeOK', CachesOK, OwnCopiesOK, Move
    PROVE  OwnCopiesOK'
<1> USE DEF itemStore, instStore, Move
<1> DEFINE w == instWorker
<1>0. /\ \A n \in Namespaces, i \in Items :
            /\ instances[n][i] \in Slot(NamespaceItemInstance)
            /\ instCache[n][i] \in Slot(NamespaceItemInstance)
            /\ instances'[n][i] \in Slot(NamespaceItemInstance)
            /\ Fresh(instCache[n][i], instances[n][i])
      /\ w.ns \in Namespaces /\ w.key \in Items /\ w.inst \in Slot(NamespaceItemInstance)
  BY ItemValues DEF CachesOK, CoreTypeOK, InstancesTypeOK
<1>1. CASE ItemMoves \/ Collected
  BY <1>1 DEF ItemMoves, Collected, OwnCopiesOK, SameObject, Fresh
<1>2. CASE InstanceMoves
  <2>1. UNCHANGED <<itemStore, instCache, resources, instWorker>>
    BY <1>2 DEF InstanceMoves
  <2>2. ASSUME NEW m \in Namespaces, NEW j \in Items, NEW copy \in Slot(NamespaceItemInstance),
               Fresh(copy, instances[m][j])
        PROVE  /\ Fresh(copy, instances'[m][j])
               /\ SameObject(copy, instances[m][j]) => SameObject(copy, instances'[m][j])
    <3> DEFINE old == instances[m][j]
               new == instances'[m][j]
    <3>1. CASE new = old
      BY <2>2, <3>1 DEF SameObject
    <3>2. CASE Comes(old, new)
      <4>1. Later(old, new)
        BY <3>2 DEF Comes
      <4>2. Fresh(copy, new)
        BY <1>0, <2>2, <4>1, FreshStays
      <4> QED BY <3>2, <4>2 DEF Comes, SameObject
    <3> QED BY <1>2, <3>1, <3>2 DEF InstanceMoves
  <2>3. \A m \in Namespaces, j \in Items : SameObject(instCache[m][j], instances'[m][j])
    BY <1>0, <2>2 DEF OwnCopiesOK
  <2>4. /\ w.pc # "idle" => Fresh(w.inst, instances'[w.ns][w.key])
        /\ w.pc \notin {"idle", "unmark"} =>
              /\ w.inst.rv <= instCache[w.ns][w.key].rv
              /\ SameObject(w.inst, instances'[w.ns][w.key])
    BY <1>0, <2>2 DEF OwnCopiesOK
  <2> QED BY <2>1, <2>3, <2>4 DEF OwnCopiesOK, Fresh, SameObject
<1>3. CASE Informed
  <2>1. UNCHANGED instances /\ instCache' \in {instCache, instances}
    BY <1>3 DEF Informed
  <2>2. ASSUME NEW n \in Namespaces, NEW i \in Items
        PROVE  /\ SameObject(instCache'[n][i], instances[n][i])
               /\ instCache[n][i].rv <= instCache'[n][i].rv
    <3>1. CASE instCache' = instCache
      BY <1>0, <3>1 DEF OwnCopiesOK, Slot
    <3>2. CASE instCache' = instances
      BY <1>0, <3>2 DEF Fresh, SameObject
    <3> QED BY <2>1, <3>1, <3>2
  <2>3. CASE instWorker' = InIdle
    BY <2>1, <2>2, <2>3, IdleTypes DEF OwnCopiesOK, Fresh, SameObject
  <2>4. CASE UNCHANGED instWorker
    <3>1. w.pc \notin {"idle", "unmark"} => w.inst.rv <= instCache'[w.ns][w.key].rv
      <4>1. /\ w.inst.rv \in Nat /\ instCache[w.ns][w.key].rv \in Nat
            /\ instCache'[w.ns][w.key].rv \in Nat
        BY <1>0, <2>1 DEF Slot
      <4>2. instCache[w.ns][w.key].rv <= instCache'[w.ns][w.key].rv
        BY <1>0, <2>2
      <4> QED BY <4>1, <4>2 DEF OwnCopiesOK
    <3> QED BY <2>1, <2>2, <2>4, <3>1 DEF OwnCopiesOK, Fresh, SameObject
  <2> QED BY <1>3, <2>3, <2>4 DEF Informed
<1>4. CASE Begins
  <2>1. PICK n \in Namespaces, i \in Items :
           instWorker' = [pc |-> "getItem", ns |-> n, key |-> i, inst |-> instCache[n][i],
                          item |-> Vacant(NoItem), found |-> Vacant(NoResource)]
    BY <1>4 DEF Begins
  <2>2. /\ w'.ns = n /\ w'.key = i /\ w'.inst = instCache[n][i]
        /\ UNCHANGED instStore
    BY <1>4, <2>1 DEF Begins
  <2>3. instCache[n][i].rv <= instCache[n][i].rv
    BY <1>0 DEF Slot
  <2> QED BY <1>0, <2>2, <2>3 DEF OwnCopiesOK, Fresh, SameObject
<1>5. CASE Looks
  <2>1. w.pc = "getItem" /\ UNCHANGED instStore
    BY <1>5 DEF Looks
  <2>2. w'.ns = w.ns /\ w'.key = w.key /\ w'.inst = w.inst
    BY <1>5 DEF Looks
  <2> QED BY <2>1, <2>2 DEF OwnCopiesOK, Fresh, SameObject
<1>6. CASE GoesOn
  <2>1. UNCHANGED instStore
    BY <1>6 DEF GoesOn
  <2>2. w.pc \in Working /\ w'.ns = w.ns /\ w'.key = w.key /\ w'.inst = w.inst
    BY <1>6, HandKept
  <2> QED BY <2>1, <2>2 DEF OwnCopiesOK, Fresh, SameObject, Working
<1>7. CASE Records \/ Unmarks
  <2> DEFINE n == instWorker.ns
             i == instWorker.key
             stored == instances[n][i]
  <2>1. PICK new \in Slot(NamespaceItemInstance) :
           /\ stored.live /\ stored.rv = w.inst.rv
           /\ instances' = [instances EXCEPT ![n][i] = new]
           /\ Later(stored, new) /\ new.live /\ new.uid = stored.uid
           /\ UNCHANGED <<itemStore, instCache, resources>>
           /\ \/ /\ w.pc = "status"
                 /\ new.obj.obs = w.item.obj.gen
                 /\ \/ instWorker' = InIdle
                    \/ instWorker' = [pc |-> "unmark", ns |-> n, key |-> i, inst |-> new,
                                      item |-> w.item, found |-> w.found]
              \/ /\ w.pc = "unmark"
                 /\ new.obj.obs = w.inst.obj.obs
                 /\ instWorker' = InIdle
    BY <1>7, OwnWrites
  <2>2. /\ instances'[n][i] = new
        /\ \A m \in Namespaces, j \in Items :
              m # n \/ j # i => instances'[m][j] = instances[m][j]
    BY <1>0, <2>1 DEF CoreTypeOK, InstancesTypeOK
  <2>4. w.inst = stored
    BY <1>0, <2>1 DEF OwnCopiesOK, Fresh
  <2>5. SameObject(instCache[n][i], new)
    <3>1. CASE w.pc = "status"
      \* The copy in hand came from the informer, and is what is stored.
      <4>1. stored.rv <= instCache[n][i].rv /\ instCache[n][i].rv <= stored.rv
        BY <1>0, <2>4, <3>1 DEF OwnCopiesOK, Fresh
      <4>2. instCache[n][i] = stored
        BY <1>0, <4>1 DEF Fresh, Slot
      <4> QED BY <2>1, <4>2 DEF SameObject
    <3>2. CASE w.pc = "unmark"
      BY <1>0, <2>1, <2>4, <3>2 DEF OwnCopiesOK, SameObject
    <3> QED BY <2>1, <3>1, <3>2
  <2>6. \A m \in Namespaces, j \in Items : SameObject(instCache[m][j], instances'[m][j])
    BY <2>2, <2>5 DEF OwnCopiesOK
  <2>7. \/ w'.pc = "idle"
        \/ w'.pc = "unmark" /\ w'.inst = new /\ w'.ns = n /\ w'.key = i
    BY <2>1, IdleTypes
  <2>8. Fresh(new, new)
    BY FreshSelf
  <2>9. UNCHANGED instCache
    BY <2>1
  <2>10. CASE w'.pc = "idle"
    BY <2>6, <2>9, <2>10 DEF OwnCopiesOK
  <2>11. CASE w'.pc = "unmark" /\ w'.inst = new /\ w'.ns = n /\ w'.key = i
    <3>1. Fresh(w.inst, instances[w.ns][w.key])'
      BY <2>2, <2>8, <2>11
    <3> QED BY <2>6, <2>9, <2>11, <3>1 DEF OwnCopiesOK
  <2> QED BY <2>7, <2>10, <2>11
<1> QED
  BY <1>1, <1>2, <1>3, <1>4, <1>5, <1>6, <1>7
-----------------------------------------------------------------------------
(***************************************************************************)
(* What the status of an instance says of the resource                     *)
(***************************************************************************)
\* No resource is ever described by another item than its own.
Apart(HomeOf) == \A i \in Items : HomeOf[ResourceOf[items[i].obj.template]] = i

\* Nor written, then, for another.
Home(HomeOf) ==
    /\ \A i \in Items : HomeOf[ResourceOf[itemCache[i].obj.template]] = i
    /\ instWorker.pc \in Working => HomeOf[InTarget] = instWorker.key
    /\ instWorker.pc = "deleteOld" =>
          InOldResource \in Resources /\ HomeOf[InOldResource] = instWorker.key
    /\ \A n \in Namespaces, r \in Resources :
          resources[n][r].live => resources[n][r].obj.from = HomeOf[r]

\* The resource of item i in n is as the item says.
Applied(n, i) ==
    LET resource == resources[n][ResourceOf[items[i].obj.template]] IN
    /\ OwnedBy(resource, i, instances[n][i].uid)
    /\ resource.obj.template = items[i].obj.template

\* An instance that says it has observed the present generation.
Says(n, i) == instances[n][i].live /\ instances[n][i].obj.obs = items[i].obj.gen

\* The resource of such an instance is as the item says; before a resource is created no
\* instance can say so; and before the status is written the resource is what is going to
\* be recorded.
Honest ==
    /\ \A n \in Namespaces, i \in Items : Says(n, i) => Applied(n, i)
    /\ instWorker.pc \in {"getOld", "deleteOld", "create"} => ~Says(instWorker.ns, instWorker.key)
    /\ LET w == instWorker
           stored == instances[w.ns][w.key]
           resource == resources[w.ns][InTarget]
       IN  w.pc = "status" /\ stored.live /\ stored.uid = w.inst.uid =>
              OwnedBy(resource, w.key, w.inst.uid) /\ resource.obj.template = w.item.obj.template

LEMMA HomeStep ==
    ASSUME NEW HomeOf, CoreTypeOK, CoreTypeOK', Apart(HomeOf), Home(HomeOf), Move
    PROVE  Home(HomeOf)'
<1> DEFINE w == instWorker
<1> USE DEF itemStore, instStore, Move
<1>0. /\ w.ns \in Namespaces /\ w.key \in Items /\ InTarget \in Resources
      /\ resources \in [Namespaces -> [Resources -> Slot(Resource)]]
  BY ItemValues DEF CoreTypeOK, ResourcesTypeOK
<1>1. \A i \in Items : HomeOf[ResourceOf[itemCache'[i].obj.template]] = i
  <2>1. itemCache' \in {itemCache, items}
    BY DEF ItemMoves, InstanceMoves, Collected, Informed, Begins, Looks, GoesOn, Records,
           Unmarks
  <2> QED BY <2>1 DEF Apart, Home
<1>2. CASE ItemMoves \/ InstanceMoves
  <2>1. UNCHANGED <<resources, instWorker>>
    BY <1>2 DEF ItemMoves, InstanceMoves
  <2> QED BY <1>1, <2>1 DEF Home, InTarget, InOldResource
<1>3. CASE Collected
  <2>1. PICK n \in Namespaces, r \in Resources : CollectResource(n, r)
    BY <1>3 DEF Collected
  <2>2. UNCHANGED instWorker
    BY <1>3 DEF Collected
  <2>3. \A m \in Namespaces, q \in Resources :
           resources'[m][q].live => resources'[m][q] = resources[m][q]
    BY <1>0, <2>1 DEF CollectResource, Deleted
  <2>4. \A m \in Namespaces, q \in Resources :
           resources'[m][q].live => resources'[m][q].obj.from = HomeOf[q]
    BY <2>3 DEF Home
  <2> QED BY <1>1, <2>2, <2>4 DEF Home, InTarget, InOldResource
<1>4. CASE Informed
  <2>1. UNCHANGED resources /\ (instWorker' = InIdle \/ UNCHANGED instWorker)
    BY <1>4 DEF Informed
  <2>2. instWorker'.pc = "idle" \/ UNCHANGED instWorker
    BY <2>1, IdleTypes
  <2> QED BY <1>1, <2>1, <2>2 DEF Home, InTarget, InOldResource, Working
<1>5. CASE Begins
  <2>1. w'.pc = "getItem" /\ UNCHANGED resources
    BY <1>5 DEF Begins
  <2> QED BY <1>1, <2>1 DEF Home, Working
<1>6. CASE Looks
  <2>1. UNCHANGED resources
    BY <1>6 DEF Looks
  <2>2. CASE w'.pc = "unmark"
    BY <1>1, <2>1, <2>2 DEF Home, Working
  <2>3. CASE w'.pc # "unmark"
    <3>1. w'.pc = "getResource" /\ w'.key = w.key /\ w'.item = itemCache[w.key]
      BY <1>6, <2>3 DEF Looks
    <3>2. HomeOf[InTarget'] = w'.key
      BY <1>0, <3>1 DEF InTarget, Home
    <3> QED BY <1>1, <2>1, <3>1, <3>2 DEF Home
  <2> QED BY <2>2, <2>3
<1>7. CASE GoesOn
  <2>1. /\ w.pc \in Working /\ w'.pc \in Working /\ w'.key = w.key
        /\ InTarget' = InTarget /\ InOldResource' = InOldResource
    BY <1>7, HandKept
  <2>2. HomeOf[InTarget] = w.key
    BY <2>1 DEF Home
  <2>3. CASE w.pc = "getResource"
    <3>1. UNCHANGED resources /\ w'.pc # "deleteOld"
      BY <1>7, <2>3, Deeds
    <3> QED BY <1>1, <2>1, <2>2, <3>1 DEF Home
  <2>4. CASE w.pc = "getOld"
    <3>1. /\ UNCHANGED resources
          /\ w'.pc = "deleteOld" => /\ InOldResource \in Resources
                                    /\ resources[w.ns][InOldResource].live
                                    /\ resources[w.ns][InOldResource].obj.from = w.key
      BY <1>7, <2>4, Deeds
    <3>2. w'.pc = "deleteOld" => InOldResource \in Resources /\ HomeOf[InOldResource] = w.key
      BY <1>0, <3>1 DEF Home
    <3> QED BY <1>1, <2>1, <2>2, <3>1, <3>2 DEF Home
  <2>5. CASE w.pc = "deleteOld"
    <3>1. /\ w'.pc = "create"
          /\ resources' = [resources EXCEPT ![w.ns][InOldResource] = Deleted(@, NoResource)]
      BY <1>7, <2>5, Deeds
    <3>2. InOldResource \in Resources
      BY <2>5 DEF Home
    <3>3. \A m \in Namespaces, q \in Resources :
             resources'[m][q].live => resources'[m][q] = resources[m][q]
      BY <1>0, <3>1, <3>2 DEF Deleted
    <3>4. \A m \in Namespaces, q \in Resources :
             resources'[m][q].live => resources'[m][q].obj.from = HomeOf[q]
      BY <3>3 DEF Home
    <3> QED BY <1>1, <2>1, <2>2, <3>1, <3>4 DEF Home
  <2>6. CASE w.pc \in {"create", "update"}
    <3>1. PICK new \in Slot(Resource) :
             /\ new.live /\ new.obj = InResource
             /\ resources' = [resources EXCEPT ![w.ns][InTarget] = new]
      BY <1>7, <2>6, Deeds
    <3>2. w'.pc = "status"
      BY <1>7, <2>6, Deeds
    <3>3. new.obj.from = w.key
      BY <3>1 DEF InResource
    <3>4. \A m \in Namespaces, q \in Resources :
             resources'[m][q].live => resources'[m][q].obj.from = HomeOf[q]
      BY <1>0, <2>2, <3>1, <3>3 DEF Home
    <3> QED BY <1>1, <2>1, <2>2, <3>2, <3>4 DEF Home
  <2> QED BY <1>7, <2>3, <2>4, <2>5, <2>6, Deeds
<1>8. CASE Records \/ Unmarks
  <2>1. PICK new \in Slot(NamespaceItemInstance) :
           /\ UNCHANGED resources
           /\ \/ instWorker' = InIdle
              \/ instWorker' = [pc |-> "unmark", ns |-> w.ns, key |-> w.key, inst |-> new,
                                item |-> w.item, found |-> w.found]
    BY <1>8, OwnWrites
  <2>2. w'.pc \in {"idle", "unmark"}
    BY <2>1, IdleTypes
  <2> QED BY <1>1, <2>1, <2>2 DEF Home, Working
<1> QED BY <1>2, <1>3, <1>4, <1>5, <1>6, <1>7, <1>8

LEMMA HonestStep ==
    ASSUME NEW HomeOf, CoreTypeOK, CoreTypeOK', OlderOK, OwnCopiesOK, Apart(HomeOf), Home(HomeOf),
           Honest, ItemsMove, Move
    PROVE  Honest'
<1> USE DEF itemStore, instStore, Move
<1> DEFINE w == instWorker
           hand == instances[w.ns][w.key]
<1>1. /\ \A i \in Items : /\ items[i] \in Slot(NamespaceClassItem)
                          /\ itemCache[i] \in Slot(NamespaceClassItem)
                          /\ itemCache[i].obj.gen \in Nat /\ items[i].obj.gen \in Nat
                          /\ items[i].obj.gen # 0 /\ items[i].obj.template \in Templates
                          /\ ResourceOf[items[i].obj.template] \in Resources
      /\ \A n \in Namespaces, i \in Items :
            /\ instances[n][i] \in Slot(NamespaceItemInstance)
            /\ instances[n][i].obj.obs \in Nat /\ instances[n][i].uid \in Nat
      /\ w.ns \in Namespaces /\ w.key \in Items /\ InTarget \in Resources
      /\ w.inst \in Slot(NamespaceItemInstance) /\ w.inst.uid \in Nat
      /\ w.item \in Slot(NamespaceClassItem) /\ w.item.obj.gen \in Nat
  <2>1. \A i \in Items : items[i].obj.gen # 0
    BY DEF OlderOK
  <2>2. \A i \in Items : ResourceOf[items[i].obj.template] \in Resources
    BY ItemValues DEF Resources
  <2> QED BY <2>1, <2>2, ItemValues
\* Generations recorded are not ahead of the item.
<1>2. \A n \in Namespaces, i \in Items : instances[n][i].obj.obs <= items[i].obj.gen
  BY <1>1 DEF OlderOK, Older
\* What is in hand is the present generation if that has been observed.
<1>3. ASSUME w.pc \in Working, Says(w.ns, w.key)
        PROVE  /\ w.item.obj.template = items[w.key].obj.template
               /\ InTarget = ResourceOf[items[w.key].obj.template]
               /\ w.inst.uid = hand.uid
  <2>1. Older(w.item, items[w.key])
    BY <1>1, <1>3, OlderStays DEF OlderOK
  <2>2. w.item.obj.gen = items[w.key].obj.gen
    BY <1>1, <1>3, <2>1 DEF OlderOK, Says, Older
  <2>3. w.inst.uid = hand.uid
    BY <1>1, <1>3 DEF OwnCopiesOK, SameObject, Says, Working
  <2> QED BY <2>1, <2>2, <2>3 DEF Older, InTarget
<1>4. CASE ItemMoves
  <2>1. UNCHANGED <<itemCache, instStore, resources, instWorker>>
    BY <1>4 DEF ItemMoves
  <2>2. ASSUME NEW n \in Namespaces, NEW i \in Items, Says(n, i)'
        PROVE  Says(n, i) /\ items'[i].obj.template = items[i].obj.template
    <3>1. instances[n][i].live /\ instances[n][i].obj.obs = items'[i].obj.gen
      BY <2>1, <2>2 DEF Says
    <3>2. Older(items[i], items'[i]) /\ items'[i].obj.gen \in Nat
      BY ItemsOlder DEF CoreTypeOK, ItemsTypeOK, Slot, NamespaceClassItem
    <3>3. items'[i].obj.gen = items[i].obj.gen
      BY <1>1, <1>2, <3>1, <3>2 DEF Older
    <3> QED BY <3>1, <3>2, <3>3 DEF Older, Says
  <2>3. ASSUME NEW n \in Namespaces, NEW i \in Items, Says(n, i)'
        PROVE  Applied(n, i)'
    <3>1. Applied(n, i)
      BY <2>2, <2>3 DEF Honest
    <3> QED BY <2>1, <2>2, <2>3, <3>1 DEF Applied, OwnedBy
  <2>4. (w.pc \in {"getOld", "deleteOld", "create"} => ~Says(w.ns, w.key))'
    BY <1>1, <2>1, <2>2 DEF Honest
  <2>5. (w.pc = "status" /\ hand.live /\ hand.uid = w.inst.uid =>
             /\ OwnedBy(resources[w.ns][InTarget], w.key, w.inst.uid)
             /\ resources[w.ns][InTarget].obj.template = w.item.obj.template)'
    BY <2>1 DEF Honest, InTarget, OwnedBy
  <2> QED BY <2>3, <2>4, <2>5 DEF Honest
<1>5. CASE InstanceMoves
  <2>1. \A n \in Namespaces, i \in Items :
           instances'[n][i] = instances[n][i] \/ Comes(instances[n][i], instances'[n][i])
    BY <1>5 DEF InstanceMoves
  <2>2. UNCHANGED <<itemStore, instCache, resources, instWorker>>
    BY <1>5 DEF InstanceMoves
  <2>4. \A m \in Namespaces, j \in Items :
           Says(m, j)' => Says(m, j) /\ instances'[m][j].uid = instances[m][j].uid
    BY <1>1, <2>1, <2>2 DEF Says, Comes
  <2>5. \A m \in Namespaces, j \in Items : Says(m, j)' => Applied(m, j)'
    <3> SUFFICES ASSUME NEW m \in Namespaces, NEW j \in Items, Says(m, j)'
                 PROVE  Applied(m, j)'
      OBVIOUS
    <3>1. Applied(m, j) /\ instances'[m][j].uid = instances[m][j].uid
      BY <2>4 DEF Honest
    <3> QED BY <2>2, <3>1 DEF Applied, OwnedBy
  <2>6. w'.pc \in {"getOld", "deleteOld", "create"} => ~Says(w.ns, w.key)'
    BY <1>1, <2>2, <2>4 DEF Honest, Says
  <2>7. ASSUME w.pc # "idle", instances'[w.ns][w.key].live,
               instances'[w.ns][w.key].uid = w.inst.uid
        PROVE  hand.live /\ hand.uid = w.inst.uid
    <3>1. w.inst.uid <= hand.uid
      BY <2>7 DEF OwnCopiesOK, Fresh
    <3>2. hand' = hand \/ (Comes(hand, hand') /\ Later(hand, hand'))
      BY <1>1, <2>1, <2>2 DEF Comes
    <3>3. hand.uid = hand'.uid
      BY <1>1, <2>2, <2>7, <3>1, <3>2 DEF Later
    <3> QED BY <2>2, <2>7, <3>2, <3>3 DEF Comes
  <2>8. w'.pc = "status" /\ hand'.live /\ hand'.uid = w'.inst.uid =>
           /\ OwnedBy(resources'[w.ns][InTarget], w.key, w.inst.uid)
           /\ resources'[w.ns][InTarget].obj.template = w.item.obj.template
    BY <2>2, <2>7 DEF Honest
  <2>9. UNCHANGED instWorker /\ InTarget' = InTarget
    BY <2>2 DEF InTarget
  <2>10. (w.pc \in {"getOld", "deleteOld", "create"} => ~Says(w.ns, w.key))'
    BY <2>6, <2>9
  <2>11. (w.pc = "status" /\ hand.live /\ hand.uid = w.inst.uid =>
             /\ OwnedBy(resources[w.ns][InTarget], w.key, w.inst.uid)
             /\ resources[w.ns][InTarget].obj.template = w.item.obj.template)'
    BY <2>8, <2>9 DEF OwnedBy
  <2> QED BY <2>5, <2>10, <2>11 DEF Honest
<1>6. CASE Collected
  <2>1. PICK n \in Namespaces, r \in Resources : CollectResource(n, r)
    BY <1>6 DEF Collected
  <2>2. UNCHANGED <<itemStore, instStore, instWorker>>
    BY <1>6 DEF Collected
  <2>3. ASSUME NEW m \in Namespaces, NEW q \in Resources, NEW i \in Items,
               instances[m][i].live, OwnedBy(resources[m][q], i, instances[m][i].uid)
        PROVE  resources'[m][q] = resources[m][q]
    BY <2>1, <2>3 DEF CollectResource, Orphan, OwnedBy, CoreTypeOK, ResourcesTypeOK
  <2>4. ASSUME NEW m \in Namespaces, NEW i \in Items, Says(m, i)'
        PROVE  Applied(m, i)'
    <3>1. instances[m][i].live /\ Applied(m, i)
      BY <2>2, <2>4 DEF Honest, Says
    <3>2. resources'[m][ResourceOf[items[i].obj.template]]
             = resources[m][ResourceOf[items[i].obj.template]]
      BY <1>1, <2>3, <3>1 DEF Applied
    <3> QED BY <2>2, <3>1, <3>2 DEF Applied, OwnedBy
  <2>5. w.pc = "status" /\ hand.live /\ hand.uid = w.inst.uid =>
           resources'[w.ns][InTarget] = resources[w.ns][InTarget]
    BY <1>1, <2>3 DEF Honest
  <2> QED BY <2>2, <2>4, <2>5 DEF Honest, InTarget, OwnedBy, Says
<1>7. CASE Informed
  <2>1. UNCHANGED <<items, instances, resources>>
    BY <1>7 DEF Informed
  <2>2. instWorker'.pc = "idle" \/ UNCHANGED instWorker
    BY <1>7, IdleTypes DEF Informed
  <2> QED BY <2>1, <2>2 DEF Honest, Applied, InTarget, OwnedBy, Says
<1>8. CASE Begins \/ Looks
  <2>1. w'.pc \in {"getItem", "unmark", "getResource"}
    BY <1>8 DEF Begins, Looks
  <2>2. UNCHANGED <<items, instances, resources>>
    BY <1>8 DEF Begins, Looks
  <2> QED BY <2>1, <2>2 DEF Honest, Applied, OwnedBy, Says
<1>9. CASE GoesOn
  <2>1. UNCHANGED <<itemStore, instStore>>
    BY <1>9 DEF GoesOn
  <2>2. /\ w.pc \in Working /\ w'.ns = w.ns /\ w'.key = w.key /\ w'.inst = w.inst
        /\ w'.item = w.item /\ InTarget' = InTarget
    BY <1>9, HandKept
  <2>3. CASE w.pc = "getResource"
    <3>1. UNCHANGED resources
      BY <1>9, <2>3, Deeds
    <3>2. \/ w'.pc = "update"
          \/ w'.pc \in {"getOld", "create"} /\ ~resources[w.ns][InTarget].live
      BY <1>9, <2>3, Deeds
    <3>3. w'.pc \in {"getOld", "create"} => ~Says(w.ns, w.key)
      BY <1>1, <1>3, <2>2, <3>2 DEF Honest, Applied, OwnedBy
    <3>4. w'.pc # "status"
      BY <3>2
    <3>5. \A m \in Namespaces, j \in Items : Says(m, j)' => Applied(m, j)'
      BY <2>1, <3>1 DEF Honest, Applied, OwnedBy, Says
    <3>6. w'.pc \in {"getOld", "deleteOld", "create"} => ~Says(w.ns, w.key)'
      BY <2>1, <2>2, <3>2, <3>3 DEF Says
    <3> QED BY <2>2, <3>4, <3>5, <3>6 DEF Honest, Says
  <2>4. CASE w.pc = "getOld"
    <3>1. UNCHANGED resources /\ w'.pc \in {"create", "deleteOld"}
      BY <1>9, <2>4, Deeds
    <3> QED BY <2>1, <2>2, <2>4, <3>1 DEF Honest, Applied, OwnedBy, Says
  <2>5. CASE w.pc = "deleteOld"
    <3>1. /\ w'.pc = "create"
          /\ resources' = [resources EXCEPT
                               ![w.ns][InOldResource] = Deleted(@, NoResource)]
      BY <1>9, <2>5, Deeds
    <3>2. /\ ~Says(w.ns, w.key)
          /\ InOldResource \in Resources /\ HomeOf[InOldResource] = w.key
      BY <1>1, <2>5 DEF Honest, Home
    <3>3. \A m \in Namespaces, q \in Resources :
             m # w.ns \/ q # InOldResource => resources'[m][q] = resources[m][q]
      BY <3>1 DEF CoreTypeOK, ResourcesTypeOK
    <3>4. ASSUME NEW m \in Namespaces, NEW j \in Items, Says(m, j)'
          PROVE  Applied(m, j)'
      <4>1. Says(m, j) /\ Applied(m, j)
        BY <2>1, <3>4 DEF Honest, Says
      <4>2. m # w.ns \/ ResourceOf[items[j].obj.template] # InOldResource
        BY <3>2, <4>1 DEF Apart
      <4>3. resources'[m][ResourceOf[items[j].obj.template]]
               = resources[m][ResourceOf[items[j].obj.template]]
        BY <1>1, <3>3, <4>2
      <4> QED BY <2>1, <4>1, <4>3 DEF Applied, OwnedBy
    <3>5. ~Says(w.ns, w.key)'
      BY <2>1, <2>2, <3>2 DEF Says
    <3> QED BY <2>2, <3>1, <3>4, <3>5 DEF Honest, Says
  <2>6. CASE w.pc \in {"create", "update"}
    <3>1. w'.pc = "status"
      BY <1>9, <2>6, Deeds
    <3>2. PICK new \in Slot(Resource) :
             /\ new.live /\ new.obj = InResource
             /\ resources' = [resources EXCEPT ![w.ns][InTarget] = new]
      BY <1>9, <2>6, Deeds
    <3>3. /\ resources'[w.ns][InTarget] = new
          /\ \A m \in Namespaces, q \in Resources :
                m # w.ns \/ q # InTarget => resources'[m][q] = resources[m][q]
      BY <1>1, <3>2 DEF CoreTypeOK, ResourcesTypeOK
    <3>4. OwnedBy(new, w.key, w.inst.uid) /\ new.obj.template = w.item.obj.template
      BY <3>2 DEF OwnedBy, InResource
    <3>5. ASSUME NEW m \in Namespaces, NEW j \in Items, Says(m, j)
          PROVE  Applied(m, j)'
      <4>1. CASE m = w.ns /\ j = w.key
        <5>1. /\ instances[m][j].uid = w.inst.uid
              /\ InTarget = ResourceOf[items[j].obj.template]
              /\ w.item.obj.template = items[j].obj.template
          BY <1>1, <1>3, <2>2, <3>5, <4>1
        <5> QED BY <2>1, <3>3, <3>4, <4>1, <5>1 DEF Applied, OwnedBy
      <4>2. CASE ~(m = w.ns /\ j = w.key)
        <5>1. HomeOf[InTarget] = w.key
          BY <2>2 DEF Home
        <5>2. m # w.ns \/ ResourceOf[items[j].obj.template] # InTarget
          BY <4>2, <5>1 DEF Apart
        <5>3. /\ Applied(m, j)
              /\ resources'[m][ResourceOf[items[j].obj.template]]
                    = resources[m][ResourceOf[items[j].obj.template]]
          BY <1>1, <3>3, <3>5, <5>2 DEF Honest
        <5> QED BY <2>1, <5>3 DEF Applied, OwnedBy
      <4> QED BY <4>1, <4>2
    <3>6. \A m \in Namespaces, j \in Items : Says(m, j)' => Applied(m, j)'
      BY <2>1, <3>5 DEF Says
    <3>7. /\ OwnedBy(resources'[w'.ns][InTarget'], w'.key, w'.inst.uid)
          /\ resources'[w'.ns][InTarget'].obj.template = w'.item.obj.template
      BY <2>2, <3>3, <3>4
    <3> QED BY <3>1, <3>6, <3>7 DEF Honest, OwnedBy
  <2> QED BY <1>9, <2>3, <2>4, <2>5, <2>6, Deeds
<1>10. CASE Records \/ Unmarks
  <2>0. PICK n \in Namespaces, i \in Items : n = w.ns /\ i = w.key
    BY <1>1
  <2>1. PICK new \in Slot(NamespaceItemInstance) :
           /\ hand.live /\ hand.rv = w.inst.rv
           /\ instances' = [instances EXCEPT ![n][i] = new]
           /\ Later(hand, new) /\ new.live /\ new.uid = hand.uid
           /\ UNCHANGED <<itemStore, instCache, resources>>
           /\ \/ /\ w.pc = "status"
                 /\ new.obj.obs = w.item.obj.gen
                 /\ \/ instWorker' = InIdle
                    \/ instWorker' = [pc |-> "unmark", ns |-> n, key |-> i, inst |-> new,
                                      item |-> w.item, found |-> w.found]
              \/ /\ w.pc = "unmark"
                 /\ new.obj.obs = w.inst.obj.obs
                 /\ instWorker' = InIdle
    BY <1>10, <2>0, OwnWrites
  <2>2. /\ instances'[n][i] = new
        /\ \A m \in Namespaces, j \in Items :
              m # n \/ j # i => instances'[m][j] = instances[m][j]
    BY <1>1, <2>1 DEF CoreTypeOK, InstancesTypeOK
  <2>3. w'.pc \in {"idle", "unmark"}
    BY <2>1, IdleTypes
  <2>4. w.inst = hand
    BY <1>1, <2>1 DEF OwnCopiesOK, Fresh
  <2>5. ASSUME Says(n, i)'
        PROVE  Applied(n, i)'
    <3>1. new.obj.obs = items[i].obj.gen
      BY <2>0, <1>1, <2>1, <2>2, <2>5 DEF Says
    <3>2. CASE w.pc = "status"
      <4>1. Older(w.item, items[i])
        BY <2>0, <1>1, <3>2, OlderStays DEF OlderOK, Working
      <4>2. w.item.obj.template = items[i].obj.template
        BY <2>1, <3>1, <3>2, <4>1 DEF Older
      <4>3. OwnedBy(resources[n][InTarget], i, hand.uid)
            /\ resources[n][InTarget].obj.template = w.item.obj.template
        BY <2>0, <2>1, <2>4, <3>2 DEF Honest
      <4> QED BY <2>0, <2>1, <2>2, <4>2, <4>3 DEF Applied, OwnedBy, InTarget
    <3>3. CASE w.pc = "unmark"
      <4>1. Says(n, i)
        BY <2>0, <2>1, <2>4, <3>1, <3>3 DEF Says
      <4>2. Applied(n, i)
        BY <2>0, <1>1, <4>1 DEF Honest
      <4> QED BY <2>0, <2>1, <2>2, <4>2 DEF Applied, OwnedBy
    <3> QED BY <2>1, <3>2, <3>3
  <2>6. ASSUME NEW m \in Namespaces, NEW j \in Items, m # n \/ j # i, Says(m, j)'
        PROVE  Applied(m, j)'
    <3>1. UNCHANGED <<items, resources>> /\ instances'[m][j] = instances[m][j]
      BY <2>1, <2>2, <2>6
    <3>2. Applied(m, j)
      BY <2>6, <3>1 DEF Honest, Says
    <3> QED BY <3>1, <3>2 DEF Applied, OwnedBy
  <2> QED BY <2>3, <2>5, <2>6 DEF Honest
<1> QED
  BY <1>4, <1>5, <1>6, <1>7, <1>8, <1>9, <1>10
-----------------------------------------------------------------------------
(***************************************************************************)
(* A change of an item is seen                                             *)
(***************************************************************************)
\* Users may change what an item says.
Editing == "editItem" \in left.acts

\* There is news of item i on its way to the item reconciler, or that is about to say in
\* the status that it has seen the item as it is.
AttendedItem(i) ==
    \/ itemCache[i] # items[i]
    \/ i \in itemQueue
    \/ itemWorker.pc = "observe" /\ itemWorker.key = i /\ itemWorker.item = items[i]

\* A change that is not seen yet is attended, and what is seen the informer has.
SeenOK ==
    /\ \A i \in Items : /\ items[i].obj.obs # items[i].obj.gen => AttendedItem(i)
                        /\ items[i].obj.obs <= itemCache[i].obj.gen
    /\ itemWorker.pc = "observe" =>
          itemWorker.item.obj.gen <= itemCache[itemWorker.key].obj.gen
    /\ ~Editing => \A i \in Items : items[i].obj.gen = 1 /\ itemCache[i].obj.gen = 1

\* A step, as the item reconciler sees it.
ItemsNext ==
    \/ UNCHANGED <<itemCache, itVars>>
    \/ SyncItems
    \/ ItReconcile /\ UNCHANGED itemCache
    \/ ItCallFails /\ failed' /\ UNCHANGED itemCache
    \/ Restart
    \/ Resync

LEMMA NextItems ==
    ASSUME [Next]_vars
    PROVE  ItemsNext /\ (failed => failed')
<1> USE DEF itemStore, itVars
<1>1. CASE ItemStep
  BY <1>1 DEF ItemsNext, ItemStep, boundVars
<1>2. CASE Fault
  <2>1. UNCHANGED itemCache
    BY <1>2 DEF Fault
  <2>2. CASE ItCallFails /\ failed' = TRUE
    BY <2>1, <2>2 DEF ItemsNext
  <2>3. CASE ~(ItCallFails /\ failed' = TRUE)
    <3>1. UNCHANGED <<itemQueue, itemWorker, failed>>
      BY <1>2, <2>3 DEF Fault
    <3> QED BY <2>1, <3>1 DEF ItemsNext
  <2> QED BY <2>2, <2>3
<1>3. CASE Users \/ Kubernetes \/ SyncNamespaces \/ SyncStates \/ SyncClasses
           \/ SyncInstances \/ NsStep \/ StateStep \/ ClassStep \/ InstanceStep
           \/ UNCHANGED vars
  BY <1>3
  DEF vars, boundVars, stores, Users, Kubernetes, SyncNamespaces, SyncStates, SyncClasses,
      SyncInstances, NsStep, StateStep, ClassStep, InstanceStep, ItemsNext
<1>4. CASE SyncItems \/ Restart \/ Resync
  BY <1>4 DEF SyncItems, Restart, Resync, boundVars, ItemsNext
<1> QED BY <1>1, <1>2, <1>3, <1>4 DEF Next

LEMMA ItemsLater ==
    ASSUME IInv, [Next]_vars
    PROVE  \A i \in Items : Later(items[i], items'[i])
<1>1. SidesTypeOK /\ StoresSound /\ ClassWorkerSound /\ ItemWorkerSound
  BY Parts DEF IInv
<1>2. CASE UserWrite
  BY <1>1, <1>2, UserTypes DEF ItemGoesOn
<1>3. CASE Sync \/ GivenUp \/ UNCHANGED sideVars
  BY <1>3 DEF Sync, GivenUp, sideVars, Later
<1>4. CASE ItSide
  BY <1>1, <1>4, ItSideDone DEF ItDone, ItemGoesOn
<1>5. CASE ClSide
  BY <1>1, <1>5, ClSideDone DEF ClDone
<1> QED BY <1>2, <1>3, <1>4, <1>5, NextSides

LEMMA ChangedItem ==
    ASSUME IInv, IInv', [Next]_vars, NEW i \in Items, items'[i] # items[i]
    PROVE  itemCache'[i] # items'[i]
<1>1. UNCHANGED itemCache
  BY NextItems DEF ItemsNext, SyncItems, Restart, Resync, stores, itemStore
<1>2. /\ itemCache[i] \in Slot(NamespaceClassItem) /\ items[i] \in Slot(NamespaceClassItem)
      /\ items'[i] \in Slot(NamespaceClassItem)
      /\ Fresh(itemCache[i], items[i]) /\ Later(items[i], items'[i])
  BY Parts, Slots, ItemsLater DEF IInv, StoresSound, SidesTypeOK, ItemsTypeOK
<1>3. itemCache[i] # items'[i]
  BY <1>2, OldCopy
<1> QED BY <1>1, <1>3

LEMMA ItAttends ==
    ASSUME SidesTypeOK, ItemsLive, ItReconcile, UNCHANGED itemCache,
           NEW i \in Items, AttendedItem(i), items'[i] = items[i],
           items[i].obj.obs # items[i].obj.gen
    PROVE  AttendedItem(i)'
<1> DEFINE w == itemWorker
<1>1. /\ itemCache[i] \in Slot(NamespaceClassItem) /\ items[i] \in Slot(NamespaceClassItem)
      /\ w.item \in Slot(NamespaceClassItem) /\ w.item.obj \in NamespaceClassItem
      /\ ItemsTypeOK
  BY Slots, ItemCall DEF SidesTypeOK
<1>2. CASE itemCache[i] # items[i]
  BY <1>2 DEF AttendedItem
<1>3. CASE itemCache[i] = items[i] /\ i \in itemQueue
  <2>1. ASSUME NEW j \in Items, ItGetItem(j), j # i
        PROVE  AttendedItem(i)'
    BY <1>3, <2>1 DEF ItGetItem, AttendedItem
  <2>2. CASE ItGetItem(i)
    <3>1. itemWorker' = ItAt("observe", i, items[i], {})
      BY <1>3, <2>2 DEF ItGetItem, SpecChanged, ItemsLive
    <3>2. itemWorker'.pc = "observe" /\ itemWorker'.key = i /\ itemWorker'.item = items[i]
      BY <1>1, <3>1, ItAtTypes
    <3> QED BY <3>2 DEF AttendedItem
  <2>3. CASE ~\E j \in Items : ItGetItem(j)
    <3>1. i \in itemQueue'
      BY <1>3, <2>3
      DEF ItReconcile, ItObserve, ItRefetch, ItGetClass, ItAnnotateClass, ItAnnounced,
          ItRejected, ItReturn, ItRequeue
    <3> QED BY <3>1 DEF AttendedItem
  <2> QED BY <2>1, <2>2, <2>3
<1>4. CASE w.pc = "observe" /\ w.key = i /\ w.item = items[i]
  <2>1. CASE ItObserve
    <3> DEFINE obj == Observed(w.item.obj)
    <3>1. items'[i] = Updated(items[i], obj)
      BY <1>1, <1>4, <2>1 DEF ItObserve, ItemsTypeOK
    <3>2. obj.obs = w.item.obj.gen
      BY <1>1 DEF Observed, NamespaceClassItem
    <3> HIDE DEF obj
    <3>3. items'[i].obj = obj
      BY <3>1 DEF Updated
    <3> QED BY <1>4, <3>2, <3>3
  <2>2. CASE ItRejected
    BY <1>4, <2>2 DEF ItRejected, ItRequeue, AttendedItem
  <2>3. CASE ~(ItObserve \/ ItRejected)
    BY <1>4, <2>3
    DEF ItReconcile, ItGetItem, ItRefetch, ItGetClass, ItAnnotateClass, ItAnnounced
  <2> QED BY <2>1, <2>2, <2>3
<1> QED BY <1>2, <1>3, <1>4 DEF AttendedItem

LEMMA ItemAttention ==
    ASSUME "item" \in Controllers, SidesTypeOK, ItemsLive, [Next]_vars,
           NEW i \in Items, AttendedItem(i), items'[i] = items[i],
           items[i].obj.obs # items[i].obj.gen
    PROVE  AttendedItem(i)'
<1>1. CASE UNCHANGED <<itemCache, itVars>>
  BY <1>1 DEF AttendedItem, itVars
<1>2. CASE SyncItems
  <2>1. CASE itemCache[i] # items[i]
    <3>1. i \in Changed(itemCache, items)
      BY <2>1 DEF Changed, SidesTypeOK, ItemsTypeOK
    <3> QED BY <1>2, <3>1 DEF SyncItems, Watched, AttendedItem
  <2>2. CASE itemCache[i] = items[i]
    BY <1>2, <2>2 DEF SyncItems, AttendedItem
  <2> QED BY <2>1, <2>2
<1>3. CASE ItReconcile /\ UNCHANGED itemCache
  BY <1>3, ItAttends
<1>4. CASE ItCallFails /\ UNCHANGED itemCache
  BY <1>4 DEF ItCallFails, ItRequeue, AttendedItem
<1>5. CASE Restart
  <2>1. i \in Living(items)
    BY DEF Living, SidesTypeOK, ItemsTypeOK, ItemsLive
  <2> QED BY <1>5, <2>1 DEF Restart, Watched, AttendedItem
<1>6. CASE Resync
  BY <1>6 DEF Resync, Quiescent, AttendedItem
<1> QED BY <1>1, <1>2, <1>3, <1>4, <1>5, <1>6, NextItems DEF ItemsNext

LEMMA SeenStep ==
    ASSUME "item" \in Controllers, ItemsInv, ItemsInv', OlderOK, SeenOK, ItemsMove, [Next]_vars
    PROVE  SeenOK'
<1> DEFINE w == itemWorker
<1>1. /\ SidesTypeOK /\ SidesTypeOK' /\ IInv /\ IInv' /\ ItemsLive
      /\ Editing' <=> Editing
      /\ CoreTypeOK /\ CoreTypeOK'
  BY ActsStay, CoreTypes DEF ItemsInv, IInv, LeftOK, Editing, CoreTypeOK, SidesTypeOK,
     RestTypeOK, StoresOK, WorkersOK
<1>2. \A i \in Items :
         /\ items[i].obj.gen \in Nat /\ items'[i].obj.gen \in Nat
         /\ itemCache[i].obj.gen \in Nat /\ items[i].obj.obs \in Nat
         /\ itemCache[i].obj.gen <= items[i].obj.gen /\ items[i].obj.gen <= items'[i].obj.gen
  BY <1>1, ItemValues, ItemsOlder
  DEF OlderOK, Older, CoreTypeOK, ItemsTypeOK, Slot, NamespaceClassItem
<1>3. w.key \in Items /\ w.item \in Slot(NamespaceClassItem) /\ w.item.obj.gen \in Nat
      /\ w'.key \in Items
  BY <1>1, ItemCall DEF SidesTypeOK, ItCall, Slot, NamespaceClassItem
<1>4. itemCache' = itemCache \/ (itemCache' = items /\ UNCHANGED items)
  BY NextItems DEF ItemsNext, SyncItems, Restart, Resync, stores, itemStore
<1>5. ASSUME NEW i \in Items, items'[i].obj.obs # items'[i].obj.gen
      PROVE  AttendedItem(i)'
  <2>1. CASE items'[i] # items[i]
    BY <1>1, <2>1, ChangedItem DEF AttendedItem
  <2>2. CASE items'[i] = items[i]
    <3>1. AttendedItem(i) /\ items[i].obj.obs # items[i].obj.gen
      BY <1>5, <2>2 DEF SeenOK
    <3> QED BY <1>1, <2>2, <3>1, ItemAttention
  <2> QED BY <2>1, <2>2
<1>6. ASSUME NEW i \in Items
      PROVE  items'[i].obj.obs <= itemCache'[i].obj.gen
  <2>1. items[i].obj.obs <= itemCache'[i].obj.gen
    BY <1>2, <1>4 DEF SeenOK
  <2>2. CASE ItemObserved(i)
    <3>1. /\ w.pc = "observe" /\ w.key = i /\ w.item = items[i]
          /\ items'[i].obj.obs = items[i].obj.gen
      BY <2>2 DEF ItemObserved, ItObserve
    <3>2. items[i].obj.gen <= itemCache[i].obj.gen
      BY <3>1 DEF SeenOK
    <3> QED BY <1>2, <1>4, <3>1, <3>2
  <2>3. CASE ~ItemObserved(i)
    <3>1. items'[i].obj.obs = items[i].obj.obs
      BY <2>3 DEF ItemsMove, SameItem, ItemEdited
    <3> QED BY <2>1, <3>1
  <2> QED BY <2>2, <2>3
<1>7. ASSUME w'.pc = "observe"
      PROVE  w'.item.obj.gen <= itemCache'[w'.key].obj.gen
  <2>1. CASE UNCHANGED itemWorker
    BY <1>2, <1>3, <1>4, <1>7, <2>1 DEF SeenOK
  <2>2. ASSUME NEW i \in Items, ItGetItem(i), UNCHANGED itemCache
        PROVE  w'.item.obj.gen <= itemCache'[w'.key].obj.gen
    <3>1. itemCache[i] \in Slot(NamespaceClassItem)
      BY <1>1, ItemValues
    <3>2. w' = ItAt("observe", i, itemCache[i], {})
      BY <1>7, <2>2, ItIdleTypes DEF ItGetItem
    <3>3. w'.key = i /\ w'.item = itemCache[i]
      BY <3>1, <3>2, ItAtTypes
    <3> QED BY <1>2, <2>2, <3>3
  <2>3. CASE itemWorker' = ItIdle
    BY <1>7, <2>3, ItIdleTypes
  <2>4. CASE ItObserve
    <3>1. w'.pc = "refetch"
      BY <1>1, <2>4 DEF ItObserve, SidesTypeOK, ItCall
    <3> QED BY <1>7, <3>1
  <2>5. CASE ItRefetch \/ ItAnnotateClass
    BY <1>7, <2>5, ItIdleTypes DEF ItRefetch, ItAnnotateClass, ItRequeue, ItAt
  <2>6. ASSUME NEW c \in Classes, ItGetClass(c)
        PROVE  w'.pc # "observe"
    BY <1>1, <2>6 DEF ItGetClass, SidesTypeOK, ItCall
  <2>7. ItAnnounced \/ ItRejected \/ ItCallFails \/ Restart => itemWorker' = ItIdle
    BY DEF ItAnnounced, ItRejected, ItCallFails, Restart, ItReturn, ItRequeue
  <2> QED
    BY <1>7, <2>1, <2>2, <2>3, <2>4, <2>5, <2>6, <2>7, NextItems
    DEF ItemsNext, SyncItems, Resync, ItReconcile, itVars
<1>8. ASSUME ~Editing, NEW i \in Items
      PROVE  items'[i].obj.gen = 1 /\ itemCache'[i].obj.gen = 1
  <2>1. items'[i].obj.gen = items[i].obj.gen
    BY <1>8 DEF ItemsMove, SameItem, ItemEdited, ItemObserved, Editing
  <2> QED BY <1>4, <1>8, <2>1 DEF SeenOK
<1> QED BY <1>1, <1>5, <1>6, <1>7, <1>8 DEF SeenOK
-----------------------------------------------------------------------------
(***************************************************************************)
(* Where items may change, classes do not                                  *)
(***************************************************************************)
\* Users who change items make no classes nor change what they list, and no two classes
\* list the same item.
EditsAlone ==
    \A start \in Starts : "editItem" \in start.acts =>
        /\ start.acts \cap {"createClass", "editClass"} = {}
        /\ \A c, d \in Classes : c # d => FirstItems[c] \cap FirstItems[d] = {}

\* A class lists what it did at first.
ClassesFixed ==
    Editing =>
        /\ left.acts \cap {"createClass", "editClass"} = {}
        /\ \A c, d \in Classes : c # d => FirstItems[c] \cap FirstItems[d] = {}
        /\ \A c \in Classes : /\ classes[c].live => classes[c].obj.items = FirstItems[c]
                              /\ classCache[c].live => classCache[c].obj.items = FirstItems[c]

\* The class reconciler goes through these items, and lets go no class in use.
ClassHandOK ==
    LET w == classWorker IN
    w.pc # "idle" =>
        /\ w.class.obj.deleting => ~Taken(w.key)
        /\ Editing => w.class.obj.items = FirstItems[w.key] /\ w.todo \subseteq FirstItems[w.key]
        /\ w.pc \in {"addRef", "dropRef"} => w.at \in w.todo

\* An item lists none but its class.
RefsFixed ==
    Editing => \A i \in Items : \A c \in items[i].obj.refs \cup itemCache[i].obj.refs :
        i \in FirstItems[c]

\* Where a class in use exists, its items list it, and its namespaces have no others.
UseFixed ==
    Editing =>
        /\ \A c \in Classes : Taken(c) /\ classes[c].live =>
              \A i \in FirstItems[c] : c \in items[i].obj.refs /\ c \in itemCache[i].obj.refs
        /\ \A n \in Namespaces : Given(n) \in Classes /\ classes[Given(n)].live =>
              Installed(n) \cup Aim(n) \subseteq FirstItems[Given(n)]

\* What the class reconciler has in hand next.
LEMMA ClHand ==
    ASSUME SidesTypeOK, ClReconcile
    PROVE  LET w == classWorker
           IN
           \/ w'.pc = "idle"
           \/ /\ w'.key \in Classes /\ w'.class = classCache[w'.key] /\ w'.class.live
              /\ w'.todo = w'.class.obj.items /\ w'.pc \notin {"addRef", "dropRef"}
           \/ /\ w.pc # "idle" /\ w'.key = w.key
              /\ w'.class.obj.items = w.class.obj.items
              /\ w'.class.obj.deleting = w.class.obj.deleting
              /\ w'.todo \subseteq w.todo
              /\ w'.pc \in {"addRef", "dropRef"} => w'.at \in w'.todo
<1> DEFINE w == classWorker
<1>1. /\ w \in ClCallWith(w.seen) /\ w.key \in Classes /\ w.class.obj \in NamespaceClass
      /\ w.todo \in SUBSET Items /\ classes[w.key] \in Slot(NamespaceClass)
      /\ \A c \in Classes : /\ classCache[c] \in Slot(NamespaceClass)
                            /\ classCache[c].obj.items \in SUBSET Items
  BY ClassCall, Slots DEF SidesTypeOK, Slot, NamespaceClass
<1>2. ASSUME NEW c \in Classes, ClGetClass(c)
      PROVE  \/ w'.pc = "idle"
             \/ /\ w'.key \in Classes /\ w'.class = classCache[w'.key] /\ w'.class.live
                /\ w'.todo = w'.class.obj.items /\ w'.pc \notin {"addRef", "dropRef"}
  <2>1. CASE classCache[c].live
    <3>1. ClFirst(classCache[c]) \in {"addFinalizer", "list", "release"}
      BY <1>1 DEF ClFirst, Slot, NamespaceClass
    <3>2. w' = ClAt(ClFirst(classCache[c]), c, classCache[c], classCache[c].obj.items)
      BY <1>2, <2>1 DEF ClGetClass
    <3>3. /\ w'.pc = ClFirst(classCache[c]) /\ w'.key = c /\ w'.class = classCache[c]
          /\ w'.todo = classCache[c].obj.items
      BY <3>2 DEF ClAt
    <3> QED BY <2>1, <3>1, <3>3
  <2>2. CASE ~classCache[c].live
    BY <1>2, <2>2, ClIdleTypes DEF ClGetClass
  <2> QED BY <2>1, <2>2
<1>3. CASE ClAddFinalizer
  <2> DEFINE obj == WithFinalizer(w.class.obj)
             new == Updated(classes[w.key], obj)
  <2>1. w.pc = "addFinalizer" /\ w' = ClAt("list", w.key, new, w.todo)
    BY <1>3 DEF ClAddFinalizer
  <2>2. obj.items = w.class.obj.items /\ obj.deleting = w.class.obj.deleting
    BY <1>1 DEF WithFinalizer, NamespaceClass
  <2> HIDE DEF obj
  <2>3. new.obj = obj
    BY DEF Updated
  <2> HIDE DEF new
  <2>4. w'.pc = "list" /\ w'.key = w.key /\ w'.class = new /\ w'.todo = w.todo
    BY <2>1 DEF ClAt
  <2> QED BY <2>1, <2>2, <2>3, <2>4
<1>4. CASE ClListStates
  BY <1>4 DEF ClListStates
<1>5. ASSUME NEW n \in Namespaces, ClAnnotateState(n)
      PROVE  /\ w.pc = "update" /\ w'.pc = "update" /\ w'.key = w.key /\ w'.class = w.class
             /\ w'.todo = w.todo
  BY <1>1, <1>5 DEF ClAnnotateState, ClCallWith
<1>6. ASSUME NEW i \in Items, ClGetItem(i)
      PROVE  /\ w.pc # "idle" /\ w'.key = w.key /\ w'.class = w.class /\ w'.todo \subseteq w.todo
             /\ w'.pc \in {"addRef", "dropRef"} => w'.at \in w'.todo
  <2>1. CASE ClPasses(w, itemCache[i])
    <3>1. w' = [w EXCEPT !.todo = w.todo \ {i}] /\ w.pc \in {"update", "release"}
      BY <1>6, <2>1 DEF ClGetItem
    <3> QED BY <1>1, <3>1 DEF ClCallWith
  <2>2. CASE ~ClPasses(w, itemCache[i])
    BY <1>6, <2>2 DEF ClGetItem
  <2> QED BY <2>1, <2>2
<1>7. CASE ClAddRef \/ ClDropRef
  BY <1>7 DEF ClAddRef, ClDropRef, ClWriteRefs
<1>8. CASE ClRemoveTrigger \/ ClNoTrigger \/ ClRemoveFinalizer \/ ClRejected
  BY <1>8, ClIdleTypes
  DEF ClRemoveTrigger, ClNoTrigger, ClRemoveFinalizer, ClRejected, ClReturn, ClRequeue
<1> QED BY <1>2, <1>3, <1>4, <1>5, <1>6, <1>7, <1>8 DEF ClReconcile

LEMMA ClassHandStep ==
    ASSUME ItemsInv, GivenOn, UsedOK, ClassesFixed, ClassHandOK, [Next]_vars
    PROVE  ClassHandOK'
<1> DEFINE w == classWorker
<1>1. /\ SidesTypeOK /\ (Editing' <=> Editing) /\ w.key \in Classes
      /\ \A c \in Classes : Taken(c)' <=> Taken(c)
  BY ActsStay, ClassCall DEF ItemsInv, IInv, LeftOK, Editing, GivenOn, SidesTypeOK
<1>2. CASE UNCHANGED classWorker
  BY <1>1, <1>2 DEF ClassHandOK
<1>3. CASE w'.pc = "idle"
  BY <1>3 DEF ClassHandOK
<1>4. CASE ClReconcile
  <2>1. CASE /\ w'.key \in Classes /\ w'.class = classCache[w'.key] /\ w'.class.live
             /\ w'.todo = w'.class.obj.items /\ w'.pc \notin {"addRef", "dropRef"}
    <3>1. w'.class.obj.deleting => ~Taken(w.key)'
      BY <1>1, <2>1 DEF UsedOK
    <3>2. Editing => w'.class.obj.items = FirstItems[w'.key]
      BY <2>1 DEF ClassesFixed
    <3> QED BY <1>1, <2>1, <3>1, <3>2 DEF ClassHandOK
  <2>2. CASE /\ w.pc # "idle" /\ w'.key = w.key
             /\ w'.class.obj.items = w.class.obj.items
             /\ w'.class.obj.deleting = w.class.obj.deleting
             /\ w'.todo \subseteq w.todo
             /\ w'.pc \in {"addRef", "dropRef"} => w'.at \in w'.todo
    BY <1>1, <2>2 DEF ClassHandOK
  <2> QED BY <1>1, <1>3, <1>4, <2>1, <2>2, ClHand
<1>5. CASE classWorker' = ClIdle
  BY <1>3, <1>5, ClIdleTypes
<1> QED
  BY <1>2, <1>4, <1>5, NextClasses
  DEF ClassesNext, SyncClasses, ClCallFails, ClRequeue, Restart, Resync, clVars

LEMMA ClassesFixedStep ==
    ASSUME ItemsInv, ClassesFixed, [Next]_vars
    PROVE  ClassesFixed'
<1>1. IInv /\ left'.acts = left.acts
  BY ActsStay DEF ItemsInv, LeftOK
<1>2. CASE Editing
  <2>1. \A c \in Classes : ListKept(classes[c], classes'[c])
    BY <1>1, <1>2, ListsKept DEF ClassesFixed, May
  <2>2. classCache' = classCache \/ (classCache' = classes /\ UNCHANGED classes)
    BY NextClasses DEF ClassesNext, SyncClasses, Restart, Resync, stores, classStore
  <2> QED BY <1>1, <1>2, <2>1, <2>2 DEF ClassesFixed, ListKept, May, Editing
<1>3. CASE ~Editing
  BY <1>1, <1>3 DEF ClassesFixed, Editing
<1> QED BY <1>2, <1>3

LEMMA RefsFixedStep ==
    ASSUME ItemsInv, ClassHandOK, RefsFixed, [Next]_vars
    PROVE  RefsFixed'
<1> DEFINE w == classWorker
<1>1. ItemsGoOn /\ SidesTypeOK /\ (Editing' <=> Editing)
  BY ItemsStep, ActsStay DEF ItemsInv, IInv, LeftOK, Editing
<1>2. itemCache' = itemCache \/ (itemCache' = items /\ UNCHANGED items)
  BY NextItems DEF ItemsNext, SyncItems, Restart, Resync, stores, itemStore
<1>3. ASSUME Editing, NEW i \in Items, NEW c \in items'[i].obj.refs
      PROVE  i \in FirstItems[c]
  <2>1. CASE c \in items[i].obj.refs
    BY <1>3, <2>1 DEF RefsFixed
  <2>2. CASE c \notin items[i].obj.refs
    <3>1. ClAddRef /\ i = w.at /\ c = w.key
      BY <1>1, <1>3, <2>2 DEF ItemsGoOn, RefsTurn
    <3>2. w.pc = "addRef"
      BY <3>1 DEF ClAddRef, ClWriteRefs
    <3> QED BY <1>3, <3>1, <3>2 DEF ClassHandOK
  <2> QED BY <2>1, <2>2
<1>4. ASSUME Editing, NEW i \in Items, NEW c \in itemCache'[i].obj.refs
      PROVE  i \in FirstItems[c]
  BY <1>2, <1>4 DEF RefsFixed
<1> QED BY <1>1, <1>3, <1>4 DEF RefsFixed

LEMMA UseFixedStep ==
    ASSUME "state" \in Controllers, ItemsInv, StatesSteady, StSteady, GivenOn, OwnersOK,
           WriteOK, GrowOK, ClassesFixed, ClassHandOK, UseFixed, [Next]_vars
    PROVE  UseFixed'
<1> DEFINE w == classWorker
<1>1. /\ ItemsGoOn /\ SidesTypeOK /\ RestTypeOK /\ IInv /\ ClassWorkerSound
      /\ (Editing' <=> Editing)
      /\ \A c \in Classes : Taken(c)' <=> Taken(c)
  BY ItemsStep, ActsStay, Parts DEF ItemsInv, IInv, LeftOK, Editing, GivenOn
<1>2. itemCache' = itemCache \/ (itemCache' = items /\ UNCHANGED items)
  BY NextItems DEF ItemsNext, SyncItems, Restart, Resync, stores, itemStore
<1>3. ASSUME Editing, NEW c \in Classes, classes'[c].live
      PROVE  classes[c].live
  BY <1>1, <1>3, ListsKept DEF ClassesFixed, ListKept, May
<1>4. ASSUME Editing, NEW c \in Classes, Taken(c), classes'[c].live, NEW i \in FirstItems[c]
      PROVE  c \in items'[i].obj.refs /\ c \in itemCache'[i].obj.refs
  <2>1. c \in items[i].obj.refs /\ c \in itemCache[i].obj.refs
    BY <1>3, <1>4 DEF UseFixed
  <2>2. i \in Items
    BY <1>4, StartAssumption
  <2>3. ASSUME ClDropRef
        PROVE  w.key # c
    <3>1. w.pc = "dropRef"
      BY <2>3 DEF ClDropRef, ClWriteRefs
    <3> QED BY <1>1, <1>4, <3>1 DEF ClassWorkerSound, ClassHandOK
  <2>4. c \in items'[i].obj.refs
    BY <1>1, <2>1, <2>2, <2>3 DEF ItemsGoOn, RefsTurn
  <2> QED BY <1>2, <2>1, <2>4
<1>5. ASSUME Editing, NEW n \in Namespaces, NEW c \in Classes, Given(n)' = c, classes'[c].live
      PROVE  Installed(n)' \cup Aim(n)' \subseteq FirstItems[c]
  <2>1. CASE Given(n) = c
    <3>1. Installed(n) \cup Aim(n) \subseteq FirstItems[c]
      BY <1>3, <1>5, <2>1 DEF UseFixed
    <3>2. DesiredItems(c) \subseteq FirstItems[c]
      BY <1>5 DEF ClassesFixed, DesiredItems
    <3>3. AimTurn(n) /\ Installed(n)' \subseteq Installed(n) \cup Aim(n)
      BY <1>1, <2>1, AimStep
    <3>4. Aim(n)' = Aim(n) \/ Aim(n)' = Installed(n)' \/ Aim(n)' = DesiredItems(c)
      BY <2>1, <3>3 DEF AimTurn
    <3> QED BY <3>1, <3>2, <3>3, <3>4
  <2>2. CASE Given(n) # c
    BY <1>5, <2>2, GivenAnew
  <2> QED BY <2>1, <2>2
<1> QED BY <1>1, <1>4, <1>5 DEF UseFixed
-----------------------------------------------------------------------------
(***************************************************************************)
(* What the reconcilers of items and of instances have in hand             *)
(***************************************************************************)
\* The item reconciler goes through the classes of the item.
ItemHandOK ==
    LET w == itemWorker IN
    /\ Editing /\ w.pc \in {"announce", "annotate"} => \A c \in w.todo : w.key \in FirstItems[c]
    /\ w.pc = "annotate" => w.at \in w.todo /\ w.class.live

\* No item ever says what cannot be read.
ReadOK ==
    \A i \in Items : items[i].obj.template \in Parses /\ itemCache[i].obj.template \in Parses

\* An annotation is taken off only where there is one, and only what is new is applied.
InstHandOK ==
    LET w == instWorker IN
    /\ w.pc = "unmark" => w.inst.obj.updated
    /\ w.pc \in Working => w.inst.obj.obs # w.item.obj.gen

LEMMA ItHand ==
    ASSUME SidesTypeOK, ItemsLive
    PROVE  LET w == itemWorker
           IN
           /\ ItObserve => w.pc = "observe" /\ w'.pc = "refetch" /\ w'.key = w.key
           /\ ItRefetch =>
                 /\ w.pc = "refetch" /\ w'.pc = "announce" /\ w'.key = w.key
                 /\ w'.todo = itemCache[w.key].obj.refs
           /\ \A c \in Classes : ItGetClass(c) =>
                 /\ w.pc = "announce" /\ c \in w.todo /\ w'.key = w.key
                 /\ \/ /\ w'.pc = "announce" /\ w'.todo = w.todo \ {c}
                       /\ ~classCache[c].live \/ classCache[c].obj.itemUpdated
                    \/ /\ w'.pc = "annotate" /\ w'.todo = w.todo /\ w'.at = c
                       /\ w'.class = classCache[c] /\ classCache[c].live
           /\ ItAnnotateClass =>
                 /\ w.pc = "annotate" /\ w'.pc = "announce" /\ w'.key = w.key
                 /\ w'.todo = w.todo \ {w.at}
           /\ \A i \in Items : ItGetItem(i) => w.pc = "idle" /\ w'.pc \in {"idle", "observe"}
           /\ ItAnnounced => w.pc = "announce" /\ w.todo = {} /\ w'.pc = "idle"
           /\ ItRejected \/ ItCallFails => w.pc \in {"observe", "annotate"} /\ w'.pc = "idle"
<1> DEFINE w == itemWorker
<1>1. w \in ItCall /\ w.key \in Items /\ ItIdle.pc = "idle"
  BY ItemCall, ItIdleTypes DEF SidesTypeOK
<1>2. ItObserve => w.pc = "observe" /\ w'.pc = "refetch" /\ w'.key = w.key
  BY <1>1 DEF ItObserve, ItCall
<1>3. ASSUME ItRefetch
      PROVE  /\ w.pc = "refetch" /\ w'.pc = "announce" /\ w'.key = w.key
             /\ w'.todo = itemCache[w.key].obj.refs
  BY <1>1, <1>3 DEF ItRefetch, ItemsLive, ItAt
<1>4. ASSUME NEW c \in Classes, ItGetClass(c)
      PROVE  /\ w.pc = "announce" /\ c \in w.todo /\ w'.key = w.key
             /\ \/ /\ w'.pc = "announce" /\ w'.todo = w.todo \ {c}
                   /\ ~classCache[c].live \/ classCache[c].obj.itemUpdated
                \/ /\ w'.pc = "annotate" /\ w'.todo = w.todo /\ w'.at = c
                   /\ w'.class = classCache[c] /\ classCache[c].live
  <2>1. CASE ~classCache[c].live \/ classCache[c].obj.itemUpdated
    <3>1. w' = [w EXCEPT !.todo = w.todo \ {c}] /\ w.pc = "announce" /\ c \in w.todo
      BY <1>4, <2>1 DEF ItGetClass
    <3>2. w'.pc = w.pc /\ w'.todo = w.todo \ {c} /\ w'.key = w.key
      BY <1>1, <3>1 DEF ItCall
    <3> QED BY <2>1, <3>1, <3>2
  <2>2. CASE ~(~classCache[c].live \/ classCache[c].obj.itemUpdated)
    BY <1>4, <2>2 DEF ItGetClass
  <2> QED BY <2>1, <2>2
<1>5. ItAnnotateClass =>
         /\ w.pc = "annotate" /\ w'.pc = "announce" /\ w'.key = w.key
         /\ w'.todo = w.todo \ {w.at}
  BY DEF ItAnnotateClass, ItAt
<1>6. \A i \in Items : ItGetItem(i) => w.pc = "idle" /\ w'.pc \in {"idle", "observe"}
  BY <1>1 DEF ItGetItem, ItAt
<1>7. ItAnnounced => w.pc = "announce" /\ w.todo = {} /\ w'.pc = "idle"
  BY <1>1 DEF ItAnnounced, ItReturn
<1>8. ItRejected \/ ItCallFails => w.pc \in {"observe", "annotate"} /\ w'.pc = "idle"
  BY <1>1 DEF ItRejected, ItCallFails, ItRequeue
<1> QED BY <1>2, <1>3, <1>4, <1>5, <1>6, <1>7, <1>8

LEMMA ItemHandStep ==
    ASSUME ItemsInv, RefsFixed, ItemHandOK, [Next]_vars
    PROVE  ItemHandOK'
<1> DEFINE w == itemWorker
<1>1. /\ SidesTypeOK /\ ItemsLive /\ (Editing' <=> Editing)
      /\ w.key \in Items /\ ItIdle.pc = "idle"
  BY ActsStay, ItemCall, ItIdleTypes DEF ItemsInv, IInv, LeftOK, Editing
<1>2. CASE UNCHANGED itemWorker
  BY <1>1, <1>2 DEF ItemHandOK
<1>3. CASE w'.pc \notin {"announce", "annotate"}
  BY <1>3 DEF ItemHandOK
<1>4. CASE ItRefetch
  <2>1. w'.pc = "announce" /\ w'.key = w.key /\ w'.todo = itemCache[w.key].obj.refs
    BY <1>1, <1>4, ItHand
  <2>2. Editing => \A c \in itemCache[w.key].obj.refs : w.key \in FirstItems[c]
    BY <1>1 DEF RefsFixed
  <2> QED BY <1>1, <2>1, <2>2 DEF ItemHandOK
<1>5. ASSUME NEW c \in Classes, ItGetClass(c)
      PROVE  ItemHandOK'
  <2>1. /\ w.pc = "announce" /\ c \in w.todo /\ w'.key = w.key
        /\ \/ w'.pc = "announce" /\ w'.todo = w.todo \ {c}
           \/ /\ w'.pc = "annotate" /\ w'.todo = w.todo /\ w'.at = c
              /\ w'.class = classCache[c] /\ classCache[c].live
    BY <1>1, <1>5, ItHand
  <2> QED BY <1>1, <2>1 DEF ItemHandOK
<1>6. CASE ItAnnotateClass
  <2>1. /\ w.pc = "annotate" /\ w'.pc = "announce" /\ w'.key = w.key
        /\ w'.todo = w.todo \ {w.at}
    BY <1>1, <1>6, ItHand
  <2> QED BY <1>1, <2>1 DEF ItemHandOK
<1>7. \/ ItObserve \/ ItAnnounced \/ ItRejected \/ ItCallFails
      \/ itemWorker' = ItIdle
      \/ \E i \in Items : ItGetItem(i)
      => w'.pc \notin {"announce", "annotate"}
  BY <1>1, ItHand
<1> QED
  BY <1>2, <1>3, <1>4, <1>5, <1>6, <1>7, NextItems
  DEF ItemsNext, SyncItems, Restart, Resync, ItReconcile, itVars

LEMMA ReadStep ==
    ASSUME WebhooksEnabled, ReadOK, ItemsMove, [Next]_vars
    PROVE  ReadOK'
<1>1. itemCache' = itemCache \/ (itemCache' = items /\ UNCHANGED items)
  BY NextItems DEF ItemsNext, SyncItems, Restart, Resync, stores, itemStore
<1>2. ASSUME NEW i \in Items
      PROVE  items'[i].obj.template \in Parses
  BY <1>2
  DEF ReadOK, ItemsMove, SameItem, ItemEdited, ItemObserved, AdmitsItem, DryRunPasses
<1> QED BY <1>1, <1>2 DEF ReadOK

LEMMA InstHandStep ==
    ASSUME RestTypeOK, SidesTypeOK, CoreTypeOK, InstHandOK, Move, [Next]_vars
    PROVE  InstHandOK'
<1> DEFINE w == instWorker
<1> USE DEF Working
<1>1. CASE UNCHANGED instWorker
  BY <1>1 DEF InstHandOK
<1>2. InIdle.pc = "idle"
  BY DEF InIdle
<1>3. CASE instWorker' = InIdle
  BY <1>2, <1>3 DEF InstHandOK
<1>4. CASE Begins
  BY <1>4 DEF Begins, InstHandOK
<1>5. CASE Looks
  <2>1. CASE w'.pc = "unmark"
    <3>1. w.pc = "getItem"
      BY <1>5 DEF Looks
    <3>2. InReconcile
      <4>1. InReconcile \/ InGetOldFails \/ UNCHANGED instWorker \/ instWorker' = InIdle
        BY NextInstances
        DEF InstancesNext, inVars, SyncInstances, InCallFails, InRequeue, Restart, Resync
      <4> QED BY <1>2, <2>1, <3>1, <4>1 DEF InGetOldFails
    <3>3. InGetItem
      BY <3>1, <3>2
      DEF InReconcile, InGetInstance, InGetResource, InGetOld, InDeleteOld, InCreate, InUpdate,
          InWriteStatus, InUnmark, InRejected
    <3>4. w'.inst.obj.updated
      BY <1>2, <2>1, <3>3 DEF InGetItem, InReturn, InRequeue, InUnmarkOrReturn
    <3> QED BY <2>1, <3>4 DEF InstHandOK
  <2>2. CASE w'.pc # "unmark"
    BY <1>5, <2>2 DEF Looks, InstHandOK
  <2> QED BY <2>1, <2>2
<1>6. CASE GoesOn
  BY <1>6, HandKept DEF InstHandOK
<1>7. CASE Records
  <2>1. \E new : InUnmarkOrReturn(new)
    BY <1>7 DEF Records, InWriteStatus
  <2>2. PICK new : InUnmarkOrReturn(new)
    BY <2>1
  <2> QED BY <1>2, <2>2 DEF InUnmarkOrReturn, InstHandOK
<1>8. CASE Unmarks
  BY <1>3, <1>8 DEF Unmarks, InUnmark, InReturn
<1> QED
  BY <1>1, <1>3, <1>4, <1>5, <1>6, <1>7, <1>8
  DEF Move, ItemMoves, InstanceMoves, Collected, Informed
-----------------------------------------------------------------------------
(***************************************************************************)
(* Who will bring an instance up to date                                   *)
(***************************************************************************)
Behind(n, i) == instances[n][i].live /\ instances[n][i].obj.obs # items[i].obj.gen

\* The item reconciler is still to annotate the class.
ItemTells(c, i) ==
    LET w == itemWorker IN
    \/ items[i].obj.obs # items[i].obj.gen
    \/ /\ w.key = i
       /\ \/ w.pc = "refetch"
          \/ w.pc = "announce" /\ c \in w.todo
          \/ w.pc = "annotate" /\ w.at = c /\ w.class = classes[c]

\* The class reconciler is still to annotate the NamespaceState.
ClassTells(n) == ClassComing(n) \/ classes[Given(n)].obj.itemUpdated

\* The state reconciler is still to annotate the instance.
StateTells(n, i) ==
    LET w == stateWorker IN
    \/ StateComing(n)
    \/ /\ w.key = n /\ i \in w.todo
       /\ w.pc \in {"list", "write"}

Told(n, i) == Editing /\ (StateTells(n, i) \/ ClassTells(n) \/ ItemTells(Given(n), i))

\* An instance that is behind is attended, or somebody is on the way who will see to it.
ChainOK ==
    ~failed => \A n \in Namespaces, i \in Items :
        Behind(n, i) => AttendedInstance(n, i) \/ Told(n, i)

LEMMA InBehind ==
    ASSUME Namespaces \cap SystemNamespaces = {}, CoreTypeOK, ItemsLive, OlderOK, SeenOK,
           InstHandOK, InReconcile, UNCHANGED instCache,
           NEW n \in Namespaces, NEW i \in Items, AttendedInstance(n, i), Behind(n, i),
           instances'[n][i] = instances[n][i]
    PROVE  AttendedInstance(n, i)' \/ (Editing /\ items[i].obj.obs # items[i].obj.gen)
<1> DEFINE w == instWorker
           Goal == AttendedInstance(n, i)' \/ (Editing /\ items[i].obj.obs # items[i].obj.gen)
<1>1. w \in InCall /\ InstancesTypeOK
  BY DEF CoreTypeOK
<1>2. CASE instCache[n][i] # instances[n][i]
  BY <1>2 DEF AttendedInstance
<1>3. CASE instCache[n][i] = instances[n][i] /\ <<n, i>> \in instQueue
  <2>1. ASSUME NEW m \in Namespaces, NEW j \in Items, InGetInstance(m, j), <<m, j>> # <<n, i>>
        PROVE  Goal
    BY <1>3, <2>1 DEF InGetInstance, AttendedInstance
  <2>2. CASE InGetInstance(n, i)
    BY <1>3, <2>2 DEF InGetInstance, AttendedInstance, Behind
  <2>3. CASE ~\E m \in Namespaces, j \in Items : InGetInstance(m, j)
    <3>1. <<n, i>> \in instQueue'
      BY <1>3, <2>3
      DEF InReconcile, InGetItem, InGetResource, InGetOld, InDeleteOld, InCreate, InUpdate,
          InWriteStatus, InUnmark, InRejected, InReturn, InRequeue, InGoTo, InUnmarkOrReturn
    <3> QED BY <3>1 DEF AttendedInstance
  <2> QED BY <2>1, <2>2, <2>3
<1>4. CASE w.pc # "idle" /\ w.ns = n /\ w.key = i /\ w.inst = instances[n][i]
  <2>1. CASE InGetItem
    <3>1. CASE InNeedsUpdate(w.inst, itemCache[i])
      BY <1>4, <2>1, <3>1 DEF InGetItem, ItemsLive, InRequeue, AttendedInstance
    <3>2. CASE ~InNeedsUpdate(w.inst, itemCache[i])
      <4>1. /\ items[i].obj.obs \in Nat /\ items[i].obj.gen \in Nat
            /\ itemCache[i].obj.gen \in Nat
        BY ItemValues
      <4>2. itemCache[i].obj.gen # items[i].obj.gen
        BY <1>4, <3>2 DEF InNeedsUpdate, Behind
      <4>3. items[i].obj.obs <= itemCache[i].obj.gen /\ itemCache[i].obj.gen <= items[i].obj.gen
        BY DEF SeenOK, OlderOK, Older
      <4>4. items[i].obj.obs # items[i].obj.gen
        BY <4>1, <4>2, <4>3
      <4>5. Editing
        BY <4>2 DEF SeenOK
      <4> QED BY <4>4, <4>5
    <3> QED BY <3>1, <3>2
  <2>2. ASSUME NEW pc \in InWrites, InGoTo(pc)
        PROVE  AttendedInstance(n, i)'
    <3>1. /\ instWorker'.pc = pc /\ instWorker'.ns = n /\ instWorker'.key = i
          /\ instWorker'.inst = w.inst
      BY <1>1, <1>4, <2>2 DEF InGoTo, InCall
    <3>2. pc # "idle"
      BY DEF InWrites
    <3> QED BY <1>4, <3>1, <3>2 DEF AttendedInstance
  <2>3. CASE InGetResource
    <3>1. CASE InGoTo("getOld")
      <4>1. /\ instWorker'.pc = "getOld" /\ instWorker'.ns = n /\ instWorker'.key = i
            /\ instWorker'.inst = w.inst
        BY <1>1, <1>4, <3>1 DEF InGoTo, InCall
      <4> QED BY <1>4, <4>1 DEF AttendedInstance
    <3>2. CASE ~InGoTo("getOld")
      BY <1>4, <2>2, <2>3, <3>2 DEF InGetResource, InWrites, AttendedInstance
    <3> QED BY <3>1, <3>2
  <2>4. CASE InGetOld \/ InDeleteOld \/ InCreate \/ InUpdate
    BY <2>2, <2>4 DEF InGetOld, InDeleteOld, InCreate, InUpdate, InWrites
  <2>5. ~InWriteStatus
    <3> SUFFICES ASSUME InWriteStatus PROVE FALSE
      OBVIOUS
    <3> DEFINE new == Updated(instances[n][i],
                              WithStatus(w.inst.obj, w.item.obj.gen, KindOf(InTarget)))
    <3>1. instances'[n][i] = new /\ w.pc = "status"
      BY <1>1, <1>4 DEF InWriteStatus, InstancesTypeOK
    <3>2. new.obj.obs = w.item.obj.gen
      BY DEF Updated, WithStatus
    <3>3. w.inst.obj.obs # w.item.obj.gen
      BY <3>1 DEF InstHandOK, Working
    <3> QED BY <1>4, <3>1, <3>2, <3>3
  <2>6. ~InUnmark
    <3> SUFFICES ASSUME InUnmark PROVE FALSE
      OBVIOUS
    <3>1. /\ instances'[n][i] = Updated(instances[n][i], Unmarked(w.inst.obj))
          /\ w.pc = "unmark"
      BY <1>1, <1>4 DEF InUnmark, InstancesTypeOK
    <3>2. instances'[n][i].obj = Unmarked(w.inst.obj)
      BY <3>1 DEF Updated
    <3>3. w.inst.obj \in NamespaceItemInstance
      BY <1>1 DEF InCall, Slot
    <3>4. ~Unmarked(w.inst.obj).updated
      BY <3>3 DEF Unmarked, NamespaceItemInstance
    <3>5. w.inst.obj.updated
      BY <3>1 DEF InstHandOK
    <3> QED BY <1>4, <3>2, <3>4, <3>5
  <2>7. CASE InRejected
    BY <1>4, <2>7 DEF InRejected, InRequeue, AttendedInstance
  <2>8. ~\E m \in Namespaces, j \in Items : InGetInstance(m, j)
    BY <1>4 DEF InGetInstance
  <2> QED BY <2>1, <2>3, <2>4, <2>5, <2>6, <2>7, <2>8 DEF InReconcile
<1> QED BY <1>2, <1>3, <1>4 DEF AttendedInstance

LEMMA BehindAttention ==
    ASSUME "instance" \in Controllers, Namespaces \cap SystemNamespaces = {},
           RestTypeOK, SidesTypeOK, CoreTypeOK, ItemsLive, OlderOK, SeenOK, InstHandOK,
           [Next]_vars,
           NEW n \in Namespaces, NEW i \in Items, AttendedInstance(n, i), Behind(n, i),
           instances'[n][i] = instances[n][i]
    PROVE  AttendedInstance(n, i)' \/ (Editing /\ items[i].obj.obs # items[i].obj.gen)
<1>1. InstancesTypeOK /\ instWorker \in InCall
  BY DEF CoreTypeOK
<1>2. CASE UNCHANGED <<instCache, inVars>>
  BY <1>2 DEF AttendedInstance, inVars
<1>3. CASE SyncInstances
  <2>1. CASE instCache[n][i] # instances[n][i]
    <3>1. <<n, i>> \in ChangedInstances
      BY <1>1, <2>1 DEF ChangedInstances, Changed, InstancesTypeOK
    <3> QED BY <1>3, <3>1 DEF SyncInstances, Watched, AttendedInstance
  <2>2. CASE instCache[n][i] = instances[n][i]
    BY <1>3, <2>2 DEF SyncInstances, AttendedInstance
  <2> QED BY <2>1, <2>2
<1>4. CASE InReconcile /\ UNCHANGED instCache
  BY <1>4, InBehind
<1>5. CASE InCallFails /\ UNCHANGED instCache
  BY <1>5 DEF InCallFails, InRequeue, AttendedInstance
<1>6. CASE Restart
  <2>1. <<n, i>> \in LivingInstances(instances)
    BY <1>1 DEF LivingInstances, Living, InstancesTypeOK, Behind
  <2> QED BY <1>6, <2>1 DEF Restart, Watched, AttendedInstance
<1>7. CASE Resync
  BY <1>1, <1>7 DEF Resync, Quiescent, AttendedInstance
<1>8. CASE InGetOldFails /\ UNCHANGED instCache
  BY <1>1, <1>8, OldUnread DEF AttendedInstance
<1> QED BY <1>2, <1>3, <1>4, <1>5, <1>6, <1>7, <1>8, NextInstances DEF InstancesNext

\* The state reconciler at work.
LEMMA StTells ==
    ASSUME RestTypeOK, StReconcile \/ StCallFails,
           NEW n \in Namespaces, NEW i \in Items, instances'[n][i] = instances[n][i],
           instances[n][i].live,
           stateWorker.key = n, i \in stateWorker.todo,
           stateWorker.pc \in {"list", "write"}
    PROVE  StateTells(n, i)' \/ instances'[n][i].obj.updated
<1> DEFINE w == stateWorker
<1>1. w \in StCall /\ InstancesTypeOK
  BY DEF RestTypeOK, WorkersOK, StCallOK, StoresOK
<1>2. CASE w.pc = "list"
  <2>1. StListInstances
    BY <1>2
    DEF StReconcile, StCallFails, StGetState, StGetClass, StAnnotateInstance,
        StCreateInstance, StDeleteInstance, StCommit, StNothingToCommit, StInstancesDone,
        StRejected
  <2>2. w'.pc = "write" /\ w'.key = n /\ w'.todo = w.todo
    BY <2>1 DEF StListInstances
  <2> QED BY <2>2 DEF StateTells
<1>3. CASE w.pc = "write"
  <2>1. CASE StAnnotateInstance(i)
    <3> DEFINE obj == Touched(w.seen[i].obj)
    <3>1. instances'[n][i] = Updated(instances[n][i], obj)
      BY <1>1, <2>1 DEF StAnnotateInstance, InstancesTypeOK
    <3>2. w.seen[i].obj \in NamespaceItemInstance
      BY <1>1 DEF StCall, Slot
    <3>3. obj.updated
      BY <3>2 DEF Touched, NamespaceItemInstance
    <3> HIDE DEF obj
    <3>4. instances'[n][i].obj = obj
      BY <3>1 DEF Updated
    <3> QED BY <3>3, <3>4
  <2>2. ASSUME NEW j \in Items, StAnnotateInstance(j) \/ StCreateInstance(j), j # i
        PROVE  StateTells(n, i)'
    <3>1. w' = [w EXCEPT !.todo = w.todo \ {j}]
      BY <2>2 DEF StAnnotateInstance, StCreateInstance
    <3>2. w'.pc = w.pc /\ w'.key = w.key /\ w'.todo = w.todo \ {j}
      BY <1>1, <3>1 DEF StCall
    <3> QED BY <1>3, <2>2, <3>2 DEF StateTells
  <2>3. CASE StRejected \/ StCallFails
    BY <2>3 DEF StRejected, StCallFails, StRequeue, StateTells, StateComing
  <2>4. ~StCreateInstance(i)
    BY DEF StCreateInstance
  <2> QED
    BY <1>3, <2>1, <2>2, <2>3, <2>4
    DEF StReconcile, StGetState, StGetClass, StListInstances, StDeleteInstance, StCommit,
        StNothingToCommit, StInstancesDone
<1> QED BY <1>2, <1>3

LEMMA StateTellsStep ==
    ASSUME "state" \in Controllers, RestTypeOK, SidesTypeOK, StatesSteady, StSteady,
           ClassesFixed, Editing, [Next]_vars, ~Restart,
           NEW n \in Namespaces, NEW c \in Classes, Given(n) = c, Given(n)' = c, classes[c].live,
           classes'[c] = classes[c], states'[n] = states[n],
           NEW i \in FirstItems[c], instances'[n][i] = instances[n][i], instances[n][i].live,
           StateTells(n, i)
    PROVE  StateTells(n, i)' \/ ClassComing(n)' \/ instances'[n][i].obj.updated
<1> DEFINE w == stateWorker
<1>1. w \in StCall /\ i \in Items
  BY StartAssumption DEF RestTypeOK, WorkersOK, StCallOK
<1>2. CASE StGetClass /\ w.key = n
  <2>1. w.pc = "getClass" /\ w'.pc = "list"
    BY <1>2 DEF StGetClass
  <2>2. UNCHANGED classCache
    BY <2>1, IdleTypes
    DEF Next, vars, stores, classStore, stateVars, Users, Kubernetes, SyncNamespaces,
        SyncStates, SyncClasses, SyncItems, SyncInstances, NsStep, StateStep, ClassStep,
        ItemStep, InstanceStep, Fault, Restart, Resync
  <2>3. TargetClass(w.state) = c
    BY <1>2, <2>1 DEF StSteady, Steady, TargetClass, Given
  <2>4. w'.key = n /\ w'.todo = DesiredItems(c)
    BY <1>2, <2>3 DEF StGetClass
  <2>5. CASE classCache[c] = classes[c]
    <3>1. i \in w'.todo
      BY <2>4, <2>5 DEF DesiredItems, ClassesFixed
    <3> QED BY <2>1, <2>4, <3>1 DEF StateTells
  <2>6. CASE classCache[c] # classes[c]
    BY <2>2, <2>6 DEF ClassComing
  <2> QED BY <2>5, <2>6
<1>3. CASE StateComing(n) /\ ~(StGetClass /\ w.key = n)
  BY <1>3, StateComes DEF StateTells
<1>4. CASE w.key = n /\ i \in w.todo /\ w.pc \in {"list", "write"}
  <2>1. CASE UNCHANGED stateWorker
    BY <1>4, <2>1 DEF StateTells
  <2>2. CASE StReconcile \/ StCallFails
    BY <1>1, <1>4, <2>2, StTells
  <2>3. CASE ~(StReconcile \/ StCallFails)
    <3>1. UNCHANGED stateWorker
      BY <2>3, NextStates DEF StatesNext, SyncStates, Resync, stateVars
    <3> QED BY <2>1, <3>1
  <2> QED BY <2>1, <2>2, <2>3
<1> QED BY <1>2, <1>3, <1>4 DEF StateTells

\* The webhook lets the item reconciler annotate a class that is as it was read.
LEMMA ClassAdmitted ==
    ASSUME NEW HomeOf, CoreTypeOK, ItemsLive, Home(HomeOf), ReadOK,
           \A s, t \in Templates : KeyOf[s] = KeyOf[t] => ResourceOf[s] = ResourceOf[t],
           NEW set \in SUBSET Items, set # {}
    PROVE  AdmitsClass(set)
<1>1. \A i \in set : Readable(i)
  BY DEF Readable, ItemsLive, ReadOK
<1>2. ASSUME NEW i \in set, NEW j \in set, KeyOfItem(i) = KeyOfItem(j)
      PROVE  i = j
  <2>1. itemCache[i].obj.template \in Templates /\ itemCache[j].obj.template \in Templates
    BY ItemValues
  <2>2. ResourceOf[itemCache[i].obj.template] = ResourceOf[itemCache[j].obj.template]
    BY <1>2, <2>1 DEF KeyOfItem
  <2>3. /\ HomeOf[ResourceOf[itemCache[i].obj.template]] = i
        /\ HomeOf[ResourceOf[itemCache[j].obj.template]] = j
    BY DEF Home
  <2> QED BY <2>2, <2>3
<1>3. ~Conflict(set)
  BY <1>2 DEF Conflict
<1> QED BY <1>1, <1>3 DEF AdmitsClass

LEMMA ItemTellsStep ==
    ASSUME NEW HomeOf, Home(HomeOf), ReadOK,
           \A s, t \in Templates : KeyOf[s] = KeyOf[t] => ResourceOf[s] = ResourceOf[t],
           SidesTypeOK, CoreTypeOK, ItemsLive, ClassesFixed, ItemHandOK, UseFixed,
           Editing, ItemsMove, [Next]_vars, ~Restart, ~failed',
           NEW n \in Namespaces, NEW c \in Classes, Given(n) = c, Given(n)' = c,
           classes[c].live, classes'[c] = classes[c],
           NEW i \in FirstItems[c], items'[i].obj.gen = items[i].obj.gen, ItemTells(c, i)
    PROVE  ItemTells(c, i)' \/ ClassTells(n)'
<1> DEFINE w == itemWorker
<1>1. i \in Items /\ w \in ItCall /\ items[i].obj.gen \in Nat
  BY StartAssumption, ItemValues DEF SidesTypeOK
<1>2. CASE items[i].obj.obs # items[i].obj.gen
  <2>1. CASE ItemObserved(i)
    <3>1. w'.pc = "refetch" /\ w'.key = i
      BY <2>1, ItHand DEF ItemObserved
    <3> QED BY <3>1 DEF ItemTells
  <2>2. CASE SameItem(items[i], items'[i])
    BY <1>2, <2>2 DEF SameItem, ItemTells
  <2>3. CASE ItemEdited(i)
    BY <1>1, <2>3 DEF ItemEdited
  <2> QED BY <1>1, <2>1, <2>2, <2>3 DEF ItemsMove
<1>3. CASE /\ w.key = i
           /\ \/ w.pc = "refetch"
              \/ w.pc = "announce" /\ c \in w.todo
              \/ w.pc = "annotate" /\ w.at = c /\ w.class = classes[c]
  <2>1. CASE UNCHANGED itemWorker
    BY <1>3, <2>1 DEF ItemTells
  <2>2. CASE ItReconcile
    <3>1. CASE ItRefetch
      <4>1. w'.pc = "announce" /\ w'.key = i /\ w'.todo = itemCache[i].obj.refs
        BY <1>3, <3>1, ItHand
      <4>2. c \in itemCache[i].obj.refs
        BY DEF UseFixed, Taken
      <4> QED BY <4>1, <4>2 DEF ItemTells
    <3>2. ASSUME NEW d \in Classes, ItGetClass(d)
          PROVE  ItemTells(c, i)' \/ ClassTells(n)'
      <4>1. /\ w.pc = "announce" /\ d \in w.todo /\ w'.key = w.key
            /\ \/ ~classCache[d].live \/ classCache[d].obj.itemUpdated
               \/ w'.pc = "annotate" /\ w'.at = d /\ w'.class = classCache[d]
        BY <3>2, ItHand
      <4>2. d = c
        BY <1>3, <4>1 DEF ItemHandOK, ClassesFixed
      <4>3. UNCHANGED classCache
        <5>1. w'.pc # "idle" /\ w' # w
          BY <1>1, <3>2, <4>1, ItHand DEF ItCall
        <5> QED
          BY <5>1, ItIdleTypes
          DEF Next, vars, stores, classStore, itVars, Users, Kubernetes, SyncNamespaces,
              SyncStates, SyncClasses, SyncItems, SyncInstances, NsStep, StateStep, ClassStep,
              ItemStep, InstanceStep, Fault, Restart, Resync
      <4>4. CASE classCache[c] # classes[c]
        BY <1>1, <4>3, <4>4 DEF ClassTells, ClassComing
      <4>5. CASE classCache[c] = classes[c] /\ classes[c].obj.itemUpdated
        BY <1>1, <4>5 DEF ClassTells
      <4>6. CASE classCache[c] = classes[c] /\ ~classes[c].obj.itemUpdated
        BY <1>3, <4>1, <4>2, <4>6 DEF ItemTells
      <4> QED BY <4>4, <4>5, <4>6
    <3>3. CASE ItAnnotateClass
      <4> DEFINE obj == WithTrigger(w.class.obj)
      <4>1. w.pc = "annotate"
        BY <3>3 DEF ItAnnotateClass
      <4>2. classes'[c] = Updated(classes[c], obj)
        BY <1>3, <3>3, <4>1 DEF ItAnnotateClass, SidesTypeOK, ClassesTypeOK
      <4>3. obj.itemUpdated
        BY ItemCall DEF WithTrigger, NamespaceClass
      <4> HIDE DEF obj
      <4>4. classes'[c].obj = obj
        BY <4>2 DEF Updated
      <4> QED BY <1>1, <4>3, <4>4 DEF ClassTells
    <3>4. ~ItRejected
      <4> SUFFICES ASSUME ItRejected PROVE FALSE
        OBVIOUS
      <4>1. w.pc = "annotate" /\ ~ItMayUpdate
        BY <1>3 DEF ItRejected
      <4>2. w.at = c /\ w.class = classes[c]
        BY <1>3, <4>1
      <4>3. w.class.obj.items = FirstItems[c]
        BY <4>2 DEF ClassesFixed
      <4>4. FirstItems[c] \in SUBSET Items /\ FirstItems[c] # {}
        BY StartAssumption
      <4>5. AdmitsClass(w.class.obj.items)
        BY <4>3, <4>4, ClassAdmitted
      <4> QED BY <4>1, <4>2, <4>5 DEF ItMayUpdate, SameVersion
    <3> QED
      BY <1>3, <2>2, <3>1, <3>2, <3>3, <3>4
      DEF ItReconcile, ItGetItem, ItObserve, ItAnnounced
  <2> QED
    BY <2>1, <2>2, NextItems DEF ItemsNext, SyncItems, Resync, itVars
<1> QED BY <1>2, <1>3 DEF ItemTells

LEMMA ChainStep ==
    ASSUME NEW HomeOf, Home(HomeOf), ReadOK,
           \A s, t \in Templates : KeyOf[s] = KeyOf[t] => ResourceOf[s] = ResourceOf[t],
           Reconcilers \subseteq Controllers, Namespaces \cap SystemNamespaces = {},
           ItemsInv, ItemsInv', CoreTypeOK, SteadyInv, FollowInv, MarksOK',
           OlderOK, SeenOK, ItemHandOK, InstHandOK, ClassesFixed, UseFixed, ChainOK, ItemsMove,
           [Next]_vars
    PROVE  ChainOK'
<1>1. /\ SidesTypeOK /\ RestTypeOK /\ IInv /\ IInv' /\ ItemsLive
      /\ GivenOn /\ StatesSteady /\ StSteady /\ CachesOK
      /\ UsedOK /\ OwnersOK /\ EarlyOK
      /\ (Editing' <=> Editing)
      /\ "state" \in Controllers /\ "class" \in Controllers /\ "instance" \in Controllers
  BY ActsStay, GivenStep DEF ItemsInv, IInv, LeftOK, Editing, SteadyInv, FollowInv, Reconcilers
<1> SUFFICES ASSUME ~failed', NEW n \in Namespaces, NEW i \in Items, Behind(n, i)'
             PROVE  AttendedInstance(n, i)' \/ Told(n, i)'
  BY DEF ChainOK
<1>2. ~failed
  BY <1>1, NextItems
<1>3. CASE Restart
  <2>1. instances[n][i].live /\ InstancesTypeOK
    BY <1>1, <1>3 DEF Restart, Behind, RestTypeOK, StoresOK
  <2>2. <<n, i>> \in LivingInstances(instances)
    BY <2>1 DEF LivingInstances, Living, InstancesTypeOK
  <2> QED BY <1>1, <1>3, <2>2 DEF Restart, Watched, AttendedInstance
<1>4. CASE instances'[n][i] # instances[n][i]
  BY <1>1, <1>4, ChangedInstance
<1>5. CASE ItemEdited(i)
  <2>1. /\ items[i].obj.obs \in Nat /\ items[i].obj.gen \in Nat
        /\ itemCache[i].obj.gen \in Nat
    BY ItemValues
  <2>2. items[i].obj.obs <= itemCache[i].obj.gen /\ itemCache[i].obj.gen <= items[i].obj.gen
    BY DEF SeenOK, OlderOK, Older
  <2>3. items'[i].obj.obs = items[i].obj.obs /\ items'[i].obj.gen = items[i].obj.gen + 1
    BY <1>5 DEF ItemEdited
  <2>4. items'[i].obj.obs # items'[i].obj.gen
    BY <2>1, <2>2, <2>3
  <2>5. Editing
    BY <1>5 DEF ItemEdited, Editing
  <2> QED BY <1>1, <2>4, <2>5 DEF Told, ItemTells
<1>6. CASE ~Restart /\ instances'[n][i] = instances[n][i] /\ ~ItemEdited(i)
  <2>1. items'[i].obj.gen = items[i].obj.gen
    BY <1>6 DEF ItemsMove, SameItem, ItemObserved
  <2>2. Behind(n, i)
    BY <1>6, <2>1 DEF Behind
  <2>3. AttendedInstance(n, i)' \/ Told(n, i)
    <3>1. CASE AttendedInstance(n, i)
      <4>1. AttendedInstance(n, i)' \/ (Editing /\ items[i].obj.obs # items[i].obj.gen)
        BY <1>1, <1>6, <2>2, <3>1, BehindAttention
      <4> QED BY <4>1 DEF Told, ItemTells
    <3>2. CASE ~AttendedInstance(n, i)
      BY <1>2, <2>2, <3>2 DEF ChainOK
    <3> QED BY <3>1, <3>2
  <2>4. ASSUME Told(n, i)
        PROVE  AttendedInstance(n, i)' \/ Told(n, i)'
    <3>1. instances[n][i].live /\ Editing
      BY <2>2, <2>4 DEF Behind, Told
    <3>2. Given(n) \in Classes /\ Given(n)' = Given(n)
      <4>1. Given(n) \in Labels
        BY <1>1
        DEF RestTypeOK, StoresOK, NamespacesTypeOK, Slot, Namespace, Label, Given, Labels
      <4>2. Given(n) # NoClass
        BY <1>1, <3>1 DEF OwnersOK
      <4> QED BY <1>1, <4>1, <4>2 DEF Labels, GivenOn
    <3>3. PICK c \in Classes : Given(n) = c /\ Given(n)' = c
      BY <3>2
    <3>4. classes[c].live
      BY <1>1, <3>1, <3>3 DEF EarlyOK, Installed
    <3>5. i \in FirstItems[c]
      BY <3>1, <3>3, <3>4 DEF UseFixed, Installed
    <3>6. CASE states'[n] # states[n]
      <4>1. stateCache'[n] # states'[n]
        BY <1>1, <3>6, ChangedState
      <4> QED BY <1>1, <3>1, <4>1 DEF Told, StateTells, StateComing
    <3>7. CASE classes'[c] # classes[c]
      <4>1. classCache'[c] # classes'[c]
        BY <1>1, <3>7, ChangedClass
      <4> QED BY <1>1, <3>1, <3>3, <4>1 DEF Told, ClassTells, ClassComing
    <3>8. CASE states'[n] = states[n] /\ classes'[c] = classes[c]
      <4>1. CASE StateTells(n, i)
        <5>1. StateTells(n, i)' \/ ClassComing(n)' \/ instances'[n][i].obj.updated
          BY <1>1, <1>6, <3>1, <3>3, <3>4, <3>5, <3>8, <4>1, StateTellsStep
        <5> QED BY <1>1, <3>1, <5>1 DEF Told, ClassTells, MarksOK
      <4>2. CASE ClassTells(n)
        <5>1. CASE ClassComing(n)
          <6>1. ClassComing(n)' \/ StateComing(n)'
            BY <1>1, <3>3, <3>4, <3>8, <5>1, ClassComes
          <6> QED BY <1>1, <3>1, <6>1 DEF Told, ClassTells, StateTells
        <5>2. CASE classes[Given(n)].obj.itemUpdated
          <6>1. ClassTells(n)'
            BY <3>3, <3>8, <5>2 DEF ClassTells
          <6> QED BY <1>1, <3>1, <6>1 DEF Told
        <5> QED BY <4>2, <5>1, <5>2 DEF ClassTells
      <4>3. CASE ItemTells(Given(n), i)
        <5>1. ItemTells(c, i)' \/ ClassTells(n)'
          BY <1>1, <1>6, <2>1, <3>1, <3>3, <3>4, <3>5, <3>8, <4>3, ItemTellsStep
        <5>2. ItemTells(Given(n), i)' \/ ClassTells(n)'
          BY <3>3, <5>1
        <5> QED BY <1>1, <3>1, <5>2 DEF Told
      <4> QED BY <2>4, <4>1, <4>2, <4>3 DEF Told
    <3> QED BY <3>6, <3>7, <3>8
  <2> QED BY <2>3, <2>4
<1> QED BY <1>3, <1>4, <1>5, <1>6
-----------------------------------------------------------------------------
(***************************************************************************)
(* Who will give a namespace its NamespaceState                            *)
(***************************************************************************)
\* A namespace that has a label and no NamespaceState has yet to be looked at.
NamesTold ==
    LET w == nsWorker IN
    \A n \in Namespaces : Label(n) # NoClass /\ ~states[n].live =>
        \/ nsCache[n].obj.label # Label(n)
        \/ n \in nsQueue
        \/ w.key = n /\ w.pc # "idle" /\ w.ns.obj.label = Label(n)

LEMMA NsTells ==
    ASSUME RestTypeOK, NamesOK, StatesSteady, NsSteady, NamesTold, NsReconcile \/ NsCallFails,
           UNCHANGED nsStore, NEW n \in Namespaces, Label(n) # NoClass, ~states'[n].live,
           ~states[n].live, nsCache[n].obj.label = Label(n)
    PROVE  \/ n \in nsQueue'
           \/ /\ nsWorker'.key = n /\ nsWorker'.pc # "idle"
              /\ nsWorker'.ns.obj.label = Label(n)
<1> DEFINE w == nsWorker
<1>1. w \in NsCall /\ StatesTypeOK
  BY DEF RestTypeOK, WorkersOK, NsCallOK, StoresOK
<1>2. CASE n \in nsQueue
  <2>1. CASE NsGetNamespace(n)
    <3>1. w' = [pc |-> "getState", key |-> n, ns |-> nsCache[n], state |-> Vacant(NoState)]
      BY <2>1 DEF NsGetNamespace, NamesOK
    <3>2. w'.key = n /\ w'.pc = "getState" /\ w'.ns = nsCache[n]
      BY <3>1
    <3> QED BY <3>2
  <2>2. CASE ~NsGetNamespace(n)
    BY <1>2, <2>2
    DEF NsReconcile, NsGetNamespace, NsGetState, NsDeleteState, NsMarkPending, NsCreateState,
        NsRejected, NsCallFails, NsReturn, NsRequeue
  <2> QED BY <2>1, <2>2
<1>3. CASE w.key = n /\ w.pc # "idle" /\ w.ns.obj.label = Label(n)
  <2>1. CASE NsGetState
    <3>1. ~stateCache[n].live
      BY DEF StatesSteady
    <3>2. NsNextCall(w.ns, stateCache[n]) = "createState"
      BY <1>3, <3>1 DEF NsNextCall
    <3>3. w'.pc = "createState" /\ w'.key = n /\ w'.ns = w.ns
      BY <1>3, <2>1, <3>2 DEF NsGetState
    <3> QED BY <1>3, <3>3
  <2>2. ~NsCreateState
    <3> SUFFICES ASSUME NsCreateState PROVE FALSE
      OBVIOUS
    <3>1. states'[n] = Created(states[n], NewState(w.ns))
      BY <1>1, <1>3 DEF NsCreateState, StatesTypeOK
    <3> QED BY <3>1 DEF Created
  <2>3. CASE NsRejected \/ NsCallFails
    BY <1>3, <2>3 DEF NsRejected, NsCallFails, NsRequeue
  <2>4. ~NsDeleteState /\ ~NsMarkPending
    BY DEF NsSteady, NsDeleteState, NsMarkPending
  <2>5. ~\E m \in Namespaces : NsGetNamespace(m)
    BY <1>3 DEF NsGetNamespace
  <2> QED BY <2>1, <2>2, <2>3, <2>4, <2>5 DEF NsReconcile
<1> QED BY <1>2, <1>3 DEF NamesTold

LEMMA NamesToldStep ==
    ASSUME "namespace" \in Controllers, RestTypeOK, SteadyInv, NamesTold, [Next]_vars
    PROVE  NamesTold'
<1> DEFINE w == nsWorker
<1>1. /\ LabelsLeft /\ NamesOK /\ StatesSteady /\ NsSteady
      /\ \A n \in Namespaces : namespaces[n] \in Slot(Namespace)
      /\ DOMAIN namespaces = Namespaces
  BY DEF SteadyInv, RestTypeOK, StoresOK, NamespacesTypeOK
<1> SUFFICES ASSUME NEW n \in Namespaces, Label(n)' # NoClass, ~states'[n].live
             PROVE  \/ nsCache'[n].obj.label # Label(n)'
                    \/ n \in nsQueue'
                    \/ w'.key = n /\ w'.pc # "idle" /\ w'.ns.obj.label = Label(n)'
  BY DEF NamesTold
<1>2. /\ Label(n) # NoClass => Label(n)' = Label(n)
      /\ namespaces'[n].live
      /\ UNCHANGED nsCache \/ (nsCache' = namespaces /\ UNCHANGED namespaces)
  BY <1>1, LabelsMove
<1>3. ~states[n].live
  BY <1>1, StatesLive
<1>4. CASE Label(n) = NoClass
  BY <1>1, <1>2, <1>4 DEF NamesOK, Label
<1>5. CASE Label(n) # NoClass /\ UNCHANGED <<nsCache, nsVars>>
  BY <1>2, <1>3, <1>5 DEF NamesTold, nsVars
<1>6. CASE Label(n) # NoClass /\ SyncNamespaces
  <2>1. CASE nsCache[n].obj.label # Label(n)
    <3>1. n \in Changed(nsCache, namespaces)
      BY <1>1, <2>1 DEF Changed, Label
    <3> QED BY <1>6, <3>1 DEF SyncNamespaces, Watched
  <2>2. CASE nsCache[n].obj.label = Label(n)
    BY <1>2, <1>3, <1>6, <2>2 DEF NamesTold, SyncNamespaces
  <2> QED BY <2>1, <2>2
<1>7. CASE Label(n) # NoClass /\ (NsReconcile \/ NsCallFails) /\ UNCHANGED nsStore
  <2>1. CASE nsCache[n].obj.label # Label(n)
    BY <1>2, <1>7, <2>1 DEF nsStore
  <2>2. CASE nsCache[n].obj.label = Label(n)
    BY <1>1, <1>2, <1>3, <1>7, <2>2, NsTells
  <2> QED BY <2>1, <2>2
<1>8. CASE Restart
  BY <1>1, <1>8 DEF Restart, Watched, Living, NamesOK
<1>9. CASE Label(n) # NoClass /\ Resync
  BY <1>3, <1>9 DEF Resync, Quiescent, NamesTold, Label
<1> QED
  BY <1>4, <1>5, <1>6, <1>7, <1>8, <1>9
  DEF Next, vars, stores, nsStore, Users, Kubernetes, SyncStates, SyncClasses, SyncItems,
      SyncInstances, NsStep, StateStep, ClassStep, ItemStep, InstanceStep, Fault
-----------------------------------------------------------------------------
(***************************************************************************)
(* No change is lost                                                       *)
(***************************************************************************)
\* What holds of copies, and of what is recorded.
RecordInv(HomeOf) == StSeenOK /\ OlderOK /\ OwnCopiesOK /\ Home(HomeOf) /\ Honest

\* What the reconcilers of items, classes and instances have in hand.
HandsInv == SeenOK /\ ReadOK /\ ClassHandOK /\ ItemHandOK /\ InstHandOK

\* And what the classes are.
ListsInv == ClassesFixed /\ RefsFixed /\ UseFixed

LEMMA RecordFirst ==
    ASSUME NEW HomeOf, Init, Apart(HomeOf)
    PROVE  /\ RecordInv(HomeOf) /\ ChainOK
           /\ \A i \in Items : items[i].obj.gen = 1 /\ items[i].obj.obs = 1
<1>1. PICK start \in Starts :
        /\ items = [i \in Items |-> FirstItem(i, start)]
        /\ instances = [n \in Namespaces |-> [i \in Items |-> FirstInstance(n, i, start)]]
        /\ resources = [n \in Namespaces |-> [r \in Resources |-> FirstResource(n, r, start)]]
  BY DEF Init
<1>2. /\ itemCache = items /\ instCache = instances /\ instWorker = InIdle
      /\ stateWorker.pc = "idle" /\ instWorker.pc = "idle"
  BY IdleTypes DEF Init
<1>3. CoreTypeOK
  BY RestInit, InitTypes, CoreTypes
<1>4. \A i \in Items : /\ items[i].obj.gen = 1 /\ items[i].obj.obs = 1
                       /\ items[i].obj.template = FirstTemplate[i]
  BY <1>1 DEF FirstItem, First
<1>5. ASSUME NEW n \in Namespaces, NEW i \in Items
      PROVE  /\ instances[n][i].live <=> i \in FirstInstalled(n, start)
             /\ instances[n][i].live => instances[n][i].obj.obs = 1 /\ instances[n][i].uid = 1
             /\ instances[n][i].obj.obs <= 1
  <2>1. instances[n][i] = FirstInstance(n, i, start)
    BY <1>1
  <2>2. CASE i \in FirstInstalled(n, start)
    BY <2>1, <2>2 DEF FirstInstance, First
  <2>3. CASE i \notin FirstInstalled(n, start)
    BY <2>1, <2>3 DEF FirstInstance, Vacant, NoInstance
  <2> QED BY <2>2, <2>3
<1>6. \A n \in Namespaces : FirstInstalled(n, start) \subseteq Items
  <2>1. \A n \in Namespaces : FirstLabel(n, start) # NoClass => LabelOf[n] \in Classes
    BY StartAssumption DEF FirstLabel, Labels
  <2>2. \A c \in Classes : FirstItems[c] \in SUBSET Items
    BY StartAssumption
  <2> QED BY <2>1, <2>2 DEF FirstInstalled
<1>7. ASSUME NEW n \in Namespaces, NEW r \in Resources
      PROVE  LET describing == {i \in FirstInstalled(n, start) :
                                   ResourceOf[FirstTemplate[i]] = r}
             IN  /\ resources[n][r].live <=> describing # {}
                 /\ \A i \in describing :
                       /\ HomeOf[r] = i
                       /\ resources[n][r].obj =
                             [from |-> i, owner |-> 1, template |-> FirstTemplate[i]]
  <2> DEFINE describing == {i \in FirstInstalled(n, start) : ResourceOf[FirstTemplate[i]] = r}
             j == CHOOSE i \in describing : TRUE
  <2>1. resources[n][r] = FirstResource(n, r, start)
    BY <1>1
  <2>2. \A i \in describing : HomeOf[r] = i
    BY <1>4, <1>6 DEF Apart
  <2>3. CASE describing = {}
    BY <2>1, <2>3 DEF FirstResource, Vacant
  <2>4. CASE describing # {}
    <3>1. j \in describing
      BY <2>4
    <3>2. \A i \in describing : i = j
      BY <2>2, <3>1
    <3>3. resources[n][r] = First([from |-> j, owner |-> 1, template |-> FirstTemplate[j]])
      BY <2>1, <2>4 DEF FirstResource
    <3> QED BY <2>2, <2>4, <3>2, <3>3 DEF First
  <2> QED BY <2>3, <2>4
<1>8. StSeenOK
  BY <1>2 DEF StSeenOK
<1>9. OlderOK
  BY <1>2, <1>4, <1>5 DEF OlderOK, Older, Working
<1>10. OwnCopiesOK
  BY <1>2 DEF OwnCopiesOK, SameObject
<1>11. Home(HomeOf)
  <2>1. ASSUME NEW n \in Namespaces, NEW r \in Resources, resources[n][r].live
        PROVE  resources[n][r].obj.from = HomeOf[r]
    <3> DEFINE describing == {i \in FirstInstalled(n, start) : ResourceOf[FirstTemplate[i]] = r}
    <3>1. PICK i \in describing : TRUE
      BY <1>7, <2>1
    <3>2. /\ HomeOf[r] = i
          /\ resources[n][r].obj = [from |-> i, owner |-> 1, template |-> FirstTemplate[i]]
      BY <1>7, <3>1
    <3> QED BY <3>2
  <2> QED BY <1>2, <2>1 DEF Home, Apart, Working
<1>12. Honest
  <2>1. ASSUME NEW n \in Namespaces, NEW i \in Items, Says(n, i)
        PROVE  Applied(n, i)
    <3> DEFINE r == ResourceOf[items[i].obj.template]
    <3>1. r \in Resources /\ r = ResourceOf[FirstTemplate[i]]
      BY <1>3, <1>4, ItemValues DEF Resources
    <3>2. i \in FirstInstalled(n, start) /\ instances[n][i].uid = 1
      BY <1>5, <2>1 DEF Says
    <3>3. /\ resources[n][r].live
          /\ resources[n][r].obj = [from |-> i, owner |-> 1, template |-> FirstTemplate[i]]
      BY <1>7, <3>1, <3>2
    <3> QED BY <1>4, <3>2, <3>3 DEF Applied, OwnedBy
  <2> QED BY <1>2, <2>1 DEF Honest
<1>13. ChainOK
  BY <1>4, <1>5 DEF ChainOK, Behind
<1> QED BY <1>4, <1>8, <1>9, <1>10, <1>11, <1>12, <1>13 DEF RecordInv

LEMMA HandsFirst ==
    ASSUME \A i \in Items : FirstTemplate[i] \in Parses, Init,
           \A i \in Items : items[i].obj.gen = 1 /\ items[i].obj.obs = 1
    PROVE  HandsInv
<1>1. \A i \in Items : items[i].obj.template \in Parses
  BY DEF Init, FirstItem, First
<1>2. /\ itemCache = items /\ itemWorker.pc = "idle" /\ classWorker.pc = "idle"
      /\ instWorker.pc = "idle"
  BY IdleTypes, ItIdleTypes, ClIdleTypes DEF Init
<1>3. SeenOK
  BY <1>2 DEF SeenOK
<1>4. ReadOK
  BY <1>1, <1>2 DEF ReadOK
<1> QED BY <1>2, <1>3, <1>4 DEF HandsInv, ClassHandOK, ItemHandOK, InstHandOK, Working

LEMMA ListsFirst ==
    ASSUME EditsAlone, Init
    PROVE  ListsInv
<1>1. PICK start \in Starts :
        /\ left = start
        /\ namespaces = [n \in Namespaces |->
                            First([terminating |-> FALSE, label |-> FirstLabel(n, start)])]
        /\ classes = [c \in Classes |-> FirstClass(c, start)]
        /\ items = [i \in Items |-> FirstItem(i, start)]
        /\ instances = [n \in Namespaces |-> [i \in Items |-> FirstInstance(n, i, start)]]
        /\ states = [n \in Namespaces |-> FirstState(n, start)]
  BY DEF Init
<1>2. classCache = classes /\ itemCache = items /\ stateWorker.pc = "idle"
  BY IdleTypes DEF Init
<1>3. \A c \in Classes : classes[c].live =>
         start.inPlace /\ classes[c].obj.items = FirstItems[c]
  BY <1>1 DEF FirstClass, First, Vacant
<1>4. \A i \in Items :
         items[i].obj.refs =
            IF start.inPlace THEN {c \in Classes : i \in FirstItems[c]} ELSE {}
  BY <1>1 DEF FirstItem, First
<1>5. ClassesFixed
  BY <1>1, <1>2, <1>3 DEF ClassesFixed, Editing, EditsAlone
<1>6. RefsFixed
  BY <1>2, <1>4 DEF RefsFixed
<1>7. ASSUME NEW n \in Namespaces, Given(n) \in Classes, classes[Given(n)].live
      PROVE  Installed(n) \cup Aim(n) \subseteq FirstItems[Given(n)]
  <2>1. Given(n) = FirstLabel(n, start)
    BY <1>1 DEF Given, Label, First, FirstState, Vacant
  <2>2. Given(n) = LabelOf[n]
    BY <1>7, <2>1, NoClassAssumption DEF FirstLabel
  <2>3. Aim(n) = Installed(n)
    BY <1>2, AimOf
  <2>4. ASSUME NEW i \in Items, instances[n][i].live
        PROVE  i \in FirstItems[Given(n)]
    <3>1. instances[n][i] = FirstInstance(n, i, start)
      BY <1>1
    <3>2. i \in FirstInstalled(n, start)
      BY <2>4, <3>1 DEF FirstInstance, Vacant
    <3> QED BY <2>2, <3>2 DEF FirstInstalled
  <2> QED BY <2>3, <2>4 DEF Installed
<1>8. ASSUME NEW c \in Classes, classes[c].live, NEW i \in FirstItems[c]
      PROVE  c \in items[i].obj.refs /\ c \in itemCache[i].obj.refs
  <2>1. i \in Items
    BY <1>8, StartAssumption
  <2> QED BY <1>2, <1>3, <1>4, <1>8, <2>1
<1>9. UseFixed
  BY <1>7, <1>8 DEF UseFixed
<1> QED BY <1>5, <1>6, <1>9 DEF ListsInv

LEMMA NamesToldFirst == ASSUME Init PROVE NamesTold
<1>1. PICK start \in Starts :
        /\ namespaces = [n \in Namespaces |->
                            First([terminating |-> FALSE, label |-> FirstLabel(n, start)])]
        /\ states = [n \in Namespaces |-> FirstState(n, start)]
  BY DEF Init
<1>2. \A n \in Namespaces : Label(n) # NoClass => states[n].live
  BY <1>1 DEF Label, First, FirstState
<1> QED BY <1>2 DEF NamesTold

LEMMA RecordStep ==
    ASSUME NEW HomeOf, ItemsInv, ItemsInv', CachesOK, Apart(HomeOf), RecordInv(HomeOf),
           [Next]_vars
    PROVE  RecordInv(HomeOf)' /\ Move /\ ItemsMove
<1>1. /\ SidesTypeOK /\ SidesTypeOK' /\ RestTypeOK /\ RestTypeOK' /\ ItemsLive
      /\ StSeenOK /\ OlderOK /\ OwnCopiesOK /\ Home(HomeOf) /\ Honest
  BY DEF ItemsInv, IInv, RecordInv
<1>2. CoreTypeOK /\ CoreTypeOK'
  BY <1>1, CoreTypes DEF CoreTypeOK, RestTypeOK, SidesTypeOK, StoresOK, WorkersOK
<1>3. Move /\ ItemsMove
  BY <1>1, Moves, ItemsMoveStep
<1>4. StSeenOK'
  BY <1>1, StSeenStep
<1>5. OlderOK' /\ OwnCopiesOK'
  BY <1>1, <1>2, <1>3, OlderStep, OwnCopiesStep
<1>6. Home(HomeOf)' /\ Honest'
  BY <1>1, <1>2, <1>3, HomeStep, HonestStep
<1> QED BY <1>3, <1>4, <1>5, <1>6 DEF RecordInv

LEMMA HandsStep ==
    ASSUME "item" \in Controllers, WebhooksEnabled, ItemsInv, ItemsInv', GivenOn, UsedOK,
           OlderOK, HandsInv, ListsInv, Move, ItemsMove, [Next]_vars
    PROVE  HandsInv'
<1>1. /\ SidesTypeOK /\ RestTypeOK /\ CoreTypeOK
      /\ SeenOK /\ ReadOK /\ ClassHandOK /\ ItemHandOK /\ InstHandOK
      /\ ClassesFixed /\ RefsFixed
  BY CoreTypes DEF ItemsInv, IInv, HandsInv, ListsInv
<1>2. SeenOK' /\ ReadOK'
  BY <1>1, SeenStep, ReadStep
<1>3. ClassHandOK' /\ ItemHandOK' /\ InstHandOK'
  BY <1>1, ClassHandStep, ItemHandStep, InstHandStep
<1> QED BY <1>2, <1>3 DEF HandsInv

LEMMA ListsStep ==
    ASSUME "state" \in Controllers, ItemsInv, SteadyInv, FollowInv, ClassHandOK,
           ListsInv, [Next]_vars
    PROVE  ListsInv'
<1>1. /\ GivenOn /\ StatesSteady /\ StSteady /\ OwnersOK /\ WriteOK /\ GrowOK
      /\ ClassesFixed /\ RefsFixed /\ UseFixed
  BY GivenStep DEF ItemsInv, SteadyInv, FollowInv, ListsInv
<1> QED BY <1>1, ClassesFixedStep, RefsFixedStep, UseFixedStep DEF ListsInv

LEMMA SuppliedWhenSettled ==
    ASSUME NEW HomeOf, ItemsInv, SteadyInv, FollowInv, MarksOK, RecordInv(HomeOf), HandsInv,
           ChainOK, NamesTold
    PROVE  SettledSupplies
<1> SUFFICES ASSUME Quiescent, ~failed, NEW n \in Namespaces PROVE Supplied(n)
  BY DEF SettledSupplies
<1>1. /\ RestTypeOK /\ CoreTypeOK /\ OwnersOK /\ Given(n) \in Labels
      /\ Honest /\ SeenOK
  BY CoreTypes
  DEF ItemsInv, IInv, FollowInv, RecordInv, HandsInv, RestTypeOK, StoresOK,
      NamespacesTypeOK, Slot, Namespace, Label, Given, Labels
<1>2. ASSUME NEW i \in Items, instances[n][i].live
      PROVE  Delivered(n, i)
  <2>1. Given(n) \in Classes
    BY <1>1, <1>2 DEF OwnersOK, Labels
  <2>2. ~AttendedInstance(n, i)
    BY DEF Quiescent, AttendedInstance
  <2>3. ~StateTells(n, i)
    BY DEF Quiescent, StateTells, StateComing, MarksOK, AttendedState
  <2>4. ~ClassTells(n)
    BY <2>1 DEF Quiescent, ClassTells, ClassComing, MarksOK, AttendedClass
  <2>5. ~ItemTells(Given(n), i)
    BY <1>1 DEF Quiescent, ItemTells, SeenOK, AttendedItem
  <2>6. Says(n, i)
    BY <1>2, <2>2, <2>3, <2>4, <2>5 DEF ChainOK, Behind, Told, Says
  <2>7. Applied(n, i)
    BY <1>1, <2>6 DEF Honest
  <2> QED BY <2>6, <2>7 DEF Applied, Says, Delivered
<1>3. Given(n) = Label(n)
  <2>1. CASE states[n].live
    BY <2>1 DEF Given
  <2>2. CASE ~states[n].live
    BY <2>2 DEF Given, NamesTold, Quiescent, Label
  <2> QED BY <2>1, <2>2
<1>4. Installed(n) = ItemsOf(Label(n))
  <2>1. CASE Given(n) \in Classes
    <3>1. states[n].obj.class = Label(n)
      BY <2>1, NoClassAssumption DEF SteadyInv, StatesSteady, Steady, Given
    <3>2. Follows(n)
      BY <1>1, FollowedWhenSettled DEF SettledFollowsClass
    <3> QED BY <3>1, <3>2 DEF Follows
  <2>2. CASE Given(n) = NoClass
    BY <1>1, <1>3, <2>2, NoClassAssumption DEF OwnersOK, Installed, ItemsOf
  <2> QED BY <1>1, <2>1, <2>2 DEF Labels
<1>5. ASSUME NEW r \in Resources, resources[n][r].live
      PROVE  resources[n][r].obj.from \in Installed(n)
  <2>1. ~Orphan(n, r)
    BY DEF Quiescent
  <2>2. resources[n][r].obj.from \in Items
    BY <1>1 DEF CoreTypeOK, ResourcesTypeOK, Slot, Resource
  <2> QED BY <1>5, <2>1, <2>2 DEF Orphan, Installed
<1> QED BY <1>2, <1>4, <1>5 DEF Supplied, Installed, Label

\* All of this together, where HomeOf[r] is the only item that ever describes r.
DeliveryInv(HomeOf) ==
    /\ SteadyInv /\ FollowInv /\ MarksOK
    /\ RecordInv(HomeOf) /\ HandsInv /\ ListsInv /\ ChainOK /\ NamesTold

LEMMA DeliveryFirst ==
    ASSUME ItemsStay, LabelsStay, EditsAlone, WebhooksEnabled, ListsStay,
           Reconcilers \subseteq Controllers, Namespaces \cap SystemNamespaces = {},
           \A i \in Items : FirstTemplate[i] \in Parses,
           \A s, t \in Templates : KeyOf[s] = KeyOf[t] => ResourceOf[s] = ResourceOf[t],
           NEW HomeOf, Init, Apart(HomeOf)
    PROVE  DeliveryInv(HomeOf)
<1>1. SteadyInv /\ FollowInv /\ MarksOK
  BY SteadyFirst, FollowFirst, UnmarkedFirst
<1>2. RecordInv(HomeOf) /\ ChainOK /\ HandsInv
  BY RecordFirst, HandsFirst
<1>3. ListsInv /\ NamesTold
  BY ListsFirst, NamesToldFirst
<1> QED BY <1>1, <1>2, <1>3 DEF DeliveryInv

LEMMA DeliveryStep ==
    ASSUME ItemsStay, LabelsStay, EditsAlone, WebhooksEnabled, ListsStay,
           Reconcilers \subseteq Controllers, Namespaces \cap SystemNamespaces = {},
           \A i \in Items : FirstTemplate[i] \in Parses,
           \A s, t \in Templates : KeyOf[s] = KeyOf[t] => ResourceOf[s] = ResourceOf[t],
           NEW HomeOf, ItemsInv, ItemsInv', DeliveryInv(HomeOf), Apart(HomeOf), [Next]_vars
    PROVE  DeliveryInv(HomeOf)'
<1> USE DEF DeliveryInv
<1>1. /\ "state" \in Controllers /\ "class" \in Controllers /\ "item" \in Controllers
      /\ "instance" \in Controllers /\ "namespace" \in Controllers
  BY DEF Reconcilers
<1>2. IInv /\ IInv' /\ RestTypeOK
  BY DEF ItemsInv
<1>3. SteadyInv' /\ FollowInv'
  BY <1>1, <1>2, SteadyStep, FollowStep
<1>4. CachesOK /\ EmptiesOK /\ EmptiesOK' /\ GivenOn /\ UsedOK
  BY <1>2, <1>3, GivenStep DEF SteadyInv, FollowInv
<1>5. MarksOK'
  BY <1>1, <1>4, MarksStep
<1>6. RecordInv(HomeOf)' /\ Move /\ ItemsMove
  BY <1>4, RecordStep
<1>7. OlderOK /\ Home(HomeOf) /\ SeenOK /\ ReadOK /\ ClassHandOK /\ ItemHandOK /\ InstHandOK
      /\ ClassesFixed /\ UseFixed
  BY DEF RecordInv, HandsInv, ListsInv
<1>8. HandsInv' /\ ListsInv'
  BY <1>1, <1>4, <1>6, <1>7, HandsStep, ListsStep
<1>9. CoreTypeOK
  BY CoreTypes DEF ItemsInv, IInv
<1>10. ChainOK'
  BY <1>5, <1>6, <1>7, <1>9, ChainStep
<1>11. NamesTold'
  BY <1>1, <1>2, NamesToldStep
<1> QED BY <1>3, <1>5, <1>6, <1>8, <1>10, <1>11

\* While users delete no item, change no label once it is given, delete no class where they
\* give labels, edit no class where the list of instances may be out of date and, where they
\* change items, leave the classes alone, of which no two list the same item; while no two
\* items ever describe one resource and the webhooks run: when nothing is left to do, and no
\* write of the item reconciler has failed, every namespace has the resources its label asks
\* for as its items say now, and none of other items.  For an instance whose status
\* says it is up to date has the resource it should have: the status is written last, and
\* only over the copy the resource was applied from.  And one that is behind is attended,
\* or its NamespaceState, its class or its item is: whoever takes his annotation off, or
\* passes over one who has it already, leaves another on the way
\* (namespaceclassitem_controller.go:68-122, namespaceclass_controller.go:96-125,
\* namespacestate_controller.go:78-153, namespaceiteminstance_controller.go:93-229).
THEOREM OperatorSupplies ==
    ASSUME ItemsStay, LabelsStay, EditsAlone, WebhooksEnabled, ListsStay,
           Reconcilers \subseteq Controllers, Namespaces \cap SystemNamespaces = {},
           \A i \in Items : FirstTemplate[i] \in Parses,
           \A s, t \in Templates : KeyOf[s] = KeyOf[t] => ResourceOf[s] = ResourceOf[t],
           NEW HomeOf
    PROVE  Spec /\ []Apart(HomeOf) => []SettledSupplies
<1>1. Init /\ Apart(HomeOf) => DeliveryInv(HomeOf)
  BY DeliveryFirst
<1>2. /\ ItemsInv /\ ItemsInv' /\ DeliveryInv(HomeOf) /\ Apart(HomeOf) /\ [Next]_vars
      => DeliveryInv(HomeOf)'
  BY DeliveryStep
<1>3. ItemsInv /\ DeliveryInv(HomeOf) => SettledSupplies
  BY SuppliedWhenSettled DEF DeliveryInv
<1>4. Spec => []ItemsInv
  BY ItemsInvHolds
<1> QED BY <1>1, <1>2, <1>3, <1>4, PTL DEF Spec

\* Users change what an item says of its resource, never which one it describes.
Keeps(PlaceOf) == \A i \in Items : ResourceOf[items[i].obj.template] = PlaceOf[i]

\* Nobody's, where no item has its place.
HomeFor(PlaceOf) ==
    [r \in Resources |-> IF \E i \in Items : PlaceOf[i] = r
                         THEN CHOOSE i \in Items : PlaceOf[i] = r
                         ELSE CHOOSE x : x \notin Items]

LEMMA HomesFound ==
    ASSUME NEW PlaceOf \in [Items -> Resources],
           \A i, j \in Items : PlaceOf[i] = PlaceOf[j] => i = j
    PROVE  /\ \A i \in Items : HomeFor(PlaceOf)[PlaceOf[i]] = i
           /\ \A r \in Resources :
                 HomeFor(PlaceOf)[r] \in Items => PlaceOf[HomeFor(PlaceOf)[r]] = r
<1>1. ASSUME NEW i \in Items
      PROVE  HomeFor(PlaceOf)[PlaceOf[i]] = i
  <2> DEFINE j == CHOOSE k \in Items : PlaceOf[k] = PlaceOf[i]
  <2>1. j \in Items /\ PlaceOf[j] = PlaceOf[i]
    OBVIOUS
  <2>2. HomeFor(PlaceOf)[PlaceOf[i]] = j
    BY DEF HomeFor
  <2> QED BY <2>1, <2>2
<1>2. ASSUME NEW r \in Resources, HomeFor(PlaceOf)[r] \in Items
      PROVE  PlaceOf[HomeFor(PlaceOf)[r]] = r
  <2>1. CASE \E i \in Items : PlaceOf[i] = r
    BY <1>1, <2>1
  <2>2. CASE ~\E i \in Items : PlaceOf[i] = r
    <3>1. HomeFor(PlaceOf)[r] = CHOOSE x : x \notin Items
      BY <2>2 DEF HomeFor
    <3>2. (CHOOSE x : x \notin Items) \notin Items
      BY NoSetContainsEverything
    <3> QED BY <1>2, <3>1, <3>2
  <2> QED BY <2>1, <2>2
<1> QED BY <1>1, <1>2

\* And while every item keeps to the one resource it describes, a namespace has, when
\* nothing is left to do, exactly the resources its label asks for, as its items say now:
\* whatever is there was written for the item that describes it.  An item that comes to
\* describe another resource may leave the old one behind, which is why it must not; the
\* other hypotheses are those of OperatorSupplies
\* (namespaceclassitem_controller.go:68-122, namespaceclass_controller.go:96-125,
\* namespacestate_controller.go:78-153, namespaceiteminstance_controller.go:93-229).
THEOREM OperatorDelivers ==
    ASSUME ItemsStay, LabelsStay, EditsAlone, WebhooksEnabled, ListsStay,
           Reconcilers \subseteq Controllers, Namespaces \cap SystemNamespaces = {},
           \A i \in Items : FirstTemplate[i] \in Parses,
           \A s, t \in Templates : KeyOf[s] = KeyOf[t] => ResourceOf[s] = ResourceOf[t],
           NEW PlaceOf \in [Items -> Resources],
           \A i, j \in Items : PlaceOf[i] = PlaceOf[j] => i = j
    PROVE  Spec /\ []Keeps(PlaceOf) => []SettledDelivers
<1>1. Keeps(PlaceOf) => Apart(HomeFor(PlaceOf))
  BY HomesFound DEF Keeps, Apart
<1>2. Init /\ Keeps(PlaceOf) => DeliveryInv(HomeFor(PlaceOf))
  BY <1>1, DeliveryFirst
<1>3. /\ ItemsInv /\ ItemsInv' /\ DeliveryInv(HomeFor(PlaceOf)) /\ Keeps(PlaceOf)
      /\ [Next]_vars
      => DeliveryInv(HomeFor(PlaceOf))'
  BY <1>1, DeliveryStep
<1>4. ItemsInv /\ DeliveryInv(HomeFor(PlaceOf)) /\ Keeps(PlaceOf) => SettledDelivers
  <2> SUFFICES ASSUME ItemsInv, DeliveryInv(HomeFor(PlaceOf)), Keeps(PlaceOf),
                      Quiescent, left.tame, ~failed, NEW n \in Namespaces
               PROVE  Served(n)
    BY DEF SettledDelivers
  <2>1. Home(HomeFor(PlaceOf)) /\ SettledSupplies
    BY SuppliedWhenSettled DEF DeliveryInv, RecordInv
  <2>2. CoreTypeOK
    BY CoreTypes DEF ItemsInv, IInv
  <2>3. Supplied(n)
    BY <2>1 DEF SettledSupplies
  <2>4. ASSUME NEW r \in Resources, resources[n][r].live
        PROVE  ResourceOf[items[resources[n][r].obj.from].obj.template] = r
    <3>1. resources[n][r].obj.from \in Items
      BY <2>2, <2>4 DEF CoreTypeOK, ResourcesTypeOK, Slot, Resource
    <3>2. resources[n][r].obj.from = HomeFor(PlaceOf)[r]
      BY <2>1, <2>4 DEF Home
    <3>3. PlaceOf[resources[n][r].obj.from] = r
      BY <3>1, <3>2, HomesFound
    <3> QED BY <3>1, <3>3 DEF Keeps
  <2> QED BY <2>3, <2>4 DEF Served
<1>5. Spec => []ItemsInv
  BY ItemsInvHolds
<1> QED BY <1>2, <1>3, <1>4, <1>5, PTL DEF Spec
=============================================================================
