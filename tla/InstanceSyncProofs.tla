------------------------- MODULE InstanceSyncProofs -------------------------
(***************************************************************************)
(* Proofs about InstanceSync, for any set of namespaces, items and         *)
(* templates, any changes of items, any lag of the caches, any failures    *)
(* and restarts.                                                           *)
(***************************************************************************)
EXTENDS InstanceSync, ApiObjectsProofs

\* Who has the item's copy that is to be applied in hand.
Working == {"getResource", "getOld", "deleteOld", "create", "update", "status"}

-----------------------------------------------------------------------------
(***************************************************************************)
(* Values                                                                  *)
(***************************************************************************)
LEMMA NoneTypes ==
    /\ NoItem \in NamespaceClassItem /\ Vacant(NoItem) \in Slot(NamespaceClassItem)
    /\ NoInstance \in NamespaceItemInstance
    /\ Vacant(NoInstance) \in Slot(NamespaceItemInstance)
    /\ NoResource \in Resource /\ Vacant(NoResource) \in Slot(Resource)
<1>1. (CHOOSE t \in Templates : TRUE) \in Templates
  BY TemplatesAssumption
<1>2. (CHOOSE i \in Items : TRUE) \in Items
  BY InstanceAssumption
<1> QED
  BY <1>1, <1>2 DEF NoItem, NamespaceClassItem, NoInstance, NamespaceItemInstance,
                    NoResource, Resource, Slot, Vacant

LEMMA IdleTypes == InIdle \in InCall /\ InIdle.pc = "idle"
<1>1. (CHOOSE n \in Namespaces : TRUE) \in Namespaces
  BY InstanceAssumption
<1>2. (CHOOSE i \in Items : TRUE) \in Items
  BY InstanceAssumption
<1> QED
  BY <1>1, <1>2, NoneTypes DEF InIdle, InCall

\* A call as Reconcile goes on with it.
LEMMA CallTypes ==
    ASSUME NEW pc \in Working \cup {"getItem", "unmark"}, NEW n \in Namespaces, NEW i \in Items,
           NEW inst \in Slot(NamespaceItemInstance), NEW item \in Slot(NamespaceClassItem),
           NEW found \in Slot(Resource)
    PROVE  [pc |-> pc, ns |-> n, key |-> i, inst |-> inst, item |-> item, found |-> found]
               \in InCall
BY DEF InCall, InWrites, Working

LEMMA TargetTypes ==
    ASSUME instWorker \in InCall
    PROVE  /\ InTarget \in Resources /\ KindOf(InTarget) \in Kinds
           /\ InResource \in Resource
           /\ instWorker.ns \in Namespaces /\ instWorker.key \in Items
           /\ instWorker.inst \in Slot(NamespaceItemInstance)
           /\ instWorker.item \in Slot(NamespaceClassItem)
           /\ instWorker.found \in Slot(Resource)
BY KindsAssumption
   DEF InTarget, InResource, InCall, Slot, NamespaceClassItem, Resources, Resource

-----------------------------------------------------------------------------
(***************************************************************************)
(* What the writes of one object leave                                     *)
(***************************************************************************)
LEMMA InstanceWritten ==
    ASSUME InstancesTypeOK, UNCHANGED instCache, NEW n \in Namespaces, NEW i \in Items,
           NEW new \in Slot(NamespaceItemInstance),
           instances' = [instances EXCEPT ![n][i] = new]
    PROVE  /\ InstancesTypeOK' /\ instances'[n][i] = new
           /\ \A m \in Namespaces, j \in Items :
                 m # n \/ j # i => instances'[m][j] = instances[m][j]
BY DEF InstancesTypeOK

LEMMA ResourceWritten ==
    ASSUME ResourcesTypeOK, NEW n \in Namespaces, NEW r \in Resources, NEW new \in Slot(Resource),
           resources' = [resources EXCEPT ![n][r] = new]
    PROVE  /\ ResourcesTypeOK' /\ resources'[n][r] = new
           /\ \A m \in Namespaces, q \in Resources :
                 m # n \/ q # r => resources'[m][q] = resources[m][q]
BY DEF ResourcesTypeOK

LEMMA ItemWritten ==
    ASSUME ItemsTypeOK, UNCHANGED itemCache, NEW i \in Items, NEW new \in Slot(NamespaceClassItem),
           items' = [items EXCEPT ![i] = new]
    PROVE  /\ ItemsTypeOK' /\ items'[i] = new
           /\ \A j \in Items : j # i => items'[j] = items[j]
BY DEF ItemsTypeOK
-----------------------------------------------------------------------------
(***************************************************************************)
(* The steps, as far as they matter here                                   *)
(***************************************************************************)
\* What others than the reconciler do to an instance.
Comes(old, new) ==
    /\ Later(old, new)
    /\ \/ new.obj.obs = 0 /\ new.obj.kind = NoKind
       \/ /\ old.live /\ new.uid = old.uid
          /\ new.obj.obs = old.obj.obs /\ new.obj.kind = old.obj.kind
    /\ new.live /\ new.uid = old.uid => old.live

ItemMoves ==
    /\ \E i \in Items :
          \/ CreateItem(i)
          \/ \E t \in Templates : EditItem(i, t)
          \/ DeleteItem(i)
    /\ UNCHANGED <<itemCache, instStore, resources, instWorker>>

InstanceMoves ==
    /\ \E n \in Namespaces, i \in Items : \E new \in Slot(NamespaceItemInstance) :
          /\ instances' = [instances EXCEPT ![n][i] = new]
          /\ Comes(instances[n][i], new)
    /\ UNCHANGED <<itemStore, instCache, resources, instWorker>>

Collected ==
    /\ \E n \in Namespaces, r \in Resources : CollectResource(n, r)
    /\ UNCHANGED <<itemStore, instStore, instWorker>>

\* Informers catch up, or a call is given up, or both.
Informed ==
    /\ itemCache' = items \/ UNCHANGED itemCache
    /\ instCache' = instances \/ UNCHANGED instCache
    /\ instWorker' = InIdle \/ UNCHANGED instWorker
    /\ UNCHANGED <<items, instances, resources>>

\* A call that starts, and that turns out to have nothing to apply or something.
Begins ==
    /\ \E n \in Namespaces, i \in Items :
          instWorker' = [pc |-> "getItem", ns |-> n, key |-> i, inst |-> instCache[n][i],
                         item |-> Vacant(NoItem), found |-> Vacant(NoResource)]
    /\ UNCHANGED <<itemStore, instStore, resources>>

Looks ==
    LET w == instWorker
    IN
    /\ w.pc = "getItem"
    /\ \/ instWorker' = [pc |-> "unmark", ns |-> w.ns, key |-> w.key, inst |-> w.inst,
                         item |-> w.item, found |-> w.found]
       \/ /\ itemCache[w.key].live
          /\ instWorker' = [pc |-> "getResource", ns |-> w.ns, key |-> w.key, inst |-> w.inst,
                            item |-> itemCache[w.key], found |-> w.found]
    /\ UNCHANGED <<itemStore, instStore, resources>>

\* A call that goes on with what it has in hand.
GoesOn ==
    /\ InGetResource \/ InGetOld \/ InGetOldFails \/ InDeleteOld \/ InCreate \/ InUpdate
    /\ UNCHANGED <<itemStore, instStore>>

Records == InWriteStatus /\ UNCHANGED <<itemStore, instCache>>

Unmarks == InUnmark /\ UNCHANGED <<itemStore, instCache>>

LEMMA OutsideWrites ==
    ASSUME InstancesTypeOK, NEW n \in Namespaces, NEW i \in Items
    PROVE  /\ Install(n, i) => \E new \in Slot(NamespaceItemInstance) :
                 instances' = [instances EXCEPT ![n][i] = new] /\ Comes(instances[n][i], new)
           /\ Uninstall(n, i) => \E new \in Slot(NamespaceItemInstance) :
                 instances' = [instances EXCEPT ![n][i] = new] /\ Comes(instances[n][i], new)
           /\ Annotate(n, i) => UNCHANGED instances \/ \E new \in Slot(NamespaceItemInstance) :
                 instances' = [instances EXCEPT ![n][i] = new] /\ Comes(instances[n][i], new)
<1> DEFINE old == instances[n][i]
<1>1. old \in Slot(NamespaceItemInstance) /\ old.obj \in NamespaceItemInstance
  BY DEF InstancesTypeOK, Slot
<1>2. ASSUME Install(n, i)
      PROVE  \E new \in Slot(NamespaceItemInstance) :
                 instances' = [instances EXCEPT ![n][i] = new] /\ Comes(old, new)
  <2> DEFINE obj == [owner |-> 1, updated |-> FALSE, obs |-> 0, kind |-> NoKind]
             new == Created(old, obj)
  <2>1. obj \in NamespaceItemInstance /\ obj.obs = 0 /\ obj.kind = NoKind
    BY DEF NamespaceItemInstance
  <2>2. instances' = [instances EXCEPT ![n][i] = new]
    BY <1>2 DEF Install
  <2> HIDE DEF obj
  <2>3. new \in Slot(NamespaceItemInstance) /\ Later(old, new) /\ new.obj = obj
    BY <1>1, <2>1 DEF Created, Slot, Later
  <2>4. new.uid # old.uid
    BY <1>1 DEF Created, Slot
  <2> HIDE DEF new
  <2> QED BY <2>1, <2>2, <2>3, <2>4 DEF Comes
<1>3. ASSUME Uninstall(n, i)
      PROVE  \E new \in Slot(NamespaceItemInstance) :
                 instances' = [instances EXCEPT ![n][i] = new] /\ Comes(old, new)
  <2> DEFINE new == Deleted(old, NoInstance)
  <2>1. /\ new \in Slot(NamespaceItemInstance) /\ Later(old, new)
        /\ new.obj = NoInstance /\ ~new.live
    BY <1>1, NoneTypes DEF Deleted, Slot, Later
  <2>2. NoInstance.obs = 0 /\ NoInstance.kind = NoKind
    BY DEF NoInstance
  <2>3. instances' = [instances EXCEPT ![n][i] = new]
    BY <1>3 DEF Uninstall
  <2> HIDE DEF new
  <2> QED BY <2>1, <2>2, <2>3 DEF Comes
<1>4. ASSUME Annotate(n, i), old.live
      PROVE  \E new \in Slot(NamespaceItemInstance) :
                 instances' = [instances EXCEPT ![n][i] = new] /\ Comes(old, new)
  <2> DEFINE obj == [old.obj EXCEPT !.updated = TRUE]
             new == Updated(old, obj)
  <2>1. obj \in NamespaceItemInstance /\ obj.obs = old.obj.obs /\ obj.kind = old.obj.kind
    BY <1>1 DEF NamespaceItemInstance
  <2>2. instances' = [instances EXCEPT ![n][i] = new]
    BY <1>4 DEF Annotate
  <2> HIDE DEF obj
  <2>3. new \in Slot(NamespaceItemInstance) /\ Later(old, new) /\ new.obj = obj
    BY <1>1, <1>4, <2>1 DEF Updated, Slot, Later
  <2>4. new.uid = old.uid
    BY DEF Updated
  <2> HIDE DEF new
  <2> QED BY <1>4, <2>1, <2>2, <2>3, <2>4 DEF Comes
<1>5. ASSUME Annotate(n, i), ~old.live
      PROVE  UNCHANGED instances
  BY <1>5 DEF Annotate
<1> QED
  BY <1>2, <1>3, <1>4, <1>5

LEMMA NextMoves ==
    ASSUME InstancesTypeOK, [Next]_vars
    PROVE  \/ ItemMoves \/ InstanceMoves \/ Collected \/ Informed \/ Begins \/ Looks
           \/ GoesOn \/ Records \/ Unmarks
<1> USE DEF itemStore, instStore, inVars
<1>1. CASE Edit
  <2>1. UNCHANGED <<itemCache, instCache, resources, instWorker>>
    BY <1>1 DEF Edit
  <2>2. PICK i \in Items :
           \/ CreateItem(i)
           \/ \E t \in Templates : EditItem(i, t)
           \/ DeleteItem(i)
           \/ \E n \in Namespaces : Install(n, i) \/ Uninstall(n, i)
    BY <1>1 DEF Edit
  <2>3. CASE CreateItem(i) \/ (\E t \in Templates : EditItem(i, t)) \/ DeleteItem(i)
    <3>1. UNCHANGED instances
      BY <2>3 DEF CreateItem, EditItem, DeleteItem
    <3> QED BY <2>1, <2>3, <3>1 DEF ItemMoves
  <2>4. CASE \E n \in Namespaces : Install(n, i) \/ Uninstall(n, i)
    <3>1. UNCHANGED items
      BY <2>4 DEF Install, Uninstall
    <3> QED BY <2>1, <2>4, <3>1, OutsideWrites DEF InstanceMoves
  <2> QED BY <2>2, <2>3, <2>4
<1>2. ASSUME NEW n \in Namespaces, NEW i \in Items, Annotate(n, i)
      PROVE  InstanceMoves \/ Informed
  <2>1. UNCHANGED <<itemStore, instCache, resources, instWorker>>
    BY <1>2 DEF Annotate
  <2>2. CASE UNCHANGED instances
    BY <2>1, <2>2 DEF Informed
  <2> QED BY <1>2, <2>1, <2>2, OutsideWrites DEF InstanceMoves
<1>3. ASSUME NEW n \in Namespaces, NEW r \in Resources, Collect(n, r)
      PROVE  Collected
  BY <1>3 DEF Collect, Collected
<1>4. CASE SyncItems \/ SyncInstances \/ Restart
  BY <1>4 DEF SyncItems, SyncInstances, Restart, Informed
<1>5. CASE InstanceStep
  <2>1. UNCHANGED <<itemStore, instCache>>
    BY <1>5 DEF InstanceStep
  <2>2. ASSUME NEW n \in Namespaces, NEW i \in Items, InGetInstance(n, i)
        PROVE  Begins \/ Informed
    BY <2>1, <2>2 DEF InGetInstance, Begins, Informed
  <2>3. CASE InGetItem
    BY <2>1, <2>3 DEF InGetItem, InReturn, InRequeue, InUnmarkOrReturn, Looks, Informed
  <2>4. CASE InGetResource \/ InGetOld \/ InDeleteOld \/ InCreate \/ InUpdate
    <3>1. UNCHANGED instances
      BY <2>4 DEF InGetResource, InGetOld, InDeleteOld, InCreate, InUpdate
    <3> QED BY <2>1, <2>4, <3>1 DEF GoesOn
  <2>5. CASE InRejected
    BY <2>1, <2>5 DEF InRejected, InRequeue, Informed
  <2> QED
    BY <1>5, <2>1, <2>2, <2>3, <2>4, <2>5 DEF InstanceStep, InReconcile, Records, Unmarks
<1>6. CASE Fault
  <2>1. UNCHANGED <<itemStore, instCache>>
    BY <1>6 DEF Fault
  <2>2. CASE InCallFails
    BY <2>1, <2>2 DEF InCallFails, InRequeue, Informed
  <2>3. CASE InGetOldFails
    BY <2>1, <2>3 DEF InGetOldFails, GoesOn
  <2> QED BY <1>6, <2>2, <2>3 DEF Fault
<1>7. CASE UNCHANGED vars
  BY <1>7 DEF vars, Informed
<1> QED
  BY <1>1, <1>2, <1>3, <1>4, <1>5, <1>6, <1>7 DEF Next
-----------------------------------------------------------------------------
(***************************************************************************)
(* What the reconciler has in hand, and does                               *)
(***************************************************************************)
CoreTypeOK ==
    /\ ItemsTypeOK
    /\ InstancesTypeOK
    /\ ResourcesTypeOK
    /\ instWorker \in InCall

\* A call that goes on keeps what it has read, and so what it is going to write.
LEMMA HandKept ==
    ASSUME CoreTypeOK, GoesOn
    PROVE  LET w == instWorker
           IN  /\ w.pc \in Working /\ w'.pc \in Working
               /\ w'.ns = w.ns /\ w'.key = w.key /\ w'.inst = w.inst /\ w'.item = w.item
               /\ InTarget' = InTarget /\ InOldResource' = InOldResource
               /\ instWorker' \in InCall
<1> DEFINE w == instWorker
<1> USE DEF CoreTypeOK
<1>1. /\ w \in InCall /\ w.ns \in Namespaces /\ InTarget \in Resources
      /\ w.inst \in Slot(NamespaceItemInstance) /\ w.item \in Slot(NamespaceClassItem)
      /\ w.key \in Items
  BY TargetTypes
<1>2. ASSUME NEW pc \in Working, instWorker' = [instWorker EXCEPT !.pc = pc]
      PROVE  /\ w'.pc = pc /\ w'.ns = w.ns /\ w'.key = w.key /\ w'.inst = w.inst
             /\ w'.item = w.item /\ instWorker' \in InCall
  BY <1>1, <1>2 DEF InCall, InWrites, Working
<1>3. CASE InGetResource
  <2>1. w.pc = "getResource"
    BY <1>3 DEF InGetResource
  <2>2. CASE resources[w.ns][InTarget].live
    <3>1. instWorker' = [pc |-> "update", ns |-> w.ns, key |-> w.key, inst |-> w.inst,
                         item |-> w.item, found |-> resources[w.ns][InTarget]]
      BY <1>3, <2>2 DEF InGetResource
    <3>2. resources[w.ns][InTarget] \in Slot(Resource)
      BY <1>1 DEF ResourcesTypeOK
    <3>3. instWorker' \in InCall
      BY <1>1, <3>1, <3>2, CallTypes DEF Working
    <3> QED BY <2>1, <3>1, <3>3 DEF Working, InTarget, InOldResource
  <2>3. CASE ~resources[w.ns][InTarget].live
    <3>1. PICK pc \in Working : instWorker' = [instWorker EXCEPT !.pc = pc]
      BY <1>3, <2>3 DEF InGetResource, InGoTo, Working
    <3> QED BY <1>2, <2>1, <3>1 DEF Working, InTarget, InOldResource
  <2> QED BY <2>2, <2>3
<1>4. CASE InGetOld \/ InGetOldFails \/ InDeleteOld \/ InCreate \/ InUpdate
  <2>1. w.pc \in Working
    BY <1>4 DEF InGetOld, InGetOldFails, InDeleteOld, InCreate, InUpdate, Working
  <2>2. PICK pc \in Working : instWorker' = [instWorker EXCEPT !.pc = pc]
    BY <1>4 DEF InGetOld, InGetOldFails, InDeleteOld, InCreate, InUpdate, InGoTo, Working
  <2> QED BY <1>2, <2>1, <2>2 DEF InTarget, InOldResource
<1> QED
  BY <1>3, <1>4 DEF GoesOn

\* What it does to the resources, and when.
LEMMA Deeds ==
    ASSUME CoreTypeOK, GoesOn
    PROVE  LET w == instWorker
               n == instWorker.ns
           IN
           \/ /\ w.pc = "getResource" /\ UNCHANGED resources
              /\ w'.pc # "update" => w'.pc \in {"getOld", "create"}
                                     /\ ~resources[n][InTarget].live
           \/ /\ w.pc = "getOld" /\ UNCHANGED resources
              /\ w'.pc # "create" => w'.pc = "deleteOld" /\ InOldResource \in Resources
                                     /\ resources[n][InOldResource].obj.from = w.key
           \/ /\ w.pc = "deleteOld" /\ w'.pc = "create"
              /\ resources[n][InOldResource].live
              /\ resources' = [resources EXCEPT ![n][InOldResource] = Deleted(@, NoResource)]
           \/ /\ w.pc \in {"create", "update"} /\ w'.pc = "status"
              /\ \E new \in Slot(Resource) :
                    /\ new.live /\ new.obj = InResource
                    /\ resources' = [resources EXCEPT ![n][InTarget] = new]
<1> DEFINE w == instWorker
           n == instWorker.ns
<1> USE DEF CoreTypeOK
<1>1. /\ w \in InCall /\ n \in Namespaces /\ InTarget \in Resources /\ InResource \in Resource
      /\ resources[n][InTarget] \in Slot(Resource)
  BY TargetTypes DEF ResourcesTypeOK
<1>2. ASSUME NEW pc, InGoTo(pc)
      PROVE  w'.pc = pc
  BY <1>1, <1>2 DEF InGoTo, InCall
<1>3. CASE InGetResource
  <2>1. w.pc = "getResource" /\ UNCHANGED resources
    BY <1>3 DEF InGetResource
  <2>2. CASE resources[n][InTarget].live
    <3>1. w'.pc = "update"
      BY <1>3, <2>2 DEF InGetResource
    <3> QED BY <2>1, <3>1
  <2>3. CASE ~resources[n][InTarget].live
    <3>1. InGoTo("getOld") \/ InGoTo("create")
      BY <1>3, <2>3 DEF InGetResource
    <3>2. w'.pc \in {"getOld", "create"}
      BY <1>2, <3>1
    <3> QED BY <2>1, <2>3, <3>2
  <2> QED BY <2>2, <2>3
<1>4. CASE InGetOld
  <2>1. w.pc = "getOld" /\ UNCHANGED resources
    BY <1>4 DEF InGetOld
  <2>2. CASE InOldResource \in Resources /\ InOwns(resources[n][InOldResource])
    <3>1. w'.pc = "deleteOld"
      BY <1>2, <1>4, <2>2 DEF InGetOld
    <3> QED BY <2>1, <2>2, <3>1 DEF InOwns, OwnedBy
  <2>3. CASE ~(InOldResource \in Resources /\ InOwns(resources[n][InOldResource]))
    <3>1. w'.pc = "create"
      BY <1>2, <1>4, <2>3 DEF InGetOld
    <3> QED BY <2>1, <3>1
  <2> QED BY <2>2, <2>3
<1>5. CASE InGetOldFails
  BY <1>2, <1>5 DEF InGetOldFails
<1>6. CASE InDeleteOld
  BY <1>2, <1>6 DEF InDeleteOld
<1>7. CASE InCreate
  <2> DEFINE new == Created(resources[n][InTarget], InResource)
  <2>1. /\ w.pc = "create" /\ w'.pc = "status"
        /\ resources' = [resources EXCEPT ![n][InTarget] = new]
    BY <1>2, <1>7 DEF InCreate
  <2>2. new \in Slot(Resource) /\ new.live /\ new.obj = InResource
    BY <1>1 DEF Created, Slot
  <2> HIDE DEF new
  <2> QED BY <2>1, <2>2
<1>8. CASE InUpdate
  <2> DEFINE new == Updated(resources[n][InTarget], InResource)
  <2>1. /\ w.pc = "update" /\ w'.pc = "status" /\ resources[n][InTarget].live
        /\ resources' = [resources EXCEPT ![n][InTarget] = new]
    BY <1>2, <1>8 DEF InUpdate, SameVersion
  <2>2. new \in Slot(Resource) /\ new.live /\ new.obj = InResource
    BY <1>1, <2>1 DEF Updated, Slot
  <2> HIDE DEF new
  <2> QED BY <2>1, <2>2
<1> QED
  BY <1>3, <1>4, <1>5, <1>6, <1>7, <1>8 DEF GoesOn

\* The two writes of the instance.
LEMMA OwnWrites ==
    ASSUME CoreTypeOK, Records \/ Unmarks
    PROVE  LET w == instWorker
               n == instWorker.ns
               i == instWorker.key
           IN
           \E new \in Slot(NamespaceItemInstance) :
               /\ instances[n][i].live /\ instances[n][i].rv = w.inst.rv
               /\ instances' = [instances EXCEPT ![n][i] = new]
               /\ Later(instances[n][i], new) /\ new.live /\ new.uid = instances[n][i].uid
               /\ UNCHANGED <<itemStore, instCache, resources>>
               /\ \/ /\ w.pc = "status"
                     /\ new.obj.obs = w.item.obj.gen /\ new.obj.kind = KindOf(InTarget)
                     /\ \/ instWorker' = InIdle
                        \/ instWorker' = [pc |-> "unmark", ns |-> n, key |-> i, inst |-> new,
                                          item |-> w.item, found |-> w.found]
                  \/ /\ w.pc = "unmark"
                     /\ new.obj.obs = w.inst.obj.obs /\ new.obj.kind = w.inst.obj.kind
                     /\ instWorker' = InIdle
<1> DEFINE w == instWorker
           n == instWorker.ns
           i == instWorker.key
<1> USE DEF CoreTypeOK
<1>1. /\ n \in Namespaces /\ i \in Items /\ w.inst.obj \in NamespaceItemInstance
      /\ w.item.obj \in NamespaceClassItem /\ KindOf(InTarget) \in Kinds
      /\ instances[n][i] \in Slot(NamespaceItemInstance)
  BY TargetTypes DEF InstancesTypeOK, Slot
<1>2. CASE Records
  <2> DEFINE obj == WithStatus(w.inst.obj, w.item.obj.gen, KindOf(InTarget))
             new == Updated(instances[n][i], obj)
  <2>1. /\ obj \in NamespaceItemInstance
        /\ obj.obs = w.item.obj.gen /\ obj.kind = KindOf(InTarget)
    BY <1>1 DEF WithStatus, NamespaceItemInstance, NamespaceClassItem
  <2>2. /\ w.pc = "status" /\ instances[n][i].live /\ instances[n][i].rv = w.inst.rv
        /\ instances' = [instances EXCEPT ![n][i] = new] /\ InUnmarkOrReturn(new)
        /\ UNCHANGED <<itemStore, instCache, resources>>
    BY <1>2 DEF Records, InWriteStatus, SameVersion
  <2> HIDE DEF obj
  <2>3. /\ new \in Slot(NamespaceItemInstance) /\ Later(instances[n][i], new) /\ new.live
        /\ new.uid = instances[n][i].uid /\ new.obj = obj
    <3>1. CASE obj = instances[n][i].obj
      BY <1>1, <2>2, <3>1 DEF Updated, Later
    <3>2. CASE obj # instances[n][i].obj
      BY <1>1, <2>1, <2>2, <3>2 DEF Updated, Slot, Later
    <3> QED BY <3>1, <3>2
  <2> HIDE DEF new
  <2>4. \/ instWorker' = InIdle
        \/ instWorker' = [pc |-> "unmark", ns |-> n, key |-> i, inst |-> new,
                          item |-> w.item, found |-> w.found]
    BY <2>2 DEF InUnmarkOrReturn
  <2> QED BY <2>1, <2>2, <2>3, <2>4
<1>3. CASE Unmarks
  <2> DEFINE obj == Unmarked(w.inst.obj)
             new == Updated(instances[n][i], obj)
  <2>1. /\ obj \in NamespaceItemInstance
        /\ obj.obs = w.inst.obj.obs /\ obj.kind = w.inst.obj.kind
    BY <1>1 DEF Unmarked, NamespaceItemInstance
  <2>2. /\ w.pc = "unmark" /\ instances[n][i].live /\ instances[n][i].rv = w.inst.rv
        /\ instances' = [instances EXCEPT ![n][i] = new] /\ instWorker' = InIdle
        /\ UNCHANGED <<itemStore, instCache, resources>>
    BY <1>3 DEF Unmarks, InUnmark, SameVersion, InReturn
  <2> HIDE DEF obj
  <2>3. /\ new \in Slot(NamespaceItemInstance) /\ Later(instances[n][i], new) /\ new.live
        /\ new.uid = instances[n][i].uid /\ new.obj = obj
    <3>1. CASE obj = instances[n][i].obj
      BY <1>1, <2>2, <3>1 DEF Updated, Later
    <3>2. CASE obj # instances[n][i].obj
      BY <1>1, <2>1, <2>2, <3>2 DEF Updated, Slot, Later
    <3> QED BY <3>1, <3>2
  <2> HIDE DEF new
  <2> QED BY <2>1, <2>2, <2>3
<1> QED
  BY <1>2, <1>3
\* What users do to an item: one that may not be given up only gets new generations.
LEMMA ItemWrites ==
    ASSUME CoreTypeOK, ItemMoves
    PROVE  \E i \in Items : \E new \in Slot(NamespaceClassItem) :
               /\ items' = [items EXCEPT ![i] = new]
               /\ new.live => new.obj.gen # 0
               /\ items[i].live /\ ~(items[i].uid < MaxItemLives) =>
                     /\ new.live /\ new.uid = items[i].uid
                     /\ new.obj.gen = items[i].obj.gen + 1
<1>1. PICK i \in Items :
         CreateItem(i) \/ (\E t \in Templates : EditItem(i, t)) \/ DeleteItem(i)
  BY DEF ItemMoves
<1> DEFINE old == items[i]
<1>2. old \in Slot(NamespaceClassItem) /\ old.obj \in NamespaceClassItem
  BY DEF CoreTypeOK, ItemsTypeOK, Slot
<1>3. CASE CreateItem(i)
  <2>1. PICK t \in Templates :
           items' = [items EXCEPT ![i] =
                        Created(old, [gen |-> 1, template |-> t, obs |-> 1, refs |-> {}])]
    BY <1>3, InstanceAssumption DEF CreateItem
  <2> DEFINE obj == [gen |-> 1, template |-> t, obs |-> 1, refs |-> {}]
             new == Created(old, obj)
  <2>2. items' = [items EXCEPT ![i] = new]
    BY <2>1
  <2>3. obj \in NamespaceClassItem /\ obj.gen # 0
    BY DEF NamespaceClassItem
  <2> HIDE DEF obj
  <2>4. new \in Slot(NamespaceClassItem) /\ new.obj = obj
    BY <1>2, <2>3 DEF Created, Slot
  <2>5. ~old.live
    BY <1>3 DEF CreateItem
  <2> HIDE DEF new
  <2> QED BY <2>2, <2>3, <2>4, <2>5
<1>4. CASE \E t \in Templates : EditItem(i, t)
  <2>1. PICK t \in Templates : EditItem(i, t)
    BY <1>4
  <2> DEFINE obj == [gen |-> old.obj.gen + 1, template |-> t, obs |-> old.obj.obs,
                     refs |-> old.obj.refs]
             new == Updated(old, obj)
  <2>2. /\ old.live
        /\ items' = [items EXCEPT ![i] = new]
    BY <2>1 DEF EditItem
  <2>3. /\ obj \in NamespaceClassItem /\ obj.gen # 0 /\ obj.gen = old.obj.gen + 1
    BY <1>2 DEF NamespaceClassItem
  <2> HIDE DEF obj
  <2>4. /\ new \in Slot(NamespaceClassItem) /\ new.live /\ new.uid = old.uid /\ new.obj = obj
    BY <1>2, <2>2, <2>3 DEF Updated, Slot
  <2> HIDE DEF new
  <2> QED BY <2>2, <2>3, <2>4
<1>5. CASE DeleteItem(i)
  <2> DEFINE new == Deleted(old, NoItem)
  <2>1. /\ old.uid < MaxItemLives
        /\ items' = [items EXCEPT ![i] = new]
    BY <1>5 DEF DeleteItem
  <2>2. new \in Slot(NamespaceClassItem) /\ ~new.live
    BY <1>2, NoneTypes DEF Deleted, Slot
  <2> HIDE DEF new
  <2> QED BY <2>1, <2>2
<1> QED
  BY <1>1, <1>3, <1>4, <1>5

-----------------------------------------------------------------------------
(***************************************************************************)
(* Types, and whose the resource is that is to be deleted                  *)
(***************************************************************************)
Recorded(inst) == (inst.obj.obs # 0) <=> (inst.obj.kind # NoKind)

\* Whoever records a generation records a kind with it, and there is no generation 0.
RecordsOK ==
    /\ \A i \in Items :
          /\ items[i].live => items[i].obj.gen # 0
          /\ itemCache[i].live => itemCache[i].obj.gen # 0
    /\ instWorker.pc \in Working => instWorker.item.obj.gen # 0
    /\ \A n \in Namespaces, i \in Items :
          Recorded(instances[n][i]) /\ Recorded(instCache[n][i])
    /\ instWorker.pc # "idle" => Recorded(instWorker.inst)

\* Nobody else writes the resources: between the look at its owner and its deletion the
\* old resource may only vanish.
OldOwned ==
    instWorker.pc = "deleteOld" =>
        /\ InOldResource \in Resources
        /\ LET old == resources[instWorker.ns][InOldResource]
           IN  old.live => old.obj.from = instWorker.key

Typed == CoreTypeOK /\ RecordsOK /\ OldOwned

LEMMA TypedAtFirst ==
    ASSUME Init
    PROVE  Typed
<1>1. ASSUME NEW t \in FirstTemplates
      PROVE  [live |-> TRUE, uid |-> 1, rv |-> 1,
              obj |-> [gen |-> 1, template |-> t, obs |-> 1, refs |-> {}]]
                 \in Slot(NamespaceClassItem)
  BY InstanceAssumption DEF Slot, NamespaceClassItem
<1>2. ItemsTypeOK /\ \A i \in Items : items[i].obj.gen # 0
  BY <1>1 DEF Init, ItemsTypeOK
<1>3. InstancesTypeOK /\ ResourcesTypeOK
  BY NoneTypes DEF Init, InstancesInit, ResourcesInit, InstancesTypeOK, ResourcesTypeOK
<1>4. instWorker \in InCall /\ instWorker.pc = "idle"
  BY IdleTypes DEF Init
<1>5. \A n \in Namespaces, i \in Items :
         Recorded(instances[n][i]) /\ Recorded(instCache[n][i])
  BY DEF Init, InstancesInit, Vacant, NoInstance, Recorded
<1>6. itemCache = items
  BY DEF Init
<1> QED
  BY <1>2, <1>3, <1>4, <1>5, <1>6 DEF Typed, CoreTypeOK, RecordsOK, OldOwned, Working

LEMMA TypedStays ==
    ASSUME Typed, ItemMoves \/ InstanceMoves \/ Collected \/ Informed \/ Begins \/ Looks
                  \/ GoesOn \/ Records \/ Unmarks
    PROVE  Typed'
<1> USE DEF Typed, itemStore, instStore
<1>1. CASE ItemMoves
  <2>1. PICK i \in Items, new \in Slot(NamespaceClassItem) :
           items' = [items EXCEPT ![i] = new] /\ (new.live => new.obj.gen # 0)
    BY <1>1, ItemWrites
  <2>2. UNCHANGED <<itemCache, instStore, resources, instWorker>>
    BY <1>1 DEF ItemMoves
  <2>3. /\ ItemsTypeOK' /\ items'[i] = new
        /\ \A j \in Items : j # i => items'[j] = items[j]
    BY <2>1, <2>2, ItemWritten DEF CoreTypeOK
  <2>4. CoreTypeOK'
    BY <2>2, <2>3 DEF CoreTypeOK, InstancesTypeOK, ResourcesTypeOK
  <2>5. RecordsOK'
    BY <2>1, <2>2, <2>3 DEF RecordsOK, Recorded
  <2>6. OldOwned'
    BY <2>2 DEF OldOwned, InOldResource, InTarget
  <2> QED BY <2>4, <2>5, <2>6
<1>2. CASE InstanceMoves
  <2>1. PICK n \in Namespaces, i \in Items, new \in Slot(NamespaceItemInstance) :
           instances' = [instances EXCEPT ![n][i] = new] /\ Comes(instances[n][i], new)
    BY <1>2 DEF InstanceMoves
  <2>2. UNCHANGED <<itemStore, instCache, resources, instWorker>>
    BY <1>2 DEF InstanceMoves
  <2>3. /\ InstancesTypeOK' /\ instances'[n][i] = new
        /\ \A m \in Namespaces, j \in Items :
              m # n \/ j # i => instances'[m][j] = instances[m][j]
    <3>1. InstancesTypeOK /\ UNCHANGED instCache
      BY <2>2 DEF CoreTypeOK, Typed
    <3> QED BY <2>1, <3>1 DEF InstancesTypeOK
  <2>4. CoreTypeOK'
    BY <2>2, <2>3 DEF CoreTypeOK, ItemsTypeOK, ResourcesTypeOK
  <2>5. Recorded(new)
    BY <2>1 DEF Comes, RecordsOK, Recorded
  <2>6. RecordsOK'
    BY <2>2, <2>3, <2>5 DEF RecordsOK, Recorded
  <2>7. OldOwned'
    BY <2>2 DEF OldOwned, InOldResource, InTarget
  <2> QED BY <2>4, <2>6, <2>7
<1>3. CASE Collected
  <2>1. PICK n \in Namespaces, r \in Resources :
           resources' = [resources EXCEPT ![n][r] = Deleted(resources[n][r], NoResource)]
    BY <1>3 DEF Collected, CollectResource
  <2>2. UNCHANGED <<itemStore, instStore, instWorker>>
    BY <1>3 DEF Collected
  <2> DEFINE new == Deleted(resources[n][r], NoResource)
  <2>3. new \in Slot(Resource) /\ ~new.live
    BY NoneTypes DEF CoreTypeOK, ResourcesTypeOK, Deleted, Slot
  <2> HIDE DEF new
  <2>4. /\ ResourcesTypeOK' /\ resources'[n][r] = new
        /\ \A m \in Namespaces, q \in Resources :
              m # n \/ q # r => resources'[m][q] = resources[m][q]
    BY <2>1, <2>3, ResourceWritten DEF CoreTypeOK, new
  <2>5. CoreTypeOK'
    BY <2>2, <2>4 DEF CoreTypeOK, ItemsTypeOK, InstancesTypeOK
  <2>6. RecordsOK'
    BY <2>2 DEF RecordsOK, Recorded
  <2>7. OldOwned'
    BY <2>2, <2>3, <2>4, TargetTypes DEF OldOwned, InOldResource, InTarget, CoreTypeOK
  <2> QED BY <2>5, <2>6, <2>7
<1>4. CASE Informed
  <2>1. UNCHANGED <<items, instances, resources>>
    BY <1>4 DEF Informed
  <2>2. itemCache' \in {itemCache, items} /\ instCache' \in {instCache, instances}
    BY <1>4 DEF Informed
  <2>3. instWorker' \in InCall /\ (instWorker'.pc = "idle" \/ UNCHANGED instWorker)
    BY <1>4, IdleTypes DEF Informed, CoreTypeOK
  <2>4. CoreTypeOK'
    BY <2>1, <2>2, <2>3 DEF CoreTypeOK, ItemsTypeOK, InstancesTypeOK, ResourcesTypeOK
  <2>5. RecordsOK'
    BY <2>1, <2>2, <2>3 DEF RecordsOK, Recorded, Working
  <2>6. OldOwned'
    BY <2>1, <2>3 DEF OldOwned, InOldResource, InTarget
  <2> QED BY <2>4, <2>5, <2>6
<1>5. CASE Begins
  <2>1. PICK n \in Namespaces, i \in Items :
           instWorker' = [pc |-> "getItem", ns |-> n, key |-> i, inst |-> instCache[n][i],
                          item |-> Vacant(NoItem), found |-> Vacant(NoResource)]
    BY <1>5 DEF Begins
  <2>2. UNCHANGED <<itemStore, instStore, resources>>
    BY <1>5 DEF Begins
  <2>3. instCache[n][i] \in Slot(NamespaceItemInstance)
    BY DEF CoreTypeOK, InstancesTypeOK
  <2>4. instWorker' \in InCall
    BY <2>1, <2>3, NoneTypes, CallTypes
  <2>5. CoreTypeOK'
    BY <2>2, <2>4 DEF CoreTypeOK, ItemsTypeOK, InstancesTypeOK, ResourcesTypeOK
  <2>6. RecordsOK'
    BY <2>1, <2>2 DEF RecordsOK, Recorded, Working
  <2>7. OldOwned'
    BY <2>1 DEF OldOwned
  <2> QED BY <2>5, <2>6, <2>7
<1>6. CASE Looks
  <2> DEFINE w == instWorker
  <2>1. UNCHANGED <<itemStore, instStore, resources>> /\ w.pc = "getItem"
    BY <1>6 DEF Looks
  <2>2. PICK pc \in {"unmark", "getResource"}, item \in Slot(NamespaceClassItem) :
           /\ pc = "getResource" => item = itemCache[w.key] /\ itemCache[w.key].live
           /\ instWorker' = [pc |-> pc, ns |-> w.ns, key |-> w.key, inst |-> w.inst,
                             item |-> item, found |-> w.found]
    <3>1. w.item \in Slot(NamespaceClassItem) /\ itemCache[w.key] \in Slot(NamespaceClassItem)
      BY TargetTypes DEF CoreTypeOK, ItemsTypeOK
    <3> QED BY <1>6, <3>1 DEF Looks
  <2>3. instWorker' \in InCall
    BY <2>2, TargetTypes, CallTypes DEF CoreTypeOK, Working
  <2>4. CoreTypeOK'
    BY <2>1, <2>3 DEF CoreTypeOK, ItemsTypeOK, InstancesTypeOK, ResourcesTypeOK
  <2>5. RecordsOK'
    BY <2>1, <2>2, TargetTypes DEF RecordsOK, Recorded, Working, CoreTypeOK
  <2>6. OldOwned'
    BY <2>2 DEF OldOwned
  <2> QED BY <2>4, <2>5, <2>6
<1>7. CASE GoesOn
  <2> DEFINE w == instWorker
             n == instWorker.ns
  <2>1. /\ UNCHANGED <<itemStore, instStore>>
    BY <1>7 DEF GoesOn
  <2>2. /\ w.pc \in Working /\ w'.pc \in Working
        /\ w'.ns = w.ns /\ w'.key = w.key /\ w'.inst = w.inst /\ w'.item = w.item
        /\ InTarget' = InTarget /\ InOldResource' = InOldResource
        /\ instWorker' \in InCall
    BY <1>7, HandKept
  <2>3. n \in Namespaces /\ InTarget \in Resources
    BY TargetTypes DEF CoreTypeOK
  <2>4. ResourcesTypeOK' /\ OldOwned'
    <3>1. CASE UNCHANGED resources
      <4>1. ResourcesTypeOK'
        BY <3>1 DEF CoreTypeOK, ResourcesTypeOK
      <4>2. w'.pc = "deleteOld" =>
               InOldResource \in Resources /\ resources[n][InOldResource].obj.from = w.key
        BY <1>7, <3>1, Deeds
      <4> QED BY <2>2, <3>1, <4>1, <4>2 DEF OldOwned
    <3>2. CASE w.pc = "deleteOld"
      <4> DEFINE new == Deleted(resources[n][InOldResource], NoResource)
      <4>1. InOldResource \in Resources
        BY <3>2 DEF OldOwned
      <4>2. /\ w'.pc = "create"
            /\ resources' = [resources EXCEPT ![n][InOldResource] = new]
        BY <1>7, <3>2, Deeds
      <4>3. new \in Slot(Resource)
        BY <2>3, <4>1, NoneTypes DEF CoreTypeOK, ResourcesTypeOK, Deleted, Slot
      <4> HIDE DEF new
      <4>4. ResourcesTypeOK'
        BY <2>3, <4>1, <4>2, <4>3, ResourceWritten DEF CoreTypeOK
      <4> QED BY <4>2, <4>4 DEF OldOwned
    <3>3. CASE w.pc \in {"create", "update"}
      <4>1. w'.pc = "status"
        BY <1>7, <3>3, Deeds
      <4>2. PICK new \in Slot(Resource) : resources' = [resources EXCEPT ![n][InTarget] = new]
        BY <1>7, <3>3, Deeds
      <4>3. ResourcesTypeOK'
        BY <2>3, <4>2, ResourceWritten DEF CoreTypeOK
      <4> QED BY <4>1, <4>3 DEF OldOwned
    <3> QED BY <1>7, <3>1, <3>2, <3>3, Deeds
  <2>5. CoreTypeOK'
    BY <2>1, <2>2, <2>4 DEF CoreTypeOK, ItemsTypeOK, InstancesTypeOK
  <2>6. RecordsOK'
    BY <2>1, <2>2 DEF RecordsOK, Recorded, Working
  <2> QED BY <2>4, <2>5, <2>6
<1>8. CASE Records \/ Unmarks
  <2> DEFINE w == instWorker
             n == instWorker.ns
             i == instWorker.key
  <2>1. PICK new \in Slot(NamespaceItemInstance) :
           /\ instances' = [instances EXCEPT ![n][i] = new]
           /\ UNCHANGED <<itemStore, instCache, resources>>
           /\ \/ /\ w.pc = "status"
                 /\ new.obj.obs = w.item.obj.gen /\ new.obj.kind = KindOf(InTarget)
                 /\ \/ instWorker' = InIdle
                    \/ instWorker' = [pc |-> "unmark", ns |-> n, key |-> i, inst |-> new,
                                      item |-> w.item, found |-> w.found]
              \/ /\ w.pc = "unmark"
                 /\ new.obj.obs = w.inst.obj.obs /\ new.obj.kind = w.inst.obj.kind
                 /\ instWorker' = InIdle
    BY <1>8, OwnWrites
  <2>2. /\ n \in Namespaces /\ i \in Items /\ w.item \in Slot(NamespaceClassItem)
        /\ w.found \in Slot(Resource) /\ KindOf(InTarget) # NoKind
    BY TargetTypes, NoKindAssumption DEF CoreTypeOK
  <2>3. /\ InstancesTypeOK' /\ instances'[n][i] = new
        /\ \A m \in Namespaces, j \in Items :
              m # n \/ j # i => instances'[m][j] = instances[m][j]
    BY <2>1, <2>2, InstanceWritten DEF CoreTypeOK
  <2>4. Recorded(new)
    BY <2>1, <2>2 DEF RecordsOK, Recorded, Working
  <2>5. /\ instWorker' \in InCall
        /\ \/ instWorker'.pc = "idle"
           \/ instWorker'.pc = "unmark" /\ instWorker'.inst = new
    BY <2>1, <2>2, IdleTypes, CallTypes
  <2>6. CoreTypeOK'
    BY <2>1, <2>3, <2>5 DEF CoreTypeOK, ItemsTypeOK, ResourcesTypeOK
  <2>7. RecordsOK'
    BY <2>1, <2>3, <2>4, <2>5 DEF RecordsOK, Recorded, Working
  <2>8. OldOwned'
    BY <2>5 DEF OldOwned
  <2> QED BY <2>6, <2>7, <2>8
<1> QED
  BY <1>1, <1>2, <1>3, <1>4, <1>5, <1>6, <1>7, <1>8
-----------------------------------------------------------------------------
(***************************************************************************)
(* The rest of the types                                                   *)
(***************************************************************************)
OuterTypeOK ==
    /\ namespaces = OpenNamespaces /\ nsCache = OpenNamespaces
    /\ instQueue \subseteq Keys
    /\ untold \subseteq Keys

LEMMA KeysOfInstances ==
    ASSUME InstancesTypeOK
    PROVE  LivingInstances(instances) \subseteq Keys /\ ChangedInstances \subseteq Keys
<1>1. ASSUME NEW n \in Namespaces
      PROVE  /\ Living(instances[n]) \subseteq Items
             /\ Changed(instCache[n], instances[n]) \subseteq Items
  BY DEF InstancesTypeOK, Living, Changed
<1> QED
  BY <1>1 DEF LivingInstances, ChangedInstances, Keys

LEMMA QueueStays ==
    ASSUME instWorker \in InCall, instQueue \subseteq Keys,
           InReconcile \/ InCallFails \/ InGetOldFails
    PROVE  instQueue' \subseteq Keys
<1>1. instWorker.ns \in Namespaces /\ instWorker.key \in Items
  BY DEF InCall
<1>2. ASSUME InReturn \/ InRequeue \/ (\E pc : InGoTo(pc)) \/ (\E inst : InUnmarkOrReturn(inst))
      PROVE  instQueue' \subseteq Keys
  BY <1>1, <1>2 DEF InReturn, InRequeue, InGoTo, InUnmarkOrReturn, Keys
<1>3. ASSUME NEW n \in Namespaces, NEW i \in Items, InGetInstance(n, i)
      PROVE  instQueue' \subseteq Keys
  BY <1>3 DEF InGetInstance
<1>4. CASE InGetItem
  BY <1>2, <1>4 DEF InGetItem
<1>5. CASE InGetResource
  BY <1>2, <1>5 DEF InGetResource
<1>6. CASE InGetOld \/ InGetOldFails \/ InDeleteOld \/ InCreate \/ InUpdate
  BY <1>2, <1>6 DEF InGetOld, InGetOldFails, InDeleteOld, InCreate, InUpdate
<1>7. CASE InWriteStatus \/ InUnmark
  BY <1>2, <1>7 DEF InWriteStatus, InUnmark
<1>8. CASE InRejected \/ InCallFails
  BY <1>2, <1>8 DEF InRejected, InCallFails
<1> QED
  BY <1>3, <1>4, <1>5, <1>6, <1>7, <1>8 DEF InReconcile

LEMMA OuterTypesStay ==
    ASSUME CoreTypeOK, OuterTypeOK, [Next]_vars
    PROVE  OuterTypeOK'
<1> USE DEF OuterTypeOK, nsStore, inVars
<1>1. ASSUME UNCHANGED nsStore, instQueue' \subseteq Keys, untold' \subseteq Keys
      PROVE  OuterTypeOK'
  BY <1>1 DEF Keys, OpenNamespaces
<1>2. CASE Edit
  BY <1>1, <1>2
     DEF Edit, CreateItem, EditItem, DeleteItem, Install, Uninstall, Keys
<1>3. ASSUME NEW n \in Namespaces, NEW i \in Items, Annotate(n, i)
      PROVE  OuterTypeOK'
  BY <1>1, <1>3 DEF Annotate
<1>4. ASSUME NEW n \in Namespaces, NEW r \in Resources, Collect(n, r)
      PROVE  OuterTypeOK'
  BY <1>1, <1>4 DEF Collect
<1>5. CASE SyncItems
  BY <1>1, <1>5 DEF SyncItems
<1>6. CASE SyncInstances \/ Restart
  <2>1. LivingInstances(instances) \subseteq Keys /\ ChangedInstances \subseteq Keys
    BY KeysOfInstances DEF CoreTypeOK
  <2> QED BY <1>1, <1>6, <2>1 DEF SyncInstances, Restart
<1>7. CASE InstanceStep \/ Fault
  <2>1. instQueue' \subseteq Keys
    BY <1>7, QueueStays DEF CoreTypeOK, InstanceStep, Fault
  <2> QED BY <1>1, <1>7, <2>1 DEF InstanceStep, Fault
<1>8. CASE UNCHANGED vars
  BY <1>1, <1>8 DEF vars
<1> QED
  BY <1>2, <1>3, <1>4, <1>5, <1>6, <1>7, <1>8 DEF Next

-----------------------------------------------------------------------------
(***************************************************************************)
(* The theorems                                                            *)
(***************************************************************************)
LEMMA TypedAlways == Spec => [](Typed /\ OuterTypeOK)
<1>1. ASSUME Init
      PROVE  Typed /\ OuterTypeOK
  BY <1>1, TypedAtFirst DEF Init, OuterTypeOK
<1>2. ASSUME Typed /\ OuterTypeOK, [Next]_vars
      PROVE  (Typed /\ OuterTypeOK)'
  <2>1. Typed'
    BY <1>2, NextMoves, TypedStays DEF Typed, CoreTypeOK
  <2> QED BY <1>2, <2>1, OuterTypesStay DEF Typed
<1> QED
  BY <1>1, <1>2, PTL DEF Spec

\* Every variable holds values of its kind, and whoever has observed a generation has
\* recorded a kind (namespaceiteminstance_controller.go:173-216).
THEOREM InstanceTypes == Spec => []TypeOK
<1>1. ASSUME Typed, OuterTypeOK
      PROVE  TypeOK
  BY <1>1 DEF Typed, CoreTypeOK, OuterTypeOK, RecordsOK, Recorded, TypeOK
<1> QED
  BY <1>1, TypedAlways, PTL

\* A resource that another live instance owns by now is not taken down when an item
\* changes kind: between the look at the owner and the deletion nobody else can have
\* come to own it (namespaceiteminstance_controller.go:143-171).
THEOREM OthersAreKept == Spec => OthersKept
<1> DEFINE Kept ==
        \A n \in Namespaces, r \in Resources :
            resources[n][r].live /\ ~resources'[n][r].live =>
                Orphan(n, r) \/ resources[n][r].obj.from = instWorker.key
<1>1. ASSUME Typed, [Next]_vars
      PROVE  Kept
  <2> USE DEF Typed, itemStore, instStore
  <2>1. CASE ItemMoves \/ InstanceMoves \/ Informed \/ Begins \/ Looks \/ Records \/ Unmarks
    <3>1. UNCHANGED resources
      BY <2>1 DEF ItemMoves, InstanceMoves, Informed, Begins, Looks, Records, Unmarks,
                  InWriteStatus, InUnmark
    <3> QED BY <3>1
  <2>2. CASE Collected
    <3>1. PICK m \in Namespaces, q \in Resources : CollectResource(m, q)
      BY <2>2 DEF Collected
    <3> QED BY <1>1, <3>1 DEF CollectResource, CoreTypeOK, ResourcesTypeOK
  <2>3. CASE GoesOn
    <3> DEFINE w == instWorker
               m == instWorker.ns
    <3>1. m \in Namespaces /\ InTarget \in Resources
      BY <1>1, TargetTypes DEF CoreTypeOK
    <3>2. CASE UNCHANGED resources
      BY <3>2
    <3>3. CASE w.pc = "deleteOld"
      <4> DEFINE new == Deleted(resources[m][InOldResource], NoResource)
      <4>1. /\ resources[m][InOldResource].live
            /\ resources' = [resources EXCEPT ![m][InOldResource] = new]
        BY <1>1, <2>3, <3>3, Deeds
      <4>2. InOldResource \in Resources /\ resources[m][InOldResource].obj.from = w.key
        BY <1>1, <3>3, <4>1 DEF OldOwned
      <4> HIDE DEF new
      <4> QED BY <1>1, <3>1, <4>1, <4>2 DEF CoreTypeOK, ResourcesTypeOK
    <3>4. CASE w.pc \in {"create", "update"}
      <4>1. PICK new \in Slot(Resource) :
               new.live /\ resources' = [resources EXCEPT ![m][InTarget] = new]
        BY <1>1, <2>3, <3>4, Deeds
      <4> QED BY <1>1, <3>1, <4>1 DEF CoreTypeOK, ResourcesTypeOK
    <3>5. UNCHANGED resources \/ w.pc = "deleteOld" \/ w.pc \in {"create", "update"}
      BY <1>1, <2>3, Deeds
    <3> QED BY <3>2, <3>3, <3>4, <3>5
  <2> QED BY <1>1, <2>1, <2>2, <2>3, NextMoves DEF CoreTypeOK
<1>2. ASSUME Typed, [Next]_vars
      PROVE  [Kept]_vars
  BY <1>1, <1>2
<1> QED
  BY <1>2, TypedAlways, PTL DEF Spec, OthersKept
-----------------------------------------------------------------------------
(***************************************************************************)
(* What an instance says it has observed, where there is one item and it   *)
(* is never given up                                                       *)
(***************************************************************************)
OneItem == MaxItemLives = 1 /\ \A i, j \in Items : i = j

\* A copy of an item is an earlier generation of it, or what it is.
Older(copy, item) ==
    /\ copy.obj.gen <= item.obj.gen
    /\ copy.obj.gen = item.obj.gen => copy.obj.template = item.obj.template

\* Generations only grow, and none is recorded before the informer has it.
ItemsFollowed ==
    /\ \A i \in Items : items[i].live /\ items[i].uid # 0 /\ Older(itemCache[i], items[i])
    /\ \A n \in Namespaces, i \in Items : instances[n][i].obj.obs <= itemCache[i].obj.gen
    /\ instWorker.pc \in Working =>
          /\ Older(instWorker.item, itemCache[instWorker.key])
          /\ instances[instWorker.ns][instWorker.key].obj.obs <= instWorker.item.obj.gen

\* An instance that has observed something is the one that its copy is of.
SameObject(copy, stored) == stored.live /\ stored.obj.obs # 0 => copy.uid = stored.uid

CopiesOK ==
    /\ \A n \in Namespaces, i \in Items :
          /\ Fresh(instCache[n][i], instances[n][i])
          /\ SameObject(instCache[n][i], instances[n][i])
    /\ LET w == instWorker
           stored == instances[w.ns][w.key]
       IN  /\ w.pc # "idle" => Fresh(w.inst, stored)
           /\ w.pc \notin {"idle", "unmark"} =>
                 w.inst.rv <= instCache[w.ns][w.key].rv /\ SameObject(w.inst, stored)

\* An instance that says it has observed the present generation.
Says(n, i) == instances[n][i].live /\ instances[n][i].obj.obs = items[i].obj.gen

\* The resource of such an instance is as the item says; before a resource is created no
\* instance can say so; and before the status is written the resource is what is going to
\* be recorded.
Honest ==
    /\ \A n \in Namespaces, i \in Items : Says(n, i) => Applied(n, i)
    /\ instWorker.pc \in {"getOld", "deleteOld", "create"} => ~Says(instWorker.ns, instWorker.key)
    /\ LET w == instWorker
           stored == instances[w.ns][w.key]
           resource == resources[w.ns][InTarget]
       IN  w.pc = "status" /\ stored.live /\ stored.uid = w.inst.uid =>
              OwnedBy(resource, w.key, w.inst.uid) /\ resource.obj.template = w.item.obj.template

LEMMA OlderStays ==
    ASSUME NEW a \in Slot(NamespaceClassItem), NEW b \in Slot(NamespaceClassItem),
           NEW c \in Slot(NamespaceClassItem), Older(a, b), Older(b, c)
    PROVE  Older(a, c)
BY DEF Older, Slot, NamespaceClassItem

LEMMA OlderSelf ==
    ASSUME NEW a \in Slot(NamespaceClassItem)
    PROVE  Older(a, a)
BY DEF Older, Slot, NamespaceClassItem

LEMMA FollowedStays ==
    ASSUME OneItem, Typed, ItemsFollowed, CopiesOK,
           ItemMoves \/ InstanceMoves \/ Collected \/ Informed \/ Begins \/ Looks
                  \/ GoesOn \/ Records \/ Unmarks
    PROVE  ItemsFollowed'
<1> USE DEF Typed, itemStore, instStore
<1>0. /\ \A i \in Items : /\ items[i] \in Slot(NamespaceClassItem)
                          /\ itemCache[i] \in Slot(NamespaceClassItem)
                          /\ itemCache[i].obj.gen \in Nat /\ items[i].obj.gen \in Nat
      /\ \A n \in Namespaces, i \in Items :
            /\ instances[n][i] \in Slot(NamespaceItemInstance)
            /\ instances[n][i].obj.obs \in Nat
      /\ instWorker.ns \in Namespaces /\ instWorker.key \in Items
      /\ instWorker.item \in Slot(NamespaceClassItem) /\ instWorker.item.obj.gen \in Nat
  BY TargetTypes
     DEF CoreTypeOK, ItemsTypeOK, InstancesTypeOK, Slot, NamespaceClassItem,
         NamespaceItemInstance
<1>1. CASE ItemMoves
  <2>1. PICK i \in Items, new \in Slot(NamespaceClassItem) :
           /\ items' = [items EXCEPT ![i] = new]
           /\ items[i].live /\ ~(items[i].uid < MaxItemLives) =>
                 /\ new.live /\ new.uid = items[i].uid
                 /\ new.obj.gen = items[i].obj.gen + 1
    BY <1>1, ItemWrites
  <2>2. UNCHANGED <<itemCache, instStore, resources, instWorker>>
    BY <1>1 DEF ItemMoves
  <2>3. /\ items'[i] = new /\ \A j \in Items : j # i => items'[j] = items[j]
    BY <2>1, <2>2, ItemWritten DEF CoreTypeOK
  <2>4. new.live /\ new.uid = items[i].uid /\ new.obj.gen = items[i].obj.gen + 1
    <3>1. items[i].uid \in Nat /\ items[i].uid # 0 /\ items[i].live
      BY <1>0 DEF ItemsFollowed, Slot
    <3> QED BY <2>1, <3>1 DEF OneItem
  <2>5. Older(itemCache[i], new)
    BY <1>0, <2>4 DEF ItemsFollowed, Older
  <2>6. \A j \in Items :
           items'[j].live /\ items'[j].uid # 0 /\ Older(itemCache[j], items'[j])
    BY <2>3, <2>4, <2>5 DEF ItemsFollowed
  <2> QED BY <2>2, <2>6 DEF ItemsFollowed, Older
<1>2. CASE InstanceMoves
  <2>1. PICK n \in Namespaces, i \in Items, new \in Slot(NamespaceItemInstance) :
           instances' = [instances EXCEPT ![n][i] = new] /\ Comes(instances[n][i], new)
    BY <1>2 DEF InstanceMoves
  <2>2. UNCHANGED <<itemStore, instCache, resources, instWorker>>
    BY <1>2 DEF InstanceMoves
  <2>3. /\ instances'[n][i] = new
        /\ \A m \in Namespaces, j \in Items :
              m # n \/ j # i => instances'[m][j] = instances[m][j]
    BY <2>1 DEF CoreTypeOK, InstancesTypeOK
  <2>4. new.obj.obs = 0 \/ new.obj.obs = instances[n][i].obj.obs
    BY <2>1 DEF Comes
  <2>5. \A m \in Namespaces, j \in Items, g \in Nat :
           instances[m][j].obj.obs <= g => instances'[m][j].obj.obs <= g
    BY <2>3, <2>4
  <2> QED BY <1>0, <2>2, <2>5 DEF ItemsFollowed, Older
<1>3. CASE Collected
  BY <1>3 DEF Collected, ItemsFollowed, Older
<1>4. CASE Informed
  <2>1. UNCHANGED <<items, instances, resources>>
    BY <1>4 DEF Informed
  <2>2. \A i \in Items :
           /\ Older(itemCache'[i], items[i]) /\ Older(itemCache[i], itemCache'[i])
           /\ itemCache'[i] \in Slot(NamespaceClassItem) /\ itemCache'[i].obj.gen \in Nat
    BY <1>0, <1>4, OlderSelf DEF Informed, ItemsFollowed
  <2>3. \A n \in Namespaces, i \in Items : instances[n][i].obj.obs <= itemCache'[i].obj.gen
    BY <1>0, <2>2 DEF ItemsFollowed, Older
  <2>4. CASE UNCHANGED instWorker
    <3>1. ASSUME instWorker.pc \in Working
          PROVE  Older(instWorker.item, itemCache'[instWorker.key])
      BY <1>0, <2>2, <3>1, OlderStays DEF ItemsFollowed
    <3> QED BY <2>1, <2>2, <2>3, <2>4, <3>1 DEF ItemsFollowed, Older
  <2>5. CASE instWorker' = InIdle
    BY <2>1, <2>2, <2>3, <2>5, IdleTypes DEF ItemsFollowed, Older, Working
  <2> QED BY <1>4, <2>4, <2>5 DEF Informed
<1>5. CASE Begins
  <2>1. instWorker'.pc = "getItem" /\ UNCHANGED <<itemStore, instStore, resources>>
    BY <1>5 DEF Begins
  <2> QED BY <2>1 DEF ItemsFollowed, Older, Working
<1>6. CASE Looks
  <2> DEFINE w == instWorker
  <2>1. UNCHANGED <<itemStore, instStore, resources>>
    BY <1>6 DEF Looks
  <2>2. \/ w'.pc = "unmark"
        \/ w'.item = itemCache[w.key] /\ w'.ns = w.ns /\ w'.key = w.key
    BY <1>6 DEF Looks
  <2>3. CASE w'.pc = "unmark"
    BY <2>1, <2>3 DEF ItemsFollowed, Older, Working
  <2>4. CASE w'.item = itemCache[w.key] /\ w'.ns = w.ns /\ w'.key = w.key
    <3>1. Older(w'.item, itemCache[w.key])
      BY <1>0, <2>4, OlderSelf
    <3> QED BY <1>0, <2>1, <2>4, <3>1 DEF ItemsFollowed, Older
  <2> QED BY <2>2, <2>3, <2>4
<1>7. CASE GoesOn
  <2> DEFINE w == instWorker
  <2>1. UNCHANGED <<itemStore, instStore>>
    BY <1>7 DEF GoesOn
  <2>2. w.pc \in Working /\ w'.ns = w.ns /\ w'.key = w.key /\ w'.item = w.item
    BY <1>7, HandKept
  <2> QED BY <2>1, <2>2 DEF ItemsFollowed, Older
<1>8. CASE Records \/ Unmarks
  <2> DEFINE w == instWorker
             n == instWorker.ns
             i == instWorker.key
  <2>1. PICK new \in Slot(NamespaceItemInstance) :
           /\ instances[n][i].live /\ instances[n][i].rv = w.inst.rv
           /\ instances' = [instances EXCEPT ![n][i] = new]
           /\ UNCHANGED <<itemStore, instCache, resources>>
           /\ \/ /\ w.pc = "status"
                 /\ new.obj.obs = w.item.obj.gen /\ new.obj.kind = KindOf(InTarget)
                 /\ \/ instWorker' = InIdle
                    \/ instWorker' = [pc |-> "unmark", ns |-> n, key |-> i, inst |-> new,
                                      item |-> w.item, found |-> w.found]
              \/ /\ w.pc = "unmark"
                 /\ new.obj.obs = w.inst.obj.obs /\ new.obj.kind = w.inst.obj.kind
                 /\ instWorker' = InIdle
    BY <1>8, OwnWrites
  <2>2. /\ InstancesTypeOK' /\ instances'[n][i] = new
        /\ \A m \in Namespaces, j \in Items :
              m # n \/ j # i => instances'[m][j] = instances[m][j]
    BY <1>0, <2>1, InstanceWritten DEF CoreTypeOK
  <2>3. instWorker'.pc \notin Working
    BY <2>1, IdleTypes DEF Working
  <2>4. new.obj.obs <= itemCache[i].obj.gen
    <3>1. CASE w.pc = "status"
      <4>1. Older(w.item, itemCache[i])
        BY <3>1 DEF ItemsFollowed, Working
      <4> QED BY <2>1, <3>1, <4>1 DEF Older
    <3>2. CASE w.pc = "unmark"
      <4>1. w.inst = instances[n][i]
        BY <2>1, <3>2 DEF CopiesOK, Fresh
      <4> QED BY <1>0, <2>1, <3>2, <4>1 DEF ItemsFollowed
    <3> QED BY <2>1, <3>1, <3>2
  <2>5. \A m \in Namespaces, j \in Items : instances'[m][j].obj.obs <= itemCache[j].obj.gen
    BY <2>2, <2>4 DEF ItemsFollowed
  <2> QED BY <2>1, <2>3, <2>5 DEF ItemsFollowed, Older
<1> QED
  BY <1>1, <1>2, <1>3, <1>4, <1>5, <1>6, <1>7, <1>8
\* Copies stay copies: of the instances, and the one the call has in hand.
LEMMA CopiesStay ==
    ASSUME Typed, CopiesOK,
           ItemMoves \/ InstanceMoves \/ Collected \/ Informed \/ Begins \/ Looks
                  \/ GoesOn \/ Records \/ Unmarks
    PROVE  CopiesOK'
<1> USE DEF Typed, itemStore, instStore
<1> DEFINE w == instWorker
<1>0. /\ \A n \in Namespaces, i \in Items :
            /\ instances[n][i] \in Slot(NamespaceItemInstance)
            /\ instCache[n][i] \in Slot(NamespaceItemInstance)
      /\ w.ns \in Namespaces /\ w.key \in Items /\ w.inst \in Slot(NamespaceItemInstance)
  BY TargetTypes DEF CoreTypeOK, InstancesTypeOK
<1>1. CASE ItemMoves \/ Collected
  BY <1>1 DEF ItemMoves, Collected, CopiesOK, SameObject, Fresh
<1>2. CASE InstanceMoves
  <2>1. PICK n \in Namespaces, i \in Items, new \in Slot(NamespaceItemInstance) :
           instances' = [instances EXCEPT ![n][i] = new] /\ Comes(instances[n][i], new)
    BY <1>2 DEF InstanceMoves
  <2>2. UNCHANGED <<itemStore, instCache, resources, instWorker>>
    BY <1>2 DEF InstanceMoves
  <2>3. /\ instances'[n][i] = new
        /\ \A m \in Namespaces, j \in Items :
              m # n \/ j # i => instances'[m][j] = instances[m][j]
    BY <2>1 DEF CoreTypeOK, InstancesTypeOK
  <2>4. ASSUME NEW copy \in Slot(NamespaceItemInstance), Fresh(copy, instances[n][i])
        PROVE  /\ Fresh(copy, new)
               /\ SameObject(copy, instances[n][i]) => SameObject(copy, new)
    <3>1. Later(instances[n][i], new)
      BY <2>1 DEF Comes
    <3>2. Fresh(copy, new)
      BY <1>0, <2>4, <3>1, FreshStays
    <3> QED BY <2>1, <3>2 DEF Comes, SameObject
  <2>5. ASSUME NEW m \in Namespaces, NEW j \in Items, NEW copy \in Slot(NamespaceItemInstance),
               Fresh(copy, instances[m][j])
        PROVE  /\ Fresh(copy, instances'[m][j])
               /\ SameObject(copy, instances[m][j]) => SameObject(copy, instances'[m][j])
    BY <2>3, <2>4, <2>5
  <2>6. \A m \in Namespaces, j \in Items :
           /\ Fresh(instCache[m][j], instances'[m][j])
           /\ SameObject(instCache[m][j], instances'[m][j])
    BY <1>0, <2>5 DEF CopiesOK
  <2>7. /\ w.pc # "idle" => Fresh(w.inst, instances'[w.ns][w.key])
        /\ w.pc \notin {"idle", "unmark"} =>
              /\ w.inst.rv <= instCache[w.ns][w.key].rv
              /\ SameObject(w.inst, instances'[w.ns][w.key])
    BY <1>0, <2>5 DEF CopiesOK
  <2> QED BY <2>2, <2>6, <2>7 DEF CopiesOK, Fresh, SameObject
<1>3. CASE Informed
  <2>1. UNCHANGED instances /\ instCache' \in {instCache, instances}
    BY <1>3 DEF Informed
  <2>2. ASSUME NEW n \in Namespaces, NEW i \in Items
        PROVE  /\ Fresh(instCache'[n][i], instances[n][i])
               /\ SameObject(instCache'[n][i], instances[n][i])
               /\ instCache[n][i].rv <= instCache'[n][i].rv
    <3>1. CASE instCache' = instCache
      BY <1>0, <3>1 DEF CopiesOK, Slot
    <3>2. CASE instCache' = instances
      BY <1>0, <3>2, FreshSelf DEF CopiesOK, Fresh, SameObject
    <3> QED BY <2>1, <3>1, <3>2
  <2>3. CASE instWorker' = InIdle
    BY <2>1, <2>2, <2>3, IdleTypes DEF CopiesOK, Fresh, SameObject
  <2>4. CASE UNCHANGED instWorker
    <3>1. w.pc \notin {"idle", "unmark"} => w.inst.rv <= instCache'[w.ns][w.key].rv
      <4>1. /\ w.inst.rv \in Nat /\ instCache[w.ns][w.key].rv \in Nat
            /\ instCache'[w.ns][w.key].rv \in Nat
        BY <1>0, <2>1 DEF Slot
      <4>2. instCache[w.ns][w.key].rv <= instCache'[w.ns][w.key].rv
        BY <1>0, <2>2
      <4> QED BY <4>1, <4>2 DEF CopiesOK
    <3> QED BY <2>1, <2>2, <2>4, <3>1 DEF CopiesOK, Fresh, SameObject
  <2> QED BY <1>3, <2>3, <2>4 DEF Informed
<1>4. CASE Begins
  <2>1. PICK n \in Namespaces, i \in Items :
           instWorker' = [pc |-> "getItem", ns |-> n, key |-> i, inst |-> instCache[n][i],
                          item |-> Vacant(NoItem), found |-> Vacant(NoResource)]
    BY <1>4 DEF Begins
  <2>2. /\ w'.ns = n /\ w'.key = i /\ w'.inst = instCache[n][i]
        /\ UNCHANGED instStore
    BY <1>4, <2>1 DEF Begins
  <2>3. instCache[n][i].rv <= instCache[n][i].rv
    BY <1>0 DEF Slot
  <2> QED BY <2>2, <2>3 DEF CopiesOK, Fresh, SameObject
<1>5. CASE Looks
  <2>1. w.pc = "getItem" /\ UNCHANGED instStore
    BY <1>5 DEF Looks
  <2>2. w'.ns = w.ns /\ w'.key = w.key /\ w'.inst = w.inst
    BY <1>5 DEF Looks
  <2> QED BY <2>1, <2>2 DEF CopiesOK, Fresh, SameObject
<1>6. CASE GoesOn
  <2>1. UNCHANGED instStore
    BY <1>6 DEF GoesOn
  <2>2. w.pc \in Working /\ w'.ns = w.ns /\ w'.key = w.key /\ w'.inst = w.inst
    BY <1>6, HandKept
  <2> QED BY <2>1, <2>2 DEF CopiesOK, Fresh, SameObject, Working
<1>7. CASE Records \/ Unmarks
  <2> DEFINE n == instWorker.ns
             i == instWorker.key
             stored == instances[n][i]
  <2>1. PICK new \in Slot(NamespaceItemInstance) :
           /\ stored.live /\ stored.rv = w.inst.rv
           /\ instances' = [instances EXCEPT ![n][i] = new]
           /\ Later(stored, new) /\ new.live /\ new.uid = stored.uid
           /\ UNCHANGED <<itemStore, instCache, resources>>
           /\ \/ /\ w.pc = "status"
                 /\ new.obj.obs = w.item.obj.gen /\ new.obj.kind = KindOf(InTarget)
                 /\ \/ instWorker' = InIdle
                    \/ instWorker' = [pc |-> "unmark", ns |-> n, key |-> i, inst |-> new,
                                      item |-> w.item, found |-> w.found]
              \/ /\ w.pc = "unmark"
                 /\ new.obj.obs = w.inst.obj.obs /\ new.obj.kind = w.inst.obj.kind
                 /\ instWorker' = InIdle
    BY <1>7, OwnWrites
  <2>2. /\ instances'[n][i] = new
        /\ \A m \in Namespaces, j \in Items :
              m # n \/ j # i => instances'[m][j] = instances[m][j]
    BY <1>0, <2>1 DEF CoreTypeOK, InstancesTypeOK
  <2>3. Fresh(instCache[n][i], new)
    BY <1>0, <2>1, FreshStays DEF CopiesOK
  <2>4. w.inst = stored
    BY <1>0, <2>1 DEF CopiesOK, Fresh
  <2>5. SameObject(instCache[n][i], new)
    <3>1. CASE w.pc = "status"
      \* The copy in hand came from the informer, and is what is stored.
      <4>1. stored.rv <= instCache[n][i].rv /\ instCache[n][i].rv <= stored.rv
        BY <1>0, <2>4, <3>1 DEF CopiesOK, Fresh
      <4>2. instCache[n][i] = stored
        BY <1>0, <4>1 DEF CopiesOK, Fresh, Slot
      <4> QED BY <2>1, <4>2 DEF SameObject
    <3>2. CASE w.pc = "unmark"
      BY <1>0, <2>1, <2>4, <3>2 DEF CopiesOK, SameObject
    <3> QED BY <2>1, <3>1, <3>2
  <2>6. \A m \in Namespaces, j \in Items :
           /\ Fresh(instCache[m][j], instances'[m][j])
           /\ SameObject(instCache[m][j], instances'[m][j])
    BY <2>2, <2>3, <2>5 DEF CopiesOK
  <2>7. \/ w'.pc = "idle"
        \/ w'.pc = "unmark" /\ w'.inst = new /\ w'.ns = n /\ w'.key = i
    BY <2>1, IdleTypes
  <2>8. Fresh(new, new)
    BY FreshSelf
  <2>9. UNCHANGED instCache
    BY <2>1
  <2>10. CASE w'.pc = "idle"
    BY <2>6, <2>9, <2>10 DEF CopiesOK
  <2>11. CASE w'.pc = "unmark" /\ w'.inst = new /\ w'.ns = n /\ w'.key = i
    <3>1. Fresh(w.inst, instances[w.ns][w.key])'
      BY <2>2, <2>8, <2>11
    <3> QED BY <2>6, <2>9, <2>11, <3>1 DEF CopiesOK
  <2> QED BY <2>7, <2>10, <2>11
<1> QED
  BY <1>1, <1>2, <1>3, <1>4, <1>5, <1>6, <1>7
\* The status stays behind the cluster.
LEMMA HonestStays ==
    ASSUME OneItem, Typed, ItemsFollowed, CopiesOK, Honest,
           ItemMoves \/ InstanceMoves \/ Collected \/ Informed \/ Begins \/ Looks
                  \/ GoesOn \/ Records \/ Unmarks
    PROVE  Honest'
<1> USE DEF Typed, itemStore, instStore
<1> DEFINE w == instWorker
           hand == instances[w.ns][w.key]
<1>1. /\ \A i \in Items : /\ items[i] \in Slot(NamespaceClassItem)
                          /\ itemCache[i] \in Slot(NamespaceClassItem)
                          /\ itemCache[i].obj.gen \in Nat /\ items[i].obj.gen \in Nat
                          /\ items[i].obj.gen # 0 /\ items[i].obj.template \in Templates
                          /\ ResourceOf[items[i].obj.template] \in Resources
      /\ \A n \in Namespaces, i \in Items :
            /\ instances[n][i] \in Slot(NamespaceItemInstance)
            /\ instances[n][i].obj.obs \in Nat /\ instances[n][i].uid \in Nat
      /\ w.ns \in Namespaces /\ w.key \in Items /\ InTarget \in Resources
      /\ w.inst \in Slot(NamespaceItemInstance) /\ w.inst.uid \in Nat
      /\ w.item \in Slot(NamespaceClassItem) /\ w.item.obj.gen \in Nat
  <2>1. \A i \in Items : items[i].obj.gen # 0
    BY DEF RecordsOK, ItemsFollowed
  <2> QED
    BY <2>1, TargetTypes
       DEF CoreTypeOK, ItemsTypeOK, InstancesTypeOK, Slot, NamespaceClassItem,
           NamespaceItemInstance, Resources
\* Generations recorded are not ahead of the item.
<1>2. \A n \in Namespaces, i \in Items : instances[n][i].obj.obs <= items[i].obj.gen
  BY <1>1 DEF ItemsFollowed, Older
\* What is in hand is the present generation if that has been observed.
<1>3. ASSUME w.pc \in Working, Says(w.ns, w.key)
        PROVE  /\ w.item.obj.template = items[w.key].obj.template
               /\ InTarget = ResourceOf[items[w.key].obj.template]
               /\ w.inst.uid = hand.uid
  <2>1. Older(w.item, items[w.key])
    BY <1>1, <1>3, OlderStays DEF ItemsFollowed
  <2>2. w.item.obj.gen = items[w.key].obj.gen
    BY <1>1, <1>3, <2>1 DEF ItemsFollowed, Says, Older
  <2>3. w.inst.uid = hand.uid
    BY <1>1, <1>3 DEF CopiesOK, SameObject, Says, Working
  <2> QED BY <2>1, <2>2, <2>3 DEF Older, InTarget
<1>4. CASE ItemMoves
  <2>1. PICK i \in Items, new \in Slot(NamespaceClassItem) :
           /\ items' = [items EXCEPT ![i] = new]
           /\ items[i].live /\ ~(items[i].uid < MaxItemLives) =>
                 /\ new.live /\ new.uid = items[i].uid
                 /\ new.obj.gen = items[i].obj.gen + 1
    BY <1>4, ItemWrites
  <2>2. UNCHANGED <<itemCache, instStore, resources, instWorker>>
    BY <1>4 DEF ItemMoves
  <2>3. items'[i] = new /\ \A j \in Items : j = i
    BY <2>1 DEF CoreTypeOK, ItemsTypeOK, OneItem
  <2>4. new.obj.gen = items[i].obj.gen + 1
    <3>1. items[i].uid \in Nat /\ items[i].uid # 0 /\ items[i].live
      BY <1>1 DEF ItemsFollowed, Slot
    <3> QED BY <2>1, <3>1 DEF OneItem
  <2>5. \A n \in Namespaces, j \in Items : ~Says(n, j)'
    BY <1>1, <1>2, <2>2, <2>3, <2>4 DEF Says
  <2> QED BY <1>1, <2>2, <2>5 DEF Honest, InTarget, OwnedBy
<1>5. CASE InstanceMoves
  <2>1. PICK n \in Namespaces, i \in Items, new \in Slot(NamespaceItemInstance) :
           instances' = [instances EXCEPT ![n][i] = new] /\ Comes(instances[n][i], new)
    BY <1>5 DEF InstanceMoves
  <2>2. UNCHANGED <<itemStore, instCache, resources, instWorker>>
    BY <1>5 DEF InstanceMoves
  <2>3. /\ instances'[n][i] = new
        /\ \A m \in Namespaces, j \in Items :
              m # n \/ j # i => instances'[m][j] = instances[m][j]
    BY <2>1 DEF CoreTypeOK, InstancesTypeOK
  <2>4. \A m \in Namespaces, j \in Items :
           Says(m, j)' => Says(m, j) /\ instances'[m][j].uid = instances[m][j].uid
    BY <1>1, <2>1, <2>2, <2>3 DEF Says, Comes
  <2>5. \A m \in Namespaces, j \in Items : Says(m, j)' => Applied(m, j)'
    <3> SUFFICES ASSUME NEW m \in Namespaces, NEW j \in Items, Says(m, j)'
                 PROVE  Applied(m, j)'
      OBVIOUS
    <3>1. Applied(m, j) /\ instances'[m][j].uid = instances[m][j].uid
      BY <2>4 DEF Honest
    <3> QED BY <2>2, <3>1 DEF Applied, OwnedBy
  <2>6. w'.pc \in {"getOld", "deleteOld", "create"} => ~Says(w.ns, w.key)'
    BY <1>1, <2>2, <2>4 DEF Honest, Says
  <2>7. ASSUME w.pc # "idle", instances'[w.ns][w.key].live,
               instances'[w.ns][w.key].uid = w.inst.uid
        PROVE  hand.live /\ hand.uid = w.inst.uid
    <3>1. CASE w.ns = n /\ w.key = i
      <4>1. new.live /\ new.uid = w.inst.uid /\ hand = instances[n][i]
        BY <2>3, <2>7, <3>1
      <4>2. w.inst.uid <= hand.uid /\ (new = hand \/ hand.uid <= new.uid)
        BY <2>1, <2>7, <4>1 DEF CopiesOK, Fresh, Comes, Later
      <4>3. hand.uid = new.uid
        BY <1>1, <4>1, <4>2
      <4> QED BY <2>1, <4>1, <4>3 DEF Comes
    <3>2. CASE ~(w.ns = n /\ w.key = i)
      BY <1>1, <2>3, <2>7, <3>2
    <3> QED BY <3>1, <3>2
  <2>8. w'.pc = "status" /\ hand'.live /\ hand'.uid = w'.inst.uid =>
           /\ OwnedBy(resources'[w.ns][InTarget], w.key, w.inst.uid)
           /\ resources'[w.ns][InTarget].obj.template = w.item.obj.template
    BY <2>2, <2>7 DEF Honest
  <2>9. UNCHANGED instWorker /\ InTarget' = InTarget
    BY <2>2 DEF InTarget
  <2>10. (w.pc \in {"getOld", "deleteOld", "create"} => ~Says(w.ns, w.key))'
    BY <2>6, <2>9
  <2>11. (w.pc = "status" /\ hand.live /\ hand.uid = w.inst.uid =>
             /\ OwnedBy(resources[w.ns][InTarget], w.key, w.inst.uid)
             /\ resources[w.ns][InTarget].obj.template = w.item.obj.template)'
    BY <2>8, <2>9 DEF OwnedBy
  <2> QED BY <2>5, <2>10, <2>11 DEF Honest
<1>6. CASE Collected
  <2>1. PICK n \in Namespaces, r \in Resources : CollectResource(n, r)
    BY <1>6 DEF Collected
  <2>2. UNCHANGED <<itemStore, instStore, instWorker>>
    BY <1>6 DEF Collected
  <2>3. ASSUME NEW m \in Namespaces, NEW q \in Resources, NEW i \in Items,
               instances[m][i].live, OwnedBy(resources[m][q], i, instances[m][i].uid)
        PROVE  resources'[m][q] = resources[m][q]
    BY <2>1, <2>3 DEF CollectResource, Orphan, OwnedBy, CoreTypeOK, ResourcesTypeOK
  <2>4. ASSUME NEW m \in Namespaces, NEW i \in Items, Says(m, i)'
        PROVE  Applied(m, i)'
    <3>1. instances[m][i].live /\ Applied(m, i)
      BY <2>2, <2>4 DEF Honest, Says
    <3>2. resources'[m][ResourceOf[items[i].obj.template]]
             = resources[m][ResourceOf[items[i].obj.template]]
      BY <1>1, <2>3, <3>1 DEF Applied
    <3> QED BY <2>2, <3>1, <3>2 DEF Applied, OwnedBy
  <2>5. w.pc = "status" /\ hand.live /\ hand.uid = w.inst.uid =>
           resources'[w.ns][InTarget] = resources[w.ns][InTarget]
    BY <1>1, <2>3 DEF Honest
  <2> QED BY <2>2, <2>4, <2>5 DEF Honest, InTarget, OwnedBy, Says
<1>7. CASE Informed
  <2>1. UNCHANGED <<items, instances, resources>>
    BY <1>7 DEF Informed
  <2>2. instWorker'.pc = "idle" \/ UNCHANGED instWorker
    BY <1>7, IdleTypes DEF Informed
  <2> QED BY <2>1, <2>2 DEF Honest, Applied, InTarget, OwnedBy, Says
<1>8. CASE Begins \/ Looks
  <2>1. w'.pc \in {"getItem", "unmark", "getResource"}
    BY <1>8 DEF Begins, Looks
  <2>2. UNCHANGED <<items, instances, resources>>
    BY <1>8 DEF Begins, Looks
  <2> QED BY <2>1, <2>2 DEF Honest, Applied, OwnedBy, Says
<1>9. CASE GoesOn
  <2>1. UNCHANGED <<itemStore, instStore>>
    BY <1>9 DEF GoesOn
  <2>2. /\ w.pc \in Working /\ w'.ns = w.ns /\ w'.key = w.key /\ w'.inst = w.inst
        /\ w'.item = w.item /\ InTarget' = InTarget
    BY <1>9, HandKept
  <2>3. CASE w.pc = "getResource"
    <3>1. UNCHANGED resources
      BY <1>9, <2>3, Deeds
    <3>2. \/ w'.pc = "update"
          \/ w'.pc \in {"getOld", "create"} /\ ~resources[w.ns][InTarget].live
      BY <1>9, <2>3, Deeds
    <3>3. w'.pc \in {"getOld", "create"} => ~Says(w.ns, w.key)
      BY <1>1, <1>3, <2>2, <3>2 DEF Honest, Applied, OwnedBy
    <3>4. w'.pc # "status"
      BY <3>2
    <3>5. \A m \in Namespaces, j \in Items : Says(m, j)' => Applied(m, j)'
      BY <2>1, <3>1 DEF Honest, Applied, OwnedBy, Says
    <3>6. w'.pc \in {"getOld", "deleteOld", "create"} => ~Says(w.ns, w.key)'
      BY <2>1, <2>2, <3>2, <3>3 DEF Says
    <3> QED BY <2>2, <3>4, <3>5, <3>6 DEF Honest, Says
  <2>4. CASE w.pc = "getOld"
    <3>1. UNCHANGED resources /\ w'.pc \in {"create", "deleteOld"}
      BY <1>9, <2>4, Deeds
    <3> QED BY <2>1, <2>2, <2>4, <3>1 DEF Honest, Applied, OwnedBy, Says
  <2>5. CASE w.pc = "deleteOld"
    <3>1. /\ w'.pc = "create"
          /\ resources' = [resources EXCEPT
                               ![w.ns][InOldResource] = Deleted(@, NoResource)]
      BY <1>9, <2>5, Deeds
    <3>2. ~Says(w.ns, w.key) /\ \A j \in Items : j = w.key
      BY <1>1, <2>5 DEF Honest, OneItem
    <3>3. \A m \in Namespaces : m # w.ns => resources'[m] = resources[m]
      BY <3>1 DEF CoreTypeOK, ResourcesTypeOK
    <3>4. ASSUME NEW m \in Namespaces, NEW j \in Items, Says(m, j)'
          PROVE  Applied(m, j)'
      <4>1. Says(m, j) /\ Applied(m, j)
        BY <2>1, <3>4 DEF Honest, Says
      <4>2. resources'[m] = resources[m]
        BY <3>2, <3>3, <4>1
      <4> QED BY <2>1, <4>1, <4>2 DEF Applied, OwnedBy
    <3>5. ~Says(w.ns, w.key)'
      BY <2>1, <2>2, <3>2 DEF Says
    <3> QED BY <2>2, <3>1, <3>4, <3>5 DEF Honest, Says
  <2>6. CASE w.pc \in {"create", "update"}
    <3>1. w'.pc = "status"
      BY <1>9, <2>6, Deeds
    <3>2. PICK new \in Slot(Resource) :
             /\ new.live /\ new.obj = InResource
             /\ resources' = [resources EXCEPT ![w.ns][InTarget] = new]
      BY <1>9, <2>6, Deeds
    <3>3. /\ resources'[w.ns][InTarget] = new
          /\ \A m \in Namespaces : m # w.ns => resources'[m] = resources[m]
      BY <1>1, <3>2 DEF CoreTypeOK, ResourcesTypeOK
    <3>4. OwnedBy(new, w.key, w.inst.uid) /\ new.obj.template = w.item.obj.template
      BY <3>2 DEF OwnedBy, InResource
    <3>5. ASSUME NEW m \in Namespaces, NEW j \in Items, Says(m, j)
          PROVE  Applied(m, j)'
      <4>1. CASE m = w.ns
        <5>1. /\ j = w.key /\ instances[m][j].uid = w.inst.uid
              /\ InTarget = ResourceOf[items[j].obj.template]
              /\ w.item.obj.template = items[j].obj.template
          BY <1>1, <1>3, <2>2, <3>5, <4>1 DEF OneItem
        <5> QED BY <2>1, <3>3, <3>4, <4>1, <5>1 DEF Applied, OwnedBy
      <4>2. CASE m # w.ns
        <5>1. Applied(m, j) /\ resources'[m] = resources[m]
          BY <3>3, <3>5, <4>2 DEF Honest
        <5> QED BY <2>1, <5>1 DEF Applied, OwnedBy
      <4> QED BY <4>1, <4>2
    <3>6. \A m \in Namespaces, j \in Items : Says(m, j)' => Applied(m, j)'
      BY <2>1, <3>5 DEF Says
    <3>7. /\ OwnedBy(resources'[w'.ns][InTarget'], w'.key, w'.inst.uid)
          /\ resources'[w'.ns][InTarget'].obj.template = w'.item.obj.template
      BY <2>2, <3>3, <3>4
    <3> QED BY <3>1, <3>6, <3>7 DEF Honest, OwnedBy
  <2> QED BY <1>9, <2>3, <2>4, <2>5, <2>6, Deeds
<1>10. CASE Records \/ Unmarks
  <2>0. PICK n \in Namespaces, i \in Items : n = w.ns /\ i = w.key
    BY <1>1
  <2>1. PICK new \in Slot(NamespaceItemInstance) :
           /\ hand.live /\ hand.rv = w.inst.rv
           /\ instances' = [instances EXCEPT ![n][i] = new]
           /\ Later(hand, new) /\ new.live /\ new.uid = hand.uid
           /\ UNCHANGED <<itemStore, instCache, resources>>
           /\ \/ /\ w.pc = "status"
                 /\ new.obj.obs = w.item.obj.gen /\ new.obj.kind = KindOf(InTarget)
                 /\ \/ instWorker' = InIdle
                    \/ instWorker' = [pc |-> "unmark", ns |-> n, key |-> i, inst |-> new,
                                      item |-> w.item, found |-> w.found]
              \/ /\ w.pc = "unmark"
                 /\ new.obj.obs = w.inst.obj.obs /\ new.obj.kind = w.inst.obj.kind
                 /\ instWorker' = InIdle
    BY <1>10, <2>0, OwnWrites
  <2>2. /\ instances'[n][i] = new
        /\ \A m \in Namespaces, j \in Items :
              m # n \/ j # i => instances'[m][j] = instances[m][j]
    BY <1>1, <2>1 DEF CoreTypeOK, InstancesTypeOK
  <2>3. w'.pc \in {"idle", "unmark"}
    BY <2>1, IdleTypes
  <2>4. w.inst = hand
    BY <1>1, <2>1 DEF CopiesOK, Fresh
  <2>5. ASSUME Says(n, i)'
        PROVE  Applied(n, i)'
    <3>1. new.obj.obs = items[i].obj.gen
      BY <2>0, <1>1, <2>1, <2>2, <2>5 DEF Says
    <3>2. CASE w.pc = "status"
      <4>1. Older(w.item, items[i])
        BY <2>0, <1>1, <3>2, OlderStays DEF ItemsFollowed, Working
      <4>2. w.item.obj.template = items[i].obj.template
        BY <2>1, <3>1, <3>2, <4>1 DEF Older
      <4>3. OwnedBy(resources[n][InTarget], i, hand.uid)
            /\ resources[n][InTarget].obj.template = w.item.obj.template
        BY <2>0, <2>1, <2>4, <3>2 DEF Honest
      <4> QED BY <2>0, <2>1, <2>2, <4>2, <4>3 DEF Applied, OwnedBy, InTarget
    <3>3. CASE w.pc = "unmark"
      <4>1. Says(n, i)
        BY <2>0, <2>1, <2>4, <3>1, <3>3 DEF Says
      <4>2. Applied(n, i)
        BY <2>0, <1>1, <4>1 DEF Honest
      <4> QED BY <2>0, <2>1, <2>2, <4>2 DEF Applied, OwnedBy
    <3> QED BY <2>1, <3>2, <3>3
  <2>6. ASSUME NEW m \in Namespaces, NEW j \in Items, m # n \/ j # i, Says(m, j)'
        PROVE  Applied(m, j)'
    <3>1. UNCHANGED <<items, resources>> /\ instances'[m][j] = instances[m][j]
      BY <2>1, <2>2, <2>6
    <3>2. Applied(m, j)
      BY <2>6, <3>1 DEF Honest, Says
    <3> QED BY <3>1, <3>2 DEF Applied, OwnedBy
  <2> QED BY <2>3, <2>5, <2>6 DEF Honest
<1> QED
  BY <1>4, <1>5, <1>6, <1>7, <1>8, <1>9, <1>10
LEMMA HonestAtFirst ==
    ASSUME Init
    PROVE  ItemsFollowed /\ CopiesOK /\ Honest
<1>1. InstancesTypeOK /\ ItemsTypeOK
  BY TypedAtFirst DEF Typed, CoreTypeOK
<1>2. instWorker.pc = "idle" /\ itemCache = items /\ instCache = instances
  BY IdleTypes DEF Init, InstancesInit
<1>3. \A n \in Namespaces, i \in Items :
         ~instances[n][i].live /\ instances[n][i].obj.obs = 0
  BY DEF Init, InstancesInit, Vacant, NoInstance
<1>4. \A i \in Items : items[i].live /\ items[i].uid # 0 /\ items[i].obj.gen \in Nat
  BY DEF Init
<1>5. ItemsFollowed
  BY <1>1, <1>2, <1>3, <1>4, OlderSelf DEF ItemsFollowed, ItemsTypeOK, Working
<1>6. CopiesOK
  BY <1>1, <1>2, <1>3, FreshSelf DEF CopiesOK, SameObject, InstancesTypeOK
<1>7. Honest
  BY <1>2, <1>3 DEF Honest, Says
<1> QED
  BY <1>5, <1>6, <1>7

LEMMA HonestAlways ==
    ASSUME OneItem
    PROVE  Spec => [](Typed /\ ItemsFollowed /\ CopiesOK /\ Honest)
<1> DEFINE Inv == Typed /\ ItemsFollowed /\ CopiesOK /\ Honest
<1>1. ASSUME Init
      PROVE  Inv
  BY <1>1, TypedAtFirst, HonestAtFirst
<1>2. ASSUME Inv, [Next]_vars
      PROVE  Inv'
  BY <1>2, NextMoves, TypedStays, FollowedStays, CopiesStay, HonestStays
     DEF Typed, CoreTypeOK
<1> QED
  BY <1>1, <1>2, PTL DEF Spec

\* The status is never ahead of the cluster: where there is one item that is never given
\* up, every instance that says it has observed the item's present generation has the
\* resource of that generation, whatever was restarted, refused or retried
\* (namespaceiteminstance_controller.go:173-216).
THEOREM StatusIsHonest ==
    ASSUME OneItem
    PROVE  Spec => []StatusHonest
<1>1. ASSUME Honest
      PROVE  StatusHonest
  BY <1>1 DEF Honest, Says, StatusHonest, Active
<1>2. Spec => [](Typed /\ ItemsFollowed /\ CopiesOK /\ Honest)
  BY HonestAlways
<1> QED
  BY <1>1, <1>2, PTL
-----------------------------------------------------------------------------
(***************************************************************************)
(* No change is lost.  Whatever is to be done about an instance, somebody  *)
(* has still to do it: the other reconcilers to annotate it, the informer  *)
(* to deliver it, the queue to hand it over, or the worker to finish with  *)
(* it.                                                                     *)
(***************************************************************************)
\* Something will still happen to the instance.
Attended(n, i) ==
    \/ instCache[n][i] # instances[n][i]
    \/ <<n, i>> \in instQueue
    \/ /\ instWorker.pc # "idle" /\ instWorker.ns = n /\ instWorker.key = i
       /\ instWorker.inst = instances[n][i]

\* Something should: it is annotated, or it is behind its item though the change of that
\* has been passed on.
Due(n, i) ==
    /\ instances[n][i].live
    /\ \/ instances[n][i].obj.updated
       \/ instances[n][i].obj.obs # items[i].obj.gen /\ <<n, i>> \notin untold

\* No instance hears of a change before the informer has it.
ToldOK ==
    \A i \in Items :
        /\ itemCache[i].live
        /\ itemCache[i] # items[i] => \A n \in Namespaces : <<n, i>> \in untold

\* What the worker is about to write to the instance is a change.
WorkerOK ==
    /\ instWorker.pc = "unmark" => instWorker.inst.obj.updated
    /\ instWorker.pc \in Working => instWorker.inst.obj.obs # instWorker.item.obj.gen

SeenTo ==
    \A n \in Namespaces \ SystemNamespaces, i \in Items : Due(n, i) => Attended(n, i)

-----------------------------------------------------------------------------
LEMMA ToldAtFirst ==
    ASSUME Init
    PROVE  ToldOK /\ WorkerOK /\ SeenTo
<1>1. instWorker.pc = "idle" /\ itemCache = items
  BY IdleTypes DEF Init
<1>2. \A i \in Items : items[i].live
  BY DEF Init
<1>3. \A n \in Namespaces, i \in Items : ~instances[n][i].live
  BY DEF Init, InstancesInit, Vacant
<1> QED
  BY <1>1, <1>2, <1>3 DEF ToldOK, WorkerOK, SeenTo, Due, Working

LEMMA EditKeepsItems ==
    ASSUME OneItem, Typed, ItemsFollowed, NEW j \in Items,
           CreateItem(j) \/ (\E t \in Templates : EditItem(j, t)) \/ DeleteItem(j)
    PROVE  /\ UNCHANGED instances /\ untold' = untold \cup (Namespaces \X {j})
           /\ \A i \in Items : i # j => items'[i] = items[i]
<1>1. items[j].live /\ ~(items[j].uid < MaxItemLives)
  BY DEF ItemsFollowed, OneItem, Typed, CoreTypeOK, ItemsTypeOK, Slot
<1>2. PICK t \in Templates : EditItem(j, t)
  BY <1>1 DEF CreateItem, DeleteItem
<1> QED
  BY <1>2 DEF EditItem, Typed, CoreTypeOK, ItemsTypeOK

LEMMA ToldStays ==
    ASSUME OneItem, Typed, ItemsFollowed, ToldOK, [Next]_vars
    PROVE  ToldOK'
<1> USE DEF itemStore
<1>1. CASE Edit
  <2>1. UNCHANGED itemCache
    BY <1>1 DEF Edit
  <2>2. PICK j \in Items :
           \/ CreateItem(j)
           \/ \E t \in Templates : EditItem(j, t)
           \/ DeleteItem(j)
           \/ \E n \in Namespaces : Install(n, j) \/ Uninstall(n, j)
    BY <1>1 DEF Edit
  <2>3. CASE CreateItem(j) \/ (\E t \in Templates : EditItem(j, t)) \/ DeleteItem(j)
    <3>1. /\ untold' = untold \cup (Namespaces \X {j})
          /\ \A i \in Items : i # j => items'[i] = items[i]
      BY <2>3, EditKeepsItems
    <3> QED BY <2>1, <3>1 DEF ToldOK
  <2>4. CASE \E n \in Namespaces : Install(n, j) \/ Uninstall(n, j)
    BY <2>1, <2>4 DEF Install, Uninstall, ToldOK
  <2> QED BY <2>2, <2>3, <2>4
<1>2. ASSUME NEW n \in Namespaces, NEW j \in Items, Annotate(n, j)
      PROVE  ToldOK'
  BY <1>2 DEF Annotate, ToldOK
<1>3. CASE SyncItems \/ Restart
  BY <1>3 DEF SyncItems, Restart, ToldOK, ItemsFollowed
<1>4. ASSUME UNCHANGED <<itemStore, untold>>
      PROVE  ToldOK'
  BY <1>4 DEF ToldOK
<1>5. CASE UNCHANGED vars
  BY <1>4, <1>5 DEF vars
<1> QED
  BY <1>1, <1>2, <1>3, <1>4, <1>5
     DEF Next, Collect, SyncInstances, InstanceStep, Fault

LEMMA WorkerStays ==
    ASSUME Typed, WorkerOK, [Next]_vars
    PROVE  WorkerOK'
<1> DEFINE w == instWorker
<1>1. CASE UNCHANGED instWorker
  BY <1>1 DEF WorkerOK
<1>2. CASE instWorker'.pc \in {"idle", "getItem"}
  BY <1>2 DEF WorkerOK, Working
<1>3. CASE Edit \/ (\E n \in Namespaces, i \in Items : Annotate(n, i))
           \/ (\E n \in Namespaces, r \in Resources : Collect(n, r))
           \/ SyncItems \/ SyncInstances \/ UNCHANGED vars
  BY <1>1, <1>3 DEF Edit, Annotate, Collect, SyncItems, SyncInstances, vars, inVars
<1>4. ASSUME NEW n \in Namespaces, NEW i \in Items, InGetInstance(n, i)
      PROVE  WorkerOK'
  BY <1>2, <1>4, IdleTypes DEF InGetInstance
<1>5. ASSUME NEW inst, InUnmarkOrReturn(inst)
      PROVE  WorkerOK'
  BY <1>5, IdleTypes DEF InUnmarkOrReturn, WorkerOK, Working
<1>6. CASE InReturn \/ InRequeue
  BY <1>2, <1>6, IdleTypes DEF InReturn, InRequeue
<1>7. CASE InGetItem
  BY <1>5, <1>6, <1>7 DEF InGetItem, InNeedsUpdate, WorkerOK, Working
<1>8. CASE InWriteStatus \/ InUnmark \/ InRejected \/ InCallFails
  BY <1>5, <1>6, <1>8 DEF InWriteStatus, InUnmark, InRejected, InCallFails
<1>9. CASE GoesOn
  <2>1. w.pc \in Working /\ w'.pc \in Working /\ w'.inst = w.inst /\ w'.item = w.item
    BY <1>9, HandKept DEF Typed
  <2> QED BY <2>1 DEF WorkerOK, Working
<1>10. CASE InstanceStep \/ Fault
  <2>1. InReconcile \/ InCallFails \/ InGetOldFails
    BY <1>10 DEF InstanceStep, Fault
  <2>2. CASE InGetResource \/ InGetOld \/ InGetOldFails \/ InDeleteOld \/ InCreate \/ InUpdate
    <3>1. UNCHANGED <<itemStore, instStore>>
      BY <1>10, <2>2
         DEF InstanceStep, Fault, instStore, InGetResource, InGetOld, InGetOldFails,
             InDeleteOld, InCreate, InUpdate
    <3> QED BY <1>9, <2>2, <3>1 DEF GoesOn
  <2> QED BY <1>4, <1>7, <1>8, <2>1, <2>2 DEF InReconcile
<1>11. CASE Restart
  BY <1>2, <1>11, IdleTypes DEF Restart
<1> QED
  BY <1>3, <1>10, <1>11 DEF Next

\* A write that changes the instance is news to the informer.
LEMMA NewsIsAttended ==
    ASSUME NEW n \in Namespaces, NEW i \in Items, InstancesTypeOK, InstancesTypeOK',
           Fresh(instCache[n][i], instances[n][i]), UNCHANGED instCache,
           Later(instances[n][i], instances'[n][i]), instances'[n][i] # instances[n][i]
    PROVE  Attended(n, i)'
<1>1. /\ instCache[n][i].rv \in Nat /\ instances[n][i].rv \in Nat
      /\ instances'[n][i].rv \in Nat
  BY DEF InstancesTypeOK, Slot
<1>2. instCache[n][i].rv < instances'[n][i].rv
  BY <1>1 DEF Fresh, Later
<1> QED
  BY <1>1, <1>2 DEF Attended

\* Who has been attended to still is if neither the instance, its copy nor the call
\* changed, and nothing was taken off the queue.
LEMMA AttendedStays ==
    ASSUME NEW n \in Namespaces, NEW i \in Items, Attended(n, i),
           instances'[n][i] = instances[n][i], instCache'[n][i] = instCache[n][i],
           instQueue \subseteq instQueue', UNCHANGED instWorker
    PROVE  Attended(n, i)'
BY DEF Attended

\* What others do to an instance.
LEMMA SeenByOthers ==
    ASSUME Typed, Typed', CopiesOK, SeenTo, NEW m \in Namespaces, NEW j \in Items,
           Install(m, j) \/ Uninstall(m, j) \/ Annotate(m, j),
           UNCHANGED <<items, instCache, instQueue, instWorker>>
    PROVE  SeenTo'
<1> SUFFICES ASSUME NEW n \in Namespaces \ SystemNamespaces, NEW i \in Items, Due(n, i)'
             PROVE  Attended(n, i)'
  BY DEF SeenTo
<1>1. /\ InstancesTypeOK /\ InstancesTypeOK' /\ Fresh(instCache[n][i], instances[n][i])
  BY DEF Typed, CoreTypeOK, CopiesOK
<1>2. \/ UNCHANGED instances
      \/ \E new \in Slot(NamespaceItemInstance) :
            instances' = [instances EXCEPT ![m][j] = new] /\ Comes(instances[m][j], new)
  BY <1>1, OutsideWrites
<1>3. Later(instances[n][i], instances'[n][i])
  BY <1>1, <1>2 DEF InstancesTypeOK, Comes, Later
<1>4. CASE instances'[n][i] # instances[n][i]
  BY <1>1, <1>3, <1>4, NewsIsAttended
<1>5. CASE instances'[n][i] = instances[n][i]
  <2>1. Due(n, i)
    <3>1. CASE Install(m, j) \/ Uninstall(m, j)
      BY <1>5, <3>1 DEF Install, Uninstall, Due
    <3>2. CASE Annotate(m, j)
      <4>1. CASE n = m /\ i = j
        <5> DEFINE obj == [instances[n][i].obj EXCEPT !.updated = TRUE]
        <5>1. instances[n][i].live
          BY <1>5 DEF Due
        <5>2. instances'[n][i] = Updated(instances[n][i], obj)
          BY <1>1, <3>2, <4>1, <5>1 DEF Annotate, InstancesTypeOK
        <5>3. obj.updated
          BY <1>1 DEF InstancesTypeOK, Slot, NamespaceItemInstance
        <5> HIDE DEF obj
        <5>4. instances[n][i].obj = obj
          BY <1>5, <5>2 DEF Updated
        <5> QED BY <5>1, <5>3, <5>4 DEF Due
      <4>2. CASE ~(n = m /\ i = j)
        BY <1>5, <3>2, <4>2 DEF Annotate, Due
      <4> QED BY <4>1, <4>2
    <3> QED BY <3>1, <3>2
  <2> QED BY <1>5, <2>1, AttendedStays DEF SeenTo
<1> QED
  BY <1>4, <1>5

\* What the worker does, and what becomes of its calls.
LEMMA SeenByWorker ==
    ASSUME Typed, Typed', CopiesOK, ToldOK, WorkerOK, SeenTo,
           InReconcile \/ InCallFails \/ InGetOldFails,
           UNCHANGED <<itemStore, instCache, untold>>
    PROVE  SeenTo'
<1> USE DEF itemStore, instStore
<1> DEFINE w == instWorker
<1> SUFFICES ASSUME NEW n \in Namespaces \ SystemNamespaces, NEW i \in Items, Due(n, i)'
             PROVE  Attended(n, i)'
  BY DEF SeenTo
<1>1. /\ InstancesTypeOK /\ InstancesTypeOK' /\ Fresh(instCache[n][i], instances[n][i])
      /\ w \in InCall /\ w.ns \in Namespaces /\ w.key \in Items
      /\ instances[n][i] \in Slot(NamespaceItemInstance)
  BY TargetTypes DEF Typed, CoreTypeOK, CopiesOK, InstancesTypeOK
<1>2. ASSUME UNCHANGED instances
      PROVE  Due(n, i) /\ Attended(n, i)
  BY <1>2 DEF Due, SeenTo
\* A call that is given up is queued again.
<1>3. ASSUME UNCHANGED instances, InRequeue
      PROVE  Attended(n, i)'
  BY <1>2, <1>3 DEF InRequeue, Attended
\* A call that goes on keeps the copy in hand.
<1>4. ASSUME UNCHANGED <<instances, instQueue>>, w'.pc # "idle", w'.ns = w.ns,
             w'.key = w.key, w'.inst = w.inst
      PROVE  Attended(n, i)'
  BY <1>2, <1>4 DEF Attended
<1>5. ASSUME NEW m \in Namespaces, NEW j \in Items, InGetInstance(m, j)
      PROVE  Attended(n, i)'
  <2>1. /\ UNCHANGED instances /\ w.pc = "idle" /\ instQueue' = instQueue \ {<<m, j>>}
    BY <1>5 DEF InGetInstance
  <2>2. CASE instCache[n][i] # instances[n][i]
    BY <2>1, <2>2 DEF Attended
  <2>3. CASE instCache[n][i] = instances[n][i]
    <3>1. <<n, i>> \in instQueue
      BY <1>2, <2>1, <2>3 DEF Attended
    <3>2. CASE n = m /\ i = j
      <4>1. instWorker' = [pc |-> "getItem", ns |-> n, key |-> i, inst |-> instCache[n][i],
                           item |-> Vacant(NoItem), found |-> Vacant(NoResource)]
        BY <1>2, <1>5, <2>1, <2>3, <3>2 DEF InGetInstance, Due
      <4> QED BY <2>1, <2>3, <4>1 DEF Attended
    <3>3. CASE ~(n = m /\ i = j)
      BY <2>1, <3>1, <3>3 DEF Attended
    <3> QED BY <3>2, <3>3
  <2> QED BY <2>2, <2>3
<1>6. CASE InGetItem
  <2> DEFINE item == itemCache[w.key]
  <2>1. UNCHANGED instances /\ item.live /\ w.pc = "getItem"
    BY <1>1, <1>6 DEF InGetItem, ToldOK
  <2>2. CASE InRequeue
    BY <1>3, <2>1, <2>2
  <2>3. CASE /\ UNCHANGED instQueue
             /\ instWorker' = [pc |-> "getResource", ns |-> w.ns, key |-> w.key,
                               inst |-> w.inst, item |-> item, found |-> w.found]
    BY <1>4, <2>1, <2>3
  \* Nothing to bring up to date: then the annotation is all there is to be done.
  <2>4. CASE ~InNeedsUpdate(w.inst, item) /\ InUnmarkOrReturn(w.inst)
    <3>1. CASE w.inst.obj.updated
      <4>1. /\ UNCHANGED instQueue
            /\ instWorker' = [pc |-> "unmark", ns |-> w.ns, key |-> w.key, inst |-> w.inst,
                              item |-> w.item, found |-> w.found]
        BY <2>4, <3>1 DEF InUnmarkOrReturn
      <4> QED BY <1>4, <2>1, <4>1
    <3>2. CASE ~w.inst.obj.updated
      <4>1. UNCHANGED instQueue
        BY <2>4 DEF InUnmarkOrReturn
      <4>2. ~(w.ns = n /\ w.key = i /\ w.inst = instances[n][i])
        BY <1>2, <2>1, <2>4, <3>2 DEF Due, InNeedsUpdate, ToldOK
      <4> QED BY <1>2, <2>1, <4>1, <4>2 DEF Attended
    <3> QED BY <3>1, <3>2
  <2> QED BY <1>6, <2>1, <2>2, <2>3, <2>4 DEF InGetItem
<1>7. CASE InGetResource \/ InGetOld \/ InGetOldFails \/ InDeleteOld \/ InCreate \/ InUpdate
  <2>1. UNCHANGED <<instances, instQueue>>
    BY <1>7 DEF InGetResource, InGetOld, InGetOldFails, InDeleteOld, InCreate, InUpdate, InGoTo
  <2>2. GoesOn
    BY <1>7, <2>1 DEF GoesOn
  <2>3. w'.pc # "idle" /\ w'.ns = w.ns /\ w'.key = w.key /\ w'.inst = w.inst
    BY <2>2, HandKept DEF Typed, Working
  <2> QED BY <1>4, <2>1, <2>3
<1>8. CASE InRejected \/ InCallFails
  BY <1>3, <1>8 DEF InRejected, InCallFails
\* Both writes of the instance change it.
<1>9. CASE InWriteStatus \/ InUnmark
  <2>1. PICK m \in Namespaces, j \in Items : m = w.ns /\ j = w.key
    BY <1>1
  <2>2. /\ Records \/ Unmarks
        /\ UNCHANGED instQueue
    BY <1>9 DEF Records, Unmarks, InWriteStatus, InUnmark, InUnmarkOrReturn, InReturn
  <2>3. PICK new \in Slot(NamespaceItemInstance) :
           /\ instances[m][j].live /\ instances[m][j].rv = w.inst.rv
           /\ instances' = [instances EXCEPT ![m][j] = new]
           /\ Later(instances[m][j], new) /\ new.live /\ new.uid = instances[m][j].uid
           /\ UNCHANGED <<itemStore, instCache, resources>>
           /\ \/ /\ w.pc = "status"
                 /\ new.obj.obs = w.item.obj.gen /\ new.obj.kind = KindOf(InTarget)
                 /\ \/ instWorker' = InIdle
                    \/ instWorker' = [pc |-> "unmark", ns |-> m, key |-> j, inst |-> new,
                                      item |-> w.item, found |-> w.found]
              \/ /\ w.pc = "unmark"
                 /\ new.obj.obs = w.inst.obj.obs /\ new.obj.kind = w.inst.obj.kind
                 /\ instWorker' = InIdle
    BY <2>1, <2>2, OwnWrites DEF Typed
  <2>4. w.inst = instances[m][j]
    BY <1>1, <2>1, <2>3 DEF CopiesOK, Fresh
  <2>5. CASE n = m /\ i = j
    <3>1. instances'[n][i] = new
      BY <1>1, <2>3, <2>5 DEF InstancesTypeOK
    <3>2. new # instances[n][i]
      <4>1. CASE w.pc = "status"
        BY <2>3, <2>4, <2>5, <4>1 DEF WorkerOK, Working
      <4>2. CASE w.pc = "unmark"
        <5>1. w.inst.obj.updated
          BY <4>2 DEF WorkerOK
        <5>2. instances'[n][i] = Updated(instances[n][i], Unmarked(w.inst.obj))
          BY <1>1, <1>9, <2>1, <2>5, <4>2 DEF InWriteStatus, InUnmark, InstancesTypeOK
        <5>3. ~Unmarked(w.inst.obj).updated
          BY <1>1, <2>4, <2>5 DEF Unmarked, Slot, NamespaceItemInstance
        <5>4. Updated(instances[n][i], Unmarked(w.inst.obj)).obj = Unmarked(w.inst.obj)
          BY DEF Updated
        <5> QED BY <2>4, <2>5, <3>1, <5>1, <5>2, <5>3, <5>4
      <4> QED BY <2>3, <4>1, <4>2
    <3> QED BY <1>1, <2>3, <2>5, <3>1, <3>2, NewsIsAttended
  <2>6. CASE ~(n = m /\ i = j)
    <3>1. instances'[n][i] = instances[n][i]
      BY <1>1, <2>3, <2>6 DEF InstancesTypeOK
    <3>2. Attended(n, i)
      BY <2>3, <3>1 DEF Due, SeenTo
    <3> QED BY <2>1, <2>2, <2>3, <2>6, <3>1, <3>2 DEF Attended
  <2> QED BY <2>5, <2>6
<1> QED
  BY <1>5, <1>6, <1>7, <1>8, <1>9 DEF InReconcile

LEMMA SeenStays ==
    ASSUME OneItem, Typed, Typed', ItemsFollowed, CopiesOK, ToldOK, WorkerOK, SeenTo,
           [Next]_vars
    PROVE  SeenTo'
<1> USE DEF itemStore, instStore, inVars
<1>1. CASE Edit
  <2>1. UNCHANGED <<instCache, instQueue, instWorker>>
    BY <1>1 DEF Edit
  <2>2. PICK j \in Items :
           \/ CreateItem(j)
           \/ \E t \in Templates : EditItem(j, t)
           \/ DeleteItem(j)
           \/ \E m \in Namespaces : Install(m, j) \/ Uninstall(m, j)
    BY <1>1 DEF Edit
  <2>3. CASE CreateItem(j) \/ (\E t \in Templates : EditItem(j, t)) \/ DeleteItem(j)
    <3>1. /\ UNCHANGED instances /\ untold' = untold \cup (Namespaces \X {j})
          /\ \A i \in Items : i # j => items'[i] = items[i]
      BY <2>3, EditKeepsItems
    <3>2. \A n \in Namespaces \ SystemNamespaces, i \in Items : Due(n, i)' => Due(n, i)
      BY <3>1 DEF Due
    <3> QED BY <2>1, <3>1, <3>2 DEF SeenTo, Attended
  <2>4. CASE \E m \in Namespaces : Install(m, j) \/ Uninstall(m, j)
    <3>1. UNCHANGED items
      BY <2>4 DEF Install, Uninstall
    <3> QED BY <2>1, <2>4, <3>1, SeenByOthers
  <2> QED BY <2>2, <2>3, <2>4
<1>2. ASSUME NEW m \in Namespaces, NEW j \in Items, Annotate(m, j)
      PROVE  SeenTo'
  <2>1. UNCHANGED <<items, instCache, instQueue, instWorker>>
    BY <1>2 DEF Annotate
  <2> QED BY <1>2, <2>1, SeenByOthers
<1>3. CASE SyncItems \/ (\E n \in Namespaces, r \in Resources : Collect(n, r))
           \/ UNCHANGED vars
  BY <1>3 DEF SyncItems, Collect, vars, SeenTo, Due, Attended
\* News that the informer delivers are put on the queue.
<1>4. CASE SyncInstances
  <2>1. /\ UNCHANGED <<items, instances, instWorker, untold>>
        /\ instQueue' = instQueue \cup ChangedInstances
    BY <1>4 DEF SyncInstances
  <2>2. ASSUME NEW n \in Namespaces, NEW i \in Items, instCache[n][i] # instances[n][i]
        PROVE  <<n, i>> \in ChangedInstances
    BY <2>2 DEF ChangedInstances, Changed, Typed, CoreTypeOK, InstancesTypeOK
  <2>3. ASSUME NEW n \in Namespaces \ SystemNamespaces, NEW i \in Items, Due(n, i)'
        PROVE  Attended(n, i)'
    <3>1. Attended(n, i)
      BY <2>1, <2>3 DEF Due, SeenTo
    <3> QED BY <2>1, <2>2, <3>1 DEF Attended
  <2> QED BY <2>3 DEF SeenTo
<1>5. CASE InstanceStep \/ Fault
  <2>1. /\ InReconcile \/ InCallFails \/ InGetOldFails
        /\ UNCHANGED <<itemStore, instCache, untold>>
    BY <1>5 DEF InstanceStep, Fault
  <2> QED BY <2>1, SeenByWorker
\* A new process puts every instance on its queue.
<1>6. CASE Restart
  <2>1. UNCHANGED instances /\ instQueue' = LivingInstances(instances)
    BY <1>6 DEF Restart
  <2>2. ASSUME NEW n \in Namespaces, NEW i \in Items, instances[n][i].live
        PROVE  <<n, i>> \in LivingInstances(instances)
    BY <2>2 DEF LivingInstances, Living, Typed, CoreTypeOK, InstancesTypeOK
  <2> QED BY <2>1, <2>2 DEF SeenTo, Due, Attended
<1> QED
  BY <1>1, <1>2, <1>3, <1>4, <1>5, <1>6 DEF Next

-----------------------------------------------------------------------------
LEMMA ToldAlways ==
    ASSUME OneItem
    PROVE  Spec => [](ToldOK /\ WorkerOK /\ SeenTo)
<1> DEFINE Inv == ToldOK /\ WorkerOK /\ SeenTo
           Known == Typed /\ ItemsFollowed /\ CopiesOK /\ Honest
<1>1. ASSUME Init
      PROVE  Inv
  BY <1>1, ToldAtFirst
<1>2. ASSUME Known, Known', Inv, [Next]_vars
      PROVE  Inv'
  BY <1>2, ToldStays, WorkerStays, SeenStays
<1>3. Spec => []Known
  BY HonestAlways
<1> QED
  BY <1>1, <1>2, <1>3, PTL DEF Spec

\* Whatever fails and wherever the manager stops, once nothing is left to do every
\* instance has its item's resource as the item says now, owned by it, and has recorded
\* so: where there is one item that is never given up
\* (namespaceiteminstance_controller.go Reconcile).
THEOREM SettledIsApplied ==
    ASSUME OneItem
    PROVE  Spec => []SettledApplied
<1>1. ASSUME Honest, SeenTo
      PROVE  SettledApplied
  <2>1. ASSUME Quiescent, NEW n \in Namespaces, NEW i \in Items, Active(n, i)
        PROVE  Applied(n, i) /\ instances[n][i].obj.obs = items[i].obj.gen
    <3>1. ~Attended(n, i) /\ <<n, i>> \notin untold
      BY <2>1 DEF Quiescent, Attended
    <3>2. Says(n, i)
      BY <1>1, <2>1, <3>1 DEF SeenTo, Due, Active, Says
    <3> QED BY <1>1, <3>2 DEF Honest, Says
  <2> QED BY <2>1 DEF SettledApplied
<1>2. Spec => [](Typed /\ ItemsFollowed /\ CopiesOK /\ Honest)
  BY HonestAlways
<1>3. Spec => [](ToldOK /\ WorkerOK /\ SeenTo)
  BY ToldAlways
<1> QED
  BY <1>1, <1>2, <1>3, PTL DEF Spec

-----------------------------------------------------------------------------
(***************************************************************************)
(* What else there is, where there is one item that is never given up and  *)
(* every change is dealt with before the next                              *)
(***************************************************************************)
\* The call in progress is about this instance.
Held(n, i) == instWorker.pc # "idle" /\ instWorker.ns = n /\ instWorker.key = i

\* Whoever is about to look at an instance, or has it in hand, knows whether there is one.
CallsMeet ==
    \A n \in Namespaces, i \in Items :
        /\ <<n, i>> \in instQueue \/ Held(n, i) =>
              /\ instCache[n][i].live = instances[n][i].live
              /\ instCache[n][i].uid = instances[n][i].uid
        /\ Held(n, i) =>
              /\ n \notin SystemNamespaces
              /\ instances[n][i].live /\ instWorker.inst.uid = instances[n][i].uid

\* Only the present generation of an item is applied: who does not see it yet finds the
\* one before on record.
PresentOnly ==
    /\ instWorker.pc \in Working => instWorker.item = items[instWorker.key]
    /\ \A n \in Namespaces \ SystemNamespaces, i \in Items :
          itemCache[i] # items[i] =>
              /\ instances[n][i].live => instances[n][i].obj.obs = itemCache[i].obj.gen
              /\ instCache[n][i].live => instCache[n][i].obj.obs = itemCache[i].obj.gen
              /\ Held(n, i) => /\ instWorker.inst.obj.obs = itemCache[i].obj.gen
                               /\ instWorker.pc \notin Working

\* While the present generation has yet to be recorded, copies agree on the kind that is.
SameKind(copy, n, i) ==
    /\ instances[n][i].live /\ copy.uid = instances[n][i].uid
    /\ ~Says(n, i) /\ copy.obj.obs # items[i].obj.gen
    => copy.obj.kind = instances[n][i].obj.kind

KindsAgree ==
    \A n \in Namespaces, i \in Items :
        SameKind(instCache[n][i], n, i) /\ (Held(n, i) => SameKind(instWorker.inst, n, i))

Target(i) == ResourceOf[items[i].obj.template]

OnlyAt(n, r) == \A q \in Resources : resources[n][q].live => q = r

\* All there is belongs to the instance, and is either what the item describes now or,
\* until that is recorded, what it described before.
Tidy(n, i) ==
    instances[n][i].live =>
        /\ \A r \in Resources :
              resources[n][r].live => /\ n \notin SystemNamespaces
                                      /\ OwnedBy(resources[n][r], i, instances[n][i].uid)
        /\ Says(n, i) => instances[n][i].obj.kind = KindOf(Target(i))
        /\ \/ OnlyAt(n, Target(i))
           \/ /\ ~Says(n, i) /\ instances[n][i].obj.kind # NoKind
              /\ OnlyAt(n, WithKind(Target(i), instances[n][i].obj.kind))

\* Before the resource is written, what was there of another kind is gone.
TidyOK ==
    /\ \A n \in Namespaces, i \in Items : Tidy(n, i)
    /\ instWorker.pc \in {"create", "update", "status"} =>
          OnlyAt(instWorker.ns, Target(instWorker.key))

CleanInv == ~disturbed => CallsMeet /\ PresentOnly /\ KindsAgree /\ TidyOK

\* To this proof an instance is whether it is there, which one it is, and its status.
Alike(old, new) ==
    /\ new.live = old.live /\ new.uid = old.uid
    /\ new.obj.obs = old.obj.obs /\ new.obj.kind = old.obj.kind

\* The informers catch up, the status stays, the call in progress stays or is given up, and
\* nothing is written but taken away.
LEMMA CleanKept ==
    ASSUME Typed, CallsMeet, PresentOnly, KindsAgree, TidyOK, UNCHANGED items,
           \A n \in Namespaces, r \in Resources :
              resources'[n][r].live => resources'[n][r] = resources[n][r],
           \A n \in Namespaces, i \in Items : Alike(instances[n][i], instances'[n][i]),
           itemCache' = items \/ UNCHANGED itemCache,
           instCache' = instances' \/ UNCHANGED instCache,
           instWorker' = InIdle \/ UNCHANGED instWorker,
           \A n \in Namespaces, i \in Items : <<n, i>> \in instQueue' =>
               <<n, i>> \in instQueue \/ Held(n, i) \/ instCache' = instances'
    PROVE  (CallsMeet /\ PresentOnly /\ KindsAgree /\ TidyOK)'
<1> USE DEF Alike
<1>1. \A n \in Namespaces, i \in Items :
         /\ Held(n, i)' => Held(n, i) /\ UNCHANGED instWorker
         /\ Says(n, i)' <=> Says(n, i)
         /\ Target(i)' = Target(i)
  BY IdleTypes DEF Held, Says, Target
<1>2. CallsMeet'
  <2> SUFFICES ASSUME NEW n \in Namespaces, NEW i \in Items
               PROVE  /\ (<<n, i>> \in instQueue \/ Held(n, i))' =>
                            /\ instCache'[n][i].live = instances'[n][i].live
                            /\ instCache'[n][i].uid = instances'[n][i].uid
                      /\ Held(n, i)' =>
                            /\ n \notin SystemNamespaces
                            /\ instances'[n][i].live
                            /\ instWorker'.inst.uid = instances'[n][i].uid
    BY DEF CallsMeet
  <2>1. instances'[n][i].live = instances[n][i].live /\ instances'[n][i].uid = instances[n][i].uid
    OBVIOUS
  <2>2. Held(n, i)' =>
           /\ n \notin SystemNamespaces
           /\ instances'[n][i].live /\ instWorker'.inst.uid = instances'[n][i].uid
    <3> SUFFICES ASSUME Held(n, i)'
                 PROVE  /\ n \notin SystemNamespaces
                        /\ instances'[n][i].live /\ instWorker'.inst.uid = instances'[n][i].uid
      OBVIOUS
    <3>1. Held(n, i) /\ UNCHANGED instWorker
      BY <1>1
    <3>2. /\ n \notin SystemNamespaces
          /\ instances[n][i].live /\ instWorker.inst.uid = instances[n][i].uid
      BY <3>1 DEF CallsMeet
    <3> QED BY <2>1, <3>1, <3>2
  <2>3. CASE instCache' = instances'
    BY <2>2, <2>3
  <2>4. CASE UNCHANGED instCache /\ instCache' # instances'
    BY <1>1, <2>1, <2>2, <2>4 DEF CallsMeet
  <2> QED BY <2>3, <2>4
<1>3. PresentOnly'
  <2>1. (instWorker.pc \in Working => instWorker.item = items[instWorker.key])'
    BY IdleTypes DEF PresentOnly, Working
  <2>2. ASSUME NEW n \in Namespaces \ SystemNamespaces, NEW i \in Items,
               itemCache'[i] # items'[i]
        PROVE  /\ instances'[n][i].live => instances'[n][i].obj.obs = itemCache'[i].obj.gen
               /\ instCache'[n][i].live => instCache'[n][i].obj.obs = itemCache'[i].obj.gen
               /\ Held(n, i)' => /\ instWorker'.inst.obj.obs = itemCache'[i].obj.gen
                                /\ instWorker'.pc \notin Working
    <3>1. UNCHANGED itemCache
      BY <2>2
    <3>2. /\ instances[n][i].live => instances[n][i].obj.obs = itemCache[i].obj.gen
          /\ instCache[n][i].live => instCache[n][i].obj.obs = itemCache[i].obj.gen
          /\ Held(n, i) => /\ instWorker.inst.obj.obs = itemCache[i].obj.gen
                           /\ instWorker.pc \notin Working
      BY <2>2, <3>1 DEF PresentOnly
    <3> QED BY <1>1, <3>1, <3>2
  <2> QED BY <2>1, <2>2 DEF PresentOnly
<1>4. KindsAgree'
  <2> SUFFICES ASSUME NEW n \in Namespaces, NEW i \in Items
               PROVE  /\ SameKind(instCache[n][i], n, i)'
                      /\ Held(n, i)' => SameKind(instWorker.inst, n, i)'
    BY DEF KindsAgree
  <2>1. SameKind(instCache[n][i], n, i) /\ (Held(n, i) => SameKind(instWorker.inst, n, i))
    BY DEF KindsAgree
  <2> QED BY <1>1, <2>1 DEF SameKind
<1>5. TidyOK'
  <2>1. ASSUME NEW n \in Namespaces, NEW i \in Items
        PROVE  Tidy(n, i)'
    <3>1. Tidy(n, i)
      BY DEF TidyOK
    <3> QED BY <1>1, <3>1 DEF Tidy, OnlyAt
  <2>2. instWorker.ns \in Namespaces
    BY TargetTypes DEF Typed, CoreTypeOK
  <2> QED BY <2>1, <2>2, IdleTypes DEF TidyOK, OnlyAt, Target
<1> QED BY <1>2, <1>3, <1>4, <1>5

\* Everybody has settled before the next change.
LEMMA CleanEdited ==
    ASSUME OneItem, Typed, Typed', ItemsFollowed, SettledApplied,
           CallsMeet, PresentOnly, KindsAgree, TidyOK, Edit, ~disturbed'
    PROVE  (CallsMeet /\ PresentOnly /\ KindsAgree /\ TidyOK)'
<1> USE DEF inVars
<1>1. /\ Quiescent /\ ~Renames
      /\ UNCHANGED <<itemCache, instCache, resources, instQueue, instWorker>>
      /\ instQueue = {} /\ instWorker.pc = "idle"
      /\ itemCache = items /\ instCache = instances
  BY DEF Edit, Quiescent
<1>2. /\ CallsMeet'
      /\ \A n \in Namespaces, i \in Items : ~Held(n, i)'
      /\ instWorker'.pc \notin Working
      /\ (instWorker.pc \in {"create", "update", "status"} =>
             OnlyAt(instWorker.ns, Target(instWorker.key)))'
  BY <1>1 DEF CallsMeet, Held, Working
<1>3. /\ \A i \in Items : /\ items[i].live /\ items[i].obj.gen \in Nat /\ items[i].obj.gen # 0
                          /\ items[i].obj.template \in Templates
      /\ \A n \in Namespaces, i \in Items :
            /\ instances[n][i].obj.obs \in Nat /\ instances[n][i].uid \in Nat
            /\ instances[n][i].obj.obs <= items[i].obj.gen
  BY <1>1
  DEF ItemsFollowed, Typed, RecordsOK, CoreTypeOK, ItemsTypeOK, InstancesTypeOK, Slot,
      NamespaceClassItem, NamespaceItemInstance
<1>4. PICK j \in Items :
         \/ CreateItem(j)
         \/ \E t \in Templates : EditItem(j, t)
         \/ DeleteItem(j)
         \/ \E m \in Namespaces : Install(m, j) \/ Uninstall(m, j)
  BY DEF Edit
<1>5. \A i \in Items : i = j
  BY DEF OneItem
<1>6. ASSUME NEW t \in Templates, EditItem(j, t)
      PROVE  (PresentOnly /\ KindsAgree /\ TidyOK)'
  <2> DEFINE obj == [gen |-> items[j].obj.gen + 1, template |-> t, obs |-> items[j].obj.obs,
                     refs |-> items[j].obj.refs]
             new == Updated(items[j], obj)
  <2>1. items' = [items EXCEPT ![j] = new] /\ UNCHANGED instances
    BY <1>6 DEF EditItem
  <2>2. obj.gen = items[j].obj.gen + 1 /\ obj.template = t
    OBVIOUS
  <2> HIDE DEF obj
  <2>3. new.obj = obj /\ new.live
    BY <1>3 DEF Updated
  <2> HIDE DEF new
  <2>4. items'[j] = new
    BY <2>1 DEF Typed, CoreTypeOK, ItemsTypeOK
  <2>5. NameOf(items[j].obj.template) = NameOf(t)
    BY <1>1, <1>3, <2>2, <2>3, <2>4 DEF Renames
  <2>6. ASSUME NEW n \in Namespaces \ SystemNamespaces, instances[n][j].live
        PROVE  Says(n, j)
    BY <1>1, <1>3, <2>6 DEF SettledApplied, Active, Says
  <2>7. PresentOnly'
    BY <1>1, <1>2, <1>5, <2>1, <2>6 DEF PresentOnly, Says
  <2>8. KindsAgree'
    BY <1>1, <1>2, <2>1 DEF KindsAgree, SameKind
  <2>9. ASSUME NEW n \in Namespaces, instances[n][j].live
        PROVE  Tidy(n, j)'
    <3>1. Tidy(n, j)
      BY DEF TidyOK
    <3>2. ~Says(n, j)'
      BY <1>3, <2>2, <2>3, <2>4, <2>1 DEF Says
    <3>3. CASE n \in SystemNamespaces
      BY <1>1, <2>1, <2>9, <3>1, <3>2, <3>3 DEF Tidy, OnlyAt
    <3>4. CASE n \notin SystemNamespaces
      <4>1. /\ instances[n][j].obj.kind = KindOf(Target(j))
            /\ OnlyAt(n, Target(j))
        BY <2>6, <2>9, <3>1, <3>4 DEF Tidy
      <4>2. Target(j) \in Resources /\ Target(j)' = ResourceOf[t]
        BY <1>3, <2>2, <2>3, <2>4 DEF Target, Resources
      <4>3. KindOf(Target(j)) \in Kinds /\ WithKind(Target(j), KindOf(Target(j))) = Target(j)
        BY <4>2, KindsAssumption
      <4>4. WithKind(Target(j)', instances[n][j].obj.kind) = Target(j)
        BY <2>5, <4>1, <4>2, <4>3 DEF WithKind, NameOf, Target
      <4>5. OnlyAt(n, WithKind(Target(j), instances[n][j].obj.kind))'
        BY <1>1, <2>1, <4>1, <4>4 DEF OnlyAt
      <4> QED
        BY <1>1, <2>1, <2>9, <3>1, <3>2, <4>1, <4>3, <4>5, NoKindAssumption DEF Tidy
    <3> QED BY <3>3, <3>4
  <2>10. TidyOK'
    BY <1>2, <1>5, <2>1, <2>9 DEF TidyOK, Tidy
  <2> QED BY <2>7, <2>8, <2>10
<1>7. ASSUME NEW m \in Namespaces, Install(m, j) \/ Uninstall(m, j)
      PROVE  (PresentOnly /\ KindsAgree /\ TidyOK)'
  <2>1. UNCHANGED items
    BY <1>7 DEF Install, Uninstall
  <2>2. PICK new :
           /\ instances' = [instances EXCEPT ![m][j] = new]
           /\ new.live => /\ ~instances[m][j].live /\ new.uid # instances[m][j].uid
                          /\ new.obj.obs = 0
    <3>1. CASE Install(m, j)
      <4> DEFINE obj == [owner |-> 1, updated |-> FALSE, obs |-> 0, kind |-> NoKind]
                 new == Created(instances[m][j], obj)
      <4>1. instances' = [instances EXCEPT ![m][j] = new] /\ ~instances[m][j].live
        BY <3>1 DEF Install
      <4>2. new.uid = instances[m][j].uid + 1 /\ new.obj.obs = 0
        BY DEF Created
      <4>3. instances[m][j].uid + 1 # instances[m][j].uid
        BY <1>3
      <4> HIDE DEF new
      <4> QED BY <4>1, <4>2, <4>3
    <3>2. CASE Uninstall(m, j)
      <4> DEFINE new == Deleted(instances[m][j], NoInstance)
      <4>1. instances' = [instances EXCEPT ![m][j] = new]
        BY <3>2 DEF Uninstall
      <4>2. ~new.live
        BY DEF Deleted
      <4> HIDE DEF new
      <4> QED BY <4>1, <4>2
    <3> QED BY <1>7, <3>1, <3>2
  <2>3. /\ instances'[m][j] = new
        /\ \A n \in Namespaces, i \in Items : n # m => instances'[n][i] = instances[n][i]
    BY <2>2 DEF Typed, CoreTypeOK, InstancesTypeOK
  <2>4. PresentOnly'
    BY <1>1, <1>2, <2>1 DEF PresentOnly
  <2>5. KindsAgree'
    <3>1. ASSUME NEW n \in Namespaces, NEW i \in Items
          PROVE  SameKind(instCache[n][i], n, i)'
      <4>1. CASE n = m
        BY <1>1, <1>5, <2>2, <2>3, <4>1 DEF SameKind
      <4>2. CASE n # m
        BY <1>1, <2>3, <4>2 DEF SameKind
      <4> QED BY <4>1, <4>2
    <3> QED BY <1>2, <3>1 DEF KindsAgree
  <2>6. ASSUME NEW n \in Namespaces, NEW i \in Items, n # m
        PROVE  Tidy(n, i)'
    <3>1. Tidy(n, i)
      BY DEF TidyOK
    <3> QED BY <1>1, <2>1, <2>3, <2>6, <3>1 DEF Tidy, OnlyAt, Says, Target
  <2>7. ASSUME new.live
        PROVE  Tidy(m, j)'
    <3>1. ASSUME NEW r \in Resources, resources[m][r].live PROVE FALSE
      <4>1. resources[m][r].obj.from = j
        BY <1>5, <3>1 DEF Typed, CoreTypeOK, ResourcesTypeOK, Slot, Resource
      <4>2. ~Orphan(m, r)
        BY <1>1 DEF Quiescent
      <4> QED BY <2>2, <2>7, <3>1, <4>1, <4>2 DEF Orphan
    <3>2. ~Says(m, j)'
      BY <1>3, <2>1, <2>2, <2>3, <2>7 DEF Says
    <3> QED BY <1>1, <3>1, <3>2 DEF Tidy, OnlyAt
  <2>8. TidyOK'
    <3>1. Tidy(m, j)'
      BY <2>3, <2>7 DEF Tidy
    <3> QED BY <1>2, <1>5, <2>6, <3>1 DEF TidyOK
  <2> QED BY <2>4, <2>5, <2>8
<1>8. \/ \E t \in Templates : EditItem(j, t)
      \/ \E m \in Namespaces : Install(m, j) \/ Uninstall(m, j)
  <2>1. items[j].live /\ ~(items[j].uid < MaxItemLives)
    BY DEF ItemsFollowed, OneItem, Typed, CoreTypeOK, ItemsTypeOK, Slot
  <2> QED BY <1>4, <2>1 DEF CreateItem, DeleteItem
<1> QED BY <1>2, <1>6, <1>7, <1>8

\* A call starts, from the informer's copy, and looks what there is to be done.
LEMMA CleanBegins ==
    ASSUME Typed, CallsMeet, PresentOnly, KindsAgree, TidyOK,
           UNCHANGED <<itemStore, instCache>>, NEW m \in Namespaces, NEW j \in Items,
           InGetInstance(m, j), instCache[m][j].live, m \notin SystemNamespaces
    PROVE  (CallsMeet /\ PresentOnly /\ KindsAgree /\ TidyOK)'
<1> USE DEF itemStore
<1>1. /\ instWorker' = [pc |-> "getItem", ns |-> m, key |-> j, inst |-> instCache[m][j],
                        item |-> Vacant(NoItem), found |-> Vacant(NoResource)]
      /\ UNCHANGED <<items, itemCache, instances, instCache, resources>>
      /\ <<m, j>> \in instQueue /\ instQueue' \subseteq instQueue
  BY DEF InGetInstance
<1>2. /\ instWorker'.pc = "getItem" /\ instWorker'.inst = instCache[m][j]
      /\ \A n \in Namespaces, i \in Items : Held(n, i)' <=> (n = m /\ i = j)
  BY <1>1 DEF Held
<1>3. instances[m][j].live /\ instCache[m][j].uid = instances[m][j].uid
  BY <1>1 DEF CallsMeet
<1>4. CallsMeet'
  <2> SUFFICES ASSUME NEW n \in Namespaces, NEW i \in Items
               PROVE  /\ (<<n, i>> \in instQueue \/ Held(n, i))' =>
                            /\ instCache'[n][i].live = instances'[n][i].live
                            /\ instCache'[n][i].uid = instances'[n][i].uid
                      /\ Held(n, i)' =>
                            /\ n \notin SystemNamespaces
                            /\ instances'[n][i].live
                            /\ instWorker'.inst.uid = instances'[n][i].uid
    BY DEF CallsMeet
  <2>1. <<n, i>> \in instQueue' \/ Held(n, i)' => <<n, i>> \in instQueue
    BY <1>1, <1>2
  <2>2. <<n, i>> \in instQueue =>
           /\ instCache[n][i].live = instances[n][i].live
           /\ instCache[n][i].uid = instances[n][i].uid
    BY DEF CallsMeet
  <2> QED BY <1>1, <1>2, <1>3, <2>1, <2>2
<1>5. PresentOnly'
  BY <1>1, <1>2 DEF PresentOnly, Working
<1>6. KindsAgree'
  BY <1>1, <1>2 DEF KindsAgree, SameKind, Says
<1>7. TidyOK'
  BY <1>1, <1>2 DEF TidyOK, Tidy, OnlyAt, Says, Target
<1> QED BY <1>4, <1>5, <1>6, <1>7

LEMMA CleanLooks ==
    ASSUME Typed, CallsMeet, PresentOnly, KindsAgree, TidyOK,
           UNCHANGED <<itemStore, instCache, instances, resources, instQueue>>,
           instWorker.pc = "getItem", instWorker'.ns = instWorker.ns,
           instWorker'.key = instWorker.key, instWorker'.inst = instWorker.inst,
           \/ instWorker'.pc = "unmark"
           \/ /\ instWorker'.pc = "getResource"
              /\ instWorker'.item = itemCache[instWorker.key]
              /\ instWorker.inst.obj.obs # itemCache[instWorker.key].obj.gen
    PROVE  (CallsMeet /\ PresentOnly /\ KindsAgree /\ TidyOK)'
<1> USE DEF itemStore
<1>1. /\ UNCHANGED <<items, itemCache, instances, instCache, resources, instQueue>>
      /\ instWorker'.pc # "idle" /\ instWorker.key \in Items /\ instWorker.ns \in Namespaces
      /\ \A n \in Namespaces, i \in Items : Held(n, i)' <=> Held(n, i)
  BY TargetTypes DEF Held, Typed, CoreTypeOK
<1>2. CallsMeet'
  <2> SUFFICES ASSUME NEW n \in Namespaces, NEW i \in Items
               PROVE  /\ (<<n, i>> \in instQueue \/ Held(n, i))' =>
                            /\ instCache'[n][i].live = instances'[n][i].live
                            /\ instCache'[n][i].uid = instances'[n][i].uid
                      /\ Held(n, i)' =>
                            /\ n \notin SystemNamespaces
                            /\ instances'[n][i].live
                            /\ instWorker'.inst.uid = instances'[n][i].uid
    BY DEF CallsMeet
  <2>1. /\ <<n, i>> \in instQueue \/ Held(n, i) =>
              /\ instCache[n][i].live = instances[n][i].live
              /\ instCache[n][i].uid = instances[n][i].uid
        /\ Held(n, i) =>
              /\ n \notin SystemNamespaces
              /\ instances[n][i].live /\ instWorker.inst.uid = instances[n][i].uid
    BY DEF CallsMeet
  <2> QED BY <1>1, <2>1
<1>3. ASSUME instWorker'.pc \in Working
      PROVE  itemCache[instWorker.key] = items[instWorker.key]
  <2>1. Held(instWorker.ns, instWorker.key) /\ instWorker.ns \notin SystemNamespaces
    BY <1>1 DEF Held, CallsMeet
  <2>2. instWorker.inst.obj.obs # itemCache[instWorker.key].obj.gen
    BY <1>3 DEF Working
  <2> QED BY <1>1, <2>1, <2>2 DEF PresentOnly
<1>4. PresentOnly'
  <2>1. (instWorker.pc \in Working => instWorker.item = items[instWorker.key])'
    BY <1>1, <1>3 DEF Working
  <2>2. ASSUME NEW n \in Namespaces \ SystemNamespaces, NEW i \in Items, Held(n, i),
               itemCache[i] # items[i]
        PROVE  instWorker'.pc \notin Working
    BY <1>3, <2>2 DEF Held
  <2> QED BY <1>1, <2>1, <2>2 DEF PresentOnly
<1>5. KindsAgree'
  BY <1>1 DEF KindsAgree, SameKind, Says
<1>6. TidyOK'
  BY <1>1 DEF TidyOK, Tidy, OnlyAt, Says, Target
<1> QED BY <1>2, <1>4, <1>5, <1>6

\* The status is written: what it says is what is there, and there is nothing else.
LEMMA CleanRecords ==
    ASSUME OneItem, Typed, CopiesOK, CallsMeet, PresentOnly, KindsAgree, TidyOK, Records,
           UNCHANGED instQueue, instWorker.pc = "status"
    PROVE  (CallsMeet /\ PresentOnly /\ KindsAgree /\ TidyOK)'
<1> USE DEF itemStore
<1>1. PICK m \in Namespaces, j \in Items : m = instWorker.ns /\ j = instWorker.key
  BY TargetTypes DEF Typed, CoreTypeOK
<1>2. PICK new \in Slot(NamespaceItemInstance) :
         /\ instances[m][j].live
         /\ instances' = [instances EXCEPT ![m][j] = new]
         /\ new.live /\ new.uid = instances[m][j].uid
         /\ UNCHANGED <<items, itemCache, instCache, resources>>
         /\ new.obj.obs = instWorker.item.obj.gen /\ new.obj.kind = KindOf(InTarget)
         /\ \/ instWorker' = InIdle
            \/ instWorker' = [pc |-> "unmark", ns |-> m, key |-> j, inst |-> new,
                              item |-> instWorker.item, found |-> instWorker.found]
  BY <1>1, OwnWrites DEF Typed
<1>3. /\ instances'[m][j] = new
      /\ \A n \in Namespaces, i \in Items : n # m => instances'[n][i] = instances[n][i]
  BY <1>2 DEF Typed, CoreTypeOK, InstancesTypeOK
<1>4. \A i \in Items : i = j
  BY DEF OneItem
<1>5. /\ instWorker.item = items[j] /\ Held(m, j) /\ m \notin SystemNamespaces
      /\ OnlyAt(m, Target(j))
  BY <1>1 DEF PresentOnly, Working, Held, CallsMeet, TidyOK
<1>6. itemCache[j] = items[j]
  BY <1>5 DEF PresentOnly, Working
<1>7. /\ instWorker'.pc \notin Working
      /\ \A n \in Namespaces, i \in Items : Held(n, i)' => n = m /\ instWorker'.inst = new
  BY <1>2, IdleTypes DEF Held, Working
<1>8. CallsMeet'
  <2> SUFFICES ASSUME NEW n \in Namespaces, NEW i \in Items
               PROVE  /\ (<<n, i>> \in instQueue \/ Held(n, i))' =>
                            /\ instCache'[n][i].live = instances'[n][i].live
                            /\ instCache'[n][i].uid = instances'[n][i].uid
                      /\ Held(n, i)' =>
                            /\ n \notin SystemNamespaces
                            /\ instances'[n][i].live
                            /\ instWorker'.inst.uid = instances'[n][i].uid
    BY DEF CallsMeet
  <2>1. CASE n = m
    <3>1. i = j
      BY <1>4
    <3>2. instCache[n][i].live = instances[n][i].live /\ instCache[n][i].uid = instances[n][i].uid
      BY <1>5, <2>1, <3>1 DEF CallsMeet
    <3>3. /\ instances'[n][i] = new /\ new.live /\ new.uid = instances[n][i].uid
          /\ instances[n][i].live /\ UNCHANGED instCache
      BY <1>2, <1>3, <2>1, <3>1
    <3>4. Held(n, i)' => instWorker'.inst = new
      BY <1>7
    <3> QED BY <1>5, <2>1, <3>2, <3>3, <3>4
  <2>2. CASE n # m
    BY <1>2, <1>3, <1>7, <2>2 DEF CallsMeet
  <2> QED BY <2>1, <2>2
<1>9. PresentOnly'
  BY <1>2, <1>4, <1>6, <1>7 DEF PresentOnly
<1>10. Says(m, j)'
  BY <1>2, <1>3, <1>5 DEF Says
<1>11. KindsAgree'
  <2> SUFFICES ASSUME NEW n \in Namespaces, NEW i \in Items
               PROVE  /\ SameKind(instCache[n][i], n, i)'
                      /\ Held(n, i)' => SameKind(instWorker.inst, n, i)'
    BY DEF KindsAgree
  <2>1. CASE n = m
    BY <1>4, <1>10, <2>1 DEF SameKind
  <2>2. CASE n # m
    BY <1>2, <1>3, <1>7, <2>2 DEF KindsAgree, SameKind, Says
  <2> QED BY <2>1, <2>2
<1>12. TidyOK'
  <2>1. ASSUME NEW n \in Namespaces, NEW i \in Items, n # m
        PROVE  Tidy(n, i)'
    BY <1>2, <1>3, <2>1 DEF TidyOK, Tidy, OnlyAt, Says, Target
  <2>2. Tidy(m, j)'
    <3>1. Tidy(m, j) /\ InTarget = Target(j)
      BY <1>5 DEF TidyOK, InTarget, Target
    <3> QED BY <1>2, <1>3, <1>5, <3>1 DEF Tidy, OnlyAt, Target
  <2> QED BY <1>4, <1>7, <2>1, <2>2 DEF TidyOK, Working
<1> QED BY <1>8, <1>9, <1>11, <1>12

\* The old resource goes before the new one comes.
LEMMA CleanGoesOn ==
    ASSUME OneItem, Typed, Honest', WorkerOK, CallsMeet, PresentOnly, KindsAgree, TidyOK,
           GoesOn, UNCHANGED instQueue,
           InGetResource \/ InGetOld \/ InDeleteOld \/ InCreate \/ InUpdate
    PROVE  (CallsMeet /\ PresentOnly /\ KindsAgree /\ TidyOK)'
<1> USE DEF itemStore, instStore
<1>1. PICK m \in Namespaces, j \in Items : m = instWorker.ns /\ j = instWorker.key
  BY TargetTypes DEF Typed, CoreTypeOK
<1>2. /\ UNCHANGED <<items, itemCache, instances, instCache, instQueue>>
      /\ instWorker.pc \in Working /\ instWorker'.pc \in Working
      /\ instWorker'.ns = m /\ instWorker'.key = j
      /\ instWorker'.inst = instWorker.inst /\ instWorker'.item = instWorker.item
  BY <1>1, HandKept DEF GoesOn, Typed
<1>3. /\ \A n \in Namespaces, i \in Items :
            /\ Held(n, i) <=> (n = m /\ i = j)
            /\ Held(n, i)' <=> (n = m /\ i = j)
            /\ Says(n, i)' <=> Says(n, i)
            /\ Target(i)' = Target(i)
      /\ instWorker'.pc # "idle"
  BY <1>1, <1>2 DEF Held, Working, Says, Target
<1>4. CallsMeet' /\ KindsAgree' /\ PresentOnly'
  <2>1. CallsMeet'
    <3> SUFFICES ASSUME NEW n \in Namespaces, NEW i \in Items
                 PROVE  /\ (<<n, i>> \in instQueue \/ Held(n, i))' =>
                              /\ instCache'[n][i].live = instances'[n][i].live
                              /\ instCache'[n][i].uid = instances'[n][i].uid
                        /\ Held(n, i)' =>
                              /\ n \notin SystemNamespaces
                              /\ instances'[n][i].live
                              /\ instWorker'.inst.uid = instances'[n][i].uid
      BY DEF CallsMeet
    <3>1. /\ <<n, i>> \in instQueue \/ Held(n, i) =>
                /\ instCache[n][i].live = instances[n][i].live
                /\ instCache[n][i].uid = instances[n][i].uid
          /\ Held(n, i) =>
                /\ n \notin SystemNamespaces
                /\ instances[n][i].live /\ instWorker.inst.uid = instances[n][i].uid
      BY DEF CallsMeet
    <3>2. Held(n, i)' => Held(n, i)
      BY <1>3
    <3> QED BY <1>2, <3>1, <3>2
  <2>2. KindsAgree'
    BY <1>2, <1>3 DEF KindsAgree, SameKind
  <2>3. PresentOnly'
    BY <1>1, <1>2, <1>3 DEF PresentOnly
  <2> QED BY <2>1, <2>2, <2>3
<1>5. /\ instWorker.item = items[j] /\ m \notin SystemNamespaces
      /\ instances[m][j].live /\ instWorker.inst.uid = instances[m][j].uid
      /\ \A i \in Items : i = j
      /\ InTarget = Target(j) /\ InTarget \in Resources
  <2>1. instWorker.item = items[j] /\ InTarget = Target(j)
    BY <1>1, <1>2 DEF PresentOnly, InTarget, Target
  <2>2. Held(m, j)
    BY <1>3
  <2> QED BY <2>1, <2>2, TargetTypes DEF CallsMeet, OneItem, Typed, CoreTypeOK
\* With the resource missing, what else there is is of the kind that the call knows of.
<1>6. ASSUME ~Says(m, j)
      PROVE  \/ OnlyAt(m, InTarget)
             \/ instWorker.inst.obj.kind # NoKind /\ OnlyAt(m, InOldResource)
  <2>1. instWorker.inst.obj.obs # items[j].obj.gen
    BY <1>2, <1>5 DEF WorkerOK
  <2>2. instWorker.inst.obj.kind = instances[m][j].obj.kind
    BY <1>3, <1>5, <1>6, <2>1 DEF KindsAgree, SameKind
  <2>3. Tidy(m, j)
    BY DEF TidyOK
  <2> QED BY <1>5, <2>2, <2>3 DEF Tidy, InOldResource
<1>7. instWorker'.pc \in {"getOld", "deleteOld", "create"} => ~Says(m, j)
  BY <1>2, <1>3 DEF Honest
\* What a step has to show of the resources.
<1>8. ASSUME \A n \in Namespaces \ {m} : resources'[n] = resources[n],
             \A r \in Resources :
                resources'[m][r].live => OwnedBy(resources'[m][r], j, instances[m][j].uid),
             \/ OnlyAt(m, Target(j))'
             \/ \A r \in Resources : resources'[m][r].live => resources[m][r].live,
             instWorker'.pc \in {"create", "update", "status"} => OnlyAt(m, Target(j))'
      PROVE  TidyOK'
  <2>1. ASSUME NEW n \in Namespaces, n # m
        PROVE  Tidy(n, j)'
    <3>1. Tidy(n, j) /\ resources'[n] = resources[n]
      BY <1>8, <2>1 DEF TidyOK
    <3> QED BY <1>2, <1>3, <3>1 DEF Tidy, OnlyAt
  <2>2. Tidy(m, j)'
    <3>1. Tidy(m, j)
      BY DEF TidyOK
    <3>2. \/ OnlyAt(m, Target(j))'
          \/ /\ ~Says(m, j) /\ instances[m][j].obj.kind # NoKind
             /\ OnlyAt(m, WithKind(Target(j), instances[m][j].obj.kind))'
      BY <1>2, <1>3, <1>5, <1>8, <3>1 DEF Tidy, OnlyAt
    <3> QED BY <1>2, <1>3, <1>5, <1>8, <3>1, <3>2 DEF Tidy
  <2>3. (instWorker.pc \in {"create", "update", "status"} =>
            OnlyAt(instWorker.ns, Target(instWorker.key)))'
    BY <1>2, <1>8 DEF OnlyAt
  <2> QED BY <1>5, <2>1, <2>2, <2>3 DEF TidyOK
<1>9. \A r \in Resources :
         resources[m][r].live => OwnedBy(resources[m][r], j, instances[m][j].uid)
  BY <1>5 DEF TidyOK, Tidy
\* Nothing is written.
<1>10. ASSUME UNCHANGED resources,
              instWorker'.pc \in {"create", "update", "status"} => OnlyAt(m, Target(j))
       PROVE  TidyOK'
  <2>1. instWorker'.pc \in {"create", "update", "status"} => OnlyAt(m, Target(j))'
    BY <1>3, <1>10 DEF OnlyAt
  <2> QED BY <1>8, <1>9, <1>10, <2>1
\* The resource that the item describes is.
<1>11. ASSUME OnlyAt(m, Target(j)), NEW new,
              resources' = [resources EXCEPT ![m][InTarget] = new],
              OwnedBy(new, j, instances[m][j].uid)
       PROVE  TidyOK'
  <2>1. /\ resources'[m][InTarget] = new
        /\ \A r \in Resources : r # InTarget => resources'[m][r] = resources[m][r]
        /\ \A n \in Namespaces \ {m} : resources'[n] = resources[n]
    BY <1>5, <1>11 DEF Typed, CoreTypeOK, ResourcesTypeOK
  <2>2. \A r \in Resources :
           resources'[m][r].live => OwnedBy(resources'[m][r], j, instances[m][j].uid)
    BY <1>9, <1>11, <2>1
  <2>3. OnlyAt(m, Target(j))'
    BY <1>3, <1>5, <1>11, <2>1 DEF OnlyAt
  <2> QED BY <1>8, <2>1, <2>2, <2>3
<1>12. instWorker.pc \in {"create", "update", "status"} => OnlyAt(m, Target(j))
  BY <1>1 DEF TidyOK
<1>13. ASSUME InGetResource
       PROVE  TidyOK'
  <2>1. UNCHANGED resources
    BY <1>13 DEF InGetResource
  <2>2. CASE resources[m][InTarget].live
    <3>1. OnlyAt(m, Target(j))
      <4>1. CASE Says(m, j)
        BY <1>5, <4>1 DEF TidyOK, Tidy
      <4>2. CASE ~Says(m, j)
        BY <1>5, <1>6, <2>2, <4>2 DEF OnlyAt
      <4> QED BY <4>1, <4>2
    <3> QED BY <1>10, <2>1, <3>1
  <2>3. CASE ~resources[m][InTarget].live
    <3>1. instWorker' = [instWorker EXCEPT !.pc = IF instWorker.inst.obj.kind # NoKind
                                                  THEN "getOld" ELSE "create"]
      BY <1>1, <1>13, <2>3 DEF InGetResource, InGoTo
    <3>2. instWorker'.pc = IF instWorker.inst.obj.kind # NoKind THEN "getOld" ELSE "create"
      BY <3>1 DEF Typed, CoreTypeOK, InCall
    <3>3. instWorker.inst.obj.kind = NoKind => OnlyAt(m, Target(j))
      BY <1>5, <1>6, <1>7, <3>2
    <3> QED BY <1>10, <2>1, <3>2, <3>3
  <2> QED BY <2>2, <2>3
<1>14. ASSUME InGetOld
       PROVE  TidyOK'
  <2>1. /\ UNCHANGED resources
        /\ instWorker'.pc = IF /\ InOldResource \in Resources
                               /\ InOwns(resources[m][InOldResource])
                            THEN "deleteOld" ELSE "create"
    BY <1>1, <1>14 DEF InGetOld, InGoTo, Typed, CoreTypeOK, InCall
  <2>2. CASE instWorker'.pc = "deleteOld"
    BY <1>10, <2>1, <2>2
  <2>3. CASE instWorker'.pc = "create"
    <3>1. ~(InOldResource \in Resources /\ InOwns(resources[m][InOldResource]))
      BY <2>1, <2>3
    <3>2. InOldResource \in Resources => ~resources[m][InOldResource].live
      BY <1>1, <1>5, <1>9, <3>1 DEF InOwns
    <3>3. OnlyAt(m, Target(j))
      BY <1>5, <1>6, <1>7, <2>3, <3>2 DEF OnlyAt
    <3> QED BY <1>10, <2>1, <3>3
  <2> QED BY <2>1, <2>2, <2>3
<1>15. ASSUME InDeleteOld
       PROVE  TidyOK'
  <2> DEFINE new == Deleted(resources[m][InOldResource], NoResource)
  <2>1. /\ resources' = [resources EXCEPT ![m][InOldResource] = new]
        /\ instWorker'.pc = "create"
    BY <1>1, <1>15 DEF InDeleteOld, InGoTo, Typed, CoreTypeOK, InCall
  <2>2. ~new.live
    BY DEF Deleted
  <2> HIDE DEF new
  <2>3. /\ \A r \in Resources : r # InOldResource => resources'[m][r] = resources[m][r]
        /\ \A r \in Resources : r = InOldResource => ~resources'[m][r].live
        /\ \A n \in Namespaces \ {m} : resources'[n] = resources[n]
    BY <2>1, <2>2 DEF Typed, CoreTypeOK, ResourcesTypeOK
  <2>4. \A r \in Resources : resources'[m][r].live => resources'[m][r] = resources[m][r]
    BY <2>3
  <2>5. OnlyAt(m, Target(j))'
    <3>1. ~Says(m, j)
      BY <1>7, <2>1
    <3>2. CASE OnlyAt(m, InTarget)
      BY <1>3, <1>5, <2>4, <3>2 DEF OnlyAt
    <3>3. CASE OnlyAt(m, InOldResource)
      BY <2>3, <3>3 DEF OnlyAt
    <3> QED BY <1>6, <3>1, <3>2, <3>3
  <2> QED BY <1>8, <1>9, <2>3, <2>4, <2>5
<1>16. ASSUME InCreate \/ InUpdate
       PROVE  TidyOK'
  <2>1. InResource.from = j /\ InResource.owner = instances[m][j].uid
    BY <1>1, <1>5 DEF InResource
  <2>2. CASE InCreate
    <3> DEFINE new == Created(resources[m][InTarget], InResource)
    <3>1. resources' = [resources EXCEPT ![m][InTarget] = new] /\ instWorker.pc = "create"
      BY <1>1, <2>2 DEF InCreate
    <3>2. OwnedBy(new, j, instances[m][j].uid)
      BY <2>1 DEF OwnedBy, Created
    <3> HIDE DEF new
    <3> QED BY <1>11, <1>12, <3>1, <3>2
  <2>3. CASE InUpdate
    <3> DEFINE new == Updated(resources[m][InTarget], InResource)
    <3>1. /\ resources' = [resources EXCEPT ![m][InTarget] = new] /\ instWorker.pc = "update"
          /\ SameVersion(resources[m][InTarget], instWorker.found)
      BY <1>1, <2>3 DEF InUpdate
    <3>2. OwnedBy(new, j, instances[m][j].uid)
      BY <2>1, <3>1 DEF OwnedBy, Updated, SameVersion
    <3> HIDE DEF new
    <3> QED BY <1>11, <1>12, <3>1, <3>2
  <2> QED BY <1>16, <2>2, <2>3
<1> QED BY <1>4, <1>13, <1>14, <1>15, <1>16

\* What the worker does, and what becomes of its calls.
LEMMA CleanWorks ==
    ASSUME OneItem, Typed, Honest', CopiesOK, WorkerOK,
           CallsMeet, PresentOnly, KindsAgree, TidyOK,
           InReconcile \/ InCallFails, UNCHANGED <<itemStore, instCache>>
    PROVE  (CallsMeet /\ PresentOnly /\ KindsAgree /\ TidyOK)'
<1> USE DEF itemStore, instStore
<1> DEFINE w == instWorker
<1>1. /\ w \in InCall /\ w.ns \in Namespaces /\ w.key \in Items
      /\ UNCHANGED <<items, itemCache, instCache>>
  BY TargetTypes DEF Typed, CoreTypeOK
\* A call that is given up.
<1>2. ASSUME UNCHANGED <<instances, resources>>, instWorker' = InIdle,
             \/ instQueue' \subseteq instQueue
             \/ w.pc # "idle" /\ instQueue' = instQueue \cup {<<w.ns, w.key>>}
      PROVE  (CallsMeet /\ PresentOnly /\ KindsAgree /\ TidyOK)'
  <2>1. \A n \in Namespaces, i \in Items : Alike(instances[n][i], instances'[n][i])
    BY <1>2 DEF Alike
  <2>2. \A n \in Namespaces, i \in Items :
           <<n, i>> \in instQueue' => <<n, i>> \in instQueue \/ Held(n, i)
    BY <1>2 DEF Held
  <2> QED BY <1>1, <1>2, <2>1, <2>2, CleanKept
<1>3. ASSUME NEW m \in Namespaces, NEW j \in Items, InGetInstance(m, j)
      PROVE  (CallsMeet /\ PresentOnly /\ KindsAgree /\ TidyOK)'
  <2>1. CASE instCache[m][j].live /\ m \notin SystemNamespaces
    BY <1>3, <2>1, CleanBegins
  <2>2. CASE ~(instCache[m][j].live /\ m \notin SystemNamespaces)
    <3>1. /\ UNCHANGED <<instances, resources>> /\ instWorker' = InIdle
          /\ instQueue' \subseteq instQueue
      BY <1>3, <2>2 DEF InGetInstance
    <3> QED BY <1>2, <3>1
  <2> QED BY <2>1, <2>2
<1>4. CASE InGetItem
  <2> DEFINE item == itemCache[w.key]
  <2>1. UNCHANGED <<instances, resources>> /\ w.pc = "getItem"
    BY <1>4 DEF InGetItem
  <2>2. CASE InReturn \/ InRequeue
    <3>1. /\ instWorker' = InIdle
          /\ \/ instQueue' \subseteq instQueue
             \/ instQueue' = instQueue \cup {<<w.ns, w.key>>}
      BY <2>2 DEF InReturn, InRequeue
    <3> QED BY <1>2, <2>1, <3>1
  <2>3. CASE /\ UNCHANGED instQueue /\ InNeedsUpdate(w.inst, item)
             /\ instWorker' = [pc |-> "getResource", ns |-> w.ns, key |-> w.key,
                               inst |-> w.inst, item |-> item, found |-> w.found]
    <3>1. /\ instWorker'.ns = w.ns /\ instWorker'.key = w.key /\ instWorker'.inst = w.inst
          /\ instWorker'.pc = "getResource" /\ instWorker'.item = item
          /\ w.inst.obj.obs # item.obj.gen
      BY <2>3 DEF InNeedsUpdate
    <3> QED BY <1>1, <2>1, <2>3, <3>1, CleanLooks
  <2>4. CASE InUnmarkOrReturn(w.inst)
    <3>1. CASE w.inst.obj.updated
      <4>1. /\ UNCHANGED instQueue /\ instWorker'.pc = "unmark"
            /\ instWorker'.ns = w.ns /\ instWorker'.key = w.key /\ instWorker'.inst = w.inst
        BY <2>4, <3>1 DEF InUnmarkOrReturn
      <4> QED BY <1>1, <2>1, <4>1, CleanLooks
    <3>2. CASE ~w.inst.obj.updated
      BY <1>2, <2>1, <2>4, <3>2 DEF InUnmarkOrReturn
    <3> QED BY <3>1, <3>2
  <2> QED BY <1>4, <2>2, <2>3, <2>4 DEF InGetItem
<1>5. CASE InGetResource \/ InGetOld \/ InDeleteOld \/ InCreate \/ InUpdate
  <2>1. GoesOn /\ UNCHANGED instQueue
    BY <1>1, <1>5
    DEF GoesOn, InGetResource, InGetOld, InDeleteOld, InCreate, InUpdate, InGoTo
  <2> QED BY <1>5, <2>1, CleanGoesOn
<1>6. CASE InWriteStatus
  <2>1. Records /\ UNCHANGED instQueue /\ w.pc = "status"
    BY <1>6 DEF Records, InWriteStatus, InUnmarkOrReturn
  <2> QED BY <2>1, CleanRecords
<1>7. CASE InUnmark
  <2>1. PICK m \in Namespaces, j \in Items : m = w.ns /\ j = w.key
    BY <1>1
  <2>2. /\ Unmarks /\ UNCHANGED instQueue /\ w.pc = "unmark"
    BY <1>7 DEF Unmarks, InUnmark, InReturn
  <2>3. PICK new \in Slot(NamespaceItemInstance) :
           /\ instances[m][j].live /\ instances[m][j].rv = w.inst.rv
           /\ instances' = [instances EXCEPT ![m][j] = new]
           /\ new.live /\ new.uid = instances[m][j].uid
           /\ UNCHANGED resources
           /\ new.obj.obs = w.inst.obj.obs /\ new.obj.kind = w.inst.obj.kind
           /\ instWorker' = InIdle
    BY <2>1, <2>2, OwnWrites DEF Typed
  <2>4. w.inst = instances[m][j]
    BY <1>1, <2>1, <2>2, <2>3 DEF CopiesOK, Fresh
  <2>5. \A n \in Namespaces, i \in Items : Alike(instances[n][i], instances'[n][i])
    BY <2>3, <2>4 DEF Alike, Typed, CoreTypeOK, InstancesTypeOK
  <2> QED BY <1>1, <2>2, <2>3, <2>5, CleanKept
<1>8. CASE InRejected \/ InCallFails
  <2>1. /\ UNCHANGED <<instances, resources>> /\ instWorker' = InIdle /\ w.pc # "idle"
        /\ instQueue' = instQueue \cup {<<w.ns, w.key>>}
    BY <1>8 DEF InRejected, InCallFails, InRequeue, InWrites
  <2> QED BY <1>2, <2>1
<1> QED BY <1>3, <1>4, <1>5, <1>6, <1>7, <1>8 DEF InReconcile

LEMMA CleanAtFirst ==
    ASSUME Init
    PROVE  CleanInv
<1>1. /\ instWorker.pc = "idle" /\ itemCache = items /\ instQueue = {}
      /\ \A n \in Namespaces, i \in Items : ~instances[n][i].live
  BY IdleTypes DEF Init, InstancesInit, Vacant
<1>2. CallsMeet /\ PresentOnly
  BY <1>1 DEF CallsMeet, PresentOnly, Held, Working
<1>3. KindsAgree /\ TidyOK
  BY <1>1 DEF KindsAgree, SameKind, TidyOK, Tidy, Held
<1> QED BY <1>2, <1>3 DEF CleanInv

LEMMA CleanStays ==
    ASSUME OneItem, Typed, Typed', ItemsFollowed, CopiesOK, Honest', WorkerOK, SettledApplied,
           CleanInv, [Next]_vars
    PROVE  CleanInv'
<1> USE DEF itemStore, instStore, inVars
<1> SUFFICES ASSUME ~disturbed'
             PROVE  (CallsMeet /\ PresentOnly /\ KindsAgree /\ TidyOK)'
  BY DEF CleanInv
<1>1. ~disturbed
  BY DEF Next, vars, Edit, Annotate, Collect, SyncItems, SyncInstances, InstanceStep, Fault,
         Restart
<1>2. CallsMeet /\ PresentOnly /\ KindsAgree /\ TidyOK
  BY <1>1 DEF CleanInv
<1>3. CASE Edit
  BY <1>2, <1>3, CleanEdited
<1>4. ASSUME NEW m \in Namespaces, NEW j \in Items, Annotate(m, j)
      PROVE  (CallsMeet /\ PresentOnly /\ KindsAgree /\ TidyOK)'
  <2>1. UNCHANGED <<items, itemCache, instCache, resources, instQueue, instWorker>>
    BY <1>4 DEF Annotate
  <2>2. \A n \in Namespaces, i \in Items : Alike(instances[n][i], instances'[n][i])
    <3>1. CASE ~instances[m][j].live
      BY <1>4, <3>1 DEF Annotate, Alike
    <3>2. CASE instances[m][j].live
      <4> DEFINE obj == [instances[m][j].obj EXCEPT !.updated = TRUE]
                 new == Updated(instances[m][j], obj)
      <4>1. instances' = [instances EXCEPT ![m][j] = new]
        BY <1>4, <3>2 DEF Annotate
      <4>2. obj.obs = instances[m][j].obj.obs /\ obj.kind = instances[m][j].obj.kind
        BY DEF Typed, CoreTypeOK, InstancesTypeOK, Slot, NamespaceItemInstance
      <4> HIDE DEF obj
      <4>3. Alike(instances[m][j], new)
        BY <3>2, <4>2 DEF Alike, Updated
      <4> HIDE DEF new
      <4> QED BY <4>1, <4>3 DEF Alike, Typed, CoreTypeOK, InstancesTypeOK
    <3> QED BY <3>1, <3>2
  <2> QED BY <1>2, <2>1, <2>2, CleanKept
<1>5. ASSUME UNCHANGED <<items, instances>>,
             \A n \in Namespaces, r \in Resources :
                resources'[n][r].live => resources'[n][r] = resources[n][r],
             itemCache' = items \/ UNCHANGED itemCache,
             instCache' = instances \/ UNCHANGED instCache,
             instWorker' = InIdle \/ UNCHANGED instWorker,
             instQueue' \subseteq instQueue \/ instCache' = instances
      PROVE  (CallsMeet /\ PresentOnly /\ KindsAgree /\ TidyOK)'
  <2>1. \A n \in Namespaces, i \in Items : Alike(instances[n][i], instances'[n][i])
    BY <1>5 DEF Alike
  <2> QED BY <1>2, <1>5, <2>1, CleanKept
<1>6. ASSUME NEW m \in Namespaces, NEW q \in Resources, Collect(m, q)
      PROVE  (CallsMeet /\ PresentOnly /\ KindsAgree /\ TidyOK)'
  <2> DEFINE new == Deleted(resources[m][q], NoResource)
  <2>1. resources' = [resources EXCEPT ![m][q] = new]
    BY <1>6 DEF Collect, CollectResource
  <2>2. ~new.live
    BY DEF Deleted
  <2> HIDE DEF new
  <2>3. \A n \in Namespaces, r \in Resources :
           resources'[n][r].live => resources'[n][r] = resources[n][r]
    BY <2>1, <2>2 DEF Typed, CoreTypeOK, ResourcesTypeOK
  <2> QED BY <1>5, <1>6, <2>3 DEF Collect
<1>7. CASE SyncItems \/ SyncInstances \/ Restart \/ UNCHANGED vars
  BY <1>5, <1>7 DEF SyncItems, SyncInstances, Restart, vars
<1>8. CASE InstanceStep \/ Fault
  <2>1. /\ InReconcile \/ InCallFails
        /\ UNCHANGED <<itemStore, instCache>>
    BY <1>1, <1>8 DEF InstanceStep, Fault
  <2> QED BY <1>2, <2>1, CleanWorks
<1> QED
  BY <1>3, <1>4, <1>6, <1>7, <1>8 DEF Next

\* What an earlier version of an item described is gone once nothing is left to do, a kind
\* that was replaced included, whatever fails and wherever the manager stops: where there is
\* one item that is never given up, unless it changed before its last change was dealt with,
\* or came to name another resource, or the old one could not be read
\* (namespaceiteminstance_controller.go:143-171).
THEOREM NothingElseIsLeft ==
    ASSUME OneItem
    PROVE  Spec => []SettledNothingElse
<1> DEFINE Known == Typed /\ ItemsFollowed /\ CopiesOK /\ Honest
<1>1. Init => CleanInv
  BY CleanAtFirst
<1>2. ASSUME Known, Known', WorkerOK, SettledApplied, CleanInv, [Next]_vars
      PROVE  CleanInv'
  BY <1>2, CleanStays
<1>3. ASSUME Known, SettledApplied, CleanInv
      PROVE  SettledNothingElse
  <2>1. ASSUME Quiescent, ~disturbed, NEW n \in Namespaces, NEW r \in Resources,
               resources[n][r].live
        PROVE  \E i \in Items :
                  /\ instances[n][i].live
                  /\ items[i].live => ResourceOf[items[i].obj.template] = r
    <3>1. PICK i \in Items : i = resources[n][r].obj.from
      BY <1>3, <2>1 DEF Typed, CoreTypeOK, ResourcesTypeOK, Slot, Resource
    <3>2. instances[n][i].live
      BY <2>1, <3>1 DEF Quiescent, Orphan
    <3>3. Tidy(n, i)
      BY <1>3, <2>1 DEF CleanInv, TidyOK
    <3>4. n \notin SystemNamespaces
      BY <2>1, <3>2, <3>3 DEF Tidy
    <3>5. Says(n, i)
      BY <1>3, <2>1, <3>2, <3>4 DEF ItemsFollowed, SettledApplied, Active, Says
    <3>6. Target(i) = r
      BY <2>1, <3>2, <3>3, <3>5 DEF Tidy, OnlyAt
    <3> QED BY <3>2, <3>6 DEF Target
  <2> QED BY <2>1 DEF SettledNothingElse, NothingElse
<1>4. Spec => []Known
  BY HonestAlways
<1>5. Spec => []WorkerOK
  BY ToldAlways, PTL
<1>6. Spec => []SettledApplied
  BY SettledIsApplied
<1> QED
  BY <1>1, <1>2, <1>3, <1>4, <1>5, <1>6, PTL DEF Spec
=============================================================================
