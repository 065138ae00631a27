------------------------ MODULE OperatorSettledProofs ------------------------
(***************************************************************************)
(* Proofs about Operator: the types of all that the five reconcilers have  *)
(* in hand, and what holds once nothing is left to do.                     *)
(***************************************************************************)
EXTENDS OperatorProofs

\* No start lets users delete an item.
ItemsStay == \A start \in Starts : "deleteItem" \notin start.acts

\* Whoever is about to write a NamespaceState has a class to write.
NsCallOK ==
    /\ nsWorker \in NsCall
    /\ nsWorker.pc = "createState" => nsWorker.ns.obj.label \in Classes
    /\ nsWorker.pc = "markPending" => nsWorker.state.obj.class \in Classes

StCallOK ==
    /\ stateWorker \in StCall
    /\ stateWorker.pc # "idle" => stateWorker.state.obj.class \in Classes

ClSeenOK ==
    /\ classWorker.seen \in [Namespaces -> Slot(NamespaceState)]
    /\ \A n \in classWorker.marks : classWorker.seen[n].obj.class \in Classes

QueuesOK ==
    /\ nsQueue \subseteq Namespaces
    /\ stateQueue \subseteq Namespaces
    /\ classQueue \subseteq Classes
    /\ itemQueue \subseteq Items
    /\ instQueue \subseteq Keys

StoresOK == NamespacesTypeOK /\ StatesTypeOK /\ InstancesTypeOK /\ ResourcesTypeOK

WorkersOK == NsCallOK /\ StCallOK /\ ClSeenOK /\ instWorker \in InCall

\* What there is beside classes and items.
RestTypeOK == StoresOK /\ WorkersOK /\ QueuesOK

-----------------------------------------------------------------------------
(***************************************************************************)
(* Values                                                                  *)
(***************************************************************************)
LEMMA VacantTypes ==
    /\ NoNamespace \in Namespace /\ Vacant(NoNamespace) \in Slot(Namespace)
    /\ NoState \in NamespaceState /\ Vacant(NoState) \in Slot(NamespaceState)
    /\ NoInstance \in NamespaceItemInstance
    /\ Vacant(NoInstance) \in Slot(NamespaceItemInstance)
    /\ NoResource \in Resource /\ Vacant(NoResource) \in Slot(Resource)
<1>1. (CHOOSE t \in Templates : TRUE) \in Templates
  BY TemplatesAssumption
<1>2. (CHOOSE i \in Items : TRUE) \in Items
  BY StartAssumption
<1> QED
  BY <1>1, <1>2 DEF NoNamespace, Namespace, NoState, NamespaceState, NoInstance,
     NamespaceItemInstance, NoResource, Resource, Labels, Slot, Vacant

LEMMA SeenTypes ==
    /\ NothingSeen \in [Items -> Slot(NamespaceItemInstance)]
    /\ NoStatesSeen \in [Namespaces -> Slot(NamespaceState)]
BY VacantTypes DEF NothingSeen, NoStatesSeen

LEMMA IdleTypes ==
    /\ NsIdle \in NsCall /\ NsIdle.pc = "idle"
    /\ StIdle \in StCall /\ StIdle.pc = "idle"
    /\ InIdle \in InCall /\ InIdle.pc = "idle"
    /\ ClIdle.seen = NoStatesSeen /\ ClIdle.marks = {}
<1>1. /\ (CHOOSE n \in Namespaces : TRUE) \in Namespaces
      /\ (CHOOSE i \in Items : TRUE) \in Items
  BY StartAssumption
<1>2. NsIdle \in NsCall /\ NsIdle.pc = "idle"
  BY <1>1, VacantTypes DEF NsIdle, NsCall
<1>3. StIdle \in StCall /\ StIdle.pc = "idle"
  BY <1>1, VacantTypes, SeenTypes DEF StIdle, StCall
<1>4. InIdle \in InCall /\ InIdle.pc = "idle"
  BY <1>1, VacantTypes, NoneTypes DEF InIdle, InCall
<1>5. ClIdle.seen = NoStatesSeen /\ ClIdle.marks = {}
  BY DEF ClIdle, ClAt
<1> QED BY <1>2, <1>3, <1>4, <1>5

LEMMA IdleCalls ==
    /\ nsWorker' = NsIdle => NsCallOK'
    /\ stateWorker' = StIdle => StCallOK'
    /\ classWorker' = ClIdle => ClSeenOK'
    /\ instWorker' = InIdle => instWorker' \in InCall
<1>1. ASSUME nsWorker' = NsIdle PROVE NsCallOK'
  BY <1>1, IdleTypes DEF NsCallOK
<1>2. ASSUME stateWorker' = StIdle PROVE StCallOK'
  BY <1>2, IdleTypes DEF StCallOK
<1>3. ASSUME classWorker' = ClIdle PROVE ClSeenOK'
  BY <1>3, IdleTypes, SeenTypes DEF ClSeenOK
<1> QED BY <1>1, <1>2, <1>3, IdleTypes

\* The class a reconciled NamespaceState is to follow is a class.
LEMMA TargetType ==
    ASSUME NEW state \in Slot(NamespaceState), state.obj.class \in Classes
    PROVE  TargetClass(state) \in Classes
BY DEF TargetClass, Slot, NamespaceState, Labels

LEMMA DesiredTypes ==
    ASSUME ClassesTypeOK, NEW c \in Classes
    PROVE  DesiredItems(c) \in SUBSET Items
BY DEF DesiredItems, ClassesTypeOK, Slot, NamespaceClass

LEMMA TargetTypes ==
    ASSUME instWorker \in InCall
    PROVE  /\ InTarget \in Resources /\ KindOf(InTarget) \in Kinds
           /\ InResource \in Resource
           /\ instWorker.ns \in Namespaces /\ instWorker.key \in Items
           /\ instWorker.inst \in Slot(NamespaceItemInstance)
           /\ instWorker.item \in Slot(NamespaceClassItem)
           /\ instWorker.found \in Slot(Resource)
BY KindsAssumption
   DEF InTarget, InResource, InCall, Slot, NamespaceClassItem, Resources, Resource

-----------------------------------------------------------------------------
(***************************************************************************)
(* What a write makes of a NamespaceState and of an instance               *)
(***************************************************************************)
\* Slots without an object are empty.
Empty(slot, none) == slot.live \/ slot.obj = none

StateGoesOn(old, new) ==
    /\ new \in Slot(NamespaceState)
    /\ Later(old, new)
    /\ NamesClass(old) => NamesClass(new)
    /\ Empty(old, NoState) => Empty(new, NoState)

InstanceGoesOn(old, new) ==
    /\ new \in Slot(NamespaceItemInstance)
    /\ Later(old, new)
    /\ Empty(old, NoInstance) => Empty(new, NoInstance)

StatesMove ==
    /\ states' \in [Namespaces -> Slot(NamespaceState)]
    /\ \A n \in Namespaces : StateGoesOn(states[n], states'[n])

InstancesMove ==
    /\ instances' \in [Namespaces -> [Items -> Slot(NamespaceItemInstance)]]
    /\ \A n \in Namespaces, i \in Items : InstanceGoesOn(instances[n][i], instances'[n][i])

LEMMA StatesStay == StatesTypeOK /\ UNCHANGED states => StatesMove
BY DEF StatesTypeOK, StatesMove, StateGoesOn, Later

LEMMA InstancesStay == InstancesTypeOK /\ UNCHANGED instances => InstancesMove
BY DEF InstancesTypeOK, InstancesMove, InstanceGoesOn, Later

LEMMA StateWritten ==
    ASSUME StatesTypeOK, NEW n \in Namespaces, NEW new, StateGoesOn(states[n], new),
           states' = [states EXCEPT ![n] = new]
    PROVE  StatesMove /\ states'[n] = new /\ \A m \in Namespaces \ {n} : states'[m] = states[m]
<1>1. states'[n] = new /\ \A m \in Namespaces \ {n} : states'[m] = states[m]
  BY DEF StatesTypeOK
<1>2. \A m \in Namespaces : StateGoesOn(states[m], states[m])
  BY DEF StatesTypeOK, StateGoesOn, Later
<1>3. states' \in [Namespaces -> Slot(NamespaceState)]
  BY DEF StatesTypeOK, StateGoesOn
<1> QED BY <1>1, <1>2, <1>3 DEF StatesMove

LEMMA InstanceWritten ==
    ASSUME InstancesTypeOK, NEW n \in Namespaces, NEW i \in Items, NEW new,
           InstanceGoesOn(instances[n][i], new),
           instances' = [instances EXCEPT ![n][i] = new]
    PROVE  /\ InstancesMove /\ instances'[n][i] = new
           /\ \A m \in Namespaces, j \in Items :
                 m # n \/ j # i => instances'[m][j] = instances[m][j]
<1>1. /\ instances'[n][i] = new
      /\ \A m \in Namespaces, j \in Items :
            m # n \/ j # i => instances'[m][j] = instances[m][j]
  BY DEF InstancesTypeOK
<1>2. \A m \in Namespaces, j \in Items : InstanceGoesOn(instances[m][j], instances[m][j])
  BY DEF InstancesTypeOK, InstanceGoesOn, Later
<1>3. instances' \in [Namespaces -> [Items -> Slot(NamespaceItemInstance)]]
  BY DEF InstancesTypeOK, InstanceGoesOn
<1> QED BY <1>1, <1>2, <1>3 DEF InstancesMove

LEMMA StateWrites ==
    ASSUME NEW old \in Slot(NamespaceState)
    PROVE  /\ \A obj \in NamespaceState :
                 old.live /\ obj.class \in Classes => StateGoesOn(old, Updated(old, obj))
           /\ \A obj \in NamespaceState :
                 obj.class \in Classes => StateGoesOn(old, Created(old, obj))
           /\ StateGoesOn(old, Deleted(old, NoState))
<1>1. ASSUME NEW obj \in NamespaceState, old.live, obj.class \in Classes
      PROVE  StateGoesOn(old, Updated(old, obj))
  <2>1. /\ Updated(old, obj) \in Slot(NamespaceState) /\ Updated(old, obj).obj = obj
        /\ Later(old, Updated(old, obj)) /\ Updated(old, obj).live
    BY <1>1, SlotTypes, SlotHolds, WritesGrow, UpdatedLives
  <2> QED BY <1>1, <2>1 DEF StateGoesOn, NamesClass, Empty
<1>2. ASSUME NEW obj \in NamespaceState, obj.class \in Classes
      PROVE  StateGoesOn(old, Created(old, obj))
  <2>1. /\ Created(old, obj) \in Slot(NamespaceState) /\ Created(old, obj).obj = obj
        /\ Later(old, Created(old, obj)) /\ Created(old, obj).live
    BY <1>2, SlotTypes, SlotHolds, WritesGrow
  <2> QED BY <1>2, <2>1 DEF StateGoesOn, NamesClass, Empty
<1>3. StateGoesOn(old, Deleted(old, NoState))
  <2>1. /\ Deleted(old, NoState) \in Slot(NamespaceState)
        /\ Deleted(old, NoState).obj = NoState /\ ~Deleted(old, NoState).live
        /\ Later(old, Deleted(old, NoState))
    BY VacantTypes, SlotTypes, SlotHolds, WritesGrow
  <2> QED BY <2>1 DEF StateGoesOn, NamesClass, Empty
<1> QED BY <1>1, <1>2, <1>3

LEMMA InstanceWrites ==
    ASSUME NEW old \in Slot(NamespaceItemInstance)
    PROVE  /\ \A obj \in NamespaceItemInstance :
                 old.live => InstanceGoesOn(old, Updated(old, obj))
           /\ \A obj \in NamespaceItemInstance : InstanceGoesOn(old, Created(old, obj))
           /\ InstanceGoesOn(old, Deleted(old, NoInstance))
<1>1. ASSUME NEW obj \in NamespaceItemInstance, old.live
      PROVE  InstanceGoesOn(old, Updated(old, obj))
  <2>1. /\ Updated(old, obj) \in Slot(NamespaceItemInstance)
        /\ Later(old, Updated(old, obj)) /\ Updated(old, obj).live
    BY <1>1, SlotTypes, WritesGrow, UpdatedLives
  <2> QED BY <2>1 DEF InstanceGoesOn, Empty
<1>2. ASSUME NEW obj \in NamespaceItemInstance
      PROVE  InstanceGoesOn(old, Created(old, obj))
  <2>1. /\ Created(old, obj) \in Slot(NamespaceItemInstance)
        /\ Later(old, Created(old, obj)) /\ Created(old, obj).live
    BY SlotTypes, SlotHolds, WritesGrow
  <2> QED BY <2>1 DEF InstanceGoesOn, Empty
<1>3. InstanceGoesOn(old, Deleted(old, NoInstance))
  <2>1. /\ Deleted(old, NoInstance) \in Slot(NamespaceItemInstance)
        /\ Deleted(old, NoInstance).obj = NoInstance
        /\ Later(old, Deleted(old, NoInstance))
    BY VacantTypes, SlotTypes, SlotHolds, WritesGrow
  <2> QED BY <2>1 DEF InstanceGoesOn, Empty
<1> QED BY <1>1, <1>2, <1>3
-----------------------------------------------------------------------------
(***************************************************************************)
(* What each reconciler leaves well-formed                                 *)
(***************************************************************************)
LEMMA NsTypes ==
    ASSUME StoresOK, QueuesOK, NsCallOK, NsReconcile \/ NsCallFails
    PROVE  StatesMove /\ NsCallOK' /\ nsQueue' \subseteq Namespaces
<1> DEFINE w == nsWorker
           Goal == StatesMove /\ NsCallOK' /\ nsQueue' \subseteq Namespaces
<1>1. /\ w \in NsCall /\ w.key \in Namespaces /\ w.ns \in Slot(Namespace)
      /\ w.state \in Slot(NamespaceState) /\ nsQueue \subseteq Namespaces
  BY DEF NsCallOK, NsCall, QueuesOK
<1>2. /\ states[w.key] \in Slot(NamespaceState) /\ StatesTypeOK
      /\ UNCHANGED states => StatesMove
  BY <1>1, StatesStay DEF StoresOK, StatesTypeOK
<1>3. ASSUME NEW new, StateGoesOn(states[w.key], new),
             states' = [states EXCEPT ![w.key] = new], NsReturn
      PROVE  Goal
  BY <1>1, <1>2, <1>3, IdleCalls, StateWritten DEF NsReturn
<1>4. ASSUME NEW n \in Namespaces, NsGetNamespace(n)
      PROVE  Goal
  <2>1. CASE nsWorker' = NsIdle
    BY <1>1, <1>2, <1>4, <2>1, IdleCalls DEF NsGetNamespace
  <2>2. CASE nsWorker' = [pc |-> "getState", key |-> n, ns |-> nsCache[n],
                          state |-> Vacant(NoState)]
    <3>1. nsWorker' \in NsCall
      BY <2>2, VacantTypes DEF NsCall, StoresOK, NamespacesTypeOK
    <3>2. NsCallOK'
      BY <2>2, <3>1 DEF NsCallOK
    <3> QED BY <1>1, <1>2, <1>4, <3>2 DEF NsGetNamespace
  <2> QED BY <1>4, <2>1, <2>2 DEF NsGetNamespace
<1>5. CASE NsGetState
  <2> DEFINE state == stateCache[w.key]
             call  == NsNextCall(w.ns, state)
  <2>1. CASE call = "idle"
    BY <1>1, <1>2, <1>5, <2>1, IdleCalls DEF NsGetState
  <2>2. CASE call # "idle"
    <3>1. nsWorker' = [pc |-> call, key |-> w.key, ns |-> w.ns, state |-> state]
      BY <1>5, <2>2 DEF NsGetState
    <3>2. state \in Slot(NamespaceState) /\ NamesClass(state)
      BY <1>1 DEF StoresOK, StatesTypeOK
    <3>3. w.ns.obj.label \in Labels
      BY <1>1 DEF Slot, Namespace
    <3>4. /\ call \in NsWrites
          /\ call = "markPending" => state.live
          /\ call = "createState" => w.ns.obj.label \in Classes
      BY <2>2, <3>3 DEF NsNextCall, NsWrites, Labels
    <3> HIDE DEF call, state
    <3>5. nsWorker' \in NsCall
      BY <1>1, <3>1, <3>2, <3>4 DEF NsCall
    <3>6. NsCallOK'
      BY <3>1, <3>2, <3>4, <3>5 DEF NsCallOK, NamesClass
    <3> QED BY <1>1, <1>2, <1>5, <3>6 DEF NsGetState
  <2> QED BY <2>1, <2>2
<1>6. CASE NsDeleteState
  <2>1. StateGoesOn(states[w.key], Deleted(states[w.key], NoState))
    BY <1>2, StateWrites
  <2> QED BY <1>3, <1>6, <2>1 DEF NsDeleteState
<1>7. CASE NsMarkPending
  <2> DEFINE obj == WithPending(w.state.obj, w.ns.obj.label)
  <2>1. w.state.obj \in NamespaceState /\ w.ns.obj.label \in Labels
    BY <1>1 DEF Slot, Namespace
  <2>2. obj \in NamespaceState /\ obj.class = w.state.obj.class
    BY <2>1 DEF WithPending, NamespaceState
  <2>3. states[w.key].live /\ w.state.obj.class \in Classes
    BY <1>7 DEF NsMarkPending, SameVersion, NsCallOK
  <2>4. states' = [states EXCEPT ![w.key] = Updated(states[w.key], obj)] /\ NsReturn
    BY <1>7 DEF NsMarkPending
  <2> HIDE DEF obj
  <2>5. StateGoesOn(states[w.key], Updated(states[w.key], obj))
    BY <1>2, <2>2, <2>3, StateWrites
  <2> QED BY <1>3, <2>4, <2>5
<1>8. CASE NsCreateState
  <2> DEFINE obj == NewState(w.ns)
  <2>1. obj \in NamespaceState /\ obj.class \in Classes
    BY <1>1, <1>8 DEF NewState, NamespaceState, NsCreateState, NsCallOK, Slot, Labels
  <2>2. states' = [states EXCEPT ![w.key] = Created(states[w.key], obj)] /\ NsReturn
    BY <1>8 DEF NsCreateState
  <2> HIDE DEF obj
  <2>3. StateGoesOn(states[w.key], Created(states[w.key], obj))
    BY <1>2, <2>1, StateWrites
  <2> QED BY <1>3, <2>2, <2>3
<1>9. CASE NsRejected \/ NsCallFails
  BY <1>1, <1>2, <1>9, IdleCalls DEF NsRejected, NsCallFails, NsRequeue
<1> QED BY <1>4, <1>5, <1>6, <1>7, <1>8, <1>9 DEF NsReconcile

LEMMA StCallTypes ==
    ASSUME StCallOK
    PROVE  LET w == stateWorker
           IN  /\ w \in StCall /\ w.key \in Namespaces /\ w.state \in Slot(NamespaceState)
               /\ w.state.obj \in NamespaceState /\ w.state.uid \in Nat
               /\ w.todo \in SUBSET Items /\ w.extra \in SUBSET Items
               /\ w.seen \in [Items -> Slot(NamespaceItemInstance)]
               /\ w.pc # "idle" => w.state.obj.class \in Classes
BY DEF StCallOK, StCall, Slot

LEMMA StTypes ==
    ASSUME StoresOK, QueuesOK, StCallOK, ClassesTypeOK, StReconcile \/ StCallFails
    PROVE  StatesMove /\ InstancesMove /\ StCallOK' /\ stateQueue' \subseteq Namespaces
<1> DEFINE w == stateWorker
           n == stateWorker.key
           Goal == /\ StatesMove /\ InstancesMove
                   /\ StCallOK' /\ stateQueue' \subseteq Namespaces
<1>1. /\ w \in StCall /\ n \in Namespaces /\ w.state \in Slot(NamespaceState)
      /\ w.state.obj \in NamespaceState /\ w.state.uid \in Nat
      /\ w.todo \in SUBSET Items /\ w.extra \in SUBSET Items
      /\ w.seen \in [Items -> Slot(NamespaceItemInstance)]
      /\ w.pc # "idle" => w.state.obj.class \in Classes
      /\ stateQueue \subseteq Namespaces
  BY StCallTypes DEF QueuesOK
<1>2. /\ StatesTypeOK /\ InstancesTypeOK
      /\ UNCHANGED states => StatesMove
      /\ UNCHANGED instances => InstancesMove
      /\ states[n] \in Slot(NamespaceState)
      /\ \A i \in Items : instances[n][i] \in Slot(NamespaceItemInstance)
  BY <1>1, StatesStay, InstancesStay DEF StoresOK, StatesTypeOK, InstancesTypeOK
<1>3. ASSUME w.pc # "idle", UNCHANGED stateQueue,
             NEW pc \in {"getClass", "list", "write"}, NEW todo \in SUBSET Items,
             NEW extra \in SUBSET Items, NEW seen \in [Items -> Slot(NamespaceItemInstance)],
             stateWorker' = [pc |-> pc, key |-> n, state |-> w.state, todo |-> todo,
                             extra |-> extra, seen |-> seen]
      PROVE  StCallOK' /\ stateQueue' \subseteq Namespaces
  BY <1>1, <1>3 DEF StCallOK, StCall
<1>4. ASSUME NEW m \in Namespaces, StGetState(m)
      PROVE  Goal
  <2>1. CASE stateCache[m].live
    <3>1. stateWorker' = [pc |-> "getClass", key |-> m, state |-> stateCache[m],
                          todo |-> {}, extra |-> {}, seen |-> NothingSeen]
      BY <1>4, <2>1 DEF StGetState
    <3>2. stateCache[m] \in Slot(NamespaceState) /\ stateCache[m].obj.class \in Classes
      BY <1>2, <2>1 DEF StatesTypeOK, NamesClass
    <3>3. stateWorker' \in StCall
      BY <3>1, <3>2, SeenTypes DEF StCall
    <3>4. StCallOK'
      BY <3>1, <3>2, <3>3 DEF StCallOK
    <3> QED BY <1>1, <1>2, <1>4, <3>4 DEF StGetState
  <2>2. CASE ~stateCache[m].live
    BY <1>1, <1>2, <1>4, <2>2, IdleCalls DEF StGetState
  <2> QED BY <2>1, <2>2
<1>5. CASE StGetClass
  <2>1. DesiredItems(TargetClass(w.state)) \in SUBSET Items
    BY <1>1, <1>5, TargetType, DesiredTypes DEF StGetClass
  <2>2. StCallOK' /\ stateQueue' \subseteq Namespaces
    BY <1>3, <1>5, <2>1, SeenTypes DEF StGetClass
  <2> QED BY <1>2, <1>5, <2>2 DEF StGetClass
<1>6. CASE StListInstances
  <2>1. instCache[n] \in [Items -> Slot(NamespaceItemInstance)]
    BY <1>1, <1>2 DEF InstancesTypeOK
  <2>2. StCallOK' /\ stateQueue' \subseteq Namespaces
    BY <1>1, <1>3, <1>6, <2>1 DEF StListInstances, LeftOver
  <2> QED BY <1>2, <1>6, <2>2 DEF StListInstances
<1>7. ASSUME NEW i \in Items,
             StAnnotateInstance(i) \/ StCreateInstance(i) \/ StDeleteInstance(i)
      PROVE  Goal
  <2>1. \E new : InstanceGoesOn(instances[n][i], new)
                 /\ instances' = [instances EXCEPT ![n][i] = new]
    <3>1. CASE StAnnotateInstance(i)
      <4> DEFINE obj == Touched(w.seen[i].obj)
      <4>1. obj \in NamespaceItemInstance
        BY <1>1 DEF Touched, Slot, NamespaceItemInstance
      <4>2. /\ instances[n][i].live
            /\ instances' = [instances EXCEPT ![n][i] = Updated(instances[n][i], obj)]
        BY <3>1 DEF StAnnotateInstance, SameVersion
      <4> HIDE DEF obj
      <4> QED BY <1>2, <4>1, <4>2, InstanceWrites
    <3>2. CASE StCreateInstance(i)
      <4> DEFINE obj == NewInstance(w.state)
      <4>1. obj \in NamespaceItemInstance
        BY <1>1 DEF NewInstance, NamespaceItemInstance
      <4>2. instances' = [instances EXCEPT ![n][i] = Created(instances[n][i], obj)]
        BY <3>2 DEF StCreateInstance
      <4> HIDE DEF obj
      <4> QED BY <1>2, <4>1, <4>2, InstanceWrites
    <3>3. CASE StDeleteInstance(i)
      BY <1>2, <3>3, InstanceWrites DEF StDeleteInstance
    <3> QED BY <1>7, <3>1, <3>2, <3>3
  <2>2. InstancesMove
    BY <1>1, <1>2, <2>1, InstanceWritten
  <2>3. StCallOK'
    BY <1>1, <1>7
    DEF StAnnotateInstance, StCreateInstance, StDeleteInstance, StCallOK, StCall
  <2> QED
    BY <1>1, <1>2, <1>7, <2>2, <2>3 DEF StAnnotateInstance, StCreateInstance, StDeleteInstance
<1>8. CASE StCommit
  <2> DEFINE obj == Committed(w.state)
  <2>1. TargetClass(w.state) \in Classes
    BY <1>1, <1>8, TargetType DEF StCommit, StInstancesDone
  <2>2. obj \in NamespaceState /\ obj.class \in Classes
    BY <1>1, <2>1 DEF Committed, NamespaceState, Labels
  <2>3. states[n].live /\ states' = [states EXCEPT ![n] = Updated(states[n], obj)]
    BY <1>8 DEF StCommit, SameVersion
  <2> HIDE DEF obj
  <2>4. StatesMove
    BY <1>1, <1>2, <2>2, <2>3, StateWrites, StateWritten
  <2> QED BY <1>1, <1>2, <1>8, <2>4, IdleCalls DEF StCommit, StReturn
<1>9. CASE StNothingToCommit \/ StRejected \/ StCallFails
  BY <1>1, <1>2, <1>9, IdleCalls
  DEF StNothingToCommit, StReturn, StRejected, StCallFails, StRequeue
<1> QED BY <1>4, <1>5, <1>6, <1>7, <1>8, <1>9 DEF StReconcile

\* ClSeenOK holds of the copies that the class reconciler has in hand: of all it reads
\* at once, and it marks only those that exist.
LEMMA ClTypes ==
    ASSUME StoresOK, QueuesOK, ClSeenOK, SidesTypeOK, ClReconcile \/ ClCallFails
    PROVE  StatesMove /\ ClSeenOK' /\ classQueue' \subseteq Classes
<1> DEFINE w == classWorker
           Goal == StatesMove /\ ClSeenOK' /\ classQueue' \subseteq Classes
<1>1. /\ w \in ClCallWith(w.seen) /\ w.key \in Classes /\ w.marks \in SUBSET Namespaces
      /\ w.seen \in [Namespaces -> Slot(NamespaceState)]
      /\ \A n \in w.marks : w.seen[n].obj.class \in Classes
      /\ classQueue \subseteq Classes
      /\ UNCHANGED states => StatesMove
  BY ClassCall, StatesStay DEF SidesTypeOK, ClSeenOK, QueuesOK, StoresOK
<1>2. ASSUME classWorker'.seen = w.seen, classWorker'.marks \subseteq w.marks
      PROVE  ClSeenOK'
  BY <1>1, <1>2 DEF ClSeenOK
<1>3. ASSUME NEW pc, NEW c, NEW class, NEW todo, classWorker' = ClAt(pc, c, class, todo)
      PROVE  ClSeenOK'
  BY <1>3, SeenTypes DEF ClAt, ClSeenOK
<1>4. ASSUME classWorker' = ClIdle
      PROVE  ClSeenOK'
  BY <1>4, IdleCalls
<1>5. CASE \E c \in Classes : ClGetClass(c)
  BY <1>1, <1>3, <1>4, <1>5 DEF ClGetClass
<1>6. CASE ClAddFinalizer
  BY <1>1, <1>3, <1>6 DEF ClAddFinalizer
<1>7. CASE ClListStates
  <2>1. /\ classWorker'.seen = stateCache
        /\ classWorker'.marks = ToAnnotate(w.key, stateCache)
        /\ UNCHANGED <<states, classQueue>>
    BY <1>7 DEF ClListStates
  <2>2. ClSeenOK'
    BY <1>1, <2>1 DEF ClSeenOK, ToAnnotate, StoresOK, StatesTypeOK
  <2> QED BY <1>1, <2>1, <2>2
<1>8. ASSUME NEW n \in Namespaces, ClAnnotateState(n)
      PROVE  Goal
  <2> DEFINE obj == WithClassUpdated(w.seen[n].obj)
  <2>1. /\ states[n].live /\ UNCHANGED classQueue
        /\ states' = [states EXCEPT ![n] = Updated(states[n], obj)]
        /\ classWorker' = [w EXCEPT !.marks = @ \ {n}] /\ n \in w.marks
    BY <1>8 DEF ClAnnotateState, SameVersion
  <2>2. obj \in NamespaceState /\ obj.class \in Classes
    BY <1>1, <2>1 DEF WithClassUpdated, NamespaceState, Slot
  <2> HIDE DEF obj
  <2>3. StatesMove
    BY <2>1, <2>2, StateWrites, StateWritten DEF StoresOK, StatesTypeOK
  <2>4. ClSeenOK'
    BY <1>1, <1>2, <2>1 DEF ClCallWith
  <2> QED BY <1>1, <2>1, <2>3, <2>4
<1>9. ASSUME NEW i \in Items, ClGetItem(i)
      PROVE  Goal
  BY <1>1, <1>2, <1>9 DEF ClGetItem, ClCallWith
<1>10. CASE ClAddRef \/ ClDropRef
  BY <1>1, <1>2, <1>10 DEF ClAddRef, ClDropRef, ClWriteRefs
<1>11. CASE ClRemoveTrigger \/ ClNoTrigger \/ ClRemoveFinalizer \/ ClRejected \/ ClCallFails
  BY <1>1, <1>4, <1>11
  DEF ClRemoveTrigger, ClNoTrigger, ClRemoveFinalizer, ClRejected, ClCallFails,
      ClReturn, ClRequeue
<1> QED
  BY <1>5, <1>6, <1>7, <1>8, <1>9, <1>10, <1>11 DEF ClReconcile

LEMMA ItTypes ==
    ASSUME QueuesOK, SidesTypeOK, ItReconcile \/ ItCallFails
    PROVE  itemQueue' \subseteq Items
<1>1. itemWorker.key \in Items /\ itemQueue \subseteq Items
  BY ItemCall DEF QueuesOK
<1> QED
  BY <1>1
  DEF ItReconcile, ItCallFails, ItRequeue, ItReturn, ItGetItem, ItObserve, ItRefetch,
      ItGetClass, ItAnnotateClass, ItAnnounced, ItRejected

LEMMA InCallTypes ==
    ASSUME NEW pc \in {"idle", "getItem", "getResource", "getOld"} \cup InWrites,
           NEW n \in Namespaces, NEW i \in Items, NEW inst \in Slot(NamespaceItemInstance),
           NEW item \in Slot(NamespaceClassItem), NEW found \in Slot(Resource)
    PROVE  [pc |-> pc, ns |-> n, key |-> i, inst |-> inst, item |-> item, found |-> found]
               \in InCall
BY DEF InCall

LEMMA ResourceWritten ==
    ASSUME ResourcesTypeOK, NEW n \in Namespaces, NEW r,
           r \in Resources => \E new \in Slot(Resource) :
               resources' = [resources EXCEPT ![n][r] = new],
           r \notin Resources => \E new : resources' = [resources EXCEPT ![n][r] = new]
    PROVE  ResourcesTypeOK'
<1>1. CASE r \in Resources
  BY <1>1 DEF ResourcesTypeOK
<1>2. CASE r \notin Resources
  BY <1>2 DEF ResourcesTypeOK
<1> QED BY <1>1, <1>2

\* A call that cannot read the old resource goes on without it.
LEMMA OldUnread ==
    ASSUME instWorker \in InCall, InGetOldFails
    PROVE  /\ UNCHANGED <<instances, resources, instQueue>>
           /\ instWorker.pc = "getOld" /\ instWorker'.pc = "create"
           /\ instWorker'.ns = instWorker.ns /\ instWorker'.key = instWorker.key
           /\ instWorker'.inst = instWorker.inst /\ instWorker'.item = instWorker.item
BY DEF InGetOldFails, InGoTo, InCall

LEMMA InTypes ==
    ASSUME StoresOK, QueuesOK, ItemsTypeOK, instWorker \in InCall,
           InReconcile \/ InCallFails \/ InGetOldFails
    PROVE  /\ InstancesMove /\ ResourcesTypeOK'
           /\ instWorker' \in InCall /\ instQueue' \subseteq Keys
<1> DEFINE w == instWorker
           n == instWorker.ns
           i == instWorker.key
           CallOK == instWorker' \in InCall /\ instQueue' \subseteq Keys
           Goal == InstancesMove /\ ResourcesTypeOK' /\ CallOK
<1>1. /\ w \in InCall /\ n \in Namespaces /\ i \in Items /\ <<n, i>> \in Keys
      /\ w.inst \in Slot(NamespaceItemInstance) /\ w.inst.obj \in NamespaceItemInstance
      /\ w.item \in Slot(NamespaceClassItem) /\ w.item.obj \in NamespaceClassItem
      /\ w.found \in Slot(Resource) /\ instQueue \subseteq Keys
      /\ InTarget \in Resources /\ KindOf(InTarget) \in Kinds /\ InResource \in Resource
  BY TargetTypes DEF QueuesOK, Keys, Slot
<1>2. /\ InstancesTypeOK /\ ResourcesTypeOK
      /\ UNCHANGED instances => InstancesMove
      /\ UNCHANGED resources => ResourcesTypeOK'
      /\ instances[n][i] \in Slot(NamespaceItemInstance)
      /\ resources[n][InTarget] \in Slot(Resource)
  BY <1>1, InstancesStay DEF StoresOK, InstancesTypeOK, ResourcesTypeOK
<1>3. ASSUME InReturn \/ InRequeue
      PROVE  CallOK
  BY <1>1, <1>3, IdleTypes DEF InReturn, InRequeue
<1>4. ASSUME NEW pc \in {"getItem", "getResource", "getOld"} \cup InWrites, InGoTo(pc)
      PROVE  CallOK
  BY <1>1, <1>4 DEF InGoTo, InCall
<1>5. ASSUME NEW inst \in Slot(NamespaceItemInstance), InUnmarkOrReturn(inst)
      PROVE  CallOK
  <2>1. CASE instWorker' = InIdle
    BY <1>1, <1>5, <2>1, IdleTypes DEF InUnmarkOrReturn
  <2>2. CASE instWorker' = [pc |-> "unmark", ns |-> n, key |-> i, inst |-> inst,
                            item |-> w.item, found |-> w.found]
    <3>1. instWorker' \in InCall
      BY <1>1, <2>2, InCallTypes DEF InWrites
    <3> QED BY <1>1, <1>5, <3>1 DEF InUnmarkOrReturn
  <2> QED BY <1>5, <2>1, <2>2 DEF InUnmarkOrReturn
<1>6. ASSUME NEW m \in Namespaces, NEW j \in Items, InGetInstance(m, j)
      PROVE  Goal
  <2>1. instCache[m][j] \in Slot(NamespaceItemInstance)
    BY <1>2 DEF InstancesTypeOK
  <2>2. [pc |-> "getItem", ns |-> m, key |-> j, inst |-> instCache[m][j],
         item |-> Vacant(NoItem), found |-> Vacant(NoResource)] \in InCall
    BY <2>1, VacantTypes, NoneTypes, InCallTypes
  <2>3. CallOK
    BY <1>1, <1>6, <2>2, IdleTypes DEF InGetInstance
  <2> QED BY <1>2, <1>6, <2>3 DEF InGetInstance
<1>7. CASE InGetItem
  <2>1. itemCache[i] \in Slot(NamespaceClassItem)
    BY <1>1 DEF ItemsTypeOK
  <2>2. [pc |-> "getResource", ns |-> n, key |-> i, inst |-> w.inst, item |-> itemCache[i],
         found |-> w.found] \in InCall
    BY <1>1, <2>1, InCallTypes
  <2>3. CallOK
    <3>1. CASE InReturn \/ InRequeue
      BY <1>3, <3>1
    <3>2. CASE InUnmarkOrReturn(w.inst)
      BY <1>1, <1>5, <3>2
    <3>3. CASE ~(InReturn \/ InRequeue \/ InUnmarkOrReturn(w.inst))
      BY <1>1, <1>7, <2>2, <3>3 DEF InGetItem
    <3> QED BY <3>1, <3>2, <3>3
  <2> QED BY <1>2, <1>7, <2>3 DEF InGetItem
<1>8. CASE InGetResource
  <2> DEFINE found == resources[n][InTarget]
  <2>1. CASE found.live
    <3>1. [pc |-> "update", ns |-> n, key |-> i, inst |-> w.inst, item |-> w.item,
           found |-> found] \in InCall
      BY <1>1, <1>2, InCallTypes DEF InWrites
    <3> QED BY <1>1, <1>2, <1>8, <2>1, <3>1 DEF InGetResource
  <2>2. CASE ~found.live
    <3>1. InGoTo("getOld") \/ InGoTo("create")
      BY <1>8, <2>2 DEF InGetResource
    <3>2. CallOK
      BY <1>4, <3>1 DEF InWrites
    <3> QED BY <1>2, <1>8, <3>2 DEF InGetResource
  <2> QED BY <2>1, <2>2
<1>9. CASE InGetOld
  <2>1. InGoTo("deleteOld") \/ InGoTo("create")
    BY <1>9 DEF InGetOld
  <2>2. CallOK
    BY <1>4, <2>1 DEF InWrites
  <2> QED BY <1>2, <1>9, <2>2 DEF InGetOld
<1>10. CASE InDeleteOld
  <2> DEFINE r == InOldResource
             new == Deleted(resources[n][r], NoResource)
  <2>1. resources' = [resources EXCEPT ![n][r] = new] /\ UNCHANGED instances /\ InGoTo("create")
    BY <1>10 DEF InDeleteOld
  <2>2. r \in Resources => new \in Slot(Resource)
    BY <1>1, <1>2, VacantTypes, SlotTypes DEF ResourcesTypeOK
  <2> HIDE DEF r, new
  <2>3. ResourcesTypeOK'
    BY <1>1, <1>2, <2>1, <2>2, ResourceWritten
  <2>4. CallOK
    BY <1>4, <2>1 DEF InWrites
  <2> QED BY <1>2, <2>1, <2>3, <2>4
<1>11. CASE InCreate \/ InUpdate
  <2> DEFINE r == InTarget
  <2>1. \E new \in Slot(Resource) : resources' = [resources EXCEPT ![n][r] = new]
    BY <1>1, <1>2, <1>11, SlotTypes DEF InCreate, InUpdate
  <2>2. UNCHANGED instances /\ InGoTo("status")
    BY <1>11 DEF InCreate, InUpdate
  <2> HIDE DEF r
  <2>3. ResourcesTypeOK'
    BY <1>1, <1>2, <2>1, ResourceWritten
  <2>4. CallOK
    BY <1>4, <2>2 DEF InWrites
  <2> QED BY <1>2, <2>2, <2>3, <2>4
<1>12. CASE InWriteStatus
  <2> DEFINE obj == WithStatus(w.inst.obj, w.item.obj.gen, KindOf(InTarget))
             new == Updated(instances[n][i], obj)
  <2>1. obj \in NamespaceItemInstance
    BY <1>1 DEF WithStatus, NamespaceItemInstance, NamespaceClassItem
  <2>2. /\ instances[n][i].live /\ UNCHANGED resources
        /\ instances' = [instances EXCEPT ![n][i] = new] /\ InUnmarkOrReturn(new)
    BY <1>12 DEF InWriteStatus, SameVersion
  <2> HIDE DEF obj
  <2>3. InstanceGoesOn(instances[n][i], new) /\ new \in Slot(NamespaceItemInstance)
    BY <1>2, <2>1, <2>2, InstanceWrites DEF InstanceGoesOn
  <2> HIDE DEF new
  <2>4. InstancesMove
    BY <1>1, <1>2, <2>2, <2>3, InstanceWritten
  <2>5. CallOK
    BY <1>5, <2>2, <2>3
  <2> QED BY <1>2, <2>2, <2>4, <2>5
<1>13. CASE InUnmark
  <2> DEFINE obj == Unmarked(w.inst.obj)
             new == Updated(instances[n][i], obj)
  <2>1. obj \in NamespaceItemInstance
    BY <1>1 DEF Unmarked, NamespaceItemInstance
  <2>2. /\ instances[n][i].live /\ UNCHANGED resources
        /\ instances' = [instances EXCEPT ![n][i] = new] /\ InReturn
    BY <1>13 DEF InUnmark, SameVersion
  <2> HIDE DEF obj
  <2>3. InstanceGoesOn(instances[n][i], new)
    BY <1>2, <2>1, <2>2, InstanceWrites
  <2> HIDE DEF new
  <2>4. InstancesMove
    BY <1>1, <1>2, <2>2, <2>3, InstanceWritten
  <2> QED BY <1>2, <1>3, <2>2, <2>4
<1>14. CASE InRejected \/ InCallFails
  BY <1>2, <1>3, <1>14 DEF InRejected, InCallFails
<1>15. CASE InGetOldFails
  <2>1. UNCHANGED <<instances, resources>> /\ InGoTo("create")
    BY <1>15 DEF InGetOldFails
  <2>2. CallOK
    BY <1>4, <2>1 DEF InWrites
  <2> QED BY <1>2, <2>1, <2>2
<1> QED
  BY <1>6, <1>7, <1>8, <1>9, <1>10, <1>11, <1>12, <1>13, <1>14, <1>15 DEF InReconcile

-----------------------------------------------------------------------------
(***************************************************************************)
(* A step, as the NamespaceStates, the instances and the classes see it    *)
(***************************************************************************)
StatesNext ==
    \/ StatesMove /\ UNCHANGED <<stateCache, stateVars>>
    \/ SyncStates
    \/ (StReconcile \/ StCallFails) /\ UNCHANGED stateCache
    \/ Restart
    \/ Resync

InstancesNext ==
    \/ InstancesMove /\ UNCHANGED <<instCache, inVars>>
    \/ SyncInstances
    \/ (InReconcile \/ InCallFails \/ InGetOldFails) /\ UNCHANGED instCache
    \/ Restart
    \/ Resync

ClassesNext ==
    \/ (UserWrite \/ ItSide \/ UNCHANGED classes) /\ UNCHANGED <<classCache, clVars>>
    \/ SyncClasses
    \/ (ClReconcile \/ ClCallFails) /\ UNCHANGED <<classCache, itemCache, itemWorker>>
    \/ Restart
    \/ Resync

LEMMA UsersWrite ==
    ASSUME Users
    PROVE  UserWrite \/ UNCHANGED <<items, classes>>
<1>1. CASE UNCHANGED <<items, classes>>
  BY <1>1
<1>2. CASE ~UNCHANGED <<items, classes>>
  <2>1. UNCHANGED <<classCache, itemCache, classWorker, itemWorker>>
    BY DEF Users, clVars, itVars
  <2>2. ASSUME NEW c \in Classes, NEW set \in ItemsWanted[c]
        PROVE  set \in SUBSET Items
    BY <2>2, StartAssumption
  <2> QED BY <1>2, <2>1, <2>2 DEF Users, UserWrite
<1> QED BY <1>1, <1>2

LEMMA Collects ==
    ASSUME StoresOK, Kubernetes
    PROVE  /\ StatesMove /\ InstancesMove /\ ResourcesTypeOK'
           /\ UNCHANGED namespaces
<1>1. /\ StatesTypeOK /\ InstancesTypeOK /\ ResourcesTypeOK
      /\ UNCHANGED states => StatesMove
      /\ UNCHANGED instances => InstancesMove
      /\ UNCHANGED resources => ResourcesTypeOK'
  BY StatesStay, InstancesStay DEF StoresOK, ResourcesTypeOK
<1>2. ASSUME NEW n \in Namespaces, CollectState(n), UNCHANGED resources
      PROVE  /\ StatesMove /\ InstancesMove /\ ResourcesTypeOK'
             /\ UNCHANGED namespaces
  <2>1. StatesMove
    BY <1>1, <1>2, StateWrites, StateWritten DEF CollectState, StatesTypeOK
  <2> QED BY <1>1, <1>2, <2>1 DEF CollectState
<1>3. ASSUME NEW n \in Namespaces, NEW i \in Items, CollectInstance(n, i), UNCHANGED resources
      PROVE  /\ StatesMove /\ InstancesMove /\ ResourcesTypeOK'
             /\ UNCHANGED namespaces
  <2>1. instances[n][i] \in Slot(NamespaceItemInstance)
    BY <1>1 DEF InstancesTypeOK
  <2>2. InstanceGoesOn(instances[n][i], Deleted(instances[n][i], NoInstance))
    BY <2>1, InstanceWrites
  <2>3. instances' = [instances EXCEPT ![n][i] = Deleted(instances[n][i], NoInstance)]
    BY <1>3 DEF CollectInstance
  <2>4. InstancesMove
    BY <1>1, <2>2, <2>3, InstanceWritten
  <2> QED BY <1>1, <1>3, <2>4 DEF CollectInstance
<1>4. ASSUME NEW n \in Namespaces, NEW r \in Resources, CollectResource(n, r),
             UNCHANGED <<namespaces, states, instances>>
      PROVE  /\ StatesMove /\ InstancesMove /\ ResourcesTypeOK'
             /\ UNCHANGED namespaces
  <2>1. Deleted(resources[n][r], NoResource) \in Slot(Resource)
    BY <1>1, VacantTypes, SlotTypes DEF ResourcesTypeOK
  <2>2. ResourcesTypeOK'
    BY <1>1, <1>4, <2>1, ResourceWritten DEF CollectResource
  <2> QED BY <1>1, <1>4, <2>2
<1> QED BY <1>2, <1>3, <1>4 DEF Kubernetes

LEMMA NextStates ==
    ASSUME RestTypeOK, SidesTypeOK, [Next]_vars
    PROVE  StatesNext
<1> USE DEF stateStore, stateVars, RestTypeOK, WorkersOK
<1>1. UNCHANGED states => StatesMove
  BY StatesStay DEF StoresOK
<1>2. CASE Users \/ SyncNamespaces \/ SyncClasses \/ SyncItems \/ SyncInstances
           \/ ItemStep \/ InstanceStep
  BY <1>1, <1>2
  DEF StatesNext, Users, SyncNamespaces, SyncClasses, SyncItems, SyncInstances, ItemStep,
      InstanceStep
<1>3. CASE Kubernetes
  BY <1>3, Collects DEF StatesNext, Kubernetes
<1>4. CASE NsStep
  BY <1>4, NsTypes DEF StatesNext, NsStep
<1>5. CASE StateStep
  BY <1>5 DEF StatesNext, StateStep
<1>6. CASE ClassStep
  BY <1>6, ClTypes DEF StatesNext, ClassStep
<1>7. CASE Fault
  <2>1. UNCHANGED stateCache
    BY <1>7 DEF Fault
  <2>2. CASE StCallFails
    BY <2>1, <2>2 DEF StatesNext
  <2>3. CASE ~StCallFails
    <3>1. UNCHANGED <<states, stateVars>>
      BY <1>7, <2>3 DEF Fault, NsCallFails, ClCallFails
    <3> QED BY <1>1, <2>1, <3>1 DEF StatesNext
  <2> QED BY <2>2, <2>3
<1>8. CASE UNCHANGED vars
  BY <1>1, <1>8 DEF StatesNext, vars, stores
<1> QED
  BY <1>2, <1>3, <1>4, <1>5, <1>6, <1>7, <1>8 DEF Next, StatesNext

LEMMA NextInstances ==
    ASSUME RestTypeOK, SidesTypeOK, [Next]_vars
    PROVE  InstancesNext /\ (ResourcesTypeOK' \/ InReconcile)
<1> USE DEF instStore, inVars, RestTypeOK, WorkersOK
<1>1. /\ UNCHANGED instances => InstancesMove
      /\ UNCHANGED resources => ResourcesTypeOK'
  BY InstancesStay DEF StoresOK, ResourcesTypeOK
<1>2. CASE Users \/ SyncNamespaces \/ SyncStates \/ SyncClasses \/ SyncItems
           \/ NsStep \/ ClassStep \/ ItemStep
  BY <1>1, <1>2
  DEF InstancesNext, Users, SyncNamespaces, SyncStates, SyncClasses, SyncItems, NsStep,
      ClassStep, ItemStep
<1>3. CASE Kubernetes
  BY <1>3, Collects DEF InstancesNext, Kubernetes
<1>4. CASE StateStep
  <2>1. StReconcile /\ StoresOK /\ QueuesOK /\ StCallOK /\ ClassesTypeOK
    BY <1>4 DEF StateStep, SidesTypeOK
  <2>2. InstancesMove
    BY <2>1, StTypes
  <2> QED BY <1>1, <1>4, <2>2 DEF InstancesNext, StateStep
<1>5. CASE InstanceStep
  BY <1>5 DEF InstancesNext, InstanceStep
<1>6. CASE Fault
  <2>1. UNCHANGED <<instCache, resources>>
    BY <1>6 DEF Fault, InCallFails, InGetOldFails
  <2>2. CASE InCallFails \/ InGetOldFails
    BY <1>1, <2>1, <2>2 DEF InstancesNext
  <2>3. CASE ~(InCallFails \/ InGetOldFails)
    <3>1. UNCHANGED <<instances, inVars>>
      BY <1>6, <2>3 DEF Fault, StCallFails
    <3> QED BY <1>1, <2>1, <3>1 DEF InstancesNext
  <2> QED BY <2>2, <2>3
<1>7. CASE SyncInstances \/ Restart \/ Resync
  BY <1>1, <1>7 DEF InstancesNext, SyncInstances, Restart, Resync, stores
<1>8. CASE UNCHANGED vars
  BY <1>1, <1>8 DEF InstancesNext, vars, stores
<1> QED
  BY <1>2, <1>3, <1>4, <1>5, <1>6, <1>7, <1>8 DEF Next

LEMMA NextClasses ==
    ASSUME [Next]_vars
    PROVE  ClassesNext
<1> USE DEF classStore, itemStore, clVars, itVars
<1>1. CASE Users
  BY <1>1, UsersWrite DEF ClassesNext, Users
<1>2. CASE Kubernetes \/ SyncNamespaces \/ SyncStates \/ SyncItems \/ SyncInstances
           \/ NsStep \/ StateStep \/ InstanceStep
  BY <1>2
  DEF ClassesNext, Kubernetes, SyncNamespaces, SyncStates, SyncItems, SyncInstances, NsStep,
      StateStep, InstanceStep
<1>3. CASE ClassStep
  BY <1>3 DEF ClassesNext, ClassStep
<1>4. CASE ItemStep
  BY <1>4 DEF ClassesNext, ItemStep, ItSide
<1>5. CASE Fault
  <2>1. UNCHANGED <<classCache, itemCache>>
    BY <1>5 DEF Fault
  <2>2. CASE ClCallFails /\ UNCHANGED itemWorker
    BY <2>1, <2>2 DEF ClassesNext
  <2>3. CASE ~(ClCallFails /\ UNCHANGED itemWorker)
    <3>1. UNCHANGED <<classes, clVars>>
      BY <1>5, <2>3 DEF Fault, ItCallFails
    <3> QED BY <2>1, <3>1 DEF ClassesNext
  <2> QED BY <2>2, <2>3
<1>6. CASE UNCHANGED vars
  BY <1>6 DEF ClassesNext, vars, stores
<1> QED
  BY <1>1, <1>2, <1>3, <1>4, <1>5, <1>6 DEF Next, ClassesNext

LEMMA StatesTyped ==
    ASSUME RestTypeOK, SidesTypeOK, [Next]_vars
    PROVE  /\ StatesMove /\ StatesTypeOK' /\ StCallOK' /\ stateQueue' \subseteq Namespaces
<1> USE DEF stateStore, stateVars
<1>1. StatesTypeOK /\ StCallOK /\ stateQueue \subseteq Namespaces
  BY DEF RestTypeOK, StoresOK, WorkersOK, QueuesOK
<1>2. UNCHANGED states => StatesMove
  BY <1>1, StatesStay
<1>3. ASSUME StatesMove, stateCache' = stateCache \/ stateCache' = states
      PROVE  StatesTypeOK'
  BY <1>1, <1>3 DEF StatesTypeOK, StatesMove, StateGoesOn
<1>4. CASE StatesMove /\ UNCHANGED <<stateCache, stateVars>>
  BY <1>1, <1>3, <1>4 DEF StCallOK
<1>5. CASE SyncStates
  <2>1. stateQueue' \subseteq Namespaces
    BY <1>1, <1>5 DEF SyncStates, Watched, Changed, StatesTypeOK
  <2> QED BY <1>1, <1>2, <1>3, <1>5, <2>1 DEF SyncStates, StCallOK
<1>6. CASE (StReconcile \/ StCallFails) /\ UNCHANGED stateCache
  <2>1. StatesMove /\ StCallOK' /\ stateQueue' \subseteq Namespaces
    BY <1>1, <1>6, StTypes DEF RestTypeOK, SidesTypeOK
  <2> QED BY <1>3, <1>6, <2>1
<1>7. CASE Restart
  <2>1. stateQueue' \subseteq Namespaces
    BY <1>1, <1>7 DEF Restart, Watched, Living, StatesTypeOK
  <2> QED BY <1>2, <1>3, <1>7, <2>1, IdleCalls DEF Restart
<1>8. CASE Resync
  <2>1. stateQueue' \subseteq Namespaces
    BY <1>1, <1>8 DEF Resync, Living, StatesTypeOK
  <2>2. UNCHANGED <<states, stateCache, stateWorker>>
    BY <1>8 DEF Resync, stores
  <2> QED BY <1>1, <1>2, <1>3, <2>1, <2>2 DEF StCallOK
<1> QED BY <1>4, <1>5, <1>6, <1>7, <1>8, NextStates DEF StatesNext

LEMMA KeysTyped ==
    ASSUME InstancesTypeOK
    PROVE  ChangedInstances \subseteq Keys /\ LivingInstances(instances) \subseteq Keys
BY DEF InstancesTypeOK, ChangedInstances, LivingInstances, Changed, Living, Keys

LEMMA InstancesTyped ==
    ASSUME RestTypeOK, SidesTypeOK, [Next]_vars
    PROVE  /\ InstancesMove /\ InstancesTypeOK' /\ ResourcesTypeOK'
           /\ instWorker' \in InCall /\ instQueue' \subseteq Keys
<1> USE DEF instStore, inVars
<1>1. InstancesTypeOK /\ instWorker \in InCall /\ instQueue \subseteq Keys
  BY DEF RestTypeOK, StoresOK, WorkersOK, QueuesOK
<1>2. UNCHANGED instances => InstancesMove
  BY <1>1, InstancesStay
<1>3. ASSUME InstancesMove, instCache' = instCache \/ instCache' = instances
      PROVE  InstancesTypeOK'
  BY <1>1, <1>3 DEF InstancesTypeOK, InstancesMove
<1>4. ASSUME InReconcile \/ InCallFails \/ InGetOldFails
      PROVE  /\ InstancesMove /\ ResourcesTypeOK'
             /\ instWorker' \in InCall /\ instQueue' \subseteq Keys
  BY <1>1, <1>4, InTypes DEF RestTypeOK, SidesTypeOK
<1>5. ResourcesTypeOK'
  BY <1>4, NextInstances
<1>6. CASE InstancesMove /\ UNCHANGED <<instCache, inVars>>
  BY <1>1, <1>3, <1>5, <1>6
<1>7. CASE SyncInstances
  <2>1. instQueue' \subseteq Keys
    BY <1>1, <1>7, KeysTyped DEF SyncInstances, Watched
  <2> QED BY <1>1, <1>2, <1>3, <1>5, <1>7, <2>1 DEF SyncInstances
<1>8. CASE (InReconcile \/ InCallFails \/ InGetOldFails) /\ UNCHANGED instCache
  BY <1>3, <1>4, <1>8
<1>9. CASE Restart
  <2>1. instQueue' \subseteq Keys
    BY <1>1, <1>9, KeysTyped DEF Restart, Watched
  <2> QED BY <1>2, <1>3, <1>5, <1>9, <2>1, IdleCalls DEF Restart
<1>10. CASE Resync
  <2>1. instQueue' \subseteq Keys
    BY <1>1, <1>10, KeysTyped DEF Resync
  <2>2. UNCHANGED <<instances, instCache, instWorker>>
    BY <1>10 DEF Resync, stores
  <2> QED BY <1>1, <1>2, <1>3, <1>5, <2>1, <2>2
<1> QED BY <1>6, <1>7, <1>8, <1>9, <1>10, NextInstances DEF InstancesNext

LEMMA ClassesTyped ==
    ASSUME RestTypeOK, SidesTypeOK, [Next]_vars
    PROVE  ClSeenOK' /\ classQueue' \subseteq Classes
<1>1. ClSeenOK /\ classQueue \subseteq Classes /\ ClassesTypeOK
  BY DEF RestTypeOK, WorkersOK, QueuesOK, SidesTypeOK
<1>2. CASE (UserWrite \/ ItSide \/ UNCHANGED classes) /\ UNCHANGED <<classCache, clVars>>
  BY <1>1, <1>2 DEF ClSeenOK, clVars
<1>3. CASE SyncClasses
  BY <1>1, <1>3 DEF SyncClasses, Watched, Changed, ClassesTypeOK, ClSeenOK
<1>4. CASE ClReconcile \/ ClCallFails
  BY <1>4, ClTypes DEF RestTypeOK, WorkersOK
<1>5. CASE Restart
  BY <1>1, <1>5, IdleCalls DEF Restart, Watched, Living, ClassesTypeOK
<1>6. CASE Resync
  BY <1>1, <1>6 DEF Resync, Living, ClassesTypeOK, ClSeenOK
<1> QED BY <1>2, <1>3, <1>4, <1>5, <1>6, NextClasses DEF ClassesNext

LEMMA ItemQueueTyped ==
    ASSUME RestTypeOK, SidesTypeOK, [Next]_vars
    PROVE  itemQueue' \subseteq Items
<1> USE DEF itemStore, itVars
<1>1. itemQueue \subseteq Items /\ ItemsTypeOK /\ QueuesOK
  BY DEF RestTypeOK, QueuesOK, SidesTypeOK
<1>2. CASE UNCHANGED itemQueue
  BY <1>1, <1>2
<1>3. CASE SyncItems \/ Restart \/ Resync
  BY <1>1, <1>3 DEF SyncItems, Restart, Resync, Watched, Changed, Living, ItemsTypeOK
<1>4. CASE ItReconcile \/ ItCallFails
  BY <1>1, <1>4, ItTypes
<1>5. CASE Users \/ Kubernetes \/ SyncNamespaces \/ SyncStates \/ SyncClasses \/ SyncInstances
           \/ NsStep \/ StateStep \/ ClassStep \/ InstanceStep \/ UNCHANGED vars
  BY <1>2, <1>5
  DEF Users, Kubernetes, SyncNamespaces, SyncStates, SyncClasses, SyncInstances, NsStep,
      StateStep, ClassStep, InstanceStep, vars
<1>6. CASE ItemStep \/ Fault
  BY <1>2, <1>4, <1>6 DEF ItemStep, Fault
<1> QED BY <1>3, <1>5, <1>6 DEF Next

LEMMA NamespacesTyped ==
    ASSUME RestTypeOK, SidesTypeOK, [Next]_vars
    PROVE  NamespacesTypeOK' /\ NsCallOK' /\ nsQueue' \subseteq Namespaces
<1> USE DEF nsStore, nsVars
<1>1. NamespacesTypeOK /\ NsCallOK /\ nsQueue \subseteq Namespaces
  BY DEF RestTypeOK, StoresOK, WorkersOK, QueuesOK
<1>2. ASSUME UNCHANGED nsStore \/ (UNCHANGED namespaces /\ nsCache' = namespaces)
      PROVE  NamespacesTypeOK'
  BY <1>1, <1>2 DEF NamespacesTypeOK
<1>3. UNCHANGED nsVars => NsCallOK' /\ nsQueue' \subseteq Namespaces
  BY <1>1 DEF NsCallOK
<1>4. CASE Users
  <2>1. UNCHANGED nsCache /\ UNCHANGED nsVars
    BY <1>4 DEF Users
  <2>2. ASSUME NEW n \in Namespaces, NEW label \in Labels, Relabel(n, label)
        PROVE  NamespacesTypeOK'
    <3>1. namespaces[n] \in Slot(Namespace)
      BY <1>1 DEF NamespacesTypeOK
    <3> DEFINE obj == [namespaces[n].obj EXCEPT !.label = label]
    <3>2. obj \in Namespace
      BY <3>1 DEF Slot, Namespace
    <3>3. namespaces' = [namespaces EXCEPT ![n] = Updated(namespaces[n], obj)]
      BY <2>2 DEF Relabel
    <3> HIDE DEF obj
    <3>4. Updated(namespaces[n], obj) \in Slot(Namespace)
      BY <3>1, <3>2, SlotTypes
    <3> QED BY <1>1, <2>1, <3>3, <3>4 DEF NamespacesTypeOK
  <2>3. NamespacesTypeOK'
    BY <1>2, <1>4, <2>1, <2>2 DEF Users
  <2> QED BY <1>3, <2>1, <2>3
<1>5. CASE Kubernetes
  BY <1>2, <1>3, <1>5, Collects DEF Kubernetes, RestTypeOK
<1>6. CASE SyncNamespaces
  <2>1. nsQueue' \subseteq Namespaces
    BY <1>1, <1>6 DEF SyncNamespaces, Watched, Changed, NamespacesTypeOK
  <2> QED BY <1>1, <1>2, <1>6, <2>1 DEF SyncNamespaces, NsCallOK
<1>7. CASE SyncStates \/ SyncClasses \/ SyncItems \/ SyncInstances \/ StateStep \/ ClassStep
           \/ ItemStep \/ InstanceStep \/ UNCHANGED vars
  BY <1>2, <1>3, <1>7
  DEF SyncStates, SyncClasses, SyncItems, SyncInstances, StateStep, ClassStep, ItemStep,
      InstanceStep, vars, stores
<1>8. CASE NsStep \/ Fault
  <2>1. UNCHANGED nsStore
    BY <1>8 DEF NsStep, Fault
  <2>2. NsReconcile \/ NsCallFails \/ UNCHANGED nsVars
    BY <1>8 DEF NsStep, Fault
  <2>3. NsReconcile \/ NsCallFails => NsCallOK' /\ nsQueue' \subseteq Namespaces
    BY NsTypes DEF RestTypeOK, WorkersOK
  <2> QED BY <1>2, <1>3, <2>1, <2>2, <2>3
<1>9. CASE Restart
  <2>1. nsQueue' \subseteq Namespaces
    BY <1>1, <1>9 DEF Restart, Watched, Living, NamespacesTypeOK
  <2> QED BY <1>2, <1>9, <2>1, IdleCalls DEF Restart
<1>10. CASE Resync
  <2>1. nsQueue' \subseteq Namespaces
    BY <1>1, <1>10 DEF Resync, Living, NamespacesTypeOK
  <2>2. UNCHANGED <<namespaces, nsCache, nsWorker>>
    BY <1>10 DEF Resync, stores
  <2> QED BY <1>1, <1>2, <2>1, <2>2 DEF NsCallOK
<1> QED
  BY <1>4, <1>5, <1>6, <1>7, <1>8, <1>9, <1>10 DEF Next

LEMMA RestStep == RestTypeOK /\ SidesTypeOK /\ [Next]_vars => RestTypeOK'
<1> SUFFICES ASSUME RestTypeOK, SidesTypeOK, [Next]_vars PROVE RestTypeOK'
  OBVIOUS
<1>1. StoresOK'
  BY StatesTyped, InstancesTyped, NamespacesTyped DEF StoresOK
<1>2. WorkersOK'
  BY StatesTyped, InstancesTyped, NamespacesTyped, ClassesTyped DEF WorkersOK
<1>3. QueuesOK'
  BY StatesTyped, InstancesTyped, NamespacesTyped, ClassesTyped, ItemQueueTyped DEF QueuesOK
<1> QED BY <1>1, <1>2, <1>3 DEF RestTypeOK

-----------------------------------------------------------------------------
(***************************************************************************)
(* What there is at first                                                  *)
(***************************************************************************)
LEMMA FirstTypes ==
    ASSUME NEW start \in Starts, NEW n \in Namespaces
    PROVE  /\ First([terminating |-> FALSE, label |-> FirstLabel(n, start)]) \in Slot(Namespace)
           /\ FirstState(n, start) \in Slot(NamespaceState)
           /\ NamesClass(FirstState(n, start)) /\ Empty(FirstState(n, start), NoState)
           /\ ~FirstState(n, start).obj.classUpdated
           /\ \A i \in Items :
                 /\ FirstInstance(n, i, start) \in Slot(NamespaceItemInstance)
                 /\ Empty(FirstInstance(n, i, start), NoInstance)
                 /\ FirstInstance(n, i, start).obj.obs \in {0, 1}
                 /\ ~FirstInstance(n, i, start).obj.updated
           /\ \A r \in Resources : FirstResource(n, r, start) \in Slot(Resource)
<1>1. FirstLabel(n, start) \in Labels /\ LabelOf[n] \in Labels
  BY StartAssumption DEF FirstLabel, Labels
<1>2. First([terminating |-> FALSE, label |-> FirstLabel(n, start)]) \in Slot(Namespace)
  BY <1>1 DEF First, Slot, Namespace
<1>3. /\ FirstState(n, start) \in Slot(NamespaceState)
      /\ NamesClass(FirstState(n, start)) /\ Empty(FirstState(n, start), NoState)
      /\ ~FirstState(n, start).obj.classUpdated
  <2>1. CASE FirstLabel(n, start) = NoClass
    BY <2>1, VacantTypes DEF FirstState, NamesClass, Empty, Vacant, NoState
  <2>2. CASE FirstLabel(n, start) # NoClass
    <3> DEFINE obj == [owner |-> 1, class |-> LabelOf[n], pending |-> NoClass,
                       classUpdated |-> FALSE]
    <3>1. LabelOf[n] \in Classes
      BY <1>1, <2>2 DEF FirstLabel, Labels
    <3>2. obj \in NamespaceState /\ obj.class = LabelOf[n] /\ ~obj.classUpdated
      BY <3>1 DEF NamespaceState, Labels
    <3>3. FirstState(n, start) = First(obj)
      BY <2>2 DEF FirstState
    <3> HIDE DEF obj
    <3> QED BY <3>1, <3>2, <3>3 DEF First, Slot, NamesClass, Empty
  <2> QED BY <2>1, <2>2
<1>4. ASSUME NEW i \in Items
      PROVE  /\ FirstInstance(n, i, start) \in Slot(NamespaceItemInstance)
             /\ Empty(FirstInstance(n, i, start), NoInstance)
             /\ FirstInstance(n, i, start).obj.obs \in {0, 1}
             /\ ~FirstInstance(n, i, start).obj.updated
  <2>1. CASE i \in FirstInstalled(n, start)
    <3> DEFINE kind == KindOf(ResourceOf[FirstTemplate[i]])
               obj == [owner |-> 1, updated |-> FALSE, obs |-> 1, kind |-> kind]
    <3>1. FirstTemplate[i] \in Templates
      BY StartAssumption
    <3>2. kind \in Kinds
      BY <3>1, KindsAssumption DEF Resources
    <3> HIDE DEF kind
    <3>3. obj \in NamespaceItemInstance /\ obj.obs = 1 /\ ~obj.updated
      BY <3>2 DEF NamespaceItemInstance
    <3>4. FirstInstance(n, i, start) = First(obj)
      BY <2>1 DEF FirstInstance, kind
    <3> HIDE DEF obj
    <3> QED BY <3>3, <3>4 DEF First, Slot, Empty
  <2>2. CASE i \notin FirstInstalled(n, start)
    BY <2>2, VacantTypes DEF FirstInstance, Empty, Vacant, NoInstance
  <2> QED BY <2>1, <2>2
<1>5. ASSUME NEW r \in Resources
      PROVE  FirstResource(n, r, start) \in Slot(Resource)
  <2> DEFINE describing == {i \in FirstInstalled(n, start) : ResourceOf[FirstTemplate[i]] = r}
             i == CHOOSE j \in describing : TRUE
  <2>1. FirstInstalled(n, start) \subseteq Items
    <3>1. FirstLabel(n, start) # NoClass => LabelOf[n] \in Classes
      BY <1>1 DEF FirstLabel, Labels
    <3>2. \A c \in Classes : FirstItems[c] \in SUBSET Items
      BY StartAssumption
    <3> QED BY <3>1, <3>2 DEF FirstInstalled
  <2>2. CASE describing = {}
    BY <2>2, VacantTypes DEF FirstResource
  <2>3. CASE describing # {}
    <3>1. i \in describing
      BY <2>3
    <3>2. i \in Items /\ FirstTemplate[i] \in Templates
      BY <2>1, <3>1, StartAssumption
    <3>3. FirstResource(n, r, start)
            = First([from |-> i, owner |-> 1, template |-> FirstTemplate[i]])
      BY <2>3 DEF FirstResource
    <3> HIDE DEF i
    <3> QED BY <3>2, <3>3 DEF First, Slot, Resource
  <2> QED BY <2>2, <2>3
<1> QED BY <1>2, <1>3, <1>4, <1>5

LEMMA RestInit == Init => RestTypeOK
<1> SUFFICES ASSUME Init PROVE RestTypeOK
  OBVIOUS
<1>1. PICK start \in Starts :
        /\ namespaces = [n \in Namespaces |->
                            First([terminating |-> FALSE, label |-> FirstLabel(n, start)])]
        /\ states = [n \in Namespaces |-> FirstState(n, start)]
        /\ instances = [n \in Namespaces |-> [i \in Items |-> FirstInstance(n, i, start)]]
        /\ resources = [n \in Namespaces |-> [r \in Resources |-> FirstResource(n, r, start)]]
  BY DEF Init
<1>2. /\ nsCache = namespaces /\ stateCache = states /\ instCache = instances
      /\ nsQueue = {} /\ stateQueue = {} /\ classQueue = {} /\ itemQueue = {} /\ instQueue = {}
      /\ nsWorker = NsIdle /\ stateWorker = StIdle /\ classWorker = ClIdle
      /\ instWorker = InIdle
  BY DEF Init
<1>3. NamespacesTypeOK /\ StatesTypeOK
  BY <1>1, <1>2, FirstTypes DEF NamespacesTypeOK, StatesTypeOK
<1>4. InstancesTypeOK /\ ResourcesTypeOK
  BY <1>1, <1>2, FirstTypes DEF InstancesTypeOK, ResourcesTypeOK
<1>5. WorkersOK
  BY <1>2, IdleTypes, SeenTypes DEF WorkersOK, NsCallOK, StCallOK, ClSeenOK
<1>6. QueuesOK
  BY <1>2 DEF QueuesOK
<1> QED BY <1>3, <1>4, <1>5, <1>6 DEF RestTypeOK, StoresOK

\* Every queue, every worker and every copy hold what they should, whatever else happens.
LEMMA TypedHolds == Spec => [](IInv /\ RestTypeOK)
<1>1. IInv /\ RestTypeOK /\ [Next]_vars => RestTypeOK'
  BY RestStep DEF IInv
<1> QED BY <1>1, RestInit, IInvHolds, PTL DEF Spec

-----------------------------------------------------------------------------
(***************************************************************************)
(* What becomes of a class and of an item                                  *)
(***************************************************************************)
\* A class is deleted for good, or goes on with the same UID and never comes back from
\* being deleted, or is created.
ClassTurn(old, new) ==
    \/ new = old
    \/ ~new.live /\ new.obj = NoClassObject /\ new.uid = old.uid
    \/ /\ old.live /\ new.live /\ new.uid = old.uid
       /\ old.obj.deleting => new.obj.deleting
       /\ WebhooksEnabled /\ old.obj.items # {} => new.obj.items # {}
    \/ /\ ~old.live /\ new.live /\ new.uid = old.uid + 1 /\ old.uid < MaxLives
       /\ WebhooksEnabled => new.obj.items # {}

LEMMA ClassReplaced ==
    ASSUME ClassesTypeOK, NEW c \in Classes, NEW new, ClassTurn(classes[c], new),
           classes' = [classes EXCEPT ![c] = new]
    PROVE  \A d \in Classes : ClassTurn(classes[d], classes'[d])
<1>1. classes'[c] = new /\ \A d \in Classes \ {c} : classes'[d] = classes[d]
  BY DEF ClassesTypeOK
<1>2. \A d \in Classes : ClassTurn(classes[d], classes[d])
  BY DEF ClassTurn
<1> QED BY <1>1, <1>2

LEMMA ClassUpdated ==
    ASSUME NEW old \in Slot(NamespaceClass), old.live, NEW obj \in NamespaceClass,
           old.obj.deleting => obj.deleting,
           WebhooksEnabled /\ old.obj.items # {} => obj.items # {}
    PROVE  ClassTurn(old, Updated(old, obj))
BY DEF ClassTurn, Updated

LEMMA ClassDeleted ==
    ASSUME NEW old \in Slot(NamespaceClass)
    PROVE  ClassTurn(old, Deleted(old, NoClassObject))
BY DEF ClassTurn, Deleted

LEMMA UserTurns ==
    ASSUME SidesTypeOK, UserWrite
    PROVE  \A c \in Classes : ClassTurn(classes[c], classes'[c])
<1> DEFINE Goal == \A c \in Classes : ClassTurn(classes[c], classes'[c])
<1>1. ClassesTypeOK /\ \A c \in Classes : classes[c] \in Slot(NamespaceClass)
  BY Slots DEF SidesTypeOK
<1>2. ASSUME UNCHANGED classes PROVE Goal
  BY <1>2 DEF ClassTurn
<1>3. ASSUME NEW c \in Classes, NEW set \in SUBSET Items, CreateClass(c, set)
      PROVE  Goal
  <2> DEFINE obj == [items |-> set, finalizer |-> FALSE, deleting |-> FALSE,
                     itemUpdated |-> FALSE]
             new == Created(classes[c], obj)
  <2>1. /\ ~classes[c].live /\ classes[c].uid < MaxLives /\ AdmitsClass(set)
        /\ classes' = [classes EXCEPT ![c] = new]
    BY <1>3 DEF CreateClass
  <2>2. obj.items = set
    OBVIOUS
  <2> HIDE DEF obj
  <2>3. new.live /\ new.uid = classes[c].uid + 1 /\ new.obj = obj
    BY DEF Created
  <2> HIDE DEF new
  <2>4. ClassTurn(classes[c], new)
    BY <2>1, <2>2, <2>3 DEF ClassTurn, AdmitsClass
  <2> QED BY <1>1, <2>1, <2>4, ClassReplaced
<1>4. ASSUME NEW c \in Classes, NEW set \in SUBSET Items, EditClass(c, set)
      PROVE  Goal
  <2> DEFINE old == classes[c].obj
             obj == [old EXCEPT !.items = set]
  <2>1. /\ classes[c].live /\ AdmitsClass(set)
        /\ classes' = [classes EXCEPT ![c] = Updated(classes[c], obj)]
    BY <1>4 DEF EditClass
  <2>2. old \in NamespaceClass
    BY <1>1 DEF Slot
  <2>3. obj \in NamespaceClass /\ obj.items = set /\ obj.deleting = old.deleting
    BY <2>2 DEF NamespaceClass
  <2>4. WebhooksEnabled => obj.items # {}
    BY <2>1, <2>3 DEF AdmitsClass
  <2> HIDE DEF obj
  <2>5. ClassTurn(classes[c], Updated(classes[c], obj))
    BY <1>1, <2>1, <2>3, <2>4, ClassUpdated
  <2> QED BY <1>1, <2>1, <2>5, ClassReplaced
<1>5. ASSUME NEW c \in Classes, DeleteClass(c)
      PROVE  Goal
  <2>1. CASE classes[c].obj.finalizer
    <3> DEFINE old == classes[c].obj
               obj == [old EXCEPT !.deleting = TRUE]
    <3>1. /\ classes[c].live
          /\ classes' = [classes EXCEPT ![c] = Updated(classes[c], obj)]
      BY <1>5, <2>1 DEF DeleteClass
    <3>2. old \in NamespaceClass
      BY <1>1 DEF Slot
    <3>3. obj \in NamespaceClass /\ obj.items = old.items /\ obj.deleting
      BY <3>2 DEF NamespaceClass
    <3> HIDE DEF obj
    <3>4. ClassTurn(classes[c], Updated(classes[c], obj))
      BY <1>1, <3>1, <3>3, ClassUpdated
    <3> QED BY <1>1, <3>1, <3>4, ClassReplaced
  <2>2. CASE ~classes[c].obj.finalizer
    <3>1. classes' = [classes EXCEPT ![c] = Deleted(classes[c], NoClassObject)]
      BY <1>5, <2>2 DEF DeleteClass
    <3>2. ClassTurn(classes[c], Deleted(classes[c], NoClassObject))
      BY <1>1, ClassDeleted
    <3> QED BY <1>1, <3>1, <3>2, ClassReplaced
  <2> QED BY <2>1, <2>2
<1>6. CASE \E i \in Items : \/ \E t \in Templates : CreateItem(i, t) \/ EditItem(i, t)
                            \/ DeleteItem(i)
  BY <1>2, <1>6 DEF CreateItem, EditItem, DeleteItem
<1> QED BY <1>3, <1>4, <1>5, <1>6 DEF UserWrite

LEMMA ItTurns ==
    ASSUME SidesTypeOK, ItemWorkerSound, ItSide
    PROVE  \A c \in Classes : ClassTurn(classes[c], classes'[c])
<1> DEFINE w == itemWorker
           c == w.at
           obj == WithTrigger(w.class.obj)
<1>1. ClassesTypeOK /\ \A d \in Classes : classes[d] \in Slot(NamespaceClass)
  BY Slots DEF SidesTypeOK
<1>2. CASE UNCHANGED classes
  BY <1>2 DEF ClassTurn
<1>3. CASE ItAnnotateClass
  <2>1. /\ c \in Classes /\ w.class \in Slot(NamespaceClass) /\ w.class.obj \in NamespaceClass
    BY ItemCall
  <2>2. /\ w.pc = "annotate" /\ SameVersion(classes[c], w.class)
        /\ classes' = [classes EXCEPT ![c] = Updated(classes[c], obj)]
    BY <1>3 DEF ItAnnotateClass, ItMayUpdate
  <2>3. classes[c].live /\ classes[c].obj = w.class.obj
    BY <1>1, <2>1, <2>2 DEF ItemWorkerSound, SameVersion, Fresh, Slot
  <2>4. /\ obj \in NamespaceClass /\ obj.items = w.class.obj.items
        /\ obj.deleting = w.class.obj.deleting
    BY <2>1 DEF WithTrigger, NamespaceClass
  <2> HIDE DEF obj
  <2>5. ClassTurn(classes[c], Updated(classes[c], obj))
    BY <1>1, <2>1, <2>3, <2>4, ClassUpdated
  <2> QED BY <1>1, <2>1, <2>2, <2>5, ClassReplaced
<1> QED
  BY <1>2, <1>3
  DEF ItSide, ItReconcile, ItGetItem, ItObserve, ItRefetch, ItGetClass, ItAnnounced, ItRejected

LEMMA ClTurns ==
    ASSUME SidesTypeOK, ClassWorkerSound, ClReconcile
    PROVE  \A c \in Classes : ClassTurn(classes[c], classes'[c])
<1> DEFINE w == classWorker
           c == w.key
<1>1. /\ ClassesTypeOK /\ \A d \in Classes : classes[d] \in Slot(NamespaceClass)
      /\ c \in Classes /\ w.class \in Slot(NamespaceClass) /\ w.class.obj \in NamespaceClass
  BY Slots, ClassCall DEF SidesTypeOK
<1>2. CASE UNCHANGED classes
  BY <1>2 DEF ClassTurn
<1>3. ASSUME w.pc # "idle", ClMayUpdate, NEW obj \in NamespaceClass,
             obj.items = w.class.obj.items, obj.deleting = w.class.obj.deleting,
             classes' = [classes EXCEPT ![c] = Updated(classes[c], obj)]
      PROVE  \A d \in Classes : ClassTurn(classes[d], classes'[d])
  <2>1. classes[c].live /\ classes[c].obj = w.class.obj
    BY <1>1, <1>3 DEF ClassWorkerSound, ClMayUpdate, SameVersion, Fresh, Slot
  <2>2. ClassTurn(classes[c], Updated(classes[c], obj))
    BY <1>1, <1>3, <2>1, ClassUpdated
  <2> QED BY <1>1, <1>3, <2>2, ClassReplaced
<1>4. CASE ClAddFinalizer
  <2> DEFINE obj == WithFinalizer(w.class.obj)
  <2>1. /\ obj \in NamespaceClass /\ obj.items = w.class.obj.items
        /\ obj.deleting = w.class.obj.deleting
    BY <1>1 DEF WithFinalizer, NamespaceClass
  <2>2. /\ w.pc # "idle" /\ ClMayUpdate
        /\ classes' = [classes EXCEPT ![c] = Updated(classes[c], obj)]
    BY <1>4 DEF ClAddFinalizer
  <2> HIDE DEF obj
  <2> QED BY <1>3, <2>1, <2>2
<1>5. CASE ClRemoveTrigger
  <2> DEFINE obj == WithoutTrigger(w.class.obj)
  <2>1. /\ obj \in NamespaceClass /\ obj.items = w.class.obj.items
        /\ obj.deleting = w.class.obj.deleting
    BY <1>1 DEF WithoutTrigger, NamespaceClass
  <2>2. /\ w.pc # "idle" /\ ClMayUpdate
        /\ classes' = [classes EXCEPT ![c] = Updated(classes[c], obj)]
    BY <1>5 DEF ClRemoveTrigger
  <2> HIDE DEF obj
  <2> QED BY <1>3, <2>1, <2>2
<1>6. CASE ClRemoveFinalizer
  <2>1. classes' = [classes EXCEPT ![c] = Deleted(classes[c], NoClassObject)]
    BY <1>6 DEF ClRemoveFinalizer
  <2>2. ClassTurn(classes[c], Deleted(classes[c], NoClassObject))
    BY <1>1, ClassDeleted
  <2> QED BY <1>1, <2>1, <2>2, ClassReplaced
<1> QED
  BY <1>2, <1>4, <1>5, <1>6
  DEF ClReconcile, ClGetClass, ClListStates, ClAnnotateState, ClGetItem, ClAddRef, ClDropRef,
      ClWriteRefs, ClNoTrigger, ClRejected

LEMMA ClassesTurn ==
    ASSUME IInv, [Next]_vars
    PROVE  \A c \in Classes : /\ Later(classes[c], classes'[c])
                              /\ ClassTurn(classes[c], classes'[c])
<1>1. SidesTypeOK /\ StoresSound /\ ClassWorkerSound /\ ItemWorkerSound
  BY Parts DEF IInv
<1>2. CASE UserWrite
  BY <1>1, <1>2, UserTypes, UserTurns DEF ClassGoesOn
<1>3. CASE Sync \/ GivenUp \/ UNCHANGED sideVars
  BY <1>3 DEF Sync, GivenUp, sideVars, Later, ClassTurn
<1>4. CASE ItSide
  BY <1>1, <1>4, ItSideDone, ItTurns DEF ItDone, ClassGoesOn
<1>5. CASE ClSide
  BY <1>1, <1>5, ClSideDone, ClTurns DEF ClDone, ClSide
<1> QED BY <1>2, <1>3, <1>4, <1>5, NextSides

\* Nothing lets users delete an item, and all items are there.
LeftOK == left \in StartRecord /\ "deleteItem" \notin left.acts

ItemsLive == \A i \in Items : items[i].live /\ itemCache[i].live

\* What users may do at all is settled at the start.
LEMMA ActsStay ==
    ASSUME left \in StartRecord, [Next]_vars
    PROVE  left' \in StartRecord /\ left'.acts = left.acts
<1>1. CASE Users
  BY <1>1 DEF Users, StartRecord
<1>2. CASE Fault
  BY <1>2 DEF Fault, StartRecord
<1>3. CASE Restart
  BY <1>3 DEF Restart, StartRecord
<1>4. CASE Resync
  BY <1>4 DEF Resync, StartRecord
<1>5. CASE UNCHANGED left
  BY <1>5
<1> QED
  BY <1>1, <1>2, <1>3, <1>4, <1>5
  DEF Next, vars, boundVars, Kubernetes, SyncNamespaces, SyncStates, SyncClasses, SyncItems,
      SyncInstances, NsStep, StateStep, ClassStep, ItemStep, InstanceStep

LEMMA LeftStep == LeftOK /\ [Next]_vars => LeftOK'
BY ActsStay DEF LeftOK

\* An item only goes on: its generations grow, its status does not get ahead of them.
ItemTurn(old, new) ==
    /\ new.live
    /\ old.obj.gen <= new.obj.gen
    /\ old.obj.obs <= old.obj.gen => new.obj.obs <= new.obj.gen

LEMMA ItemTurns ==
    ASSUME NEW old \in Slot(NamespaceClassItem), old.live, NEW obj \in NamespaceClassItem,
           old.obj.gen <= obj.gen,
           old.obj.obs <= old.obj.gen => obj.obs <= obj.gen
    PROVE  ItemTurn(old, Updated(old, obj))
BY SlotHolds, UpdatedLives DEF ItemTurn

LEMMA ItemReplaced ==
    ASSUME ItemsTypeOK, ItemsLive, NEW i \in Items, NEW new, ItemTurn(items[i], new),
           items' = [items EXCEPT ![i] = new]
    PROVE  /\ \A j \in Items : ItemTurn(items[j], items'[j])
           /\ items'[i] = new /\ \A j \in Items \ {i} : items'[j] = items[j]
<1>1. items'[i] = new /\ \A j \in Items \ {i} : items'[j] = items[j]
  BY DEF ItemsTypeOK
<1>2. \A j \in Items : ItemTurn(items[j], items[j])
  BY DEF ItemTurn, ItemsLive, ItemsTypeOK, Slot, NamespaceClassItem
<1> QED BY <1>1, <1>2

\* The lists of classes change only by the class reconciler's hand.
RefsTurn(i) ==
    LET w == classWorker
    IN  \/ items'[i].obj.refs = items[i].obj.refs
        \/ /\ ClAddRef /\ i = w.at
           /\ items'[i].obj.refs = items[i].obj.refs \cup {w.key}
        \/ /\ ClDropRef /\ i = w.at
           /\ items'[i].obj.refs = items[i].obj.refs \ {w.key}

ItemsGoOn ==
    \A i \in Items : ItemTurn(items[i], items'[i]) /\ RefsTurn(i)

LEMMA ItemsRest ==
    ASSUME ItemsTypeOK, ItemsLive, UNCHANGED items
    PROVE  ItemsGoOn
BY DEF ItemsGoOn, ItemTurn, RefsTurn, ItemsLive, ItemsTypeOK, Slot, NamespaceClassItem

LEMMA ClItemsTurn ==
    ASSUME SidesTypeOK, ClassWorkerSound, ItemsLive, ClReconcile
    PROVE  ItemsGoOn
<1> DEFINE w == classWorker
           i == classWorker.at
<1>1. /\ ItemsTypeOK /\ i \in Items /\ items[i] \in Slot(NamespaceClassItem)
      /\ w.item \in Slot(NamespaceClassItem) /\ w.item.obj \in NamespaceClassItem
      /\ w.key \in Classes /\ w.item.obj.refs \in SUBSET Classes
  BY Slots, ClassCall DEF SidesTypeOK
<1>2. ASSUME NEW refs \in SUBSET Classes, w.pc \in {"addRef", "dropRef"},
             SameVersion(items[i], w.item),
             items' = [items EXCEPT ![i] = Updated(items[i], WithRefs(w.item.obj, refs))]
      PROVE  /\ \A j \in Items : ItemTurn(items[j], items'[j])
             /\ items'[i].obj.refs = refs
             /\ items[i].obj.refs = w.item.obj.refs
             /\ \A j \in Items \ {i} : items'[j] = items[j]
  <2> DEFINE obj == WithRefs(w.item.obj, refs)
  <2>1. items[i].live /\ items[i] = w.item
    BY <1>1, <1>2 DEF ClassWorkerSound, SameVersion, Fresh, Slot
  <2>2. /\ obj \in NamespaceClassItem /\ obj.refs = refs
        /\ obj.gen = w.item.obj.gen /\ obj.obs = w.item.obj.obs
    BY <1>1 DEF WithRefs, NamespaceClassItem
  <2>3. obj.gen \in Nat
    BY <2>2 DEF NamespaceClassItem
  <2> HIDE DEF obj
  <2>4. ItemTurn(items[i], Updated(items[i], obj))
    BY <1>1, <2>1, <2>2, <2>3, ItemTurns
  <2>5. items' = [items EXCEPT ![i] = Updated(items[i], obj)]
    BY <1>2 DEF obj
  <2>6. /\ \A j \in Items : ItemTurn(items[j], items'[j])
        /\ items'[i] = Updated(items[i], obj)
        /\ \A j \in Items \ {i} : items'[j] = items[j]
    BY <1>1, <2>4, <2>5, ItemReplaced
  <2>7. Updated(items[i], obj).obj = obj
    BY <1>1, <2>2, SlotHolds
  <2> QED BY <2>1, <2>2, <2>6, <2>7
<1>3. CASE ClAddRef
  <2> DEFINE refs == w.item.obj.refs \cup {w.key}
  <2>1. /\ refs \in SUBSET Classes /\ w.pc = "addRef" /\ SameVersion(items[i], w.item)
        /\ items' = [items EXCEPT ![i] = Updated(items[i], WithRefs(w.item.obj, refs))]
    BY <1>1, <1>3 DEF ClAddRef, ClWriteRefs
  <2> HIDE DEF refs
  <2>2. /\ \A j \in Items : ItemTurn(items[j], items'[j])
        /\ items'[i].obj.refs = refs
        /\ items[i].obj.refs = w.item.obj.refs
        /\ \A j \in Items \ {i} : items'[j] = items[j]
    BY <1>2, <2>1
  <2> QED BY <1>3, <2>2 DEF refs, ItemsGoOn, RefsTurn
<1>4. CASE ClDropRef
  <2> DEFINE refs == w.item.obj.refs \ {w.key}
  <2>1. /\ refs \in SUBSET Classes /\ w.pc = "dropRef" /\ SameVersion(items[i], w.item)
        /\ items' = [items EXCEPT ![i] = Updated(items[i], WithRefs(w.item.obj, refs))]
    BY <1>1, <1>4 DEF ClDropRef, ClWriteRefs
  <2> HIDE DEF refs
  <2>2. /\ \A j \in Items : ItemTurn(items[j], items'[j])
        /\ items'[i].obj.refs = refs
        /\ items[i].obj.refs = w.item.obj.refs
        /\ \A j \in Items \ {i} : items'[j] = items[j]
    BY <1>2, <2>1
  <2> QED BY <1>4, <2>2 DEF refs, ItemsGoOn, RefsTurn
<1>5. CASE UNCHANGED items
  BY <1>1, <1>5, ItemsRest
<1> QED
  BY <1>3, <1>4, <1>5
  DEF ClReconcile, ClGetClass, ClAddFinalizer, ClListStates, ClAnnotateState, ClGetItem,
      ClRemoveTrigger, ClNoTrigger, ClRemoveFinalizer, ClRejected

LEMMA ItItemsTurn ==
    ASSUME SidesTypeOK, ItemWorkerSound, ItemsLive, ItReconcile
    PROVE  ItemsGoOn
<1> DEFINE w == itemWorker
           i == itemWorker.key
           obj == Observed(w.item.obj)
<1>1. /\ ItemsTypeOK /\ i \in Items /\ items[i] \in Slot(NamespaceClassItem)
      /\ w.item \in Slot(NamespaceClassItem) /\ w.item.obj \in NamespaceClassItem
  BY Slots, ItemCall DEF SidesTypeOK
<1>2. CASE ItObserve
  <2>1. /\ w.pc = "observe" /\ SameVersion(items[i], w.item)
        /\ items' = [items EXCEPT ![i] = Updated(items[i], obj)]
    BY <1>2 DEF ItObserve
  <2>2. items[i].live /\ items[i] = w.item
    BY <1>1, <2>1 DEF ItemWorkerSound, SameVersion, Fresh, Slot
  <2>3. /\ obj \in NamespaceClassItem /\ obj.refs = w.item.obj.refs
        /\ obj.gen = w.item.obj.gen /\ obj.obs = obj.gen
    BY <1>1 DEF Observed, NamespaceClassItem
  <2>4. obj.gen \in Nat
    BY <2>3 DEF NamespaceClassItem
  <2> HIDE DEF obj
  <2>5. ItemTurn(items[i], Updated(items[i], obj)) /\ Updated(items[i], obj).obj = obj
    BY <1>1, <2>2, <2>3, <2>4, ItemTurns, SlotHolds
  <2>6. /\ \A j \in Items : ItemTurn(items[j], items'[j])
        /\ items'[i] = Updated(items[i], obj)
        /\ \A j \in Items \ {i} : items'[j] = items[j]
    BY <1>1, <2>1, <2>5, ItemReplaced
  <2> QED BY <2>2, <2>3, <2>5, <2>6 DEF ItemsGoOn, RefsTurn
<1>3. CASE UNCHANGED items
  BY <1>1, <1>3, ItemsRest
<1> QED
  BY <1>2, <1>3
  DEF ItReconcile, ItGetItem, ItRefetch, ItGetClass, ItAnnotateClass, ItAnnounced, ItRejected

LEMMA UserItemsTurn ==
    ASSUME SidesTypeOK, LeftOK, ItemsLive, Users
    PROVE  ItemsGoOn
<1>1. ItemsTypeOK /\ \A i \in Items : items[i] \in Slot(NamespaceClassItem)
  BY Slots DEF SidesTypeOK
<1>2. CASE UNCHANGED items
  BY <1>1, <1>2, ItemsRest
<1>3. ASSUME NEW i \in Items, NEW t \in Templates, EditItem(i, t)
      PROVE  ItemsGoOn
  <2> DEFINE old == items[i].obj
             obj == [gen |-> old.gen + 1, template |-> t, obs |-> old.obs, refs |-> old.refs]
  <2>1. old \in NamespaceClassItem
    BY <1>1 DEF Slot
  <2>2. /\ obj \in NamespaceClassItem /\ obj.refs = old.refs /\ old.gen <= obj.gen
        /\ old.obs <= old.gen => obj.obs <= obj.gen
    BY <2>1 DEF NamespaceClassItem
  <2>3. items[i].live /\ items' = [items EXCEPT ![i] = Updated(items[i], obj)]
    BY <1>3 DEF EditItem
  <2> HIDE DEF obj
  <2>4. ItemTurn(items[i], Updated(items[i], obj)) /\ Updated(items[i], obj).obj = obj
    BY <1>1, <2>2, <2>3, ItemTurns, SlotHolds
  <2>5. /\ \A j \in Items : ItemTurn(items[j], items'[j])
        /\ items'[i] = Updated(items[i], obj)
        /\ \A j \in Items \ {i} : items'[j] = items[j]
    BY <1>1, <2>3, <2>4, ItemReplaced
  <2> QED BY <2>2, <2>4, <2>5 DEF ItemsGoOn, RefsTurn
<1>4. \A i \in Items, t \in Templates : ~CreateItem(i, t)
  BY DEF CreateItem, ItemsLive
<1>5. ~May("deleteItem")
  BY DEF May, LeftOK
<1>6. UNCHANGED items \/ \E i \in Items, t \in Templates : EditItem(i, t)
  BY <1>4, <1>5 DEF Users, CreateClass, EditClass, DeleteClass
<1> QED BY <1>2, <1>3, <1>6

LEMMA ItemsStep ==
    ASSUME IInv, LeftOK, ItemsLive, [Next]_vars
    PROVE  ItemsGoOn /\ ItemsLive'
<1> USE DEF itemStore
<1>1. /\ SidesTypeOK /\ ItemsTypeOK /\ StoresSound /\ ClassWorkerSound /\ ItemWorkerSound
  BY Parts DEF IInv, SidesTypeOK
<1>2. Users => ItemsGoOn
  BY <1>1, UserItemsTurn
<1>3. ClassStep => ItemsGoOn
  BY <1>1, ClItemsTurn DEF ClassStep
<1>4. ItemStep => ItemsGoOn
  BY <1>1, ItItemsTurn DEF ItemStep
<1>5. UNCHANGED items => ItemsGoOn
  BY <1>1, ItemsRest
<1>6. ItemsGoOn
  BY <1>2, <1>3, <1>4, <1>5
  DEF Next, vars, stores, Kubernetes, SyncNamespaces, SyncStates, SyncClasses, SyncItems,
      SyncInstances, NsStep, StateStep, InstanceStep, Restart, Resync, Fault, ClCallFails,
      ItCallFails
<1>7. itemCache' \in {itemCache, items}
  BY DEF Next, vars, stores, Users, Kubernetes, SyncNamespaces, SyncStates, SyncClasses,
     SyncItems, SyncInstances, NsStep, StateStep, ClassStep, ItemStep, InstanceStep, Restart,
     Resync, Fault
<1> QED BY <1>6, <1>7 DEF ItemsGoOn, ItemTurn, ItemsLive

-----------------------------------------------------------------------------
(***************************************************************************)
(* No status is ahead of the generations there have been                   *)
(***************************************************************************)
\* Every generation that is in a status, in a copy or in a worker's hand has been one of
\* the item's.
GensOK ==
    /\ \A i \in Items : /\ items[i].obj.obs <= items[i].obj.gen
                        /\ itemCache[i].obj.gen <= items[i].obj.gen
                        /\ stateWorker.seen[i].obj.obs <= items[i].obj.gen
    /\ \A n \in Namespaces, i \in Items :
          /\ instances[n][i].obj.obs <= items[i].obj.gen
          /\ instCache[n][i].obj.obs <= items[i].obj.gen
    /\ instWorker.inst.obj.obs <= items[instWorker.key].obj.gen
    /\ instWorker.item.obj.gen <= items[instWorker.key].obj.gen

LEMMA Generations ==
    ASSUME RestTypeOK, SidesTypeOK
    PROVE  /\ \A i \in Items : /\ items[i].obj.gen \in Nat /\ items[i].obj.obs \in Nat
                               /\ itemCache[i].obj.gen \in Nat
                               /\ stateWorker.seen[i].obj.obs \in Nat
           /\ \A n \in Namespaces, i \in Items :
                 instances[n][i].obj.obs \in Nat /\ instCache[n][i].obj.obs \in Nat
           /\ instWorker.inst.obj.obs \in Nat /\ instWorker.item.obj.gen \in Nat
           /\ instWorker.ns \in Namespaces /\ instWorker.key \in Items
<1>1. /\ \A i \in Items : /\ items[i] \in Slot(NamespaceClassItem)
                          /\ itemCache[i] \in Slot(NamespaceClassItem)
                          /\ stateWorker.seen[i] \in Slot(NamespaceItemInstance)
      /\ \A n \in Namespaces, i \in Items :
            /\ instances[n][i] \in Slot(NamespaceItemInstance)
            /\ instCache[n][i] \in Slot(NamespaceItemInstance)
      /\ instWorker.inst \in Slot(NamespaceItemInstance)
      /\ instWorker.item \in Slot(NamespaceClassItem)
      /\ instWorker.ns \in Namespaces /\ instWorker.key \in Items
  BY Slots, StCallTypes, TargetTypes DEF RestTypeOK, StoresOK, WorkersOK, InstancesTypeOK
<1> QED BY <1>1 DEF Slot, NamespaceClassItem, NamespaceItemInstance

\* What holds of the generations there have been holds of those to come.
LEMMA GensGrow ==
    ASSUME RestTypeOK, SidesTypeOK, RestTypeOK', SidesTypeOK', GensOK, ItemsGoOn,
           \A i \in Items : itemCache'[i].obj.gen <= items[i].obj.gen \/ itemCache'[i] = items'[i],
           \A i \in Items : stateWorker'.seen[i].obj.obs <= items[i].obj.gen,
           \A n \in Namespaces, i \in Items :
               /\ instances'[n][i].obj.obs <= items[i].obj.gen
               /\ instCache'[n][i].obj.obs <= items[i].obj.gen,
           instWorker'.inst.obj.obs <= items[instWorker'.key].obj.gen,
           instWorker'.item.obj.gen <= items[instWorker'.key].obj.gen
    PROVE  GensOK'
<1>1. \A i \in Items : /\ items[i].obj.gen \in Nat /\ items'[i].obj.gen \in Nat
                       /\ items[i].obj.gen <= items'[i].obj.gen
                       /\ items'[i].obj.obs <= items'[i].obj.gen
  BY Generations DEF ItemsGoOn, ItemTurn, SidesTypeOK, ItemsTypeOK, Slot, NamespaceClassItem,
                     GensOK
<1>2. \A obs \in Nat, i \in Items : obs <= items[i].obj.gen => obs <= items'[i].obj.gen
  BY <1>1
<1>3. \A i \in Items : itemCache'[i].obj.gen \in Nat /\ stateWorker'.seen[i].obj.obs \in Nat
  <2>1. \A i \in Items : itemCache'[i] \in Slot(NamespaceClassItem)
    BY DEF SidesTypeOK, ItemsTypeOK
  <2>2. stateWorker'.seen \in [Items -> Slot(NamespaceItemInstance)]
    BY DEF RestTypeOK, WorkersOK, StCallOK, StCall
  <2> QED BY <2>1, <2>2 DEF Slot, NamespaceClassItem, NamespaceItemInstance
<1>4. \A n \in Namespaces, i \in Items :
          instances'[n][i].obj.obs \in Nat /\ instCache'[n][i].obj.obs \in Nat
  BY DEF RestTypeOK, StoresOK, InstancesTypeOK, Slot, NamespaceItemInstance
<1>5. /\ instWorker'.inst.obj.obs \in Nat /\ instWorker'.item.obj.gen \in Nat
      /\ instWorker'.key \in Items
  BY DEF RestTypeOK, WorkersOK, InCall, Slot, NamespaceClassItem, NamespaceItemInstance
<1>6. \A i \in Items : itemCache'[i].obj.gen <= items'[i].obj.gen
  BY <1>1, <1>2, <1>3
<1> QED BY <1>1, <1>2, <1>3, <1>4, <1>5, <1>6 DEF GensOK

LEMMA OneInstance ==
    ASSUME InstancesTypeOK, GensOK, NEW n \in Namespaces, NEW i \in Items, NEW new,
           new.obj.obs <= items[i].obj.gen,
           instances' = [instances EXCEPT ![n][i] = new]
    PROVE  \A m \in Namespaces, j \in Items : instances'[m][j].obj.obs <= items[j].obj.gen
<1>1. /\ instances'[n][i] = new
      /\ \A m \in Namespaces, j \in Items :
            m # n \/ j # i => instances'[m][j] = instances[m][j]
  BY DEF InstancesTypeOK
<1> QED BY <1>1 DEF GensOK

LEMMA EmptyInstance ==
    ASSUME NEW old
    PROVE  Deleted(old, NoInstance).obj.obs = 0
BY DEF Deleted, NoInstance

LEMMA StGens ==
    ASSUME RestTypeOK, SidesTypeOK, GensOK, StReconcile
    PROVE  /\ \A n \in Namespaces, i \in Items :
                 instances'[n][i].obj.obs <= items[i].obj.gen
           /\ \A i \in Items : stateWorker'.seen[i].obj.obs <= items[i].obj.gen
<1> DEFINE w == stateWorker
           n == stateWorker.key
           Seen == \A i \in Items : stateWorker'.seen[i].obj.obs <= items[i].obj.gen
           There == \A m \in Namespaces, i \in Items :
                       instances'[m][i].obj.obs <= items[i].obj.gen
<1>1. /\ n \in Namespaces /\ w \in StCall /\ InstancesTypeOK
      /\ w.seen \in [Items -> Slot(NamespaceItemInstance)]
      /\ \A i \in Items : instances[n][i] \in Slot(NamespaceItemInstance)
      /\ \A i \in Items : items[i].obj.gen \in Nat
  BY StCallTypes, Generations DEF RestTypeOK, WorkersOK, StoresOK, InstancesTypeOK
<1>2. UNCHANGED instances => There
  BY DEF GensOK
<1>3. stateWorker'.seen = w.seen => Seen
  BY DEF GensOK
<1>4. stateWorker'.seen = NothingSeen => Seen
  BY <1>1 DEF NothingSeen, Vacant, NoInstance
<1>5. StIdle.seen = NothingSeen
  BY DEF StIdle
<1>6. CASE \E m \in Namespaces : StGetState(m)
  BY <1>2, <1>4, <1>5, <1>6 DEF StGetState
<1>7. CASE StGetClass
  BY <1>2, <1>4, <1>7 DEF StGetClass
<1>8. CASE StListInstances
  <2>1. stateWorker'.seen = instCache[n] /\ UNCHANGED instances
    BY <1>8 DEF StListInstances
  <2>2. Seen
    BY <1>1, <2>1 DEF GensOK
  <2> QED BY <1>2, <2>1, <2>2
<1>9. ASSUME NEW i \in Items,
             StAnnotateInstance(i) \/ StCreateInstance(i) \/ StDeleteInstance(i)
      PROVE  There /\ Seen
  <2>1. stateWorker'.seen = w.seen
    BY <1>1, <1>9 DEF StAnnotateInstance, StCreateInstance, StDeleteInstance, StCall
  <2>2. CASE StAnnotateInstance(i)
    <3> DEFINE obj == Touched(w.seen[i].obj)
               new == Updated(instances[n][i], obj)
    <3>1. obj \in NamespaceItemInstance /\ obj.obs = w.seen[i].obj.obs
      BY <1>1 DEF Touched, Slot, NamespaceItemInstance
    <3>2. instances' = [instances EXCEPT ![n][i] = new]
      BY <2>2 DEF StAnnotateInstance
    <3> HIDE DEF obj
    <3>3. new.obj = obj
      BY <1>1, <3>1, SlotHolds
    <3> HIDE DEF new
    <3>4. new.obj.obs <= items[i].obj.gen
      BY <3>1, <3>3 DEF GensOK
    <3> QED BY <1>1, <1>3, <2>1, <3>2, <3>4, OneInstance
  <2>3. CASE StCreateInstance(i)
    <3> DEFINE obj == NewInstance(w.state)
               new == Created(instances[n][i], obj)
    <3>1. new.obj.obs = 0
      BY DEF NewInstance, Created
    <3>2. instances' = [instances EXCEPT ![n][i] = new]
      BY <2>3 DEF StCreateInstance
    <3> HIDE DEF new
    <3>3. new.obj.obs <= items[i].obj.gen
      BY <1>1, <3>1
    <3> QED BY <1>1, <1>3, <2>1, <3>2, <3>3, OneInstance
  <2>4. CASE StDeleteInstance(i)
    <3>1. instances' = [instances EXCEPT ![n][i] = Deleted(instances[n][i], NoInstance)]
      BY <2>4 DEF StDeleteInstance
    <3>2. Deleted(instances[n][i], NoInstance).obj.obs <= items[i].obj.gen
      BY <1>1, EmptyInstance
    <3> QED BY <1>1, <1>3, <2>1, <3>1, <3>2, OneInstance
  <2> QED BY <1>9, <2>2, <2>3, <2>4
<1>10. CASE StCommit \/ StNothingToCommit \/ StRejected
  BY <1>2, <1>4, <1>5, <1>10 DEF StCommit, StNothingToCommit, StRejected, StReturn, StRequeue
<1> QED BY <1>6, <1>7, <1>8, <1>9, <1>10 DEF StReconcile

LEMMA InGens ==
    ASSUME RestTypeOK, SidesTypeOK, GensOK, InReconcile
    PROVE  /\ \A n \in Namespaces, i \in Items :
                 instances'[n][i].obj.obs <= items[i].obj.gen
           /\ instWorker'.inst.obj.obs <= items[instWorker'.key].obj.gen
           /\ instWorker'.item.obj.gen <= items[instWorker'.key].obj.gen
<1> DEFINE w == instWorker
           n == instWorker.ns
           i == instWorker.key
           There == \A m \in Namespaces, j \in Items :
                       instances'[m][j].obj.obs <= items[j].obj.gen
           Hand == /\ instWorker'.inst.obj.obs <= items[instWorker'.key].obj.gen
                   /\ instWorker'.item.obj.gen <= items[instWorker'.key].obj.gen
<1>1. /\ n \in Namespaces /\ i \in Items /\ w \in InCall /\ InstancesTypeOK
      /\ instances[n][i] \in Slot(NamespaceItemInstance)
      /\ w.inst.obj \in NamespaceItemInstance /\ w.item.obj \in NamespaceClassItem
      /\ KindOf(InTarget) \in Kinds
      /\ \A j \in Items : items[j].obj.gen \in Nat
  BY TargetTypes, Generations DEF RestTypeOK, WorkersOK, StoresOK, InstancesTypeOK, Slot
<1>2. UNCHANGED instances => There
  BY DEF GensOK
<1>3. /\ InIdle.inst.obj.obs = 0 /\ InIdle.item.obj.gen = 0 /\ InIdle.key \in Items
  BY IdleTypes DEF InIdle, InCall, Vacant, NoInstance, NoItem
<1>4. ASSUME instWorker' = InIdle PROVE Hand
  BY <1>1, <1>3, <1>4
<1>5. ASSUME NEW pc, InGoTo(pc) PROVE Hand
  BY <1>1, <1>5 DEF InGoTo, InCall, GensOK
<1>6. ASSUME NEW m \in Namespaces, NEW j \in Items, InGetInstance(m, j)
      PROVE  There /\ Hand
  <2>1. CASE instWorker' = InIdle
    BY <1>2, <1>4, <1>6, <2>1 DEF InGetInstance
  <2>2. CASE instWorker' = [pc |-> "getItem", ns |-> m, key |-> j, inst |-> instCache[m][j],
                            item |-> Vacant(NoItem), found |-> Vacant(NoResource)]
    <3>1. /\ instWorker'.inst = instCache[m][j] /\ instWorker'.key = j
          /\ instWorker'.item.obj.gen = 0
      BY <2>2 DEF Vacant, NoItem
    <3>2. Hand
      BY <1>1, <3>1 DEF GensOK
    <3> QED BY <1>2, <1>6, <3>2 DEF InGetInstance
  <2> QED BY <1>6, <2>1, <2>2 DEF InGetInstance
<1>7. ASSUME NEW inst, NEW pc, NEW item, NEW found, inst.obj.obs <= items[i].obj.gen,
             item.obj.gen <= items[i].obj.gen,
             instWorker' = [pc |-> pc, ns |-> n, key |-> i, inst |-> inst, item |-> item,
                            found |-> found]
      PROVE  Hand
  BY <1>7
<1>8. w.inst.obj.obs <= items[i].obj.gen /\ w.item.obj.gen <= items[i].obj.gen
  BY DEF GensOK
<1>9. ASSUME NEW inst, inst.obj.obs <= items[i].obj.gen, InUnmarkOrReturn(inst)
      PROVE  Hand
  BY <1>4, <1>7, <1>8, <1>9 DEF InUnmarkOrReturn
<1>10. CASE InGetItem
  <2>1. itemCache[i].obj.gen <= items[i].obj.gen
    BY <1>1 DEF GensOK
  <2>2. Hand
    BY <1>4, <1>7, <1>8, <1>9, <1>10, <2>1 DEF InGetItem, InReturn, InRequeue
  <2> QED BY <1>2, <1>10, <2>2 DEF InGetItem
<1>11. CASE InGetResource
  BY <1>2, <1>5, <1>7, <1>8, <1>11 DEF InGetResource
<1>12. CASE InGetOld \/ InDeleteOld \/ InCreate \/ InUpdate
  BY <1>2, <1>5, <1>12 DEF InGetOld, InDeleteOld, InCreate, InUpdate
<1>13. CASE InWriteStatus
  <2> DEFINE obj == WithStatus(w.inst.obj, w.item.obj.gen, KindOf(InTarget))
             new == Updated(instances[n][i], obj)
  <2>1. obj \in NamespaceItemInstance /\ obj.obs = w.item.obj.gen
    BY <1>1 DEF WithStatus, NamespaceItemInstance, NamespaceClassItem
  <2>2. instances' = [instances EXCEPT ![n][i] = new] /\ InUnmarkOrReturn(new)
    BY <1>13 DEF InWriteStatus
  <2> HIDE DEF obj
  <2>3. new.obj = obj
    BY <1>1, <2>1, SlotHolds
  <2> HIDE DEF new
  <2>4. new.obj.obs <= items[i].obj.gen
    BY <1>8, <2>1, <2>3
  <2> QED BY <1>1, <1>9, <2>2, <2>4, OneInstance
<1>14. CASE InUnmark
  <2> DEFINE obj == Unmarked(w.inst.obj)
             new == Updated(instances[n][i], obj)
  <2>1. obj \in NamespaceItemInstance /\ obj.obs = w.inst.obj.obs
    BY <1>1 DEF Unmarked, NamespaceItemInstance
  <2>2. instances' = [instances EXCEPT ![n][i] = new] /\ instWorker' = InIdle
    BY <1>14 DEF InUnmark, InReturn
  <2> HIDE DEF obj
  <2>3. new.obj = obj
    BY <1>1, <2>1, SlotHolds
  <2> HIDE DEF new
  <2>4. new.obj.obs <= items[i].obj.gen
    BY <1>8, <2>1, <2>3
  <2> QED BY <1>1, <1>4, <2>2, <2>4, OneInstance
<1>15. CASE InRejected
  BY <1>2, <1>4, <1>15 DEF InRejected, InRequeue
<1> QED
  BY <1>6, <1>10, <1>11, <1>12, <1>13, <1>14, <1>15 DEF InReconcile

LEMMA GensStep ==
    ASSUME IInv, RestTypeOK, LeftOK, ItemsLive, GensOK, [Next]_vars
    PROVE  GensOK'
<1> USE DEF itemStore, instStore, stateVars, inVars
<1> DEFINE Seen == \A i \in Items : stateWorker'.seen[i].obj.obs <= items[i].obj.gen
           There == \A n \in Namespaces, i \in Items :
                       instances'[n][i].obj.obs <= items[i].obj.gen
           Hand == /\ instWorker'.inst.obj.obs <= items[instWorker'.key].obj.gen
                   /\ instWorker'.item.obj.gen <= items[instWorker'.key].obj.gen
<1>1. /\ SidesTypeOK /\ InstancesTypeOK /\ \A i \in Items : items[i].obj.gen \in Nat
      /\ IInv' /\ SidesTypeOK' /\ RestTypeOK' /\ ItemsGoOn
  BY Generations, IInvStep, RestStep, ItemsStep DEF IInv, RestTypeOK, StoresOK
<1>2. UNCHANGED instances => There
  BY DEF GensOK
<1>3. UNCHANGED stateWorker => Seen
  BY DEF GensOK
<1>4. UNCHANGED instWorker => Hand
  BY DEF GensOK
<1>5. stateWorker' = StIdle => Seen
  BY <1>1 DEF StIdle, NothingSeen, Vacant, NoInstance
<1>6. instWorker' = InIdle => Hand
  <2>1. /\ InIdle.inst.obj.obs = 0 /\ InIdle.item.obj.gen = 0 /\ InIdle.key \in Items
    BY IdleTypes DEF InIdle, InCall, Vacant, NoInstance, NoItem
  <2> QED BY <1>1, <2>1
<1>7. There /\ Seen /\ Hand
  <2>1. CASE StateStep
    BY <1>1, <1>4, <2>1, StGens DEF StateStep
  <2>2. CASE InstanceStep
    BY <1>1, <1>3, <2>2, InGens DEF InstanceStep
  <2>3. CASE Kubernetes
    <3>1. ASSUME NEW n \in Namespaces, NEW i \in Items, CollectInstance(n, i)
          PROVE  There
      <4>1. instances' = [instances EXCEPT ![n][i] = Deleted(instances[n][i], NoInstance)]
        BY <3>1 DEF CollectInstance
      <4>2. Deleted(instances[n][i], NoInstance).obj.obs <= items[i].obj.gen
        BY <1>1, EmptyInstance
      <4> QED BY <1>1, <4>1, <4>2, OneInstance
    <3>2. There
      BY <1>2, <2>3, <3>1 DEF Kubernetes, CollectState
    <3> QED BY <1>3, <1>4, <2>3, <3>2 DEF Kubernetes
  <2>4. CASE Fault
    <3>1. UNCHANGED instances
      BY <2>4 DEF Fault, StCallFails, InCallFails, InGetOldFails
    <3>2. UNCHANGED stateWorker \/ stateWorker' = StIdle
      BY <2>4 DEF Fault, StCallFails, StRequeue
    <3>3. UNCHANGED instWorker \/ instWorker' = InIdle \/ InGetOldFails
      BY <2>4 DEF Fault, InCallFails, InRequeue
    <3>4. instWorker \in InCall
      BY DEF RestTypeOK, WorkersOK
    <3>5. InGetOldFails => Hand
      BY <3>4, OldUnread DEF GensOK
    <3> QED BY <1>2, <1>3, <1>4, <1>5, <1>6, <3>1, <3>2, <3>3, <3>5
  <2>5. CASE Restart
    BY <1>2, <1>5, <1>6, <2>5 DEF Restart
  <2>6. CASE UNCHANGED <<instances, stateWorker, instWorker>>
    BY <1>2, <1>3, <1>4, <2>6
  <2> QED
    BY <2>1, <2>2, <2>3, <2>4, <2>5, <2>6
    DEF Next, vars, stores, Users, SyncNamespaces, SyncStates, SyncClasses, SyncItems,
        SyncInstances, NsStep, ClassStep, ItemStep, Resync
<1>8. instCache' \in {instCache, instances} /\ itemCache' \in {itemCache, items}
  BY DEF Next, vars, stores, Users, Kubernetes, SyncNamespaces, SyncStates, SyncClasses,
     SyncItems, SyncInstances, NsStep, StateStep, ClassStep, ItemStep, InstanceStep, Restart,
     Resync, Fault
<1>9. /\ \A n \in Namespaces, i \in Items : instCache'[n][i].obj.obs <= items[i].obj.gen
      /\ \A i \in Items : itemCache'[i].obj.gen <= items[i].obj.gen
  BY <1>1, <1>8 DEF GensOK
<1> QED
  BY <1>1, <1>7, <1>9, GensGrow

\* While the webhooks run a class that exists lists something.
ClassesListSome ==
    WebhooksEnabled => \A c \in Classes : classes[c].live => classes[c].obj.items # {}

LEMMA ClassesListSomeStep == IInv /\ ClassesListSome /\ [Next]_vars => ClassesListSome'
BY ClassesTurn DEF ClassesListSome, ClassTurn

LEMMA FirstInvariants ==
    ASSUME Init, ItemsStay
    PROVE  LeftOK /\ ItemsLive /\ GensOK /\ ClassesListSome
<1>1. PICK start \in Starts :
        /\ left = start
        /\ classes = [c \in Classes |-> FirstClass(c, start)]
        /\ items = [i \in Items |-> FirstItem(i, start)]
        /\ instances = [n \in Namespaces |-> [i \in Items |-> FirstInstance(n, i, start)]]
  BY DEF Init
<1>2. instCache = instances /\ itemCache = items /\ stateWorker = StIdle /\ instWorker = InIdle
  BY DEF Init
<1>3. LeftOK
  BY <1>1, StartAssumption DEF LeftOK, ItemsStay
<1>4. \A i \in Items : items[i].live /\ items[i].obj.gen = 1 /\ items[i].obj.obs = 1
  BY <1>1 DEF FirstItem, First
<1>5. ItemsLive
  BY <1>2, <1>4 DEF ItemsLive
<1>6. /\ \A i \in Items : stateWorker.seen[i].obj.obs = 0
      /\ instWorker.inst.obj.obs = 0 /\ instWorker.item.obj.gen = 0 /\ instWorker.key \in Items
  BY <1>2, IdleTypes DEF StIdle, InIdle, InCall, NothingSeen, Vacant, NoInstance, NoItem
<1>7. \A n \in Namespaces, i \in Items : instances[n][i].obj.obs \in {0, 1}
  BY <1>1, FirstTypes
<1>8. GensOK
  BY <1>2, <1>4, <1>6, <1>7 DEF GensOK
<1>9. ClassesListSome
  BY <1>1, StartAssumption DEF ClassesListSome, FirstClass, First, Vacant
<1> QED BY <1>3, <1>5, <1>8, <1>9

\* Where no start lets users delete items, they stay.
ItemsInv == IInv /\ RestTypeOK /\ LeftOK /\ ItemsLive

LEMMA ItemsInvStep == ItemsInv /\ [Next]_vars => ItemsInv'
BY IInvStep, RestStep, LeftStep, ItemsStep DEF ItemsInv, IInv

LEMMA ItemsInvHolds == ASSUME ItemsStay PROVE Spec => []ItemsInv
<1>1. Init => ItemsInv
  BY IInvInit, RestInit, FirstInvariants DEF ItemsInv
<1> QED BY <1>1, ItemsInvStep, PTL DEF Spec

LEMMA WholeType ==
    ASSUME ItemsInv, GensOK, ClassesListSome
    PROVE  TypeOK
<1>1. classWorker \in ClCall
  BY DEF ItemsInv, IInv, SidesTypeOK, ClCallWith, ClCall, RestTypeOK, WorkersOK, ClSeenOK
<1> QED
  BY <1>1
  DEF TypeOK, ItemsInv, IInv, SidesTypeOK, RestTypeOK, StoresOK, WorkersOK, QueuesOK, NsCallOK,
      StCallOK, GensOK, ClassesListSome

\* However many objects of each kind there are and wherever a run starts, as long as users
\* delete no item: every queue, worker and copy holds what it should, a class lists
\* something while the webhooks run, and no status is ahead of the generation of the item
\* it speaks of (namespaceclass_webhook.go:122, namespaceclassitem_controller.go:80-84,
\* namespaceiteminstance_controller.go:212-216).
THEOREM OperatorTypes == ASSUME ItemsStay PROVE Spec => []TypeOK
<1>1. ItemsInv /\ GensOK /\ ClassesListSome /\ [Next]_vars => (GensOK /\ ClassesListSome)'
  BY GensStep, ClassesListSomeStep DEF ItemsInv
<1>2. Init => GensOK /\ ClassesListSome
  BY FirstInvariants
<1>3. ItemsInv /\ GensOK /\ ClassesListSome => TypeOK
  BY WholeType
<1>4. Spec => []ItemsInv
  BY ItemsInvHolds
<1> QED BY <1>1, <1>2, <1>3, <1>4, PTL DEF Spec

-----------------------------------------------------------------------------
(***************************************************************************)
(* A class that has changed, or is at work on, is not forgotten            *)
(***************************************************************************)
\* There is news of class c on its way to the class reconciler, or that is at work on
\* the class as it is.
AttendedClass(c) ==
    \/ classCache[c] # classes[c]
    \/ c \in classQueue
    \/ classWorker.pc # "idle" /\ classWorker.key = c /\ classWorker.class = classes[c]

\* The reconciler has no more to do for class c as it is.
ClassSettled(c) ==
    /\ classWorker'.pc = "idle"
    /\ classes'[c] = classes[c]
    /\ \/ ~classes[c].live
       \/ /\ classWorker.key = c /\ classWorker.class = classes[c]
          /\ ClRemoveTrigger \/ ClNoTrigger

\* A copy of what was stored is an old one once something else is stored.
LEMMA OldCopy ==
    ASSUME NEW Objects, NEW copy \in Slot(Objects), NEW stored \in Slot(Objects),
           NEW new \in Slot(Objects), Fresh(copy, stored), Later(stored, new), new # stored
    PROVE  copy # new
BY DEF Slot, Fresh, Later

LEMMA ChangedClass ==
    ASSUME IInv, IInv', [Next]_vars, NEW c \in Classes, classes'[c] # classes[c]
    PROVE  classCache'[c] # classes'[c]
<1>1. UNCHANGED classCache
  BY NextClasses DEF ClassesNext, SyncClasses, Restart, Resync, stores, classStore
<1>2. /\ classCache[c] \in Slot(NamespaceClass) /\ classes[c] \in Slot(NamespaceClass)
      /\ classes'[c] \in Slot(NamespaceClass)
      /\ Fresh(classCache[c], classes[c]) /\ Later(classes[c], classes'[c])
  BY Parts, Slots, ClassesTurn DEF IInv, StoresSound, SidesTypeOK, ClassesTypeOK
<1>3. classCache[c] # classes'[c]
  BY <1>2, OldCopy
<1> QED BY <1>1, <1>3

\* What the reconciler does at one class.
LEMMA ClAttends ==
    ASSUME SidesTypeOK, ClReconcile, UNCHANGED classCache,
           NEW c \in Classes, AttendedClass(c), classes'[c] = classes[c]
    PROVE  AttendedClass(c)' \/ ClassSettled(c)
<1> DEFINE w == classWorker
<1>1. CASE classCache[c] # classes[c]
  BY <1>1 DEF AttendedClass
<1>2. CASE classCache[c] = classes[c] /\ c \in classQueue
  <2>1. ASSUME NEW d \in Classes, ClGetClass(d), d # c
        PROVE  AttendedClass(c)'
    BY <1>2, <2>1 DEF ClGetClass, AttendedClass
  <2>2. CASE ClGetClass(c) /\ classes[c].live
    <3>1. classWorker' = ClAt(ClFirst(classes[c]), c, classes[c], classes[c].obj.items)
      BY <1>2, <2>2 DEF ClGetClass
    <3>2. ClFirst(classes[c]) # "idle"
      BY DEF ClFirst
    <3> QED BY <3>1, <3>2 DEF AttendedClass, ClAt
  <2>3. CASE ClGetClass(c) /\ ~classes[c].live
    <3>1. classWorker'.pc = "idle"
      BY <1>2, <2>3, ClIdleTypes DEF ClGetClass
    <3> QED BY <2>3, <3>1 DEF ClassSettled
  <2>4. CASE ~\E d \in Classes : ClGetClass(d)
    <3>1. c \in classQueue'
      BY <1>2, <2>4
      DEF ClReconcile, ClAddFinalizer, ClListStates, ClAnnotateState, ClGetItem, ClAddRef,
          ClDropRef, ClWriteRefs, ClRemoveTrigger, ClNoTrigger, ClRemoveFinalizer, ClRejected,
          ClReturn, ClRequeue
    <3> QED BY <3>1 DEF AttendedClass
  <2> QED BY <2>1, <2>2, <2>3, <2>4
<1>3. CASE w.pc # "idle" /\ w.key = c /\ w.class = classes[c]
  <2>1. CASE ClAddFinalizer
    <3>1. classWorker' = ClAt("list", c, classes'[c], w.todo)
      BY <1>3, <2>1, Slots DEF ClAddFinalizer, SidesTypeOK, ClassesTypeOK
    <3> QED BY <3>1 DEF AttendedClass, ClAt
  <2>2. CASE ClListStates \/ ClAddRef \/ ClDropRef \/ \E i \in Items : ClGetItem(i)
    <3>1. classWorker'.pc # "idle" /\ classWorker'.key = c /\ classWorker'.class = w.class
      BY <1>3, <2>2 DEF ClListStates, ClAddRef, ClDropRef, ClWriteRefs, ClGetItem,
         SidesTypeOK, ClCallWith
    <3> QED BY <1>3, <3>1 DEF AttendedClass
  <2>3. CASE \E n \in Namespaces : ClAnnotateState(n)
    <3>1. classWorker'.pc # "idle" /\ classWorker'.key = c /\ classWorker'.class = w.class
      BY <1>3, <2>3 DEF ClAnnotateState, SidesTypeOK, ClCallWith
    <3> QED BY <1>3, <3>1 DEF AttendedClass
  <2>4. CASE ClRemoveTrigger \/ ClNoTrigger
    BY <1>3, <2>4, ClIdleTypes
    DEF ClassSettled, ClRemoveTrigger, ClNoTrigger, ClReturn
  <2>5. CASE ClRemoveFinalizer
    <3>1. classes'[c] = Deleted(classes[c], NoClassObject)
      BY <1>3, <2>5 DEF ClRemoveFinalizer, SidesTypeOK, ClassesTypeOK
    <3>2. ~classes[c].live
      BY <3>1 DEF Deleted
    <3> QED BY <2>5, <3>2, ClIdleTypes DEF ClassSettled, ClRemoveFinalizer, ClReturn
  <2>6. CASE ClRejected
    BY <1>3, <2>6 DEF ClRejected, ClRequeue, AttendedClass
  <2>7. ~\E d \in Classes : ClGetClass(d)
    BY <1>3 DEF ClGetClass
  <2> QED BY <2>1, <2>2, <2>3, <2>4, <2>5, <2>6, <2>7 DEF ClReconcile
<1> QED BY <1>1, <1>2, <1>3 DEF AttendedClass

LEMMA ClassAttention ==
    ASSUME "class" \in Controllers, IInv, [Next]_vars,
           NEW c \in Classes, AttendedClass(c), classes'[c] = classes[c]
    PROVE  AttendedClass(c)' \/ ClassSettled(c)
<1>1. SidesTypeOK /\ ClassesTypeOK
  BY DEF IInv, SidesTypeOK
<1>2. CASE (UserWrite \/ ItSide \/ UNCHANGED classes) /\ UNCHANGED <<classCache, clVars>>
  BY <1>2 DEF AttendedClass, clVars
<1>3. CASE SyncClasses
  BY <1>1, <1>3 DEF SyncClasses, AttendedClass, Watched, Changed, ClassesTypeOK
<1>4. CASE ClReconcile /\ UNCHANGED <<classCache, itemCache, itemWorker>>
  BY <1>1, <1>4, ClAttends
<1>5. CASE ClCallFails /\ UNCHANGED <<classCache, itemCache, itemWorker>>
  BY <1>5 DEF ClCallFails, ClRequeue, AttendedClass
<1>6. CASE Restart
  BY <1>1, <1>6, ClIdleTypes
  DEF Restart, Watched, Living, ClassesTypeOK, AttendedClass, ClassSettled
<1>7. CASE Resync
  BY <1>7 DEF Resync, Quiescent, AttendedClass
<1> QED BY <1>2, <1>3, <1>4, <1>5, <1>6, <1>7, NextClasses DEF ClassesNext

-----------------------------------------------------------------------------
(***************************************************************************)
(* Nor is a NamespaceState or an instance                                  *)
(***************************************************************************)
\* The informers' copies may be old, yet are no others than what was stored.
CachesOK ==
    /\ \A n \in Namespaces : Fresh(stateCache[n], states[n])
    /\ \A n \in Namespaces, i \in Items : Fresh(instCache[n][i], instances[n][i])

EmptiesOK ==
    /\ \A c \in Classes : Empty(classes[c], NoClassObject)
    /\ \A n \in Namespaces : Empty(states[n], NoState)
    /\ \A n \in Namespaces, i \in Items : Empty(instances[n][i], NoInstance)

AttendedState(n) ==
    \/ stateCache[n] # states[n]
    \/ n \in stateQueue
    \/ stateWorker.pc # "idle" /\ stateWorker.key = n /\ stateWorker.state = states[n]

AttendedInstance(n, i) ==
    \/ instCache[n][i] # instances[n][i]
    \/ <<n, i>> \in instQueue
    \/ /\ instWorker.pc # "idle" /\ instWorker.ns = n /\ instWorker.key = i
       /\ instWorker.inst = instances[n][i]

LEMMA CachesStep ==
    ASSUME RestTypeOK, SidesTypeOK, CachesOK, [Next]_vars
    PROVE  CachesOK'
<1>1. /\ StatesTypeOK /\ InstancesTypeOK /\ StatesMove /\ InstancesMove
  BY StatesTyped, InstancesTyped DEF RestTypeOK, StoresOK
<1>2. stateCache' = stateCache \/ stateCache' = states'
  BY NextStates DEF StatesNext, SyncStates, Restart, Resync, stores, stateStore
<1>3. instCache' = instCache \/ instCache' = instances'
  BY NextInstances DEF InstancesNext, SyncInstances, Restart, Resync, stores, instStore
<1>4. ASSUME NEW n \in Namespaces PROVE Fresh(stateCache'[n], states'[n])
  <2>1. /\ stateCache[n] \in Slot(NamespaceState) /\ states[n] \in Slot(NamespaceState)
        /\ states'[n] \in Slot(NamespaceState) /\ Later(states[n], states'[n])
        /\ stateCache'[n] = stateCache[n] \/ stateCache'[n] = states'[n]
        /\ Fresh(stateCache[n], states[n])
    BY <1>1, <1>2, <1>4 DEF StatesTypeOK, StatesMove, StateGoesOn, CachesOK
  <2> QED BY <2>1, CachedStays
<1>5. ASSUME NEW n \in Namespaces, NEW i \in Items
      PROVE  Fresh(instCache'[n][i], instances'[n][i])
  <2>1. /\ instCache[n][i] \in Slot(NamespaceItemInstance)
        /\ instances[n][i] \in Slot(NamespaceItemInstance)
        /\ instances'[n][i] \in Slot(NamespaceItemInstance)
        /\ Later(instances[n][i], instances'[n][i])
        /\ instCache'[n][i] = instCache[n][i] \/ instCache'[n][i] = instances'[n][i]
        /\ Fresh(instCache[n][i], instances[n][i])
    BY <1>1, <1>3, <1>5 DEF InstancesTypeOK, InstancesMove, InstanceGoesOn, CachesOK
  <2> QED BY <2>1, CachedStays
<1> QED BY <1>4, <1>5 DEF CachesOK

LEMMA EmptiesStep ==
    ASSUME RestTypeOK, IInv, EmptiesOK, [Next]_vars
    PROVE  EmptiesOK'
<1>1. StatesMove /\ InstancesMove
  BY StatesTyped, InstancesTyped DEF IInv
<1>2. \A c \in Classes : Empty(classes'[c], NoClassObject)
  BY ClassesTurn DEF EmptiesOK, ClassTurn, Empty
<1> QED
  BY <1>1, <1>2 DEF EmptiesOK, StatesMove, InstancesMove, StateGoesOn, InstanceGoesOn

LEMMA ChangedState ==
    ASSUME RestTypeOK, SidesTypeOK, CachesOK, [Next]_vars,
           NEW n \in Namespaces, states'[n] # states[n]
    PROVE  stateCache'[n] # states'[n]
<1>1. UNCHANGED stateCache
  BY NextStates DEF StatesNext, SyncStates, Restart, Resync, stores, stateStore
<1>2. /\ stateCache[n] \in Slot(NamespaceState) /\ states[n] \in Slot(NamespaceState)
      /\ states'[n] \in Slot(NamespaceState) /\ Later(states[n], states'[n])
      /\ Fresh(stateCache[n], states[n])
  BY StatesTyped DEF RestTypeOK, StoresOK, StatesTypeOK, StatesMove, StateGoesOn, CachesOK
<1>3. stateCache[n] # states'[n]
  BY <1>2, OldCopy
<1> QED BY <1>1, <1>3

LEMMA ChangedInstance ==
    ASSUME RestTypeOK, SidesTypeOK, CachesOK, [Next]_vars,
           NEW n \in Namespaces, NEW i \in Items, instances'[n][i] # instances[n][i]
    PROVE  AttendedInstance(n, i)'
<1>1. UNCHANGED instCache
  BY NextInstances DEF InstancesNext, SyncInstances, Restart, Resync, stores, instStore
<1>2. /\ instCache[n][i] \in Slot(NamespaceItemInstance)
      /\ instances[n][i] \in Slot(NamespaceItemInstance)
      /\ instances'[n][i] \in Slot(NamespaceItemInstance)
      /\ Later(instances[n][i], instances'[n][i])
      /\ Fresh(instCache[n][i], instances[n][i])
  BY InstancesTyped
  DEF RestTypeOK, StoresOK, InstancesTypeOK, InstancesMove, InstanceGoesOn, CachesOK
<1>3. instCache[n][i] # instances'[n][i]
  BY <1>2, OldCopy
<1> QED BY <1>1, <1>3 DEF AttendedInstance

\* A marked NamespaceState stays attended until the mark is taken off.
LEMMA StAttends ==
    ASSUME StatesTypeOK, StCallOK, StReconcile, UNCHANGED stateCache,
           NEW n \in Namespaces, AttendedState(n), states'[n] = states[n],
           states[n].live, states[n].obj.classUpdated
    PROVE  AttendedState(n)'
<1> DEFINE w == stateWorker
<1>1. CASE stateCache[n] # states[n]
  BY <1>1 DEF AttendedState
<1>2. CASE stateCache[n] = states[n] /\ n \in stateQueue
  <2>1. ASSUME NEW m \in Namespaces, StGetState(m), m # n
        PROVE  AttendedState(n)'
    BY <1>2, <2>1 DEF StGetState, AttendedState
  <2>2. CASE StGetState(n)
    BY <1>2, <2>2 DEF StGetState, AttendedState
  <2>3. CASE ~\E m \in Namespaces : StGetState(m)
    <3>1. n \in stateQueue'
      BY <1>2, <2>3
      DEF StReconcile, StGetClass, StListInstances, StAnnotateInstance, StCreateInstance,
          StDeleteInstance, StCommit, StNothingToCommit, StRejected, StReturn, StRequeue
    <3> QED BY <3>1 DEF AttendedState
  <2> QED BY <2>1, <2>2, <2>3
<1>3. CASE w.pc # "idle" /\ w.key = n /\ w.state = states[n]
  <2>1. CASE StGetClass \/ StListInstances
    BY <1>3, <2>1 DEF StGetClass, StListInstances, AttendedState
  <2>2. CASE \E i \in Items : StAnnotateInstance(i) \/ StCreateInstance(i) \/ StDeleteInstance(i)
    <3>1. stateWorker'.pc # "idle" /\ stateWorker'.key = n /\ stateWorker'.state = w.state
      BY <1>3, <2>2
      DEF StAnnotateInstance, StCreateInstance, StDeleteInstance, StCallOK, StCall
    <3> QED BY <1>3, <3>1 DEF AttendedState
  <2>3. CASE StCommit
    <3>1. states'[n] = Updated(states[n], Committed(w.state))
      BY <1>3, <2>3 DEF StCommit, StatesTypeOK
    <3>2. states'[n].obj = Committed(w.state)
      BY <3>1 DEF Updated
    <3>3. ~Committed(w.state).classUpdated
      BY DEF Committed
    <3> QED BY <3>2, <3>3
  <2>4. CASE StNothingToCommit
    BY <1>3, <2>4 DEF StNothingToCommit, StNeedUpdate
  <2>5. CASE StRejected
    BY <1>3, <2>5 DEF StRejected, StRequeue, AttendedState
  <2>6. ~\E m \in Namespaces : StGetState(m)
    BY <1>3 DEF StGetState
  <2> QED BY <2>1, <2>2, <2>3, <2>4, <2>5, <2>6 DEF StReconcile
<1> QED BY <1>1, <1>2, <1>3 DEF AttendedState

LEMMA StateAttention ==
    ASSUME "state" \in Controllers, RestTypeOK, SidesTypeOK, [Next]_vars,
           NEW n \in Namespaces, AttendedState(n), states'[n] = states[n],
           states[n].live, states[n].obj.classUpdated
    PROVE  AttendedState(n)'
<1>1. StatesTypeOK /\ StCallOK
  BY DEF RestTypeOK, StoresOK, WorkersOK
<1>2. CASE UNCHANGED <<stateCache, stateVars>>
  BY <1>2 DEF AttendedState, stateVars
<1>3. CASE SyncStates
  BY <1>1, <1>3 DEF SyncStates, AttendedState, Watched, Changed, StatesTypeOK
<1>4. CASE StReconcile /\ UNCHANGED stateCache
  BY <1>1, <1>4, StAttends
<1>5. CASE StCallFails /\ UNCHANGED stateCache
  BY <1>5 DEF StCallFails, StRequeue, AttendedState
<1>6. CASE Restart
  BY <1>1, <1>6 DEF Restart, Watched, Living, StatesTypeOK, AttendedState
<1>7. CASE Resync
  BY <1>7 DEF Resync, Quiescent, AttendedState
<1> QED BY <1>2, <1>3, <1>4, <1>5, <1>6, <1>7, NextStates DEF StatesNext

\* A marked instance stays attended until the mark is taken off.
LEMMA InAttends ==
    ASSUME Namespaces \cap SystemNamespaces = {}, InstancesTypeOK, instWorker \in InCall,
           ItemsLive, InReconcile, UNCHANGED instCache,
           NEW n \in Namespaces, NEW i \in Items, AttendedInstance(n, i),
           instances'[n][i] = instances[n][i], instances[n][i].live,
           instances[n][i].obj.updated
    PROVE  AttendedInstance(n, i)'
<1> DEFINE w == instWorker
<1>1. CASE instCache[n][i] # instances[n][i]
  BY <1>1 DEF AttendedInstance
<1>2. CASE instCache[n][i] = instances[n][i] /\ <<n, i>> \in instQueue
  <2>1. ASSUME NEW m \in Namespaces, NEW j \in Items, InGetInstance(m, j), <<m, j>> # <<n, i>>
        PROVE  AttendedInstance(n, i)'
    BY <1>2, <2>1 DEF InGetInstance, AttendedInstance
  <2>2. CASE InGetInstance(n, i)
    BY <1>2, <2>2 DEF InGetInstance, AttendedInstance
  <2>3. CASE ~\E m \in Namespaces, j \in Items : InGetInstance(m, j)
    <3>1. <<n, i>> \in instQueue'
      BY <1>2, <2>3
      DEF InReconcile, InGetItem, InGetResource, InGetOld, InDeleteOld, InCreate, InUpdate,
          InWriteStatus, InUnmark, InRejected, InReturn, InRequeue, InGoTo, InUnmarkOrReturn
    <3> QED BY <3>1 DEF AttendedInstance
  <2> QED BY <2>1, <2>2, <2>3
<1>3. CASE w.pc # "idle" /\ w.ns = n /\ w.key = i /\ w.inst = instances[n][i]
  <2>1. CASE InGetItem
    BY <1>3, <2>1
    DEF InGetItem, ItemsLive, InUnmarkOrReturn, InRequeue, AttendedInstance
  <2>2. ASSUME NEW pc \in InWrites, InGoTo(pc)
        PROVE  AttendedInstance(n, i)'
    <3>1. /\ instWorker'.pc = pc /\ instWorker'.ns = n /\ instWorker'.key = i
          /\ instWorker'.inst = w.inst
      BY <1>3, <2>2 DEF InGoTo, InCall
    <3>2. pc # "idle"
      BY DEF InWrites
    <3> QED BY <1>3, <3>1, <3>2 DEF AttendedInstance
  <2>3. CASE InGetResource
    <3>1. CASE InGoTo("getOld")
      <4>1. /\ instWorker'.pc = "getOld" /\ instWorker'.ns = n /\ instWorker'.key = i
            /\ instWorker'.inst = w.inst
        BY <1>3, <3>1 DEF InGoTo, InCall
      <4> QED BY <1>3, <4>1 DEF AttendedInstance
    <3>2. CASE ~InGoTo("getOld")
      BY <1>3, <2>2, <2>3, <3>2 DEF InGetResource, InWrites, AttendedInstance
    <3> QED BY <3>1, <3>2
  <2>4. CASE InGetOld \/ InDeleteOld \/ InCreate \/ InUpdate
    BY <2>2, <2>4 DEF InGetOld, InDeleteOld, InCreate, InUpdate, InWrites
  <2>5. CASE InWriteStatus
    <3> DEFINE new == Updated(instances[n][i],
                              WithStatus(w.inst.obj, w.item.obj.gen, KindOf(InTarget)))
    <3>1. instances'[n][i] = new /\ InUnmarkOrReturn(new)
      BY <1>3, <2>5 DEF InWriteStatus, InstancesTypeOK
    <3>2. InUnmarkOrReturn(instances[n][i])
      BY <3>1
    <3> QED BY <1>3, <3>2 DEF InUnmarkOrReturn, AttendedInstance
  <2>6. CASE InUnmark
    <3>1. instances'[n][i] = Updated(instances[n][i], Unmarked(w.inst.obj))
      BY <1>3, <2>6 DEF InUnmark, InstancesTypeOK
    <3>2. instances'[n][i].obj = Unmarked(w.inst.obj)
      BY <3>1 DEF Updated
    <3>3. w.inst.obj \in NamespaceItemInstance
      BY DEF InCall, Slot
    <3>4. ~Unmarked(w.inst.obj).updated
      BY <3>3 DEF Unmarked, NamespaceItemInstance
    <3> QED BY <3>2, <3>4
  <2>7. CASE InRejected
    BY <1>3, <2>7 DEF InRejected, InRequeue, AttendedInstance
  <2>8. ~\E m \in Namespaces, j \in Items : InGetInstance(m, j)
    BY <1>3 DEF InGetInstance
  <2> QED BY <2>1, <2>3, <2>4, <2>5, <2>6, <2>7, <2>8 DEF InReconcile
<1> QED BY <1>1, <1>2, <1>3 DEF AttendedInstance

LEMMA InstanceAttention ==
    ASSUME "instance" \in Controllers, Namespaces \cap SystemNamespaces = {},
           RestTypeOK, SidesTypeOK, ItemsLive, [Next]_vars,
           NEW n \in Namespaces, NEW i \in Items, AttendedInstance(n, i),
           instances'[n][i] = instances[n][i], instances[n][i].live,
           instances[n][i].obj.updated
    PROVE  AttendedInstance(n, i)'
<1>1. InstancesTypeOK /\ instWorker \in InCall
  BY DEF RestTypeOK, StoresOK, WorkersOK
<1>2. CASE UNCHANGED <<instCache, inVars>>
  BY <1>2 DEF AttendedInstance, inVars
<1>3. CASE SyncInstances
  <2>1. CASE instCache[n][i] # instances[n][i]
    <3>1. <<n, i>> \in ChangedInstances
      BY <1>1, <2>1 DEF ChangedInstances, Changed, InstancesTypeOK
    <3> QED BY <1>3, <3>1 DEF SyncInstances, Watched, AttendedInstance
  <2>2. CASE instCache[n][i] = instances[n][i]
    BY <1>3, <2>2 DEF SyncInstances, AttendedInstance
  <2> QED BY <2>1, <2>2
<1>4. CASE InReconcile /\ UNCHANGED instCache
  BY <1>1, <1>4, InAttends
<1>5. CASE InCallFails /\ UNCHANGED instCache
  BY <1>5 DEF InCallFails, InRequeue, AttendedInstance
<1>6. CASE Restart
  <2>1. <<n, i>> \in LivingInstances(instances)
    BY <1>1 DEF LivingInstances, Living, InstancesTypeOK
  <2> QED BY <1>6, <2>1 DEF Restart, Watched, AttendedInstance
<1>7. CASE Resync
  BY <1>1, <1>7 DEF Resync, Quiescent, AttendedInstance
<1>8. CASE InGetOldFails /\ UNCHANGED instCache
  BY <1>1, <1>8, OldUnread DEF AttendedInstance
<1> QED BY <1>2, <1>3, <1>4, <1>5, <1>6, <1>7, <1>8, NextInstances DEF InstancesNext

-----------------------------------------------------------------------------
(***************************************************************************)
(* No mark stays behind                                                    *)
(***************************************************************************)
\* Whoever is marked is attended.
MarksOK ==
    /\ \A c \in Classes : classes[c].obj.itemUpdated => AttendedClass(c)
    /\ \A n \in Namespaces : states[n].obj.classUpdated => AttendedState(n)
    /\ \A n \in Namespaces, i \in Items :
          instances[n][i].obj.updated => AttendedInstance(n, i)

LEMMA UnmarkedFirst ==
    ASSUME Init
    PROVE  CachesOK /\ EmptiesOK /\ MarksOK
<1>1. PICK start \in Starts :
        /\ classes = [c \in Classes |-> FirstClass(c, start)]
        /\ states = [n \in Namespaces |-> FirstState(n, start)]
        /\ instances = [n \in Namespaces |-> [i \in Items |-> FirstInstance(n, i, start)]]
  BY DEF Init
<1>2. stateCache = states /\ instCache = instances
  BY DEF Init
<1>3. StatesTypeOK /\ InstancesTypeOK
  BY RestInit DEF RestTypeOK, StoresOK
<1>4. CachesOK
  BY <1>2, <1>3, FreshSelf DEF CachesOK, StatesTypeOK, InstancesTypeOK
<1>5. \A c \in Classes : Empty(classes[c], NoClassObject) /\ ~classes[c].obj.itemUpdated
  BY <1>1 DEF FirstClass, First, Vacant, NoClassObject, Empty
<1>6. \A n \in Namespaces : Empty(states[n], NoState) /\ ~states[n].obj.classUpdated
  BY <1>1, FirstTypes
<1>7. \A n \in Namespaces, i \in Items :
         Empty(instances[n][i], NoInstance) /\ ~instances[n][i].obj.updated
  BY <1>1, FirstTypes
<1>8. EmptiesOK
  BY <1>5, <1>6, <1>7 DEF EmptiesOK
<1> QED BY <1>4, <1>5, <1>6, <1>7, <1>8 DEF MarksOK

LEMMA StateMarksStep ==
    ASSUME "state" \in Controllers, RestTypeOK, SidesTypeOK, CachesOK, EmptiesOK,
           \A n \in Namespaces : states[n].obj.classUpdated => AttendedState(n),
           [Next]_vars
    PROVE  \A n \in Namespaces : states'[n].obj.classUpdated => AttendedState(n)'
<1> SUFFICES ASSUME NEW n \in Namespaces, states'[n].obj.classUpdated
             PROVE  AttendedState(n)'
  OBVIOUS
<1>1. CASE states'[n] # states[n]
  BY <1>1, ChangedState DEF AttendedState
<1>2. CASE states'[n] = states[n]
  <2>1. AttendedState(n) /\ states[n].live /\ states[n].obj.classUpdated
    BY <1>2 DEF EmptiesOK, Empty, NoState
  <2> QED BY <1>2, <2>1, StateAttention
<1> QED BY <1>1, <1>2

LEMMA MarksStep ==
    ASSUME {"class", "state", "instance"} \subseteq Controllers,
           Namespaces \cap SystemNamespaces = {},
           ItemsInv, ItemsInv', CachesOK, EmptiesOK, EmptiesOK', MarksOK, [Next]_vars
    PROVE  MarksOK'
<1>1. /\ "class" \in Controllers /\ "state" \in Controllers /\ "instance" \in Controllers
      /\ IInv /\ IInv' /\ RestTypeOK /\ SidesTypeOK /\ ItemsLive
  BY DEF ItemsInv, IInv
<1>2. ASSUME NEW c \in Classes, classes'[c].obj.itemUpdated
      PROVE  AttendedClass(c)'
  <2>1. CASE classes'[c] # classes[c]
    BY <1>1, <2>1, ChangedClass DEF AttendedClass
  <2>2. CASE classes'[c] = classes[c]
    <3>1. AttendedClass(c) /\ classes[c].live
      BY <1>2, <2>2 DEF MarksOK, EmptiesOK, Empty, NoClassObject
    <3>2. ~(classWorker.class = classes[c] /\ ClNoTrigger)
      BY <1>2, <2>2 DEF ClNoTrigger
    <3>3. ~(classWorker.key = c /\ ClRemoveTrigger)
      <4>1. SUFFICES ASSUME classWorker.key = c, ClRemoveTrigger PROVE FALSE
        OBVIOUS
      <4>2. classes'[c].obj = WithoutTrigger(classWorker.class.obj)
        BY <1>1, <4>1 DEF ClRemoveTrigger, SidesTypeOK, ClassesTypeOK, Updated
      <4>3. ~WithoutTrigger(classWorker.class.obj).itemUpdated
        BY <1>1, ClassCall DEF WithoutTrigger, NamespaceClass
      <4> QED BY <1>2, <4>2, <4>3
    <3>4. ~ClassSettled(c)
      BY <3>1, <3>2, <3>3 DEF ClassSettled
    <3> QED BY <1>1, <2>2, <3>1, <3>4, ClassAttention
  <2> QED BY <2>1, <2>2
<1>3. \A n \in Namespaces : states'[n].obj.classUpdated => AttendedState(n)'
  BY <1>1, StateMarksStep DEF MarksOK
<1>4. ASSUME NEW n \in Namespaces, NEW i \in Items, instances'[n][i].obj.updated
      PROVE  AttendedInstance(n, i)'
  <2>1. CASE instances'[n][i] # instances[n][i]
    BY <1>1, <2>1, ChangedInstance
  <2>2. CASE instances'[n][i] = instances[n][i]
    <3>1. AttendedInstance(n, i) /\ instances[n][i].live /\ instances[n][i].obj.updated
      BY <1>4, <2>2 DEF MarksOK, EmptiesOK, Empty, NoInstance
    <3> QED BY <1>1, <2>2, <3>1, InstanceAttention
  <2> QED BY <2>1, <2>2
<1> QED BY <1>2, <1>3, <1>4 DEF MarksOK

\* However often writes fail or are refused, the manager restarts and the informers
\* resync, as long as users delete no item: when nothing is left to do, nothing carries
\* an annotation any more that would make the next change be passed over.  For whoever
\* is annotated has changed since the informer looked, is queued, or is at work on as it
\* is; and who is done with it, without taking the annotation off, queues it again
\* (namespaceclassitem_controller.go:112, namespaceclass_controller.go:97-131,
\* namespacestate_controller.go:125-153, namespaceiteminstance_controller.go:93-97).
THEOREM OperatorUnmarked ==
    ASSUME ItemsStay, {"class", "state", "instance"} \subseteq Controllers,
           Namespaces \cap SystemNamespaces = {}
    PROVE  Spec => []SettledUnmarked
<1>1. Init => CachesOK /\ EmptiesOK /\ MarksOK
  BY UnmarkedFirst
<1>2. ItemsInv /\ CachesOK /\ EmptiesOK /\ MarksOK /\ [Next]_vars
      => (CachesOK /\ EmptiesOK /\ MarksOK)'
  <2> SUFFICES ASSUME ItemsInv, CachesOK, EmptiesOK, MarksOK, [Next]_vars
               PROVE  CachesOK' /\ EmptiesOK' /\ MarksOK'
    OBVIOUS
  <2>1. CachesOK' /\ EmptiesOK' /\ ItemsInv'
    BY CachesStep, EmptiesStep, ItemsInvStep DEF ItemsInv, IInv
  <2> QED BY <2>1, MarksStep
<1>3. MarksOK => SettledUnmarked
  BY DEF MarksOK, SettledUnmarked, Quiescent, AttendedClass, AttendedState, AttendedInstance
<1>4. Spec => []ItemsInv
  BY ItemsInvHolds
<1> QED BY <1>1, <1>2, <1>3, <1>4, PTL DEF Spec

-----------------------------------------------------------------------------
(***************************************************************************)
(* Every item of a class lists it                                          *)
(***************************************************************************)
\* A class the reconciler still has something to do for.
NeedsClass(c) ==
    /\ classes[c].live
    /\ \/ classes[c].obj.itemUpdated
       \/ classes[c].obj.deleting
       \/ \E i \in classes[c].obj.items : c \notin items[i].obj.refs

\* A class there has been that is going or has gone for good.
Left(c) == classes[c].uid >= 1 /\ (classes[c].live => classes[c].obj.deleting)

ToldOK == \A c \in Classes : NeedsClass(c) => AttendedClass(c)

BusyOK == classWorker.pc # "idle" => AttendedClass(classWorker.key)

\* The items the reconciler is done with list the class, if it is what it was.
ListedOK ==
    LET w == classWorker IN
    w.pc \in {"addFinalizer", "list", "update", "addRef"} =>
        /\ ~w.class.obj.deleting
        /\ w.class = classes[w.key] =>
              \A i \in w.class.obj.items \ w.todo : w.key \in items[i].obj.refs

\* Where a class is never created anew under its name, who has seen it deleted is right
\* for good, and only then a copy of an item may list it in vain.
OnceOK ==
    /\ \A c \in Classes :
          /\ classes[c].uid <= 1 /\ (classes[c].live => classes[c].uid = 1)
          /\ classCache[c].live /\ classCache[c].obj.deleting => Left(c)
          /\ \A i \in Items : c \in itemCache[i].obj.refs \ items[i].obj.refs => Left(c)
    /\ classWorker.pc \in {"release", "dropRef"} => Left(classWorker.key)

LEMMA BusyStep ==
    ASSUME "class" \in Controllers, IInv, IInv', BusyOK, [Next]_vars
    PROVE  BusyOK'
<1> SUFFICES ASSUME classWorker'.pc # "idle"
             PROVE  \A c \in Classes : c = classWorker'.key => AttendedClass(c)'
  BY ClassCall DEF BusyOK, IInv, SidesTypeOK, ClCallWith
<1> TAKE c \in Classes
<1> HAVE c = classWorker'.key
<1>1. CASE classes'[c] # classes[c]
  BY <1>1, ChangedClass DEF AttendedClass
<1>2. CASE classes'[c] = classes[c] /\ AttendedClass(c)
  BY <1>2, ClassAttention DEF ClassSettled
<1>3. CASE classes'[c] = classes[c] /\ ~AttendedClass(c)
  <2>1. ~(classWorker.pc # "idle" /\ classWorker.key = c)
    BY <1>3 DEF BusyOK
  <2>2. ~UNCHANGED classWorker
    BY <2>1
  <2>3. ClReconcile /\ classCache' = classCache
    BY <2>2, NextClasses, ClIdleTypes
    DEF ClassesNext, clVars, SyncClasses, Restart, Resync, ClCallFails, ClRequeue
  <2>4. classWorker.pc # "idle" => classWorker'.key = classWorker.key
    BY <2>3, ClIdleTypes
    DEF ClReconcile, ClGetClass, ClAddFinalizer, ClAt, ClListStates, ClAnnotateState, ClGetItem,
        ClAddRef, ClDropRef, ClWriteRefs, ClRemoveTrigger, ClNoTrigger, ClRemoveFinalizer,
        ClRejected, ClReturn, ClRequeue, IInv, SidesTypeOK, ClCallWith
  <2>5. PICK d \in Classes : ClGetClass(d)
    BY <2>1, <2>3, <2>4
    DEF ClReconcile, ClAddFinalizer, ClListStates, ClAnnotateState, ClGetItem, ClAddRef,
        ClDropRef, ClWriteRefs, ClRemoveTrigger, ClNoTrigger, ClRemoveFinalizer, ClRejected,
        ClUpdatesClass
  <2>6. classWorker'.key = d /\ classWorker'.class = classCache[d]
    BY <2>5, ClIdleTypes DEF ClGetClass, ClAt
  <2> QED BY <1>3, <2>3, <2>6 DEF AttendedClass
<1> QED BY <1>1, <1>2, <1>3

LEMMA ToldStep ==
    ASSUME "class" \in Controllers, IInv, IInv', ItemsGoOn, ToldOK, BusyOK, ListedOK,
           [Next]_vars
    PROVE  ToldOK'
<1> SUFFICES ASSUME NEW c \in Classes, NeedsClass(c)', ~AttendedClass(c)'
             PROVE  FALSE
  BY DEF ToldOK
<1>1. classes'[c] = classes[c]
  BY ChangedClass DEF AttendedClass
<1>2. ~ClassSettled(c) => ~AttendedClass(c)
  BY <1>1, ClassAttention
<1>3. /\ SidesTypeOK /\ classes[c] \in Slot(NamespaceClass)
      /\ classes[c].obj \in NamespaceClass /\ classes[c].live
  BY <1>1, Slots DEF IInv, Slot, NeedsClass
<1>4. CASE ClassSettled(c)
  <2>1. /\ classWorker.key = c /\ classWorker.class = classes[c]
        /\ ClRemoveTrigger \/ ClNoTrigger
    BY <1>3, <1>4 DEF ClassSettled
  <2>2. /\ classWorker.pc = "update" /\ classWorker.todo = {} /\ items' = items
        /\ classWorker.key \in Classes
    BY <1>3, <2>1 DEF ClRemoveTrigger, ClNoTrigger, ClItemsDone
  <2>3. /\ ~classes[c].obj.deleting
        /\ \A i \in classes[c].obj.items : c \in items[i].obj.refs
    BY <2>1, <2>2 DEF ListedOK
  <2>4. CASE ClNoTrigger
    BY <1>1, <2>1, <2>2, <2>3, <2>4 DEF NeedsClass, ClNoTrigger
  <2>5. CASE ClRemoveTrigger
    <3>1. classes'[c].obj = WithoutTrigger(classes[c].obj)
      BY <1>3, <2>1, <2>5 DEF ClRemoveTrigger, SidesTypeOK, ClassesTypeOK, Updated
    <3>2. ~WithoutTrigger(classes[c].obj).itemUpdated
      BY <1>3 DEF WithoutTrigger, NamespaceClass
    <3> QED BY <1>1, <2>2, <2>3, <3>1, <3>2 DEF NeedsClass
  <2> QED BY <2>1, <2>4, <2>5
<1>5. CASE ~ClassSettled(c)
  <2>1. ~NeedsClass(c)
    BY <1>2, <1>5 DEF ToldOK
  <2>2. PICK i \in classes[c].obj.items : c \in items[i].obj.refs /\ c \notin items'[i].obj.refs
    BY <1>1, <2>1 DEF NeedsClass
  <2>3. i \in Items
    BY <1>3, <2>2 DEF NamespaceClass
  <2>4. ClDropRef /\ classWorker.key = c
    BY <2>2, <2>3 DEF ItemsGoOn, RefsTurn
  <2>5. AttendedClass(c)
    BY <2>4 DEF BusyOK, ClDropRef, ClWriteRefs
  <2> QED BY <1>2, <1>5, <2>5
<1> QED BY <1>4, <1>5

\* While the call goes on that has handled the items, a class that was written is not what
\* the call has in hand, and none but the call takes an item from the class.
LEMMA ListedStays ==
    ASSUME IInv, IInv', ItemsGoOn, ListedOK, [Next]_vars, UNCHANGED classWorker
    PROVE  ListedOK'
<1> DEFINE w == classWorker
<1> SUFFICES ASSUME w.pc \in {"addFinalizer", "list", "update", "addRef"}
             PROVE  \A c \in Classes : c = w.key =>
                       /\ ~w.class.obj.deleting
                       /\ w.class = classes'[c] =>
                             \A i \in w.class.obj.items \ w.todo : c \in items'[i].obj.refs
  BY ClassCall DEF IInv, ListedOK
<1> TAKE c \in Classes
<1> HAVE c = w.key
<1>1. ~w.class.obj.deleting
  BY DEF ListedOK
<1>2. ASSUME w.class = classes'[c], NEW i \in w.class.obj.items \ w.todo
      PROVE  c \in items'[i].obj.refs
  <2>1. /\ w.class \in Slot(NamespaceClass) /\ classes[c] \in Slot(NamespaceClass)
        /\ classes'[c] \in Slot(NamespaceClass) /\ w.class.obj.items \in SUBSET Items
        /\ Later(classes[c], classes'[c]) /\ Fresh(w.class, classes[c])
    BY ClassCall, Slots, ClassesTurn, Parts
    DEF IInv, ClassWorkerSound, SidesTypeOK, ClassesTypeOK
  <2>2. classes'[c] = classes[c]
    BY <1>2, <2>1, OldCopy
  <2>3. c \in items[i].obj.refs
    BY <1>2, <2>2 DEF ListedOK
  <2>4. ~ClDropRef
    BY DEF ClDropRef, ClWriteRefs
  <2> QED BY <1>2, <2>1, <2>3, <2>4 DEF ItemsGoOn, RefsTurn
<1> QED BY <1>1, <1>2

\* A call that reads a class, or goes on without reading an item.
LEMMA ListedGoes ==
    ASSUME SidesTypeOK, ClassWorkerSound, ListedOK, UNCHANGED classCache,
           \/ \E c \in Classes : ClGetClass(c)
           \/ ClAddFinalizer
           \/ ClListStates
           \/ \E n \in Namespaces : ClAnnotateState(n)
    PROVE  ListedOK'
<1> DEFINE w == classWorker
           c == classWorker.key
<1>1. /\ c \in Classes /\ w.class \in Slot(NamespaceClass) /\ w.class.obj \in NamespaceClass
      /\ \A d \in Classes : /\ classes[d] \in Slot(NamespaceClass)
                            /\ classCache[d] \in Slot(NamespaceClass)
      /\ w \in ClCallWith(w.seen)
  BY ClassCall, Slots DEF SidesTypeOK
<1>2. ASSUME NEW d \in Classes, ClGetClass(d)
      PROVE  ListedOK'
  <2>1. CASE classCache[d].live
    <3>1. classWorker' = ClAt(ClFirst(classCache[d]), d, classCache[d], classCache[d].obj.items)
      BY <1>2, <2>1 DEF ClGetClass
    <3>2. classCache[d].obj.deleting => ClFirst(classCache[d]) = "release"
      BY DEF ClFirst
    <3> QED BY <3>1, <3>2 DEF ListedOK, ClAt
  <2>2. CASE ~classCache[d].live
    BY <1>2, <2>2, ClIdleTypes DEF ClGetClass, ListedOK
  <2> QED BY <2>1, <2>2
<1>3. CASE ClAddFinalizer
  <2> DEFINE obj == WithFinalizer(w.class.obj)
             new == Updated(classes[c], obj)
  <2>1. /\ w.pc = "addFinalizer" /\ UNCHANGED items
        /\ classes[c].live /\ classes[c].rv = w.class.rv
        /\ classes' = [classes EXCEPT ![c] = new]
        /\ classWorker' = ClAt("list", c, new, w.todo)
    BY <1>3 DEF ClAddFinalizer, ClMayUpdate, SameVersion
  <2>2. w.class = classes[c]
    BY <1>1, <2>1 DEF ClassWorkerSound, Fresh, Slot
  <2>3. /\ new.obj = obj /\ obj.items = w.class.obj.items
        /\ obj.deleting = w.class.obj.deleting
    BY <1>1, SlotHolds DEF WithFinalizer, NamespaceClass, Updated
  <2>4. ~w.class.obj.deleting /\ \A i \in w.class.obj.items \ w.todo : c \in items[i].obj.refs
    BY <2>1, <2>2 DEF ListedOK
  <2>5. /\ classWorker'.key = c /\ classWorker'.class = new /\ classWorker'.todo = w.todo
    BY <2>1 DEF ClAt
  <2>6. /\ classWorker'.class.obj.items = w.class.obj.items
        /\ ~classWorker'.class.obj.deleting
    BY <2>3, <2>4, <2>5
  <2> HIDE DEF new, obj
  <2> QED BY <2>1, <2>4, <2>5, <2>6 DEF ListedOK
<1>4. CASE ClListStates \/ \E n \in Namespaces : ClAnnotateState(n)
  <2>1. /\ classWorker'.key = c /\ classWorker'.class = w.class /\ classWorker'.todo = w.todo
        /\ w.pc \in {"list", "update"} /\ UNCHANGED <<classes, items>>
    BY <1>1, <1>4 DEF ClListStates, ClAnnotateState, ClCallWith
  <2> QED BY <2>1 DEF ListedOK
<1> QED BY <1>2, <1>3, <1>4

\* An item is passed over only if it lists the class.
LEMMA ListedPasses ==
    ASSUME SidesTypeOK, ClassWorkerSound, ItemsLive, ListedOK, ~ItemLag \/ OnceOK,
           NEW i \in Items, ClGetItem(i)
    PROVE  ListedOK'
<1> DEFINE w == classWorker
           c == classWorker.key
<1>1. /\ c \in Classes /\ w \in ClCallWith(w.seen) /\ w.pc \in {"update", "release"}
      /\ itemCache[i].live /\ UNCHANGED <<classes, items>>
  BY ClassCall DEF SidesTypeOK, ItemsLive, ClGetItem
<1>2. CASE ClPasses(w, itemCache[i])
  <2>1. /\ w.pc = "update" /\ c \in itemCache[i].obj.refs
        /\ classWorker' = [w EXCEPT !.todo = @ \ {i}]
    BY <1>1, <1>2 DEF ClPasses, ClGetItem
  <2>2. /\ classWorker'.pc = "update" /\ classWorker'.key = c /\ classWorker'.class = w.class
        /\ classWorker'.todo = w.todo \ {i}
    BY <1>1, <2>1 DEF ClCallWith
  <2>3. ~w.class.obj.deleting
    BY <2>1 DEF ListedOK
  <2>4. ASSUME w.class = classes[c]
        PROVE  c \in items[i].obj.refs
    <3>1. CASE ~ItemLag
      BY <2>1, <3>1 DEF ClGetItem
    <3>2. CASE OnceOK
      <4>1. classes[c].live
        BY <2>1 DEF ClassWorkerSound, HasFinalizer
      <4>2. ~Left(c)
        BY <2>3, <2>4, <4>1 DEF Left
      <4> QED BY <1>1, <2>1, <3>2, <4>2 DEF OnceOK
    <3> QED BY <3>1, <3>2
  <2> QED BY <1>1, <2>1, <2>2, <2>3, <2>4 DEF ListedOK
<1>3. CASE ~ClPasses(w, itemCache[i])
  <2>1. /\ classWorker'.pc = (IF w.pc = "update" THEN "addRef" ELSE "dropRef")
        /\ classWorker'.key = c /\ classWorker'.class = w.class /\ classWorker'.todo = w.todo
    BY <1>3 DEF ClGetItem
  <2> QED BY <1>1, <2>1 DEF ListedOK
<1> QED BY <1>2, <1>3

LEMMA ListedStep ==
    ASSUME IInv, IInv', ItemsLive, ItemsGoOn, ListedOK, ~ItemLag \/ OnceOK, [Next]_vars
    PROVE  ListedOK'
<1>1. SidesTypeOK /\ ClassWorkerSound
  BY Parts DEF IInv
<1>2. ASSUME classWorker'.pc \notin {"addFinalizer", "list", "update", "addRef"}
      PROVE  ListedOK'
  BY <1>2 DEF ListedOK
<1>3. CASE UNCHANGED classWorker
  BY <1>3, ListedStays
<1>4. CASE ~UNCHANGED classWorker
  <2>1. CASE ClReconcile /\ UNCHANGED <<classCache, itemCache, itemWorker>>
    <3>1. CASE \/ \E c \in Classes : ClGetClass(c)
               \/ ClAddFinalizer
               \/ ClListStates
               \/ \E n \in Namespaces : ClAnnotateState(n)
      BY <1>1, <2>1, <3>1, ListedGoes
    <3>2. CASE \E i \in Items : ClGetItem(i)
      BY <1>1, <3>2, ListedPasses
    <3>3. CASE ClAddRef
      <4> DEFINE w == classWorker
                 refs == w.item.obj.refs \cup {w.key}
      <4>1. ClWriteRefs("addRef", refs, "update") /\ refs \in SUBSET Classes
        BY <1>1, <3>3, ClassCall DEF ClAddRef
      <4>2. /\ w.pc = "addRef" /\ UNCHANGED classes
            /\ classWorker'.key = w.key /\ classWorker'.class = w.class
            /\ classWorker'.todo = w.todo \ {w.at}
        BY <4>1 DEF ClWriteRefs
      <4>3. w.key \in refs /\ w.class.obj.items \in SUBSET Items
        BY <1>1, ClassCall
      <4> HIDE DEF refs
      <4>4. /\ items'[w.at].obj.refs = refs
            /\ \A j \in Items \ {w.at} : items'[j] = items[j]
        BY <1>1, <2>1, <4>1, RefsWritten
      <4> QED BY <4>2, <4>3, <4>4 DEF ListedOK
    <3>4. CASE ClDropRef \/ ClRemoveTrigger \/ ClNoTrigger \/ ClRemoveFinalizer \/ ClRejected
      BY <1>2, <3>4, ClIdleTypes
      DEF ClDropRef, ClWriteRefs, ClRemoveTrigger, ClNoTrigger, ClRemoveFinalizer, ClRejected,
          ClReturn, ClRequeue
    <3> QED BY <2>1, <3>1, <3>2, <3>3, <3>4 DEF ClReconcile
  <2>2. CASE ClCallFails \/ Restart
    BY <1>2, <2>2, ClIdleTypes DEF ClCallFails, ClRequeue, Restart
  <2>3. CASE SyncClasses \/ Resync \/ UNCHANGED clVars
    BY <1>4, <2>3 DEF SyncClasses, Resync, clVars
  <2> QED BY <2>1, <2>2, <2>3, NextClasses DEF ClassesNext
<1> QED BY <1>3, <1>4

LEMMA LeftStays ==
    ASSUME MaxLives = 1, IInv, [Next]_vars, NEW c \in Classes, Left(c)
    PROVE  Left(c)'
<1>1. ClassTurn(classes[c], classes'[c]) /\ classes[c].uid \in Nat
  BY ClassesTurn, Slots DEF IInv, Slot
<1> QED BY <1>1 DEF ClassTurn, Left

LEMMA OnceStep ==
    ASSUME MaxLives = 1, IInv, IInv', ItemsGoOn, OnceOK, [Next]_vars
    PROVE  OnceOK'
<1>1. \A c \in Classes : Left(c) => Left(c)'
  BY LeftStays
<1>2. SidesTypeOK /\ ClassesTypeOK /\ ItemsTypeOK
  BY DEF IInv, SidesTypeOK
<1>3. ASSUME NEW c \in Classes
      PROVE  classes'[c].uid <= 1 /\ (classes'[c].live => classes'[c].uid = 1)
  <2>1. ClassTurn(classes[c], classes'[c]) /\ classes[c].uid \in Nat
    BY <1>2, ClassesTurn, Slots DEF Slot
  <2>2. classes[c].uid <= 1 /\ (classes[c].live => classes[c].uid = 1)
    BY DEF OnceOK
  <2> QED BY <2>1, <2>2 DEF ClassTurn
<1>4. ASSUME NEW c \in Classes, classCache'[c].live, classCache'[c].obj.deleting
      PROVE  Left(c)'
  <2>1. CASE classCache' = classCache
    BY <1>1, <1>4, <2>1 DEF OnceOK
  <2>2. CASE classCache' # classCache
    <3>1. classCache' = classes /\ UNCHANGED classes
      BY <2>2, NextClasses
      DEF ClassesNext, SyncClasses, Restart, Resync, stores, classStore, clVars
    <3> QED BY <1>3, <1>4, <3>1 DEF Left
  <2> QED BY <2>1, <2>2
<1>5. ASSUME NEW c \in Classes, NEW i \in Items,
             c \in itemCache'[i].obj.refs \ items'[i].obj.refs
      PROVE  Left(c)'
  <2>1. CASE itemCache' = itemCache /\ c \in items[i].obj.refs
    <3>1. ClDropRef /\ classWorker.key = c
      BY <1>5, <2>1 DEF ItemsGoOn, RefsTurn
    <3>2. Left(c)
      BY <3>1 DEF OnceOK, ClDropRef, ClWriteRefs
    <3> QED BY <1>1, <3>2
  <2>2. CASE itemCache' = itemCache /\ c \notin items[i].obj.refs
    BY <1>1, <1>5, <2>2 DEF OnceOK
  <2>3. CASE itemCache' # itemCache
    <3>1. itemCache' = items /\ UNCHANGED items
      BY <2>3
      DEF Next, vars, stores, itemStore, Users, Kubernetes, SyncNamespaces, SyncStates,
          SyncClasses, SyncItems, SyncInstances, NsStep, StateStep, ClassStep, ItemStep,
          InstanceStep, Restart, Resync, Fault
    <3> QED BY <1>5, <3>1
  <2> QED BY <2>1, <2>2, <2>3
<1>6. ASSUME classWorker'.pc \in {"release", "dropRef"}
      PROVE  \A c \in Classes : c = classWorker'.key => Left(c)'
  <2>1. CASE UNCHANGED classWorker
    BY <1>1, <1>6, <2>1, ClassCall DEF OnceOK, IInv
  <2>2. CASE ~UNCHANGED classWorker
    <3>1. ClReconcile
      BY <1>6, <2>2, NextClasses, ClIdleTypes
      DEF ClassesNext, clVars, SyncClasses, Restart, Resync, ClCallFails, ClRequeue
    <3>2. ASSUME NEW d \in Classes, ClGetClass(d)
          PROVE  \A c \in Classes : c = classWorker'.key => Left(c)'
      <4>1. classCache[d].live
        BY <1>6, <3>2, ClIdleTypes DEF ClGetClass
      <4>2. classWorker' = ClAt(ClFirst(classCache[d]), d, classCache[d], classCache[d].obj.items)
        BY <3>2, <4>1 DEF ClGetClass
      <4>3. classCache[d].obj.deleting /\ classWorker'.key = d
        BY <1>6, <4>2 DEF ClFirst, ClAt
      <4> QED BY <1>1, <4>1, <4>3 DEF OnceOK
    <3>3. CASE ~\E d \in Classes : ClGetClass(d)
      <4>1. /\ classWorker.pc \in {"release", "dropRef"} /\ classWorker'.key = classWorker.key
            /\ classWorker.key \in Classes
        BY <1>2, <1>6, <3>1, <3>3, ClIdleTypes, ClassCall
        DEF ClReconcile, ClAddFinalizer, ClAt, ClListStates, ClAnnotateState, ClGetItem,
            ClAddRef, ClDropRef, ClWriteRefs, ClRemoveTrigger, ClNoTrigger, ClRemoveFinalizer,
            ClRejected, ClReturn, ClRequeue, SidesTypeOK, ClCallWith
      <4> QED BY <1>1, <4>1 DEF OnceOK
    <3> QED BY <3>2, <3>3
  <2> QED BY <2>1, <2>2
<1>7. classWorker'.pc \in {"release", "dropRef"} => Left(classWorker.key)'
  BY <1>6 DEF IInv, SidesTypeOK, ClCallWith, Left
<1> QED BY <1>3, <1>4, <1>5, <1>7 DEF OnceOK

LEMMA ReferencedInit == Init => ToldOK /\ BusyOK /\ ListedOK /\ OnceOK
<1> SUFFICES ASSUME Init PROVE ToldOK /\ BusyOK /\ ListedOK /\ OnceOK
  OBVIOUS
<1>1. PICK start \in Starts :
        /\ classes = [c \in Classes |-> FirstClass(c, start)]
        /\ items = [i \in Items |-> FirstItem(i, start)]
  BY DEF Init
<1>2. classCache = classes /\ itemCache = items /\ classWorker.pc = "idle"
  BY InitTypes
<1>3. ASSUME NEW c \in Classes
      PROVE  /\ classes[c].uid <= 1 /\ (classes[c].live => classes[c].uid = 1)
             /\ ~(classes[c].live /\ classes[c].obj.deleting)
             /\ ~NeedsClass(c)
  <2>1. classes[c] = FirstClass(c, start) /\ \A i \in Items : items[i] = FirstItem(i, start)
    BY <1>1
  <2>2. CASE start.inPlace
    <3>1. FirstItems[c] \in SUBSET Items
      BY StartAssumption
    <3>2. /\ classes[c].uid = 1 /\ classes[c].obj.items = FirstItems[c]
          /\ ~classes[c].obj.deleting /\ ~classes[c].obj.itemUpdated
      BY <2>1, <2>2 DEF FirstClass, First
    <3>3. ASSUME NEW i \in FirstItems[c]
          PROVE  c \in items[i].obj.refs
      <4> DEFINE listing == {d \in Classes : i \in FirstItems[d]}
      <4>1. items[i] = FirstItem(i, start)
        BY <2>1, <3>1, <3>3
      <4>2. FirstItem(i, start) = First([gen |-> 1, template |-> FirstTemplate[i], obs |-> 1,
                                         refs |-> IF start.inPlace THEN listing ELSE {}])
        BY Zenon DEF FirstItem
      <4>3. c \in listing
        BY <3>3
      <4> HIDE DEF listing
      <4>4. items[i].obj.refs = listing
        BY <2>2, <4>1, <4>2 DEF First
      <4> QED BY <4>3, <4>4
    <3> QED BY <3>2, <3>3 DEF NeedsClass
  <2>3. CASE ~start.inPlace
    <3>1. classes[c].uid = 0 /\ ~classes[c].live
      BY <2>1, <2>3 DEF FirstClass, Vacant
    <3> QED BY <3>1 DEF NeedsClass
  <2> QED BY <2>2, <2>3
<1>4. ToldOK /\ BusyOK /\ ListedOK
  BY <1>2, <1>3 DEF ToldOK, BusyOK, ListedOK
<1>5. OnceOK
  BY <1>2, <1>3 DEF OnceOK
<1> QED BY <1>4, <1>5

\* As long as users delete no item, and either no class is created anew under a name that
\* was used or the reads of items are not out of date: when nothing is left to do, every
\* item of every class lists the class, so that a change of the item will reach it.  For
\* a class with an item that does not list it has changed since the informer looked, is
\* queued, or is in hand as it is and the item still to be handled; and none but the
\* call in hand takes the class out of an item
\* (namespaceclass_controller.go:62-131, 132-173, 196-237).
THEOREM OperatorReferenced ==
    ASSUME ItemsStay, "class" \in Controllers, ~ItemLag \/ MaxLives = 1
    PROVE  Spec => []SettledReferenced
<1> DEFINE Inv == /\ ToldOK /\ BusyOK /\ ListedOK
                  /\ MaxLives = 1 => OnceOK
<1>1. Init => Inv
  BY ReferencedInit
<1>2. ItemsInv /\ Inv /\ [Next]_vars => Inv'
  <2> SUFFICES ASSUME ItemsInv, Inv, [Next]_vars
               PROVE  Inv'
    OBVIOUS
  <2>1. /\ IInv /\ LeftOK /\ ItemsLive /\ IInv'
    BY ItemsInvStep DEF ItemsInv
  <2>2. ItemsGoOn
    BY <2>1, ItemsStep
  <2>3. ToldOK' /\ BusyOK' /\ ListedOK'
    BY <2>1, <2>2, ToldStep, BusyStep, ListedStep
  <2>4. MaxLives = 1 => OnceOK'
    BY <2>1, <2>2, OnceStep
  <2> QED BY <2>3, <2>4
<1>3. ItemsInv /\ Inv => SettledReferenced
  <2> SUFFICES ASSUME Inv, Quiescent, NEW c \in Classes, classes[c].live,
                      NEW i \in classes[c].obj.items
               PROVE  c \in items[i].obj.refs
    BY DEF SettledReferenced
  <2>1. ~AttendedClass(c)
    BY DEF Quiescent, AttendedClass
  <2> QED BY <2>1 DEF ToldOK, NeedsClass
<1>4. Spec => []ItemsInv
  BY ItemsInvHolds
<1> HIDE DEF Inv
<1> QED BY <1>1, <1>2, <1>3, <1>4, PTL DEF Spec

-----------------------------------------------------------------------------
(***************************************************************************)
(* Where labels that are given stay, so do NamespaceStates and classes     *)
(***************************************************************************)
\* A label that is given stays, and where labels are given no class is deleted.
LabelsStay ==
    \A start \in Starts :
        /\ "relabel" \notin start.acts
        /\ "label" \in start.acts => "deleteClass" \notin start.acts

LabelsLeft ==
    /\ left \in StartRecord /\ ~May("relabel")
    /\ May("label") => ~May("deleteClass")

Label(n) == namespaces[n].obj.label

\* The class of a namespace that has its NamespaceState.
Given(n) == IF states[n].live THEN Label(n) ELSE NoClass

\* Classes that are in use, or may be at any moment.
Taken(c) == May("label") \/ \E n \in Namespaces : Given(n) = c

\* A NamespaceState, or a copy of it, of a namespace that keeps its label.
Steady(n, slot) ==
    IF slot.live
    THEN /\ slot.uid = 1 /\ slot.obj.owner = 1 /\ Label(n) # NoClass
         /\ slot.obj.class = Label(n) /\ slot.obj.pending = NoClass
    ELSE slot.uid = 0

\* The informer may not have a label yet, but has that of a NamespaceState.
NamesOK ==
    \A n \in Namespaces :
        /\ namespaces[n].live /\ namespaces[n].uid = 1
        /\ nsCache[n].live /\ nsCache[n].uid = 1
        /\ nsCache[n].obj.label \in {NoClass, Label(n)}
        /\ states[n].live => nsCache[n].obj.label = Label(n)
        /\ Label(n) = NoClass \/ states[n].live \/ May("label")

\* The namespace reconciler creates NamespaceStates, and does nothing else.
NsSteady ==
    LET w == nsWorker IN
    w.pc # "idle" =>
        /\ w.pc \in {"getState", "createState"} /\ w.ns.uid = 1
        /\ w.ns.obj.label # NoClass =>
              w.ns.obj.label = Label(w.key) /\ nsCache[w.key].obj.label = Label(w.key)
        /\ states[w.key].live \/ w.pc = "createState" => w.ns.obj.label # NoClass

StatesSteady ==
    /\ \A n \in Namespaces : /\ Steady(n, states[n]) /\ Steady(n, stateCache[n])
                             /\ stateCache[n].live => states[n].live
    /\ \A n \in classWorker.marks : classWorker.seen[n].live /\ Steady(n, classWorker.seen[n])

StSteady ==
    LET w == stateWorker IN
    w.pc # "idle" =>
        /\ w.state.live /\ Steady(w.key, w.state) /\ states[w.key].live
        /\ Fresh(w.state, states[w.key])

\* A namespace with a label has got its NamespaceState.
StateGiven(n) ==
    /\ ~states[n].live /\ Label(n) # NoClass /\ nsCache[n].obj.label = Label(n)
    /\ states' = [states EXCEPT ![n] =
                     Created(@, [owner |-> 1, class |-> Label(n), pending |-> NoClass,
                                 classUpdated |-> FALSE])]

LEMMA NsGives ==
    ASSUME RestTypeOK, NamesOK, NsSteady, NsReconcile
    PROVE  UNCHANGED states \/ \E n \in Namespaces : StateGiven(n)
<1> DEFINE w == nsWorker
           n == nsWorker.key
<1>1. w \in NsCall /\ n \in Namespaces
  BY DEF RestTypeOK, WorkersOK, NsCallOK, NsCall
<1>2. ~NsDeleteState /\ ~NsMarkPending
  BY DEF NsSteady, NsDeleteState, NsMarkPending
<1>3. CASE NsCreateState
  <2>1. /\ w.pc = "createState" /\ ~states[n].live
        /\ states' = [states EXCEPT ![n] = Created(states[n], NewState(w.ns))]
    BY <1>3 DEF NsCreateState
  <2>2. /\ w.ns.uid = 1 /\ w.ns.obj.label = Label(n) /\ Label(n) # NoClass
        /\ nsCache[n].obj.label = Label(n)
    BY <2>1 DEF NsSteady
  <2>3. NewState(w.ns) = [owner |-> 1, class |-> Label(n), pending |-> NoClass,
                          classUpdated |-> FALSE]
    BY <2>2 DEF NewState
  <2>4. StateGiven(n)
    BY <2>1, <2>2, <2>3 DEF StateGiven
  <2> QED BY <1>1, <2>4
<1> QED
  BY <1>2, <1>3 DEF NsReconcile, NsGetNamespace, NsGetState, NsRejected

\* Only a commit or an annotation writes a NamespaceState that is there.
LEMMA StatesHeld ==
    ASSUME RestTypeOK, NamesOK, StatesSteady, NsSteady, [Next]_vars
    PROVE  \/ UNCHANGED states
           \/ StCommit /\ UNCHANGED nsWorker
           \/ (\E n \in Namespaces : ClAnnotateState(n)) /\ UNCHANGED nsWorker
           \/ (\E n \in Namespaces : StateGiven(n)) /\ NsStep
<1> USE DEF stateStore, nsVars
<1>1. CASE Kubernetes
  <2>1. \A n \in Namespaces : ~OrphanState(n)
    BY DEF OrphanState, Owns, NamesOK, StatesSteady, Steady
  <2> QED BY <1>1, <2>1 DEF Kubernetes, CollectState, CollectInstance
<1>2. CASE NsStep
  BY <1>2, NsGives DEF NsStep
<1>3. CASE StateStep
  BY <1>3
  DEF StateStep, StReconcile, StGetState, StGetClass, StListInstances, StAnnotateInstance,
      StCreateInstance, StDeleteInstance, StNothingToCommit, StRejected
<1>4. CASE ClassStep
  BY <1>4
  DEF ClassStep, ClReconcile, ClGetClass, ClAddFinalizer, ClListStates, ClGetItem, ClAddRef,
      ClDropRef, ClWriteRefs, ClRemoveTrigger, ClNoTrigger, ClRemoveFinalizer, ClRejected
<1>5. CASE Fault
  BY <1>5 DEF Fault, NsCallFails, StCallFails, ClCallFails
<1> QED
  BY <1>1, <1>2, <1>3, <1>4, <1>5
  DEF Next, vars, stores, Users, SyncNamespaces, SyncStates, SyncClasses, SyncItems,
      SyncInstances, ItemStep, InstanceStep, Restart, Resync

LEMMA StatesLive ==
    ASSUME RestTypeOK, NamesOK, StatesSteady, NsSteady, [Next]_vars, NEW n \in Namespaces
    PROVE  /\ states[n].live => states'[n].live
           /\ states'[n].live /\ ~states[n].live => StateGiven(n) /\ NsStep
<1>1. states \in [Namespaces -> Slot(NamespaceState)]
  BY DEF RestTypeOK, StoresOK, StatesTypeOK
<1>2. CASE StCommit
  <2>1. /\ SameVersion(states[stateWorker.key], stateWorker.state)
        /\ states' = [states EXCEPT ![stateWorker.key] =
                         Updated(states[stateWorker.key], Committed(stateWorker.state))]
    BY <1>2 DEF StCommit
  <2>2. \/ states'[n] = states[n]
        \/ states[n].live /\ states'[n] = Updated(states[n], Committed(stateWorker.state))
    BY <1>1, <2>1 DEF SameVersion
  <2> QED BY <2>2 DEF Updated
<1>3. ASSUME NEW m \in Namespaces, ClAnnotateState(m)
      PROVE  states'[n].live <=> states[n].live
  <2> DEFINE obj == WithClassUpdated(classWorker.seen[m].obj)
  <2>1. states[m].live /\ states' = [states EXCEPT ![m] = Updated(states[m], obj)]
    BY <1>3 DEF ClAnnotateState, SameVersion
  <2>2. Updated(states[m], obj).live
    BY <2>1 DEF Updated
  <2> HIDE DEF obj
  <2> QED BY <1>1, <2>1, <2>2
<1>4. ASSUME NEW m \in Namespaces, StateGiven(m)
      PROVE  /\ states[n].live => states'[n].live
             /\ states'[n].live /\ ~states[n].live => n = m
  BY <1>1, <1>4 DEF StateGiven
<1> QED BY <1>2, <1>3, <1>4, StatesHeld

LEMMA LabelsMove ==
    ASSUME RestTypeOK, LabelsLeft, NamesOK, [Next]_vars
    PROVE  /\ \A n \in Namespaces :
                 /\ namespaces'[n].live /\ namespaces'[n].uid = 1
                 /\ Label(n) # NoClass \/ ~May("label") => Label(n)' = Label(n)
           /\ \/ UNCHANGED nsCache
              \/ /\ nsCache' = namespaces /\ UNCHANGED <<namespaces, states>>
                 /\ UNCHANGED nsWorker \/ nsWorker' = NsIdle
           /\ May("label")' <=> May("label")
<1> USE DEF nsStore, nsVars, stateStore
<1>1. namespaces \in [Namespaces -> Slot(Namespace)]
  BY DEF RestTypeOK, StoresOK, NamespacesTypeOK
<1>2. May("label")' <=> May("label")
  BY ActsStay DEF LabelsLeft, May
<1>3. CASE UNCHANGED namespaces
  <2>1. CASE Kubernetes
    BY <1>2, <1>3, <2>1 DEF Kubernetes, NamesOK, Label
  <2> QED
    BY <1>2, <1>3, <2>1
    DEF Next, vars, stores, Users, SyncNamespaces, SyncStates, SyncClasses, SyncItems,
        SyncInstances, NsStep, StateStep, ClassStep, ItemStep, InstanceStep, Fault, Restart,
        Resync, NamesOK, Label
<1>4. CASE ~UNCHANGED namespaces
  <2>1. Users
    BY <1>4
    DEF Next, vars, stores, Kubernetes, CollectState, CollectInstance, SyncNamespaces,
        SyncStates, SyncClasses, SyncItems, SyncInstances, NsStep, StateStep, ClassStep,
        ItemStep, InstanceStep, Fault, Restart, Resync
  <2>2. PICK m \in Namespaces, label \in Labels :
           May("label") /\ namespaces[m].obj.label = NoClass /\ Relabel(m, label)
    BY <1>4, <2>1 DEF Users, LabelsLeft
  <2>3. UNCHANGED nsCache
    BY <2>1 DEF Users
  <2> DEFINE obj == [namespaces[m].obj EXCEPT !.label = label]
  <2>4. namespaces' = [namespaces EXCEPT ![m] = Updated(namespaces[m], obj)]
    BY <2>2 DEF Relabel
  <2> HIDE DEF obj
  <2>5. Updated(namespaces[m], obj).live /\ Updated(namespaces[m], obj).uid = 1
    BY DEF Updated, NamesOK
  <2>6. \A n \in Namespaces : n # m => namespaces'[n] = namespaces[n]
    BY <1>1, <2>4
  <2>7. namespaces'[m].live /\ namespaces'[m].uid = 1
    BY <1>1, <2>4, <2>5
  <2> QED BY <1>2, <2>2, <2>3, <2>6, <2>7 DEF NamesOK, Label
<1> QED BY <1>3, <1>4

LEMMA NamesStep ==
    ASSUME RestTypeOK, LabelsLeft, NamesOK, StatesSteady, NsSteady, [Next]_vars
    PROVE  NamesOK'
<1> SUFFICES ASSUME NEW n \in Namespaces
             PROVE  /\ namespaces'[n].live /\ namespaces'[n].uid = 1
                    /\ nsCache'[n].live /\ nsCache'[n].uid = 1
                    /\ nsCache'[n].obj.label \in {NoClass, Label(n)'}
                    /\ states'[n].live => nsCache'[n].obj.label = Label(n)'
                    /\ Label(n)' = NoClass \/ states'[n].live \/ May("label")'
  BY DEF NamesOK
<1>1. /\ namespaces'[n].live /\ namespaces'[n].uid = 1
      /\ Label(n) # NoClass \/ ~May("label") => Label(n)' = Label(n)
      /\ May("label")' <=> May("label")
  BY LabelsMove
<1>2. /\ states[n].live => states'[n].live /\ Label(n) # NoClass
      /\ states'[n].live /\ ~states[n].live => StateGiven(n) /\ NsStep
  BY StatesLive DEF StatesSteady, Steady
<1>3. CASE UNCHANGED nsCache
  <2>1. StateGiven(n) => nsCache[n].obj.label = Label(n) /\ Label(n) # NoClass
    BY DEF StateGiven
  <2> QED BY <1>1, <1>2, <1>3, <2>1 DEF NamesOK
<1>4. CASE nsCache' = namespaces /\ UNCHANGED <<namespaces, states>>
  BY <1>1, <1>4 DEF NamesOK, Label
<1> QED BY <1>3, <1>4, LabelsMove

LEMMA NsSteadyStep ==
    ASSUME RestTypeOK, LabelsLeft, NamesOK, StatesSteady, NsSteady, [Next]_vars
    PROVE  NsSteady'
<1> DEFINE w == nsWorker
<1>1. /\ w \in NsCall /\ w.key \in Namespaces
      /\ \A n \in Namespaces : namespaces[n] \in Slot(Namespace)
  BY DEF RestTypeOK, WorkersOK, NsCallOK, StoresOK, NamespacesTypeOK, NsCall
<1>2. \A n \in Namespaces :
         /\ Label(n) # NoClass => Label(n)' = Label(n)
         /\ nsCache[n].obj.label \in {NoClass, Label(n)}
         /\ nsCache[n].obj.label # NoClass => nsCache'[n].obj.label = nsCache[n].obj.label
  BY LabelsMove DEF NamesOK, Label
<1>3. (NsReconcile \/ NsCallFails) /\ UNCHANGED nsStore => NsSteady'
  <2> SUFFICES ASSUME NsReconcile \/ NsCallFails, UNCHANGED nsStore
               PROVE  NsSteady'
    OBVIOUS
  <2>1. ASSUME NEW n \in Namespaces, NsGetNamespace(n)
        PROVE  NsSteady'
    <3>1. /\ w'.key = n /\ w'.pc = "getState" /\ w'.ns = nsCache[n]
          /\ UNCHANGED <<states, nsCache, namespaces>>
      BY <2>1 DEF NsGetNamespace, NamesOK, nsStore
    <3> QED BY <3>1 DEF NsSteady, NamesOK, StatesSteady, Steady, Label
  <2>2. CASE NsGetState
    <3>1. /\ w.pc = "getState" /\ UNCHANGED <<states, nsCache, namespaces>>
      BY <2>2 DEF NsGetState, nsStore
    <3> DEFINE state == stateCache[w.key]
    <3>2. NsNextCall(w.ns, state) \in {"idle", "createState"}
      BY <1>1, <3>1 DEF NsNextCall, NsSteady, StatesSteady, Steady
    <3>3. NsNextCall(w.ns, state) = "createState" => w.ns.obj.label # NoClass
      BY DEF NsNextCall
    <3>4. CASE NsNextCall(w.ns, state) = "idle"
      BY <2>2, <3>4, IdleTypes DEF NsGetState, NsSteady
    <3>5. CASE NsNextCall(w.ns, state) = "createState"
      <4>1. w'.key = w.key /\ w'.ns = w.ns /\ w'.pc = "createState"
        BY <2>2, <3>5 DEF NsGetState
      <4> QED BY <3>1, <3>3, <3>5, <4>1 DEF NsSteady, Label
    <3> QED BY <3>2, <3>4, <3>5
  <2>3. CASE NsCreateState \/ NsRejected \/ NsCallFails
    BY <2>3, IdleTypes DEF NsCreateState, NsRejected, NsCallFails, NsReturn, NsRequeue, NsSteady
  <2>4. ~NsDeleteState /\ ~NsMarkPending
    BY DEF NsSteady, NsDeleteState, NsMarkPending
  <2> QED BY <2>1, <2>2, <2>3, <2>4 DEF NsReconcile
<1>4. CASE UNCHANGED nsWorker /\ ~NsStep
  <2> SUFFICES ASSUME w.pc # "idle"
               PROVE  /\ w.ns.obj.label # NoClass =>
                            /\ w.ns.obj.label = namespaces'[w.key].obj.label
                            /\ nsCache'[w.key].obj.label = namespaces'[w.key].obj.label
                      /\ states'[w.key].live => w.ns.obj.label # NoClass
    BY <1>4 DEF NsSteady, Label
  <2>1. states'[w.key].live => states[w.key].live
    BY <1>1, <1>4, StatesLive
  <2>2. CASE w.ns.obj.label # NoClass
    <3>1. w.ns.obj.label = Label(w.key) /\ nsCache[w.key].obj.label = Label(w.key)
      BY <2>2 DEF NsSteady
    <3>2. /\ namespaces'[w.key].obj.label = Label(w.key)
          /\ nsCache'[w.key].obj.label = nsCache[w.key].obj.label
      BY <1>1, <1>2, <2>2, <3>1 DEF Label
    <3> QED BY <2>2, <3>1, <3>2
  <2> QED BY <2>1, <2>2 DEF NsSteady
<1>5. CASE nsWorker' = NsIdle
  BY <1>5, IdleTypes DEF NsSteady
<1> QED
  BY <1>3, <1>4, <1>5
  DEF Next, vars, nsVars, stores, nsStore, Users, Kubernetes, SyncNamespaces, SyncStates,
      SyncClasses, SyncItems, SyncInstances, NsStep, StateStep, ClassStep, ItemStep,
      InstanceStep, Fault, Restart, Resync, NsCallFails, NsRequeue

\* A namespace keeps the class it has; if it gets one, all else stays.
GivenOn ==
    /\ \A n \in Namespaces :
          \/ Given(n)' = Given(n)
          \/ /\ Given(n) = NoClass /\ ~states[n].live /\ states'[n] # states[n]
             /\ UNCHANGED <<instStore, classStore, itemStore, stateVars, clVars, itVars, inVars>>
    /\ \A c \in Classes : Taken(c)' <=> Taken(c)

LEMMA GivenStep ==
    ASSUME RestTypeOK, LabelsLeft, NamesOK, StatesSteady, NsSteady, [Next]_vars
    PROVE  GivenOn
<1>1. /\ \A n \in Namespaces : Label(n) # NoClass => Label(n)' = Label(n)
      /\ May("label")' <=> May("label")
  BY LabelsMove
<1>2. \A n \in Namespaces : states[n].live => Label(n) # NoClass
  BY DEF StatesSteady, Steady
<1>3. ASSUME NEW n \in Namespaces, Given(n)' # Given(n)
      PROVE  /\ Given(n) = NoClass /\ ~states[n].live /\ states'[n] # states[n] /\ NsStep
             /\ May("label")
  <2>1. ~states[n].live /\ states'[n].live
    BY <1>1, <1>2, <1>3, StatesLive DEF Given
  <2>2. StateGiven(n) /\ NsStep
    BY <2>1, StatesLive
  <2> QED BY <2>1, <2>2 DEF Given, StateGiven, NamesOK
<1>4. \A c \in Classes : Taken(c)' <=> Taken(c)
  BY <1>1, <1>3 DEF Taken
<1> QED BY <1>3, <1>4 DEF GivenOn, NsStep

LEMMA SteadyUpdated ==
    ASSUME NEW n \in Namespaces, NEW old \in Slot(NamespaceState), old.live, Steady(n, old),
           NEW obj \in NamespaceState, obj.owner = 1, obj.class = Label(n),
           obj.pending = NoClass
    PROVE  Steady(n, Updated(old, obj))
BY DEF Steady, Updated, Slot

LEMMA StatesSteadyStep ==
    ASSUME RestTypeOK, SidesTypeOK, LabelsLeft, NamesOK, StatesSteady, NsSteady, StSteady,
           SidesTypeOK', [Next]_vars
    PROVE  StatesSteady'
<1>1. /\ StatesTypeOK
      /\ \A n \in Namespaces : states[n] \in Slot(NamespaceState)
      /\ \A n \in Namespaces : Steady(n, states[n]) /\ Steady(n, stateCache[n])
  BY DEF RestTypeOK, StoresOK, StatesTypeOK, StatesSteady
<1>2. \A n \in Namespaces : Steady(n, states'[n])
  <2>1. CASE UNCHANGED states
    BY <1>1, <2>1
  <2>2. CASE StCommit
    <3> DEFINE w == stateWorker
               n == stateWorker.key
               obj == Committed(w.state)
    <3>1. /\ n \in Namespaces /\ w.state.live /\ Steady(n, w.state) /\ states[n].live
          /\ states' = [states EXCEPT ![n] = Updated(states[n], obj)]
          /\ w.state.obj \in NamespaceState
      BY <2>2, StCallTypes
      DEF StCommit, StSteady, StInstancesDone, SameVersion, RestTypeOK, WorkersOK
    <3>2. obj.owner = 1 /\ obj.class = Label(n) /\ obj.pending = NoClass
      BY <3>1 DEF Committed, TargetClass, Steady
    <3>3. obj \in NamespaceState
      BY <3>1 DEF Committed, TargetClass, Steady, NamespaceState, Labels
    <3> HIDE DEF obj
    <3>4. Steady(n, Updated(states[n], obj))
      BY <1>1, <3>1, <3>2, <3>3, SteadyUpdated
    <3> QED BY <1>1, <3>1, <3>4 DEF StatesTypeOK
  <2>3. ASSUME NEW n \in Namespaces, ClAnnotateState(n)
        PROVE  \A m \in Namespaces : Steady(m, states'[m])
    <3> DEFINE seen == classWorker.seen[n]
               obj == WithClassUpdated(seen.obj)
    <3>1. /\ states[n].live /\ Steady(n, seen) /\ seen.live
          /\ states' = [states EXCEPT ![n] = Updated(states[n], obj)]
          /\ seen \in Slot(NamespaceState) /\ seen.obj \in NamespaceState
      BY <2>3
      DEF ClAnnotateState, SameVersion, StatesSteady, RestTypeOK, WorkersOK, ClSeenOK, Slot
    <3>2. obj \in NamespaceState /\ obj.owner = 1 /\ obj.class = Label(n) /\ obj.pending = NoClass
      BY <3>1 DEF WithClassUpdated, NamespaceState, Steady
    <3> HIDE DEF obj
    <3>4. Steady(n, Updated(states[n], obj))
      BY <1>1, <3>1, <3>2, SteadyUpdated
    <3> QED BY <1>1, <3>1, <3>4 DEF StatesTypeOK
  <2>4. ASSUME NEW n \in Namespaces, StateGiven(n)
        PROVE  \A m \in Namespaces : Steady(m, states'[m])
    <3> DEFINE obj == [owner |-> 1, class |-> Label(n), pending |-> NoClass,
                       classUpdated |-> FALSE]
    <3>1. /\ ~states[n].live /\ Label(n) # NoClass
          /\ states' = [states EXCEPT ![n] = Created(states[n], obj)]
      BY <2>4 DEF StateGiven
    <3>2. Steady(n, Created(states[n], obj))
      BY <1>1, <3>1 DEF Steady, Created
    <3> HIDE DEF obj
    <3> QED BY <1>1, <3>1, <3>2 DEF StatesTypeOK
  <2> QED BY <2>1, <2>2, <2>3, <2>4, StatesHeld
<1>3. \A n \in Namespaces :
         Steady(n, stateCache'[n]) /\ (stateCache'[n].live => states'[n].live)
  <2>1. stateCache' = stateCache \/ stateCache' = states
    BY NextStates DEF StatesNext, SyncStates, Restart, Resync, stores, stateStore, stateVars
  <2>2. \A n \in Namespaces : /\ states[n].live => states'[n].live
                              /\ stateCache[n].live => states[n].live
    BY StatesLive DEF StatesSteady
  <2> QED BY <1>1, <2>1, <2>2
<1>4. \A n \in classWorker'.marks :
         classWorker'.seen[n].live /\ Steady(n, classWorker'.seen[n])
  <2>1. classWorker \in ClCallWith(classWorker.seen)
    BY DEF SidesTypeOK
  <2>2. CASE ClReconcile
    <3>1. CASE ClListStates
      BY <1>1, <3>1 DEF ClListStates, ToAnnotate
    <3>2. ASSUME NEW n \in Namespaces, ClAnnotateState(n)
          PROVE  \A m \in classWorker'.marks :
                    classWorker'.seen[m].live /\ Steady(m, classWorker'.seen[m])
      <4>1. classWorker'.marks = classWorker.marks \ {n} /\ classWorker'.seen = classWorker.seen
        BY <2>1, <3>2 DEF ClAnnotateState, ClCallWith
      <4> QED BY <4>1 DEF StatesSteady
    <3>3. ASSUME NEW i \in Items, ClGetItem(i)
          PROVE  classWorker'.marks = {}
      BY <2>1, <3>3 DEF ClGetItem, ClCallWith
    <3>4. CASE ~ClListStates /\ ~\E n \in Namespaces : ClAnnotateState(n)
      <4>1. classWorker'.marks = {}
        BY <2>2, <3>3, <3>4, IdleTypes
        DEF ClReconcile, ClGetClass, ClAddFinalizer, ClAddRef, ClDropRef, ClWriteRefs,
            ClRemoveTrigger, ClNoTrigger, ClRemoveFinalizer, ClRejected, ClReturn, ClRequeue,
            ClAt
      <4> QED BY <4>1
    <3> QED BY <3>1, <3>2, <3>4
  <2>3. CASE UNCHANGED classWorker
    BY <2>3 DEF StatesSteady
  <2>4. CASE ClCallFails \/ Restart
    BY <2>4, IdleTypes DEF ClCallFails, ClRequeue, Restart
  <2> QED
    BY <2>2, <2>3, <2>4, NextClasses DEF ClassesNext, clVars, SyncClasses, Resync
<1>5. ASSUME NEW n \in Namespaces, NEW slot, Steady(n, slot)
      PROVE  IF slot.live
             THEN /\ slot.uid = 1 /\ slot.obj.owner = 1 /\ Label(n)' # NoClass
                  /\ slot.obj.class = Label(n)' /\ slot.obj.pending = NoClass
             ELSE slot.uid = 0
  <2>1. Label(n) # NoClass => Label(n)' = Label(n)
    BY LabelsMove
  <2> QED BY <1>5, <2>1 DEF Steady
<1>6. classWorker'.marks \subseteq Namespaces
  BY DEF SidesTypeOK, ClCallWith
<1> QED BY <1>2, <1>3, <1>4, <1>5, <1>6 DEF StatesSteady, Steady

LEMMA StSteadyStep ==
    ASSUME RestTypeOK, SidesTypeOK, LabelsLeft, NamesOK, StatesSteady, NsSteady, StSteady, CachesOK,
           [Next]_vars
    PROVE  StSteady'
<1>1. /\ stateWorker \in StCall /\ stateQueue \subseteq Namespaces
      /\ \A n \in Namespaces : stateCache[n] \in Slot(NamespaceState)
  BY DEF RestTypeOK, WorkersOK, StCallOK, QueuesOK, StoresOK, StatesTypeOK
<1>2. ASSUME stateWorker'.pc # "idle", stateWorker.pc # "idle",
             stateWorker'.key = stateWorker.key, stateWorker'.state = stateWorker.state
      PROVE  StSteady'
  <2>1. /\ stateWorker.key \in Namespaces /\ stateWorker.state \in Slot(NamespaceState)
        /\ Fresh(stateWorker.state, states[stateWorker.key])
        /\ stateWorker.state.live /\ Steady(stateWorker.key, stateWorker.state)
        /\ states[stateWorker.key].live
    BY <1>1, <1>2 DEF StSteady, StCall
  <2>2. /\ states[stateWorker.key] \in Slot(NamespaceState)
        /\ states'[stateWorker.key] \in Slot(NamespaceState)
        /\ Later(states[stateWorker.key], states'[stateWorker.key])
    BY <2>1, StatesTyped
    DEF StatesMove, StateGoesOn, RestTypeOK, StoresOK, StatesTypeOK
  <2>3. Fresh(stateWorker.state, states'[stateWorker.key])
    BY <2>1, <2>2, FreshStays
  <2>4. Fresh(stateWorker.state, states[stateWorker.key])'
    BY <1>2, <2>3
  <2>5. states'[stateWorker.key].live
    BY <2>1, StatesLive
  <2>6. namespaces'[stateWorker.key].obj.label = namespaces[stateWorker.key].obj.label
    <3>1. Label(stateWorker.key) # NoClass
      BY <2>1 DEF Steady
    <3>2. \A n \in Namespaces : Label(n) # NoClass => Label(n)' = Label(n)
      BY LabelsMove
    <3> QED BY <2>1, <3>1, <3>2 DEF Label
  <2> QED BY <1>1, <1>2, <2>1, <2>4, <2>5, <2>6 DEF StSteady, Steady, Label
<1>3. ASSUME NEW n \in Namespaces, StGetState(n), UNCHANGED stateCache
      PROVE  StSteady'
  <2>1. CASE stateCache[n].live
    <3>1. /\ stateWorker'.key = n /\ stateWorker'.state = stateCache[n] /\ UNCHANGED states
      BY <1>3, <2>1 DEF StGetState
    <3>2. Steady(n, stateCache[n]) /\ Fresh(stateCache[n], states[n]) /\ states[n].live
      BY <2>1 DEF StatesSteady, CachesOK
    <3>3. namespaces'[n].obj.label = namespaces[n].obj.label
      <4>1. Label(n) # NoClass
        BY <2>1, <3>2 DEF Steady
      <4> QED BY <4>1, LabelsMove DEF Label
    <3> QED BY <1>1, <2>1, <3>1, <3>2, <3>3 DEF StSteady, Steady, Label
  <2>2. CASE ~stateCache[n].live
    BY <1>3, <2>2, IdleTypes DEF StGetState, StSteady
  <2> QED BY <2>1, <2>2
<1>4. ASSUME stateWorker'.pc = "idle" PROVE StSteady'
  BY <1>4 DEF StSteady
<1>5. CASE (StReconcile \/ StCallFails) /\ UNCHANGED stateCache
  <2>1. CASE StCommit \/ StNothingToCommit \/ StRejected \/ StCallFails
    BY <1>4, <2>1, IdleTypes
    DEF StCommit, StNothingToCommit, StReturn, StRejected, StCallFails, StRequeue
  <2>2. CASE StGetClass \/ StListInstances
             \/ \E i \in Items : StAnnotateInstance(i) \/ StCreateInstance(i)
                                 \/ StDeleteInstance(i)
    <3>1. /\ stateWorker.pc # "idle" /\ stateWorker'.key = stateWorker.key
          /\ stateWorker'.state = stateWorker.state
      BY <1>1, <2>2
      DEF StGetClass, StListInstances, StAnnotateInstance, StCreateInstance,
          StDeleteInstance, StCall
    <3> QED BY <1>2, <1>4, <3>1
  <2> QED BY <1>3, <1>5, <2>1, <2>2 DEF StReconcile
<1>6. CASE UNCHANGED stateWorker
  BY <1>2, <1>4, <1>6
<1>7. CASE Restart
  BY <1>4, <1>7, IdleTypes DEF Restart
<1> QED
  BY <1>5, <1>6, <1>7, NextStates DEF StatesNext, SyncStates, Resync, stateVars

-----------------------------------------------------------------------------
(***************************************************************************)
(* A class in use stays                                                    *)
(***************************************************************************)
\* The class of a namespace is not being deleted, and none has gone that is still seen.
UsedOK ==
    \A c \in Classes : Taken(c) =>
        /\ ~classes[c].obj.deleting /\ ~classCache[c].obj.deleting
        /\ classCache[c].live => classes[c].live

KeptClass(old, new) ==
    /\ ~old.obj.deleting => ~new.obj.deleting
    /\ ~old.obj.deleting /\ old.live => new.live

\* The reconcilers take no class away that is not being deleted.
LEMMA ClassHeld ==
    ASSUME IInv, [Next]_vars, NEW c \in Classes, ~AdmitsClassDelete(c) \/ ~May("deleteClass")
    PROVE  KeptClass(classes[c], classes'[c])
<1>1. /\ SidesTypeOK /\ ClassesTypeOK /\ ClassWorkerSound /\ ItemWorkerSound
      /\ \A d \in Classes : classes[d] \in Slot(NamespaceClass)
  BY Parts, Slots DEF IInv, SidesTypeOK
<1>2. CASE UNCHANGED classes
  BY <1>2 DEF KeptClass
<1>3. ASSUME NEW d \in Classes, NEW new, KeptClass(classes[d], new),
             classes' = [classes EXCEPT ![d] = new]
      PROVE  KeptClass(classes[c], classes'[c])
  <2>1. classes'[d] = new /\ (c # d => classes'[c] = classes[c])
    BY <1>1, <1>3 DEF ClassesTypeOK
  <2> QED BY <1>3, <2>1 DEF KeptClass
<1>4. ASSUME NEW d \in Classes, NEW obj \in NamespaceClass,
             obj.deleting = classes[d].obj.deleting, classes[d].live,
             classes' = [classes EXCEPT ![d] = Updated(classes[d], obj)]
      PROVE  KeptClass(classes[c], classes'[c])
  <2>1. Updated(classes[d], obj).obj = obj /\ Updated(classes[d], obj).live
    BY <1>1, <1>4, SlotHolds, UpdatedLives
  <2> QED BY <1>3, <1>4, <2>1 DEF KeptClass
<1>5. CASE Users
  <2>1. ASSUME NEW d \in Classes, NEW set \in SUBSET Items, CreateClass(d, set)
        PROVE  KeptClass(classes[c], classes'[c])
    <3> DEFINE obj == [items |-> set, finalizer |-> FALSE, deleting |-> FALSE,
                       itemUpdated |-> FALSE]
    <3>1. obj \in NamespaceClass /\ ~obj.deleting
      BY DEF NamespaceClass
    <3>2. classes' = [classes EXCEPT ![d] = Created(classes[d], obj)]
      BY <2>1 DEF CreateClass
    <3> HIDE DEF obj
    <3>3. Created(classes[d], obj).obj = obj /\ Created(classes[d], obj).live
      BY <1>1, <3>1, SlotHolds
    <3> QED BY <1>3, <3>1, <3>2, <3>3 DEF KeptClass
  <2>2. ASSUME NEW d \in Classes, NEW set \in SUBSET Items, EditClass(d, set)
        PROVE  KeptClass(classes[c], classes'[c])
    <3> DEFINE obj == [classes[d].obj EXCEPT !.items = set]
    <3>1. classes[d].obj \in NamespaceClass
      BY <1>1 DEF Slot
    <3>2. obj \in NamespaceClass /\ obj.deleting = classes[d].obj.deleting
      BY <3>1 DEF NamespaceClass
    <3>3. classes[d].live /\ classes' = [classes EXCEPT ![d] = Updated(classes[d], obj)]
      BY <2>2 DEF EditClass
    <3> HIDE DEF obj
    <3> QED BY <1>4, <3>2, <3>3
  <2>3. ASSUME NEW d \in Classes, DeleteClass(d), May("deleteClass")
        PROVE  KeptClass(classes[c], classes'[c])
    <3>1. c # d
      BY <2>3 DEF DeleteClass
    <3>2. classes'[c] = classes[c]
      BY <1>1, <2>3, <3>1 DEF DeleteClass, ClassesTypeOK
    <3> QED BY <3>2 DEF KeptClass
  <2>4. ASSUME NEW d \in Classes, NEW set \in ItemsWanted[d]
        PROVE  set \in SUBSET Items
    BY <2>4, StartAssumption
  <2>5. \/ UNCHANGED classes
        \/ \E d \in Classes : DeleteClass(d) /\ May("deleteClass")
        \/ \E d \in Classes : \E set \in ItemsWanted[d] : CreateClass(d, set) \/ EditClass(d, set)
    BY <1>5 DEF Users, CreateItem, EditItem, DeleteItem
  <2> QED BY <1>2, <2>1, <2>2, <2>3, <2>4, <2>5
<1>6. CASE ItSide
  <2>1. CASE ItAnnotateClass
    <3> DEFINE w == itemWorker
               obj == WithTrigger(w.class.obj)
    <3>1. w.at \in Classes /\ w.class \in Slot(NamespaceClass) /\ w.class.obj \in NamespaceClass
      BY <1>1, ItemCall
    <3>2. /\ w.pc = "annotate" /\ SameVersion(classes[w.at], w.class)
          /\ classes' = [classes EXCEPT ![w.at] = Updated(classes[w.at], obj)]
      BY <2>1 DEF ItAnnotateClass, ItMayUpdate
    <3>3. classes[w.at].live /\ classes[w.at] = w.class
      BY <1>1, <3>1, <3>2 DEF ItemWorkerSound, SameVersion, Fresh, Slot
    <3>4. obj \in NamespaceClass /\ obj.deleting = classes[w.at].obj.deleting
      BY <3>1, <3>3 DEF WithTrigger, NamespaceClass
    <3> HIDE DEF obj
    <3> QED BY <1>4, <3>1, <3>2, <3>3, <3>4
  <2>2. CASE ~ItAnnotateClass
    BY <1>2, <1>6, <2>2
    DEF ItSide, ItReconcile, ItGetItem, ItObserve, ItRefetch, ItGetClass, ItAnnounced,
        ItRejected
  <2> QED BY <2>1, <2>2
<1>7. CASE ClSide
  <2> DEFINE w == classWorker
  <2>1. w.key \in Classes /\ w.class \in Slot(NamespaceClass) /\ w.class.obj \in NamespaceClass
    BY <1>1, ClassCall
  <2>2. ASSUME w.pc # "idle", ClMayUpdate
        PROVE  classes[w.key].live /\ classes[w.key] = w.class
    BY <1>1, <2>1, <2>2 DEF ClassWorkerSound, ClMayUpdate, SameVersion, Fresh, Slot
  <2>3. CASE ClAddFinalizer
    <3> DEFINE obj == WithFinalizer(w.class.obj)
    <3>1. /\ w.pc # "idle" /\ ClMayUpdate
          /\ classes' = [classes EXCEPT ![w.key] = Updated(classes[w.key], obj)]
      BY <2>3 DEF ClAddFinalizer
    <3>2. obj \in NamespaceClass /\ obj.deleting = w.class.obj.deleting
      BY <2>1 DEF WithFinalizer, NamespaceClass
    <3> HIDE DEF obj
    <3> QED BY <1>4, <2>1, <2>2, <3>1, <3>2
  <2>4. CASE ClRemoveTrigger
    <3> DEFINE obj == WithoutTrigger(w.class.obj)
    <3>1. /\ w.pc # "idle" /\ ClMayUpdate
          /\ classes' = [classes EXCEPT ![w.key] = Updated(classes[w.key], obj)]
      BY <2>4 DEF ClRemoveTrigger
    <3>2. obj \in NamespaceClass /\ obj.deleting = w.class.obj.deleting
      BY <2>1 DEF WithoutTrigger, NamespaceClass
    <3> HIDE DEF obj
    <3> QED BY <1>4, <2>1, <2>2, <3>1, <3>2
  <2>5. CASE ClRemoveFinalizer
    <3>1. /\ w.pc = "release" /\ ClMayUpdate
          /\ classes' = [classes EXCEPT ![w.key] = Deleted(classes[w.key], NoClassObject)]
      BY <2>5 DEF ClRemoveFinalizer
    <3>2. classes[w.key].obj.deleting
      BY <1>1, <2>2, <3>1 DEF ClassWorkerSound
    <3>3. Deleted(classes[w.key], NoClassObject).obj = NoClassObject /\ ~NoClassObject.deleting
      BY DEF Deleted, NoClassObject
    <3> QED BY <1>3, <2>1, <3>1, <3>2, <3>3 DEF KeptClass
  <2>6. CASE ~(ClAddFinalizer \/ ClRemoveTrigger \/ ClRemoveFinalizer)
    BY <1>2, <1>7, <2>6
    DEF ClSide, ClReconcile, ClGetClass, ClListStates, ClAnnotateState, ClGetItem, ClAddRef,
        ClDropRef, ClWriteRefs, ClNoTrigger, ClRejected
  <2> QED BY <2>3, <2>4, <2>5, <2>6
<1>8. CASE Sync \/ GivenUp \/ UNCHANGED sideVars
  BY <1>2, <1>8 DEF Sync, GivenUp, sideVars
<1>9. UserWrite /\ ~Users => ItSide \/ ClSide \/ Sync \/ GivenUp \/ UNCHANGED sideVars
                              \/ UNCHANGED classes
  <2> USE DEF itemStore, classStore, clVars, itVars
  <2> QED
    BY DEF Next, vars, stores, Kubernetes, SyncNamespaces, SyncStates, SyncClasses, SyncItems,
           SyncInstances, NsStep, StateStep, ClassStep, ItemStep, InstanceStep, Fault, Restart,
           Resync, ClSide, ItSide, ClCallFails, ItCallFails
<1> QED BY <1>2, <1>5, <1>6, <1>7, <1>8, <1>9, NextSides

LEMMA UsedStays ==
    ASSUME WebhooksEnabled, IInv, LabelsLeft, NamesOK, UsedOK, GivenOn, [Next]_vars
    PROVE  /\ UsedOK'
           /\ \A c \in Classes : Taken(c) => (classes[c].live => classes'[c].live)
<1> SUFFICES ASSUME NEW c \in Classes, Taken(c)
             PROVE  /\ ~classes'[c].obj.deleting /\ ~classCache'[c].obj.deleting
                    /\ classCache'[c].live => classes'[c].live
                    /\ classes[c].live => classes'[c].live
  BY DEF GivenOn, UsedOK
<1>1. /\ ~classes[c].obj.deleting /\ ~classCache[c].obj.deleting
      /\ classCache[c].live => classes[c].live
  BY DEF UsedOK
<1>2. ~AdmitsClassDelete(c) \/ ~May("deleteClass")
  <2>1. CASE May("label")
    BY <2>1 DEF LabelsLeft
  <2>2. ASSUME NEW n \in Namespaces, Given(n) = c
        PROVE  ~AdmitsClassDelete(c)
    <3>1. states[n].live /\ Label(n) = c
      BY <2>2, NoClassAssumption DEF Given
    <3> QED BY <3>1 DEF NamesOK, AdmitsClassDelete
  <2> QED BY <2>1, <2>2 DEF Taken
<1>3. KeptClass(classes[c], classes'[c])
  BY <1>2, ClassHeld
<1>4. classCache' = classCache \/ (classCache' = classes /\ UNCHANGED classes)
  BY NextClasses DEF ClassesNext, SyncClasses, Restart, Resync, stores, classStore
<1> QED BY <1>1, <1>3, <1>4 DEF KeptClass

-----------------------------------------------------------------------------
(***************************************************************************)
(* The instances of a namespace that keeps its label are its own           *)
(***************************************************************************)
OwnersOK ==
    /\ \A n \in Namespaces, i \in Items :
          /\ instances[n][i].live => instances[n][i].obj.owner = 1 /\ Given(n) # NoClass
          /\ instCache[n][i].live => instCache[n][i].obj.owner = 1
    /\ instWorker.pc # "idle" => instWorker.inst.obj.owner = 1
    /\ \A i \in Items : stateWorker.seen[i].live => stateWorker.seen[i].obj.owner = 1

\* Nothing but the state reconciler makes or takes an instance.
SameLives ==
    \A n \in Namespaces, i \in Items : instances'[n][i].live <=> instances[n][i].live

Owned(n, slot) == slot.live => slot.obj.owner = 1 /\ Given(n) # NoClass

LEMMA InstanceOwned ==
    ASSUME InstancesTypeOK, OwnersOK, NEW n \in Namespaces, NEW i \in Items, NEW new,
           Owned(n, new), instances' = [instances EXCEPT ![n][i] = new]
    PROVE  /\ \A m \in Namespaces, j \in Items : Owned(m, instances'[m][j])
           /\ (new.live <=> instances[n][i].live) => SameLives
<1>1. /\ instances'[n][i] = new
      /\ \A m \in Namespaces, j \in Items :
            m # n \/ j # i => instances'[m][j] = instances[m][j]
  BY DEF InstancesTypeOK
<1> QED BY <1>1 DEF OwnersOK, Owned, SameLives

LEMMA StKeepsOwners ==
    ASSUME RestTypeOK, StatesSteady, StSteady, OwnersOK, StReconcile
    PROVE  /\ \A m \in Namespaces, j \in Items : Owned(m, instances'[m][j])
           /\ \A j \in Items : stateWorker'.seen[j].live => stateWorker'.seen[j].obj.owner = 1
<1> DEFINE w == stateWorker
           n == stateWorker.key
           Goal == \A m \in Namespaces, j \in Items : Owned(m, instances'[m][j])
           Seen == \A j \in Items :
                      stateWorker'.seen[j].live => stateWorker'.seen[j].obj.owner = 1
<1>1. /\ InstancesTypeOK /\ w \in StCall /\ n \in Namespaces
      /\ w.seen \in [Items -> Slot(NamespaceItemInstance)]
      /\ \A i \in Items : instances[n][i] \in Slot(NamespaceItemInstance)
      /\ \A i \in Items : w.seen[i].live => w.seen[i].obj.owner = 1
      /\ UNCHANGED instances => Goal
  BY StCallTypes
  DEF RestTypeOK, StoresOK, WorkersOK, StCallOK, InstancesTypeOK, OwnersOK, Owned
<1>2. \A j \in Items : ~NothingSeen[j].live
  BY DEF NothingSeen, Vacant
<1>3. ASSUME NEW i \in Items, StAnnotateInstance(i)
      PROVE  Goal /\ Seen
  <2> DEFINE obj == Touched(w.seen[i].obj)
  <2>1. /\ w.seen[i].live /\ instances[n][i].live
        /\ instances' = [instances EXCEPT ![n][i] = Updated(instances[n][i], obj)]
        /\ stateWorker' = [w EXCEPT !.todo = @ \ {i}]
    BY <1>3 DEF StAnnotateInstance, SameVersion
  <2>2. obj \in NamespaceItemInstance /\ obj.owner = 1
    <3>1. w.seen[i].obj \in NamespaceItemInstance /\ w.seen[i].obj.owner = 1
      BY <1>1, <2>1 DEF Slot
    <3> QED BY <3>1 DEF Touched, NamespaceItemInstance
  <2> HIDE DEF obj
  <2>3. Updated(instances[n][i], obj).obj = obj
    BY <1>1, <2>2, SlotHolds
  <2>4. Owned(n, Updated(instances[n][i], obj))
    BY <1>1, <2>1, <2>2, <2>3 DEF Owned, OwnersOK
  <2>5. Goal
    BY <1>1, <2>1, <2>4, InstanceOwned
  <2> QED BY <1>1, <2>1, <2>5 DEF StCall
<1>4. ASSUME NEW i \in Items, StCreateInstance(i)
      PROVE  Goal /\ Seen
  <2> DEFINE obj == NewInstance(w.state)
  <2>1. /\ w.pc = "write"
        /\ instances' = [instances EXCEPT ![n][i] = Created(instances[n][i], obj)]
        /\ stateWorker' = [w EXCEPT !.todo = @ \ {i}]
    BY <1>4 DEF StCreateInstance
  <2>2. w.state.uid = 1 /\ Given(n) # NoClass
    BY <2>1 DEF StSteady, Steady, Given
  <2>3. obj \in NamespaceItemInstance /\ obj.owner = 1
    BY <2>2 DEF NewInstance, NamespaceItemInstance
  <2> HIDE DEF obj
  <2>4. Created(instances[n][i], obj).obj = obj
    BY <1>1, <2>3, SlotHolds
  <2>5. Owned(n, Created(instances[n][i], obj))
    BY <2>2, <2>3, <2>4 DEF Owned
  <2>6. Goal
    BY <1>1, <2>1, <2>5, InstanceOwned
  <2> QED BY <1>1, <2>1, <2>6 DEF StCall
<1>5. ASSUME NEW i \in Items, StDeleteInstance(i)
      PROVE  Goal /\ Seen
  <2>1. /\ instances' = [instances EXCEPT ![n][i] = Deleted(instances[n][i], NoInstance)]
        /\ stateWorker' = [w EXCEPT !.extra = @ \ {i}]
    BY <1>5 DEF StDeleteInstance
  <2>2. Owned(n, Deleted(instances[n][i], NoInstance))
    BY DEF Deleted, Owned
  <2>3. Goal
    BY <1>1, <2>1, <2>2, InstanceOwned
  <2> QED BY <1>1, <2>1, <2>3 DEF StCall
<1>6. CASE StGetClass \/ \E m \in Namespaces : StGetState(m)
  BY <1>1, <1>2, <1>6 DEF StGetClass, StGetState, StIdle
<1>7. CASE StListInstances
  <2>1. stateWorker'.seen = instCache[n] /\ UNCHANGED instances
    BY <1>7 DEF StListInstances
  <2> QED BY <1>1, <2>1 DEF OwnersOK
<1>8. CASE StCommit \/ StNothingToCommit \/ StRejected
  BY <1>1, <1>2, <1>8
  DEF StCommit, StNothingToCommit, StReturn, StRejected, StRequeue, StIdle
<1> QED BY <1>3, <1>4, <1>5, <1>6, <1>7, <1>8 DEF StReconcile

LEMMA InKeepsOwners ==
    ASSUME RestTypeOK, OwnersOK, InReconcile
    PROVE  /\ \A m \in Namespaces, j \in Items : Owned(m, instances'[m][j])
           /\ SameLives
           /\ instWorker'.pc # "idle" => instWorker'.inst.obj.owner = 1
<1> DEFINE w == instWorker
           n == instWorker.ns
           i == instWorker.key
           Kept == /\ \A m \in Namespaces, j \in Items : Owned(m, instances'[m][j])
                   /\ SameLives
           Call == instWorker'.pc # "idle" => instWorker'.inst.obj.owner = 1
<1>1. /\ InstancesTypeOK /\ w \in InCall /\ n \in Namespaces /\ i \in Items
      /\ instances[n][i] \in Slot(NamespaceItemInstance)
      /\ w.inst \in Slot(NamespaceItemInstance) /\ w.inst.obj \in NamespaceItemInstance
      /\ UNCHANGED instances => Kept
      /\ w.pc # "idle" => w.inst.obj.owner = 1
  BY TargetTypes
  DEF RestTypeOK, StoresOK, WorkersOK, InstancesTypeOK, OwnersOK, Owned, SameLives, Slot
<1>2. ASSUME InReturn \/ InRequeue
      PROVE  Call
  BY <1>2, IdleTypes DEF InReturn, InRequeue
<1>3. ASSUME NEW pc, InGoTo(pc), w.pc # "idle"
      PROVE  Call
  BY <1>1, <1>3 DEF InGoTo, InCall
<1>4. ASSUME NEW inst, inst.obj.owner = 1, InUnmarkOrReturn(inst)
      PROVE  Call
  <2>1. CASE instWorker' = InIdle
    BY <2>1, IdleTypes
  <2>2. CASE instWorker'.inst = inst
    BY <1>4, <2>2
  <2> QED BY <1>4, <2>1, <2>2 DEF InUnmarkOrReturn
<1>5. ASSUME NEW obj \in NamespaceItemInstance, obj.owner = 1, w.pc # "idle",
             SameVersion(instances[n][i], w.inst),
             instances' = [instances EXCEPT ![n][i] = Updated(instances[n][i], obj)]
      PROVE  Kept /\ Updated(instances[n][i], obj).obj = obj
  <2>1. /\ Updated(instances[n][i], obj).obj = obj /\ Updated(instances[n][i], obj).live
        /\ instances[n][i].live
    BY <1>1, <1>5, SlotHolds, UpdatedLives DEF SameVersion
  <2>2. Owned(n, Updated(instances[n][i], obj))
    BY <1>1, <1>5, <2>1 DEF Owned, OwnersOK
  <2> HIDE DEF Kept
  <2>3. Kept
    <3> DEFINE new == Updated(instances[n][i], obj)
    <3>1. /\ new.live /\ instances[n][i].live /\ Owned(n, new)
          /\ instances' = [instances EXCEPT ![n][i] = new]
      BY <1>5, <2>1, <2>2
    <3> HIDE DEF new
    <3> QED BY <1>1, <3>1, InstanceOwned DEF Kept
  <2> QED BY <2>1, <2>3
<1>6. ASSUME NEW m \in Namespaces, NEW j \in Items, InGetInstance(m, j)
      PROVE  Kept /\ Call
  <2>1. CASE instWorker' = InIdle
    BY <1>1, <1>6, <2>1, IdleTypes DEF InGetInstance
  <2>2. CASE instWorker' # InIdle
    <3>1. instCache[m][j].live /\ instWorker'.inst = instCache[m][j] /\ UNCHANGED instances
      BY <1>6, <2>2 DEF InGetInstance
    <3> QED BY <1>1, <3>1 DEF OwnersOK
  <2> QED BY <2>1, <2>2
<1>7. CASE InGetItem
  <2>1. UNCHANGED instances /\ w.pc # "idle"
    BY <1>7 DEF InGetItem
  <2>2. CASE InReturn \/ InRequeue \/ InUnmarkOrReturn(w.inst)
    BY <1>1, <1>2, <1>4, <2>1, <2>2
  <2>3. CASE ~(InReturn \/ InRequeue \/ InUnmarkOrReturn(w.inst))
    <3>1. instWorker'.inst = w.inst
      BY <1>7, <2>3 DEF InGetItem
    <3> QED BY <1>1, <2>1, <3>1
  <2> QED BY <2>2, <2>3
<1>8. CASE InGetResource
  <2>1. UNCHANGED instances /\ w.pc # "idle"
    BY <1>8 DEF InGetResource
  <2>2. CASE resources[n][InTarget].live
    <3>1. instWorker'.inst = w.inst
      BY <1>8, <2>2 DEF InGetResource
    <3> QED BY <1>1, <2>1, <3>1
  <2>3. CASE ~resources[n][InTarget].live
    <3>1. InGoTo("getOld") \/ InGoTo("create")
      BY <1>8, <2>3 DEF InGetResource
    <3> QED BY <1>1, <1>3, <2>1, <3>1
  <2> QED BY <2>2, <2>3
<1>9. CASE InGetOld \/ InDeleteOld \/ InCreate \/ InUpdate
  <2>1. UNCHANGED instances /\ w.pc # "idle"
    BY <1>9 DEF InGetOld, InDeleteOld, InCreate, InUpdate
  <2>2. \E pc : InGoTo(pc)
    BY <1>9 DEF InGetOld, InDeleteOld, InCreate, InUpdate
  <2> QED BY <1>1, <1>3, <2>1, <2>2
<1>10. CASE InWriteStatus
  <2> DEFINE obj == WithStatus(w.inst.obj, w.item.obj.gen, KindOf(InTarget))
  <2>1. /\ w.pc # "idle" /\ SameVersion(instances[n][i], w.inst)
        /\ instances' = [instances EXCEPT ![n][i] = Updated(instances[n][i], obj)]
        /\ InUnmarkOrReturn(Updated(instances[n][i], obj))
    BY <1>10 DEF InWriteStatus
  <2>2. w.item.obj \in NamespaceClassItem /\ KindOf(InTarget) \in Kinds
    BY <1>1, TargetTypes DEF Slot
  <2>3. obj \in NamespaceItemInstance /\ obj.owner = 1
    BY <1>1, <2>1, <2>2 DEF WithStatus, NamespaceItemInstance, NamespaceClassItem
  <2> HIDE DEF obj
  <2>4. Kept /\ Updated(instances[n][i], obj).obj = obj
    BY <1>5, <2>1, <2>3
  <2> QED BY <1>4, <2>1, <2>3, <2>4
<1>11. CASE InUnmark
  <2> DEFINE obj == Unmarked(w.inst.obj)
  <2>1. /\ w.pc # "idle" /\ SameVersion(instances[n][i], w.inst)
        /\ instances' = [instances EXCEPT ![n][i] = Updated(instances[n][i], obj)]
        /\ InReturn
    BY <1>11 DEF InUnmark
  <2>2. obj \in NamespaceItemInstance /\ obj.owner = 1
    BY <1>1, <2>1 DEF Unmarked, NamespaceItemInstance
  <2> HIDE DEF obj
  <2> QED BY <1>2, <1>5, <2>1, <2>2
<1>12. CASE InRejected
  BY <1>1, <1>2, <1>12 DEF InRejected
<1> QED BY <1>6, <1>7, <1>8, <1>9, <1>10, <1>11, <1>12 DEF InReconcile

LEMMA OwnersStep ==
    ASSUME RestTypeOK, SidesTypeOK, StatesSteady, StSteady, GivenOn, OwnersOK, [Next]_vars
    PROVE  OwnersOK' /\ (StReconcile \/ SameLives)
<1> DEFINE Kept == \A m \in Namespaces, j \in Items : Owned(m, instances'[m][j])
           Copied == instCache' = instCache \/ instCache' = instances
           Call == instWorker'.pc # "idle" => instWorker'.inst.obj.owner = 1
           Seen == \A j \in Items :
                      stateWorker'.seen[j].live => stateWorker'.seen[j].obj.owner = 1
           Goal == OwnersOK' /\ (StReconcile \/ SameLives)
<1> USE DEF instStore, stateVars, inVars
<1>1. \A n \in Namespaces : Given(n) # NoClass => Given(n)' = Given(n)
  BY DEF GivenOn
<1>2. /\ UNCHANGED instances => Kept /\ SameLives
      /\ UNCHANGED instWorker => Call
      /\ instWorker' = InIdle => Call
      /\ UNCHANGED stateWorker => Seen
      /\ stateWorker' = StIdle => Seen
  BY IdleTypes DEF OwnersOK, Owned, SameLives, StIdle, NothingSeen, Vacant
<1>3. ASSUME Kept, Copied, Call, Seen
      PROVE  OwnersOK'
  <2>1. \A n \in Namespaces, i \in Items :
           /\ instances'[n][i].live => instances'[n][i].obj.owner = 1 /\ Given(n) # NoClass
           /\ instCache'[n][i].live => instCache'[n][i].obj.owner = 1
    BY <1>3 DEF OwnersOK, Owned
  <2> QED BY <1>1, <1>3, <2>1 DEF OwnersOK
<1>4. CASE Users \/ SyncNamespaces \/ SyncStates \/ SyncClasses \/ SyncItems \/ SyncInstances
           \/ NsStep \/ ClassStep \/ ItemStep \/ Resync \/ UNCHANGED vars
  <2>1. UNCHANGED <<instances, instWorker, stateWorker>> /\ Copied
    BY <1>4
    DEF Users, SyncNamespaces, SyncStates, SyncClasses, SyncItems, SyncInstances, NsStep,
        ClassStep, ItemStep, Resync, vars, stores
  <2> QED BY <1>2, <1>3, <2>1
<1>5. CASE Kubernetes
  <2>1. \A n \in Namespaces, i \in Items : ~OrphanInstance(n, i)
    BY DEF OrphanInstance, Owns, OwnersOK, StatesSteady, Steady, Given
  <2>2. UNCHANGED <<instances, instCache, instWorker, stateWorker>>
    BY <1>5, <2>1 DEF Kubernetes, CollectState, CollectInstance
  <2> QED BY <1>2, <1>3, <2>2
<1>6. CASE StateStep
  <2>1. StReconcile /\ UNCHANGED <<instCache, instWorker>>
    BY <1>6 DEF StateStep
  <2>2. Kept /\ Seen
    BY <2>1, StKeepsOwners
  <2> QED BY <1>2, <1>3, <2>1, <2>2
<1>7. CASE InstanceStep
  <2>1. InReconcile /\ UNCHANGED <<instCache, stateWorker>>
    BY <1>7 DEF InstanceStep
  <2>2. Kept /\ Call /\ SameLives
    BY <2>1, InKeepsOwners
  <2> QED BY <1>2, <1>3, <2>1, <2>2
<1>8. CASE Fault \/ Restart
  <2>1. /\ UNCHANGED instances /\ Copied
        /\ UNCHANGED instWorker \/ instWorker' = InIdle \/ InGetOldFails
        /\ UNCHANGED stateWorker \/ stateWorker' = StIdle
    BY <1>8
    DEF Fault, Restart, StCallFails, StRequeue, InCallFails, InGetOldFails, InRequeue
  <2>2. instWorker \in InCall
    BY DEF RestTypeOK, WorkersOK
  <2>3. InGetOldFails => Call
    BY <2>2, OldUnread DEF OwnersOK
  <2> QED BY <1>2, <1>3, <2>1, <2>3
<1> QED BY <1>4, <1>5, <1>6, <1>7, <1>8 DEF Next

\* What a class lists users alone change.
ListKept(old, new) ==
    new.live => IF old.live THEN new.obj.items = old.obj.items ELSE May("createClass")

LEMMA ListsKept ==
    ASSUME IInv, [Next]_vars, ~May("editClass")
    PROVE  \A c \in Classes : ListKept(classes[c], classes'[c])
<1>1. /\ SidesTypeOK /\ ClassesTypeOK /\ ClassWorkerSound /\ ItemWorkerSound
      /\ \A d \in Classes : classes[d] \in Slot(NamespaceClass)
                            /\ classes[d].obj \in NamespaceClass
  BY Parts, Slots DEF IInv, SidesTypeOK, Slot
<1> SUFFICES ASSUME NEW c \in Classes
             PROVE  ListKept(classes[c], classes'[c])
  OBVIOUS
<1>2. CASE UNCHANGED classes
  BY <1>2 DEF ListKept
<1>3. ASSUME NEW d \in Classes, NEW new, ListKept(classes[d], new),
             classes' = [classes EXCEPT ![d] = new]
      PROVE  ListKept(classes[c], classes'[c])
  <2>1. classes'[d] = new /\ (c # d => classes'[c] = classes[c])
    BY <1>1, <1>3 DEF ClassesTypeOK
  <2> QED BY <1>3, <2>1 DEF ListKept
<1>4. ASSUME NEW d \in Classes, NEW obj \in NamespaceClass,
             obj.items = classes[d].obj.items, classes[d].live,
             classes' = [classes EXCEPT ![d] = Updated(classes[d], obj)]
      PROVE  ListKept(classes[c], classes'[c])
  <2>1. Updated(classes[d], obj).obj = obj
    BY <1>1, <1>4, SlotHolds
  <2> QED BY <1>3, <1>4, <2>1 DEF ListKept
<1>5. CASE Users
  <2>1. ASSUME NEW d \in Classes, DeleteClass(d)
        PROVE  ListKept(classes[c], classes'[c])
    <3> DEFINE obj == [classes[d].obj EXCEPT !.deleting = TRUE]
    <3>1. obj \in NamespaceClass /\ obj.items = classes[d].obj.items /\ classes[d].live
      BY <1>1, <2>1 DEF NamespaceClass, DeleteClass
    <3>2. \/ classes' = [classes EXCEPT ![d] = Updated(classes[d], obj)]
          \/ classes' = [classes EXCEPT ![d] = Deleted(classes[d], NoClassObject)]
      BY <2>1 DEF DeleteClass
    <3> HIDE DEF obj
    <3>3. ~Deleted(classes[d], NoClassObject).live
      BY DEF Deleted
    <3> QED BY <1>3, <1>4, <3>1, <3>2, <3>3 DEF ListKept
  <2>2. ASSUME NEW d \in Classes, NEW set, CreateClass(d, set),
               May("createClass")
        PROVE  ListKept(classes[c], classes'[c])
    BY <1>3, <2>2 DEF CreateClass, ListKept
  <2>3. \/ UNCHANGED classes
        \/ \E d \in Classes : DeleteClass(d)
        \/ \E d \in Classes : \E set : CreateClass(d, set) /\ May("createClass")
    BY <1>5 DEF Users, CreateItem, EditItem, DeleteItem
  <2> QED BY <1>2, <2>1, <2>2, <2>3
<1>6. CASE ItSide
  <2>1. CASE ItAnnotateClass
    <3> DEFINE w == itemWorker
               obj == WithTrigger(w.class.obj)
    <3>1. w.at \in Classes /\ w.class \in Slot(NamespaceClass) /\ w.class.obj \in NamespaceClass
      BY <1>1, ItemCall
    <3>2. /\ w.pc = "annotate" /\ SameVersion(classes[w.at], w.class)
          /\ classes' = [classes EXCEPT ![w.at] = Updated(classes[w.at], obj)]
      BY <2>1 DEF ItAnnotateClass, ItMayUpdate
    <3>3. classes[w.at].live /\ classes[w.at] = w.class
      BY <1>1, <3>1, <3>2 DEF ItemWorkerSound, SameVersion, Fresh, Slot
    <3>4. obj \in NamespaceClass /\ obj.items = classes[w.at].obj.items
      BY <3>1, <3>3 DEF WithTrigger, NamespaceClass
    <3> HIDE DEF obj
    <3> QED BY <1>4, <3>1, <3>2, <3>3, <3>4
  <2>2. CASE ~ItAnnotateClass
    BY <1>2, <1>6, <2>2
    DEF ItSide, ItReconcile, ItGetItem, ItObserve, ItRefetch, ItGetClass, ItAnnounced,
        ItRejected
  <2> QED BY <2>1, <2>2
<1>7. CASE ClSide
  <2> DEFINE w == classWorker
  <2>1. w.key \in Classes /\ w.class \in Slot(NamespaceClass) /\ w.class.obj \in NamespaceClass
    BY <1>1, ClassCall
  <2>2. ASSUME w.pc # "idle", ClMayUpdate
        PROVE  classes[w.key].live /\ classes[w.key] = w.class
    BY <1>1, <2>1, <2>2 DEF ClassWorkerSound, ClMayUpdate, SameVersion, Fresh, Slot
  <2>3. CASE ClAddFinalizer
    <3> DEFINE obj == WithFinalizer(w.class.obj)
    <3>1. /\ w.pc # "idle" /\ ClMayUpdate
          /\ classes' = [classes EXCEPT ![w.key] = Updated(classes[w.key], obj)]
      BY <2>3 DEF ClAddFinalizer
    <3>2. obj \in NamespaceClass /\ obj.items = w.class.obj.items
      BY <2>1 DEF WithFinalizer, NamespaceClass
    <3> HIDE DEF obj
    <3> QED BY <1>4, <2>1, <2>2, <3>1, <3>2
  <2>4. CASE ClRemoveTrigger
    <3> DEFINE obj == WithoutTrigger(w.class.obj)
    <3>1. /\ w.pc # "idle" /\ ClMayUpdate
          /\ classes' = [classes EXCEPT ![w.key] = Updated(classes[w.key], obj)]
      BY <2>4 DEF ClRemoveTrigger
    <3>2. obj \in NamespaceClass /\ obj.items = w.class.obj.items
      BY <2>1 DEF WithoutTrigger, NamespaceClass
    <3> HIDE DEF obj
    <3> QED BY <1>4, <2>1, <2>2, <3>1, <3>2
  <2>5. CASE ClRemoveFinalizer
    <3>1. classes' = [classes EXCEPT ![w.key] = Deleted(classes[w.key], NoClassObject)]
      BY <2>5 DEF ClRemoveFinalizer
    <3>2. ~Deleted(classes[w.key], NoClassObject).live
      BY DEF Deleted
    <3> QED BY <1>3, <2>1, <3>1, <3>2 DEF ListKept
  <2>6. CASE ~(ClAddFinalizer \/ ClRemoveTrigger \/ ClRemoveFinalizer)
    BY <1>2, <1>7, <2>6
    DEF ClSide, ClReconcile, ClGetClass, ClListStates, ClAnnotateState, ClGetItem, ClAddRef,
        ClDropRef, ClWriteRefs, ClNoTrigger, ClRejected
  <2> QED BY <2>3, <2>4, <2>5, <2>6
<1>8. CASE Sync \/ GivenUp \/ UNCHANGED sideVars
  BY <1>2, <1>8 DEF Sync, GivenUp, sideVars
<1>9. UserWrite /\ ~Users => ItSide \/ ClSide \/ Sync \/ GivenUp \/ UNCHANGED sideVars
                              \/ UNCHANGED classes
  <2> USE DEF itemStore, classStore, clVars, itVars
  <2> QED
    BY DEF Next, vars, stores, Kubernetes, SyncNamespaces, SyncStates, SyncClasses, SyncItems,
           SyncInstances, NsStep, StateStep, ClassStep, ItemStep, InstanceStep, Fault, Restart,
           Resync, ClSide, ItSide, ClCallFails, ItCallFails
<1> QED BY <1>2, <1>5, <1>6, <1>7, <1>8, <1>9, NextSides

-----------------------------------------------------------------------------
(***************************************************************************)
(* What the state reconciler is after                                      *)
(***************************************************************************)
\* What is in the list and not handled yet is there, and so is what is to be deleted.
WriteOK ==
    LET w == stateWorker IN
    w.pc = "write" =>
        /\ \A i \in w.todo : w.seen[i].live => instances[w.key][i].live
        /\ w.extra \subseteq Installed(w.key) /\ w.extra \cap w.todo = {}

\* The instances there will be in n when the call in hand is done.
Aim(n) ==
    LET w == stateWorker IN
    CASE w.key = n /\ w.pc = "list"  -> w.todo
      [] w.key = n /\ w.pc = "write" -> w.todo \cup (Installed(n) \ w.extra)
      [] OTHER                       -> Installed(n)

\* Where the list of instances may be out of date, no start lets users edit a class.
ListsStay == InstanceLag => \A start \in Starts : "editClass" \notin start.acts

\* Then a class lists what it listed when it came, and instances are only added: nothing
\* is ever left over, whatever the informer has delivered.
GrowOK ==
    InstanceLag =>
        /\ ~May("editClass")
        /\ \A c \in Classes : Taken(c) /\ classCache[c].live =>
                                  classCache[c].obj.items = classes[c].obj.items
        /\ \A n \in Namespaces, i \in Items : instCache[n][i].live => instances[n][i].live
        /\ \A n \in Namespaces : Given(n) \in Classes =>
              LET c == Given(n)
                  w == stateWorker
              IN  /\ Installed(n) \subseteq DesiredItems(c)
                  /\ w.key = n /\ w.pc = "list" =>
                        Installed(n) \subseteq w.todo /\ w.todo \subseteq DesiredItems(c)
                  /\ w.key = n /\ w.pc = "write" =>
                        w.extra = {} /\ w.todo \subseteq DesiredItems(c)

\* Nothing changes what is aimed at, but giving up and reading the class.
AimTurn(n) ==
    \/ Aim(n)' = Aim(n) /\ ~(StGetClass /\ stateWorker.key = n)
    \/ Aim(n)' = Installed(n)' /\ Installed(n)' = Installed(n) /\ n \in stateQueue'
    \/ /\ StGetClass /\ stateWorker.key = n /\ UNCHANGED <<states, instances>>
       /\ Aim(n)' = DesiredItems(Given(n))

LEMMA AimOf ==
    ASSUME NEW n \in Namespaces
    PROVE  /\ stateWorker.key # n => Aim(n) = Installed(n)
           /\ stateWorker.pc \in {"idle", "getClass"} => Aim(n) = Installed(n)
           /\ stateWorker.key = n /\ stateWorker.pc = "list" => Aim(n) = stateWorker.todo
           /\ stateWorker.key = n /\ stateWorker.pc = "write" =>
                 Aim(n) = stateWorker.todo \cup (Installed(n) \ stateWorker.extra)
BY DEF Aim

LEMMA AimNext ==
    ASSUME NEW n \in Namespaces
    PROVE  /\ stateWorker'.key # n => Aim(n)' = Installed(n)'
           /\ stateWorker'.pc \in {"idle", "getClass"} => Aim(n)' = Installed(n)'
           /\ stateWorker'.key = n /\ stateWorker'.pc = "list" => Aim(n)' = stateWorker'.todo
           /\ stateWorker'.key = n /\ stateWorker'.pc = "write" =>
                 Aim(n)' = stateWorker'.todo \cup (Installed(n)' \ stateWorker'.extra)
BY DEF Aim

\* A namespace that gets a class has no instances, and the reconciler is not at it.
LEMMA GivenAnew ==
    ASSUME OwnersOK, StSteady, GivenOn, NEW n \in Namespaces, Given(n)' # Given(n)
    PROVE  /\ Given(n) = NoClass /\ states'[n] # states[n]
           /\ Installed(n)' = {} /\ Aim(n)' = {}
           /\ stateWorker'.pc # "idle" => stateWorker'.key # n
           /\ UNCHANGED <<instances, classes, classCache, stateWorker, classWorker>>
<1>1. /\ Given(n) = NoClass /\ ~states[n].live /\ states'[n] # states[n]
      /\ UNCHANGED <<instances, classes, classCache, stateWorker, classWorker>>
  BY DEF GivenOn, instStore, classStore, stateVars, clVars
<1>2. Installed(n)' = {}
  BY <1>1 DEF OwnersOK, Installed
<1>3. stateWorker'.pc # "idle" => stateWorker'.key # n
  BY <1>1 DEF StSteady
<1>4. Aim(n)' = Installed(n)'
  BY <1>3, AimNext
<1> QED BY <1>1, <1>2, <1>3, <1>4

LEMMA SameInstalled ==
    ASSUME SameLives
    PROVE  \A n \in Namespaces : Installed(n)' = Installed(n)
BY DEF SameLives, Installed

\* The calls that handle one item.
LEMMA StHandles ==
    ASSUME RestTypeOK, WriteOK, NEW n \in Namespaces, stateWorker.key = n, NEW i \in Items,
           StAnnotateInstance(i) \/ StCreateInstance(i) \/ StDeleteInstance(i)
    PROVE  /\ WriteOK'
           /\ \A m \in Namespaces :
                 /\ Aim(m)' = Aim(m) /\ Installed(m)' \subseteq Installed(m) \cup Aim(m)
                 /\ Installed(m) \subseteq Installed(m)' \cup stateWorker.extra
<1> DEFINE w == stateWorker
<1>1. /\ InstancesTypeOK /\ w \in StCall /\ w.pc = "write" /\ w.key = n
      /\ w.seen \in [Items -> Slot(NamespaceItemInstance)]
      /\ instances[n][i] \in Slot(NamespaceItemInstance)
      /\ w.todo \in SUBSET Items /\ w.extra \in SUBSET Items
      /\ w.seen[i].live => w.seen[i].obj \in NamespaceItemInstance
  BY StCallTypes
  DEF RestTypeOK, StoresOK, WorkersOK, StCallOK, InstancesTypeOK, StAnnotateInstance,
      StCreateInstance, StDeleteInstance, Slot
<1>2. /\ stateWorker'.pc = "write" /\ stateWorker'.key = n /\ stateWorker'.seen = w.seen
  BY <1>1 DEF StAnnotateInstance, StCreateInstance, StDeleteInstance, StCall
<1>3. /\ \A j \in w.todo : w.seen[j].live => instances[n][j].live
      /\ w.extra \subseteq Installed(n) /\ w.extra \cap w.todo = {}
  BY <1>1 DEF WriteOK
<1>4. ASSUME NEW new, instances' = [instances EXCEPT ![n][i] = new]
      PROVE  /\ instances'[n][i] = new
             /\ \A m \in Namespaces, j \in Items :
                   m # n \/ j # i => instances'[m][j] = instances[m][j]
  BY <1>1, <1>4 DEF InstancesTypeOK
<1>5. ASSUME NEW new, instances' = [instances EXCEPT ![n][i] = new]
      PROVE  /\ \A m \in Namespaces \ {n} : Installed(m)' = Installed(m)
             /\ new.live => Installed(n)' = Installed(n) \cup {i}
             /\ ~new.live => Installed(n)' = Installed(n) \ {i}
  <2>1. /\ instances'[n][i] = new
        /\ \A m \in Namespaces, j \in Items :
              m # n \/ j # i => instances'[m][j] = instances[m][j]
    BY <1>4, <1>5
  <2>2. \A m \in Namespaces \ {n} : Installed(m)' = Installed(m)
    BY <2>1 DEF Installed
  <2>3. \A j \in Items \ {i} : j \in Installed(n)' <=> j \in Installed(n)
    BY <2>1 DEF Installed
  <2>4. i \in Installed(n)' <=> new.live
    BY <2>1 DEF Installed
  <2>5. Installed(n)' \subseteq Items /\ Installed(n) \subseteq Items
    BY DEF Installed
  <2> QED BY <2>2, <2>3, <2>4, <2>5
<1>6. /\ Aim(n) = w.todo \cup (Installed(n) \ w.extra)
      /\ Aim(n)' = stateWorker'.todo \cup (Installed(n)' \ stateWorker'.extra)
  BY <1>1, <1>2, AimOf, AimNext
<1>7. CASE StAnnotateInstance(i)
  <2> DEFINE new == Updated(instances[n][i], Touched(w.seen[i].obj))
  <2>1. /\ i \in w.todo /\ w.seen[i].live /\ instances[n][i].live
        /\ instances' = [instances EXCEPT ![n][i] = new]
        /\ stateWorker'.todo = w.todo \ {i} /\ stateWorker'.extra = w.extra
    BY <1>1, <1>7 DEF StAnnotateInstance, SameVersion, StCall
  <2>2. new.live
    BY <2>1 DEF Updated
  <2> HIDE DEF new
  <2>3. /\ Installed(n)' = Installed(n) /\ i \in Installed(n)
        /\ \A m \in Namespaces \ {n} : Installed(m)' = Installed(m)
    BY <1>1, <1>5, <2>1, <2>2 DEF Installed
  <2>4. \A j \in Items : instances'[n][j].live <=> instances[n][j].live
    BY <1>1, <1>4, <2>1, <2>2
  <2>5. Aim(n)' = Aim(n)
    BY <1>3, <1>6, <2>1, <2>3
  <2>6. \A m \in Namespaces : Aim(m)' = Aim(m)
    BY <1>2, <2>3, <2>5, AimOf, AimNext
  <2>7. WriteOK'
    BY <1>1, <1>2, <1>3, <2>1, <2>3, <2>4 DEF WriteOK
  <2> QED BY <2>3, <2>6, <2>7
<1>8. CASE StCreateInstance(i)
  <2> DEFINE new == Created(instances[n][i], NewInstance(w.state))
  <2>1. /\ i \in w.todo /\ ~w.seen[i].live /\ ~instances[n][i].live
        /\ instances' = [instances EXCEPT ![n][i] = new]
        /\ stateWorker'.todo = w.todo \ {i} /\ stateWorker'.extra = w.extra
    BY <1>1, <1>8 DEF StCreateInstance, StCall
  <2>2. new.live
    BY DEF Created
  <2> HIDE DEF new
  <2>3. /\ Installed(n)' = Installed(n) \cup {i} /\ i \in Aim(n)
        /\ \A m \in Namespaces \ {n} : Installed(m)' = Installed(m)
    BY <1>1, <1>2, <1>5, <2>1, <2>2, AimOf
  <2>4. \A j \in Items \ {i} : instances'[n][j].live <=> instances[n][j].live
    BY <1>1, <1>4, <2>1
  <2>5. Aim(n)' = Aim(n)
    BY <1>3, <1>6, <2>1, <2>3
  <2>6. \A m \in Namespaces : Aim(m)' = Aim(m)
    BY <1>2, <2>3, <2>5, AimOf, AimNext
  <2>7. WriteOK'
    BY <1>1, <1>2, <1>3, <2>1, <2>3, <2>4 DEF WriteOK
  <2> QED BY <2>3, <2>6, <2>7
<1>9. CASE StDeleteInstance(i)
  <2> DEFINE new == Deleted(instances[n][i], NoInstance)
  <2>1. /\ i \in w.extra /\ w.todo = {}
        /\ instances' = [instances EXCEPT ![n][i] = new]
        /\ stateWorker'.todo = {} /\ stateWorker'.extra = w.extra \ {i}
    BY <1>1, <1>9 DEF StDeleteInstance, StCall
  <2>2. ~new.live
    BY DEF Deleted
  <2> HIDE DEF new
  <2>3. /\ Installed(n)' = Installed(n) \ {i}
        /\ \A m \in Namespaces \ {n} : Installed(m)' = Installed(m)
    BY <1>1, <1>5, <2>1, <2>2
  <2>4. Aim(n)' = Aim(n)
    BY <1>3, <1>6, <2>1, <2>3
  <2>5. \A m \in Namespaces : Aim(m)' = Aim(m)
    BY <1>2, <2>3, <2>4, AimOf, AimNext
  <2>6. WriteOK'
    BY <1>1, <1>2, <1>3, <2>1, <2>3 DEF WriteOK
  <2> QED BY <2>1, <2>3, <2>5, <2>6
<1> QED BY <1>7, <1>8, <1>9

LEMMA StAims ==
    ASSUME RestTypeOK, StatesSteady, StSteady, WriteOK, GrowOK,
           StReconcile \/ StCallFails
    PROVE  /\ WriteOK'
           /\ \A n \in Namespaces :
                 AimTurn(n) /\ Installed(n)' \subseteq Installed(n) \cup Aim(n)
<1> DEFINE w == stateWorker
           Goal == /\ WriteOK'
                   /\ \A n \in Namespaces :
                         AimTurn(n) /\ Installed(n)' \subseteq Installed(n) \cup Aim(n)
<1>1. /\ w \in StCall /\ w.key \in Namespaces
      /\ w.todo \in SUBSET Items /\ w.extra \in SUBSET Items
      /\ \A n \in Namespaces : Installed(n) \subseteq Items
  BY StCallTypes DEF RestTypeOK, WorkersOK, StCallOK, Installed
<1>2. UNCHANGED instances => \A n \in Namespaces : Installed(n)' = Installed(n)
  BY DEF Installed
<1>3. ASSUME UNCHANGED instances, stateWorker'.pc \in {"idle", "getClass"}, ~StGetClass,
             \A n \in Namespaces : Aim(n) = Installed(n) \/ n \in stateQueue'
      PROVE  Goal
  <2>1. \A n \in Namespaces : Aim(n)' = Installed(n)' /\ Installed(n)' = Installed(n)
    BY <1>2, <1>3, AimNext
  <2> QED BY <1>3, <2>1 DEF WriteOK, AimTurn
<1>4. ASSUME NEW m \in Namespaces, StGetState(m)
      PROVE  Goal
  <2>1. /\ w.pc = "idle" /\ UNCHANGED instances /\ stateWorker'.pc \in {"idle", "getClass"}
    BY <1>4, IdleTypes DEF StGetState
  <2>2. \A n \in Namespaces : Aim(n) = Installed(n)
    BY <2>1, AimOf
  <2> QED BY <1>3, <2>1, <2>2 DEF StGetClass
<1>5. CASE StGetClass
  <2>1. /\ w.pc = "getClass" /\ UNCHANGED <<states, instances>>
        /\ stateWorker'.pc = "list" /\ stateWorker'.key = w.key
        /\ stateWorker'.todo = DesiredItems(TargetClass(w.state))
    BY <1>5 DEF StGetClass
  <2>2. TargetClass(w.state) = Given(w.key)
    BY <2>1 DEF StSteady, Steady, TargetClass, Given
  <2>3. \A n \in Namespaces : Aim(n) = Installed(n) /\ Installed(n)' = Installed(n)
    BY <1>2, <2>1, AimOf
  <2>4. ASSUME NEW n \in Namespaces
        PROVE  AimTurn(n)
    <3>1. CASE n = w.key
      <4>1. Aim(n)' = stateWorker'.todo
        BY <2>1, <3>1, AimNext
      <4> QED BY <1>5, <2>1, <2>2, <3>1, <4>1 DEF AimTurn
    <3>2. CASE n # w.key
      <4>1. Aim(n)' = Installed(n)'
        BY <2>1, <3>2, AimNext
      <4> QED BY <2>3, <3>2, <4>1 DEF AimTurn
    <3> QED BY <3>1, <3>2
  <2> QED BY <2>1, <2>3, <2>4 DEF WriteOK
<1>6. CASE StListInstances
  <2> DEFINE seen == instCache[w.key]
  <2>1. /\ w.pc = "list" /\ (InstanceLag \/ instCache = instances) /\ UNCHANGED instances
        /\ stateWorker'.pc = "write" /\ stateWorker'.key = w.key
        /\ stateWorker'.todo = w.todo /\ stateWorker'.seen = seen
        /\ stateWorker'.extra = LeftOver(seen, w.todo)
    BY <1>6 DEF StListInstances
  <2>2. /\ \A i \in Items : seen[i].live => instances[w.key][i].live
        /\ stateWorker'.extra = Installed(w.key) \ w.todo
    <3>1. CASE InstanceLag
      <4>1. Given(w.key) \in Classes
        BY <1>1, <2>1 DEF StSteady, Steady, RestTypeOK, StoresOK, NamespacesTypeOK, Slot,
                          Namespace, Label, Given, Labels
      <4>2. /\ \A i \in Items : seen[i].live => instances[w.key][i].live
            /\ Installed(w.key) \subseteq w.todo
        BY <1>1, <2>1, <3>1, <4>1 DEF GrowOK
      <4> QED BY <2>1, <4>2 DEF LeftOver, Installed
    <3>2. CASE instCache = instances
      BY <2>1, <3>2 DEF LeftOver, Installed
    <3> QED BY <2>1, <3>1, <3>2
  <2> HIDE DEF seen
  <2>3. \A n \in Namespaces : Installed(n)' = Installed(n)
    BY <1>2, <2>1
  <2>4. WriteOK'
    <3>1. /\ \A i \in stateWorker'.todo :
                stateWorker'.seen[i].live => instances'[stateWorker'.key][i].live
          /\ stateWorker'.extra \cap stateWorker'.todo = {}
      BY <1>1, <2>1, <2>2
    <3>2. stateWorker'.extra \subseteq {i \in Items : instances'[stateWorker'.key][i].live}
      BY <1>1, <2>1, <2>2 DEF Installed
    <3> QED BY <3>1, <3>2 DEF WriteOK, Installed
  <2>5. ASSUME NEW n \in Namespaces
        PROVE  Aim(n)' = Aim(n)
    <3>1. CASE n = w.key
      <4>1. Aim(n) = w.todo
        BY <2>1, <3>1, AimOf
      <4>2. Aim(n)' = stateWorker'.todo \cup (Installed(n)' \ stateWorker'.extra)
        BY <2>1, <3>1, AimNext
      <4> QED BY <2>1, <2>2, <2>3, <3>1, <4>1, <4>2
    <3>2. CASE n # w.key
      BY <2>1, <2>3, <3>2, AimOf, AimNext
    <3> QED BY <3>1, <3>2
  <2>6. ~StGetClass
    BY <2>1 DEF StGetClass
  <2> QED BY <2>3, <2>4, <2>5, <2>6 DEF AimTurn
<1>7. ASSUME NEW i \in Items,
             StAnnotateInstance(i) \/ StCreateInstance(i) \/ StDeleteInstance(i)
      PROVE  Goal
  <2>1. ~StGetClass
    BY <1>7 DEF StGetClass, StAnnotateInstance, StCreateInstance, StDeleteInstance
  <2> QED BY <1>1, <1>7, <2>1, StHandles DEF AimTurn
<1>8. CASE StCommit \/ StNothingToCommit
  <2>1. /\ w.pc = "write" /\ w.todo = {} /\ w.extra = {} /\ UNCHANGED instances
        /\ stateWorker'.pc = "idle"
    BY <1>8, IdleTypes DEF StCommit, StNothingToCommit, StInstancesDone, StReturn
  <2>2. ASSUME NEW n \in Namespaces
        PROVE  Aim(n) = Installed(n)
    <3>1. CASE n = w.key
      <4>1. Aim(n) = w.todo \cup (Installed(n) \ w.extra)
        BY <2>1, <3>1, AimOf
      <4> QED BY <2>1, <4>1
    <3>2. CASE n # w.key
      BY <3>2, AimOf
    <3> QED BY <3>1, <3>2
  <2> QED BY <1>3, <2>1, <2>2 DEF StGetClass
<1>9. CASE StRejected \/ StCallFails
  <2>1. /\ w.pc = "write" /\ UNCHANGED instances /\ stateWorker'.pc = "idle"
        /\ w.key \in stateQueue'
    BY <1>9, IdleTypes DEF StRejected, StCallFails, StRequeue
  <2>2. \A n \in Namespaces : Aim(n) = Installed(n) \/ n \in stateQueue'
    BY <2>1, AimOf
  <2> QED BY <1>3, <2>1, <2>2 DEF StGetClass
<1> QED BY <1>4, <1>5, <1>6, <1>7, <1>8, <1>9 DEF StReconcile

LEMMA AimStep ==
    ASSUME "state" \in Controllers, RestTypeOK, SidesTypeOK, StatesSteady, StSteady,
           GivenOn, OwnersOK, WriteOK, GrowOK, [Next]_vars
    PROVE  /\ WriteOK'
           /\ \A n \in Namespaces : Given(n) \in Classes =>
                 AimTurn(n) /\ Installed(n)' \subseteq Installed(n) \cup Aim(n)
<1>1. CASE StReconcile \/ StCallFails
  BY <1>1, StAims
<1>2. CASE ~(StReconcile \/ StCallFails) /\ UNCHANGED stateWorker
  <2>1. SameLives
    BY <1>2, OwnersStep
  <2>2. \A n \in Namespaces : Installed(n)' = Installed(n)
    BY <2>1, SameInstalled
  <2>3. ~StGetClass
    BY <1>2 DEF StReconcile
  <2>4. \A n \in Namespaces : Aim(n)' = Aim(n)
    BY <1>2, <2>2 DEF Aim
  <2>5. stateWorker.key \in Namespaces /\ stateWorker.todo \in SUBSET Items
    BY StCallTypes DEF RestTypeOK, WorkersOK
  <2>6. WriteOK'
    BY <1>2, <2>1, <2>2, <2>5 DEF WriteOK, SameLives
  <2> QED BY <2>2, <2>3, <2>4, <2>6 DEF AimTurn
<1>3. CASE Restart
  <2>1. /\ UNCHANGED instances /\ stateWorker'.pc = "idle"
        /\ stateQueue' = Living(states)
    BY <1>3, IdleTypes DEF Restart, Watched
  <2>2. ASSUME NEW n \in Namespaces, Given(n) \in Classes
        PROVE  n \in stateQueue'
    <3>1. states[n].live
      BY <2>2, NoClassAssumption DEF Given
    <3> QED BY <2>1, <3>1 DEF Living, RestTypeOK, StoresOK, StatesTypeOK
  <2>3. \A n \in Namespaces : Aim(n)' = Installed(n)' /\ Installed(n)' = Installed(n)
    BY <2>1, AimNext DEF Installed
  <2> QED BY <2>1, <2>2, <2>3 DEF WriteOK, AimTurn
<1> QED
  BY <1>1, <1>2, <1>3, NextStates DEF StatesNext, SyncStates, Resync, stateVars

\* The state reconciler adds instances and takes none.
LEMMA StGrows ==
    ASSUME InstanceLag, RestTypeOK, StSteady, WriteOK, GrowOK, StReconcile \/ StCallFails,
           NEW n \in Namespaces, Given(n) \in Classes
    PROVE  LET w == stateWorker
               c == Given(n)
           IN  /\ Installed(n) \subseteq Installed(n)'
               /\ w'.key = n /\ w'.pc = "list" =>
                     UNCHANGED instances /\ w'.todo = DesiredItems(c)
               /\ w'.key = n /\ w'.pc = "write" =>
                     w'.extra = {} /\ w'.todo \subseteq DesiredItems(c)
<1> DEFINE w == stateWorker
           c == Given(n)
           Goal == /\ Installed(n) \subseteq Installed(n)'
                   /\ w'.key = n /\ w'.pc = "list" =>
                         UNCHANGED instances /\ w'.todo = DesiredItems(c)
                   /\ w'.key = n /\ w'.pc = "write" =>
                         w'.extra = {} /\ w'.todo \subseteq DesiredItems(c)
<1>1. /\ w \in StCall /\ w.key \in Namespaces
      /\ w.pc # "idle" => Given(w.key) \in Classes
  BY StCallTypes
  DEF StSteady, Steady, RestTypeOK, StoresOK, WorkersOK, StCallOK, NamespacesTypeOK, Slot,
      Namespace, Label, Given, Labels
<1>2. UNCHANGED instances => Installed(n)' = Installed(n)
  BY DEF Installed
<1>3. ASSUME UNCHANGED instances, w'.pc \in {"idle", "getClass"}
      PROVE  Goal
  BY <1>2, <1>3
<1>4. ASSUME NEW m \in Namespaces, StGetState(m)
      PROVE  Goal
  BY <1>3, <1>4, IdleTypes DEF StGetState
<1>5. CASE StGetClass
  <2>1. /\ w.pc = "getClass" /\ UNCHANGED instances
        /\ w'.pc = "list" /\ w'.key = w.key /\ w'.todo = DesiredItems(TargetClass(w.state))
    BY <1>5 DEF StGetClass
  <2>2. TargetClass(w.state) = Given(w.key)
    BY <2>1 DEF StSteady, Steady, TargetClass, Given
  <2> QED BY <1>2, <2>1, <2>2
<1>6. CASE StListInstances
  <2>1. /\ w.pc = "list" /\ UNCHANGED instances /\ w'.pc = "write" /\ w'.key = w.key
        /\ w'.todo = w.todo /\ w'.extra = LeftOver(instCache[w.key], w.todo)
    BY <1>6 DEF StListInstances
  <2>2. ASSUME w.key = n
        PROVE  w'.extra = {} /\ w.todo \subseteq DesiredItems(c)
    <3>1. /\ Installed(n) \subseteq w.todo /\ w.todo \subseteq DesiredItems(c)
          /\ \A i \in Items : instCache[n][i].live => instances[n][i].live
      BY <2>1, <2>2 DEF GrowOK
    <3> QED BY <2>1, <2>2, <3>1 DEF LeftOver, Installed
  <2> QED BY <1>2, <2>1, <2>2
<1>7. ASSUME NEW i \in Items,
             StAnnotateInstance(i) \/ StCreateInstance(i) \/ StDeleteInstance(i)
      PROVE  Goal
  <2>1. /\ w.pc = "write" /\ w'.pc = "write" /\ w'.key = w.key
        /\ w'.todo \subseteq w.todo /\ w'.extra \subseteq w.extra
    BY <1>1, <1>7 DEF StAnnotateInstance, StCreateInstance, StDeleteInstance, StCall
  <2>2. w.extra = {} /\ w.todo \subseteq DesiredItems(Given(w.key))
    BY <1>1, <2>1 DEF GrowOK
  <2>3. Installed(n) \subseteq Installed(n)' \cup w.extra
    BY <1>1, <1>7, StHandles
  <2> QED BY <2>1, <2>2, <2>3
<1>8. CASE StCommit \/ StNothingToCommit \/ StRejected \/ StCallFails
  <2>1. UNCHANGED instances /\ w'.pc = "idle"
    BY <1>8, IdleTypes
    DEF StCommit, StNothingToCommit, StRejected, StCallFails, StReturn, StRequeue
  <2> QED BY <1>3, <2>1
<1> QED BY <1>4, <1>5, <1>6, <1>7, <1>8 DEF StReconcile

LEMMA GrowStep ==
    ASSUME "state" \in Controllers, IInv, RestTypeOK, SidesTypeOK, LabelsLeft, StatesSteady,
           StSteady, GivenOn, UsedOK, OwnersOK, WriteOK, GrowOK, [Next]_vars,
           \A c \in Classes : Taken(c) => (classes[c].live => classes'[c].live),
           \A n \in Namespaces : Given(n) \in Classes =>
               Installed(n)' \subseteq Installed(n) \cup Aim(n)
    PROVE  GrowOK'
<1> DEFINE w == stateWorker
<1> SUFFICES ASSUME InstanceLag PROVE GrowOK'
  BY DEF GrowOK
<1>1. ~May("editClass") /\ ~May("editClass")'
  BY ActsStay DEF GrowOK, May, LabelsLeft
<1>2. /\ classCache' = classCache \/ (classCache' = classes /\ UNCHANGED classes)
      /\ instCache' = instCache \/ (instCache' = instances /\ UNCHANGED instances)
  <2>1. classCache' = classCache \/ (classCache' = classes /\ UNCHANGED classes)
    BY NextClasses DEF ClassesNext, SyncClasses, Restart, Resync, stores, classStore
  <2>2. instCache' = instCache \/ (instCache' = instances /\ UNCHANGED instances)
    BY NextInstances DEF InstancesNext, SyncInstances, Restart, Resync, stores, instStore
  <2> QED BY <2>1, <2>2
<1>3. \A c \in Classes : ListKept(classes[c], classes'[c])
  BY <1>1, ListsKept
<1>4. ASSUME NEW c \in Classes, Taken(c)
      PROVE  /\ classCache'[c].live => classCache'[c].obj.items = classes'[c].obj.items
             /\ DesiredItems(c) \subseteq DesiredItems(c)'
  <2>1. /\ classCache[c].live =>
              classes[c].live /\ classCache[c].obj.items = classes[c].obj.items
        /\ classes[c].live => classes'[c].live
    BY <1>4 DEF UsedOK, GrowOK
  <2>2. classes[c].live => classes'[c].obj.items = classes[c].obj.items
    BY <1>3, <2>1 DEF ListKept
  <2> QED BY <1>2, <2>1, <2>2 DEF DesiredItems
<1>5. ASSUME NEW n \in Namespaces, NEW c \in Classes, Given(n) = c
      PROVE  /\ Installed(n) \subseteq Installed(n)'
             /\ w'.key = n /\ w'.pc = "list" =>
                   Installed(n)' \subseteq w'.todo /\ w'.todo \subseteq DesiredItems(c)
             /\ w'.key = n /\ w'.pc = "write" =>
                   w'.extra = {} /\ w'.todo \subseteq DesiredItems(c)
  <2>1. Installed(n) \subseteq DesiredItems(c)
    BY <1>5 DEF GrowOK
  <2>2. CASE StReconcile \/ StCallFails
    <3>1. UNCHANGED instances => Installed(n)' = Installed(n)
      BY DEF Installed
    <3> QED BY <1>5, <2>1, <2>2, <3>1, StGrows
  <2>3. CASE ~(StReconcile \/ StCallFails) /\ UNCHANGED stateWorker
    <3>1. Installed(n)' = Installed(n)
      BY <2>3, OwnersStep, SameInstalled
    <3> QED BY <1>5, <2>3, <3>1 DEF GrowOK
  <2>4. CASE Restart
    <3>1. UNCHANGED instances /\ w'.pc = "idle"
      BY <2>4, IdleTypes DEF Restart
    <3> QED BY <3>1 DEF Installed
  <2> QED
    BY <2>2, <2>3, <2>4, NextStates DEF StatesNext, SyncStates, Resync, stateVars
<1>6. ASSUME NEW n \in Namespaces, NEW c \in Classes, Given(n) = c
      PROVE  Installed(n)' \subseteq DesiredItems(c)
  <2>1. Installed(n) \subseteq DesiredItems(c)
    BY <1>6 DEF GrowOK
  <2>2. Aim(n) \subseteq DesiredItems(c)
    BY <1>6, <2>1 DEF GrowOK, Aim
  <2> QED BY <1>6, <2>1, <2>2
<1>7. ASSUME NEW n \in Namespaces, NEW i \in Items, instCache'[n][i].live
      PROVE  instances'[n][i].live
  <2>1. CASE instCache' = instCache
    <3>1. instances[n][i].live /\ i \in Installed(n)
      BY <1>7, <2>1 DEF GrowOK, Installed
    <3>2. Given(n) \in Classes
      BY <3>1 DEF OwnersOK, RestTypeOK, StoresOK, NamespacesTypeOK, Slot, Namespace, Label,
                  Given, Labels
    <3>3. i \in Installed(n)'
      BY <1>5, <3>1, <3>2
    <3> QED BY <3>3 DEF Installed
  <2>2. CASE instCache' = instances /\ UNCHANGED instances
    BY <1>7, <2>2
  <2> QED BY <1>2, <2>1, <2>2
<1>8. ASSUME NEW n \in Namespaces, NEW c \in Classes, Given(n)' = c
      PROVE  /\ Installed(n)' \subseteq DesiredItems(c)'
             /\ w'.key = n /\ w'.pc = "list" =>
                   Installed(n)' \subseteq w'.todo /\ w'.todo \subseteq DesiredItems(c)'
             /\ w'.key = n /\ w'.pc = "write" =>
                   w'.extra = {} /\ w'.todo \subseteq DesiredItems(c)'
  <2>1. CASE Given(n) = c
    <3>1. DesiredItems(c) \subseteq DesiredItems(c)'
      BY <1>4, <2>1 DEF Taken
    <3> QED BY <1>5, <1>6, <2>1, <3>1
  <2>2. CASE Given(n) # c
    <3>1. Installed(n)' = {} /\ (w'.pc # "idle" => w'.key # n)
      BY <1>8, <2>2, GivenAnew
    <3> QED BY <3>1
  <2> QED BY <2>1, <2>2
<1>9. \A c \in Classes : Taken(c)' => Taken(c)
  BY DEF GivenOn
<1> QED BY <1>1, <1>4, <1>7, <1>8, <1>9 DEF GrowOK

-----------------------------------------------------------------------------
(***************************************************************************)
(* Who will set a namespace right                                          *)
(***************************************************************************)
\* A namespace whose class does not exist has nothing, and nothing is aimed at.
EarlyOK ==
    \A n \in Namespaces : Given(n) \in Classes /\ ~classes[Given(n)].live =>
        Aim(n) = {} /\ Installed(n) = {}

\* The class reconciler is still to annotate the NamespaceState.
ClassComing(n) ==
    LET c == Given(n)
        w == classWorker
    IN  \/ classCache[c] # classes[c]
        \/ c \in classQueue
        \/ /\ w.key = c
           /\ w.pc \in {"addFinalizer", "list"} \/ (w.pc = "update" /\ n \in w.marks)

\* The state reconciler is still to read the class.
StateComing(n) ==
    LET w == stateWorker
    IN  \/ stateCache[n] # states[n]
        \/ n \in stateQueue
        \/ states[n].obj.classUpdated
        \/ /\ w.key = n /\ w.pc # "idle"
           /\ w.pc = "getClass" \/ w.state.obj.classUpdated

\* Where something else is aimed at than what the class has now, somebody will come.
CourseOK ==
    \A n \in Namespaces : Given(n) \in Classes =>
        Aim(n) = ItemsOf(Given(n)) \/ ClassComing(n) \/ StateComing(n)

LEMMA EarlyStep ==
    ASSUME StSteady, GivenOn, UsedOK, OwnersOK, EarlyOK, [Next]_vars,
           \A n \in Namespaces : Given(n) \in Classes =>
               AimTurn(n) /\ Installed(n)' \subseteq Installed(n) \cup Aim(n),
           \A c \in Classes : Taken(c) => (classes[c].live => classes'[c].live)
    PROVE  EarlyOK'
<1> SUFFICES ASSUME NEW n \in Namespaces, NEW c \in Classes, Given(n)' = c, ~classes'[c].live
             PROVE  Aim(n)' = {} /\ Installed(n)' = {}
  BY DEF EarlyOK
<1>1. CASE Given(n) = c
  <2>1. ~classes[c].live /\ Aim(n) = {} /\ Installed(n) = {}
    BY <1>1 DEF EarlyOK, Taken
  <2>2. DesiredItems(c) = {}
    BY <1>1, <2>1 DEF UsedOK, DesiredItems, Taken
  <2> QED BY <1>1, <2>1, <2>2 DEF AimTurn
<1>2. CASE Given(n) # c
  BY <1>2, GivenAnew
<1> QED BY <1>1, <1>2

LEMMA ClComes ==
    ASSUME RestTypeOK, SidesTypeOK, StatesSteady, UsedOK, ClReconcile \/ ClCallFails,
           UNCHANGED classCache, ClListStates => UNCHANGED stateCache,
           NEW n \in Namespaces, NEW c \in Classes, Given(n) = c, Given(n)' = c,
           classes[c].live, classes'[c] = classes[c], states'[n] = states[n], ClassComing(n)
    PROVE  ClassComing(n)' \/ StateComing(n)'
<1> DEFINE w == classWorker
           Here == /\ classWorker'.key = c
                   /\ \/ classWorker'.pc \in {"addFinalizer", "list"}
                      \/ classWorker'.pc = "update" /\ n \in classWorker'.marks
           Goal == ClassComing(n)' \/ StateComing(n)'
<1>1. /\ w \in ClCallWith(w.seen)
      /\ (classCache'[c] # classes'[c] \/ c \in classQueue' \/ Here) => Goal
  BY DEF ClassComing, SidesTypeOK
<1>2. CASE classCache[c] # classes[c]
  BY <1>1, <1>2
<1>3. CASE classCache[c] = classes[c] /\ c \in classQueue
  <2>1. CASE ClGetClass(c)
    <3>1. /\ classWorker' = ClAt(ClFirst(classCache[c]), c, classCache[c], classCache[c].obj.items)
          /\ ~classCache[c].obj.deleting
      BY <1>3, <2>1 DEF ClGetClass, UsedOK, Taken
    <3>2. Here
      BY <3>1 DEF ClAt, ClFirst
    <3> QED BY <1>1, <3>2
  <2>2. CASE ~ClGetClass(c)
    <3>1. c \in classQueue'
      BY <1>3, <2>2
      DEF ClReconcile, ClCallFails, ClGetClass, ClAddFinalizer, ClListStates, ClAnnotateState,
          ClGetItem, ClAddRef, ClDropRef, ClWriteRefs, ClRemoveTrigger, ClNoTrigger,
          ClRemoveFinalizer, ClRejected, ClReturn, ClRequeue
    <3> QED BY <1>1, <3>1
  <2> QED BY <2>1, <2>2
<1>4. CASE /\ w.key = c
           /\ w.pc \in {"addFinalizer", "list"} \/ (w.pc = "update" /\ n \in w.marks)
  <2>1. CASE ClAddFinalizer
    <3>1. Here
      BY <1>4, <2>1 DEF ClAddFinalizer, ClAt
    <3> QED BY <1>1, <3>1
  <2>2. CASE ClListStates
    <3>1. /\ classWorker'.pc = "update" /\ classWorker'.key = c
          /\ classWorker'.marks = ToAnnotate(c, stateCache)
          /\ UNCHANGED stateCache
      BY <1>4, <2>2 DEF ClListStates
    <3>2. /\ states[n].live
          /\ stateCache[n].live => stateCache[n].obj.class = c
      BY NoClassAssumption DEF StatesSteady, Steady, Given
    <3>3. CASE stateCache[n] # states[n] \/ stateCache[n].obj.classUpdated
      <4>1. stateCache'[n] # states'[n] \/ states'[n].obj.classUpdated
        BY <3>1, <3>3
      <4> QED BY <4>1 DEF StateComing
    <3>4. CASE stateCache[n] = states[n] /\ ~stateCache[n].obj.classUpdated
      <4>1. Here
        BY <3>1, <3>2, <3>4 DEF ToAnnotate
      <4> QED BY <1>1, <4>1
    <3> QED BY <3>3, <3>4
  <2>3. CASE ClAnnotateState(n)
    <3> DEFINE obj == WithClassUpdated(w.seen[n].obj)
    <3>1. n \in w.marks /\ states' = [states EXCEPT ![n] = Updated(states[n], obj)]
      BY <2>3 DEF ClAnnotateState
    <3>2. obj \in NamespaceState /\ obj.classUpdated
      BY <3>1 DEF WithClassUpdated, NamespaceState, RestTypeOK, WorkersOK, ClSeenOK, Slot
    <3> HIDE DEF obj
    <3>3. states'[n] = Updated(states[n], obj) /\ Updated(states[n], obj).obj = obj
      BY <3>1, <3>2, SlotHolds DEF RestTypeOK, StoresOK, StatesTypeOK
    <3> QED BY <3>2, <3>3 DEF StateComing
  <2>4. ASSUME NEW m \in Namespaces, ClAnnotateState(m), m # n
        PROVE  Goal
    <3>1. Here
      BY <1>1, <1>4, <2>4 DEF ClAnnotateState, ClCallWith
    <3> QED BY <1>1, <3>1
  <2>5. CASE ClRejected \/ ClCallFails
    <3>1. c \in classQueue'
      BY <1>4, <2>5 DEF ClRejected, ClCallFails, ClRequeue
    <3> QED BY <1>1, <3>1
  <2> QED
    BY <1>4, <2>1, <2>2, <2>3, <2>4, <2>5
    DEF ClReconcile, ClGetClass, ClGetItem, ClAddRef, ClDropRef, ClWriteRefs, ClRemoveTrigger,
        ClNoTrigger, ClItemsDone, ClRemoveFinalizer
<1> QED BY <1>2, <1>3, <1>4 DEF ClassComing

LEMMA ClassComes ==
    ASSUME "class" \in Controllers, RestTypeOK, SidesTypeOK, StatesSteady, UsedOK, [Next]_vars,
           NEW n \in Namespaces, NEW c \in Classes, Given(n) = c, Given(n)' = c,
           classes[c].live, classes'[c] = classes[c], states'[n] = states[n], ClassComing(n)
    PROVE  ClassComing(n)' \/ StateComing(n)'
<1>2. c \in DOMAIN classes
  BY DEF SidesTypeOK, ClassesTypeOK
<1>3. CASE UNCHANGED <<classCache, clVars>>
  BY <1>3 DEF ClassComing, clVars
<1>4. CASE SyncClasses
  <2>1. \/ c \in classQueue'
        \/ classCache[c] = classes[c] /\ c \in classQueue
        \/ classCache[c] = classes[c] /\ c \notin classQueue /\ UNCHANGED classWorker
    BY <1>2, <1>4 DEF SyncClasses, Watched, Changed
  <2> QED BY <1>4, <2>1 DEF ClassComing, SyncClasses
<1>5. CASE (ClReconcile \/ ClCallFails) /\ UNCHANGED <<classCache, itemCache, itemWorker>>
  <2>1. ASSUME ClListStates PROVE UNCHANGED stateCache
    <3>1. classWorker.pc = "list" /\ classWorker'.pc = "update"
      BY <2>1 DEF ClListStates
    <3> QED
      BY <3>1, NextStates, ClIdleTypes
      DEF StatesNext, SyncStates, Restart, Resync, clVars, stores, stateStore
  <2> QED BY <1>5, <2>1, ClComes
<1>6. CASE Restart
  <2>1. c \in classQueue'
    BY <1>2, <1>6 DEF Restart, Watched, Living
  <2> QED BY <2>1 DEF ClassComing
<1>7. CASE Resync
  <2>1. Quiescent /\ UNCHANGED <<classCache, classWorker>>
    BY <1>7 DEF Resync, stores, classStore
  <2>2. ~ClassComing(n)
    BY <2>1 DEF Quiescent, ClassComing
  <2> QED BY <2>2
<1> QED BY <1>3, <1>4, <1>5, <1>6, <1>7, NextClasses DEF ClassesNext

LEMMA StComes ==
    ASSUME RestTypeOK, StatesSteady, StSteady, StReconcile \/ StCallFails,
           UNCHANGED stateCache,
           NEW n \in Namespaces, Given(n) \in Classes,
           states'[n] = states[n], StateComing(n), ~(StGetClass /\ stateWorker.key = n)
    PROVE  StateComing(n)'
<1> DEFINE w == stateWorker
<1>1. w \in StCall /\ states[n].live
  BY NoClassAssumption DEF RestTypeOK, WorkersOK, StCallOK, Given
<1>2. CASE stateCache[n] # states[n] \/ states[n].obj.classUpdated
  BY <1>2 DEF StateComing
<1>3. CASE stateCache[n] = states[n] /\ n \in stateQueue
  <2>1. CASE StGetState(n)
    BY <1>1, <1>3, <2>1 DEF StGetState, StateComing
  <2>2. CASE ~StGetState(n)
    <3>1. n \in stateQueue'
      BY <1>3, <2>2
      DEF StReconcile, StCallFails, StGetState, StGetClass, StListInstances,
          StAnnotateInstance, StCreateInstance, StDeleteInstance, StCommit,
          StNothingToCommit, StRejected, StReturn, StRequeue
    <3> QED BY <3>1 DEF StateComing
  <2> QED BY <2>1, <2>2
<1>4. CASE /\ w.key = n /\ w.pc # "idle"
           /\ w.pc = "getClass" \/ w.state.obj.classUpdated
  <2>1. CASE StListInstances
    BY <1>4, <2>1 DEF StListInstances, StateComing
  <2>2. ASSUME NEW i \in Items,
               StAnnotateInstance(i) \/ StCreateInstance(i) \/ StDeleteInstance(i)
        PROVE  StateComing(n)'
    BY <1>1, <1>4, <2>2
    DEF StAnnotateInstance, StCreateInstance, StDeleteInstance, StCall, StateComing
  <2>3. ~StCommit
    <3> SUFFICES ASSUME StCommit PROVE FALSE
      OBVIOUS
    <3> DEFINE obj == Committed(w.state)
    <3>1. /\ w.pc = "write" /\ SameVersion(states[n], w.state)
          /\ states' = [states EXCEPT ![n] = Updated(states[n], obj)]
      BY <1>4 DEF StCommit, StInstancesDone
    <3>2. states[n] = w.state /\ w.state.obj.classUpdated
      BY <1>4, <3>1 DEF StSteady, Fresh, SameVersion
    <3>3. ~obj.classUpdated
      BY DEF Committed
    <3>4. states'[n] = Updated(states[n], obj)
      BY <3>1 DEF RestTypeOK, StoresOK, StatesTypeOK
    <3>5. Updated(states[n], obj).obj = obj
      BY DEF Updated
    <3> HIDE DEF obj
    <3> QED BY <3>2, <3>3, <3>4, <3>5
  <2>4. ~StNothingToCommit
    BY <1>4 DEF StNothingToCommit, StInstancesDone, StNeedUpdate
  <2>5. CASE StRejected \/ StCallFails
    BY <1>4, <2>5 DEF StRejected, StCallFails, StRequeue, StateComing
  <2> QED
    BY <1>4, <2>1, <2>2, <2>3, <2>4, <2>5 DEF StReconcile, StGetState
<1> QED BY <1>2, <1>3, <1>4 DEF StateComing

LEMMA StateComes ==
    ASSUME "state" \in Controllers, RestTypeOK, SidesTypeOK, StatesSteady, StSteady,
           [Next]_vars,
           NEW n \in Namespaces, Given(n) \in Classes,
           states'[n] = states[n], StateComing(n), ~(StGetClass /\ stateWorker.key = n)
    PROVE  StateComing(n)'
<1>1. states[n].live /\ n \in DOMAIN states
  BY NoClassAssumption DEF Given, RestTypeOK, StoresOK, StatesTypeOK
<1>2. CASE UNCHANGED <<stateCache, stateVars>>
  BY <1>2 DEF StateComing, stateVars
<1>3. CASE SyncStates
  <2>1. stateCache[n] # states[n] => n \in stateQueue'
    BY <1>1, <1>3 DEF SyncStates, Watched, Changed
  <2> QED BY <1>3, <2>1 DEF SyncStates, StateComing
<1>4. CASE (StReconcile \/ StCallFails) /\ UNCHANGED stateCache
  BY <1>4, StComes
<1>5. CASE Restart
  BY <1>1, <1>5 DEF Restart, Watched, Living, StateComing
<1>6. CASE Resync
  <2>1. Quiescent /\ UNCHANGED <<stateCache, stateWorker>>
    BY <1>6 DEF Resync, stores, stateStore
  <2> QED BY <2>1 DEF Quiescent, StateComing
<1> QED BY <1>2, <1>3, <1>4, <1>5, <1>6, NextStates DEF StatesNext

LEMMA CourseStep ==
    ASSUME {"class", "state"} \subseteq Controllers, IInv, IInv', RestTypeOK,
           StatesSteady, StSteady, CachesOK, GivenOn, UsedOK, OwnersOK, EarlyOK, CourseOK,
           [Next]_vars,
           \A n \in Namespaces : Given(n) \in Classes => AimTurn(n)
    PROVE  CourseOK'
<1>1. SidesTypeOK
  BY DEF IInv
<1>2. ASSUME NEW n \in Namespaces, NEW c \in Classes, Given(n) = c, Given(n)' = c
      PROVE  Aim(n)' = ItemsOf(c)' \/ ClassComing(n)' \/ StateComing(n)'
  <2>1. CASE classes'[c] # classes[c]
    <3>1. classCache'[c] # classes'[c]
      BY <2>1, ChangedClass
    <3> QED BY <1>2, <3>1 DEF ClassComing
  <2>2. CASE states'[n] # states[n]
    <3>1. stateCache'[n] # states'[n]
      BY <1>1, <2>2, ChangedState
    <3> QED BY <3>1 DEF StateComing
  <2>3. CASE n \in stateQueue'
    BY <2>3 DEF StateComing
  <2>4. CASE classes'[c] = classes[c] /\ states'[n] = states[n]
             /\ StGetClass /\ stateWorker.key = n /\ Aim(n)' = DesiredItems(c)
    <3>1. classCache'[c] = classCache[c]
      <4>1. stateWorker.pc = "getClass" /\ stateWorker'.pc = "list"
        BY <2>4 DEF StGetClass
      <4> QED
        BY <4>1, IdleTypes
        DEF Next, vars, stores, classStore, stateVars, Users, Kubernetes, SyncNamespaces,
            SyncStates, SyncClasses, SyncItems, SyncInstances, NsStep, StateStep, ClassStep,
            ItemStep, InstanceStep, Fault, Restart, Resync
    <3>2. classCache[c] = classes[c] => DesiredItems(c) = ItemsOf(c)'
      BY <2>4 DEF DesiredItems, ItemsOf
    <3>3. classCache[c] # classes[c] => ClassComing(n)'
      BY <1>2, <2>4, <3>1 DEF ClassComing
    <3> QED BY <2>4, <3>2, <3>3
  <2>5. CASE classes'[c] = classes[c] /\ states'[n] = states[n]
             /\ Aim(n)' = Aim(n) /\ ~(StGetClass /\ stateWorker.key = n)
    <3>1. ItemsOf(c)' = ItemsOf(c)
      BY <2>5 DEF ItemsOf
    <3>2. CASE Aim(n) = ItemsOf(c)
      BY <2>5, <3>1, <3>2
    <3>3. CASE StateComing(n)
      BY <1>1, <1>2, <2>5, <3>3, StateComes
    <3>4. CASE ClassComing(n) /\ Aim(n) # ItemsOf(c)
      <4>1. classes[c].live
        BY <1>2, <3>4 DEF EarlyOK, ItemsOf
      <4> QED BY <1>1, <1>2, <2>5, <3>4, <4>1, ClassComes
    <3> QED BY <1>2, <3>2, <3>3, <3>4 DEF CourseOK
  <2> QED BY <1>2, <2>1, <2>2, <2>3, <2>4, <2>5 DEF AimTurn
<1>3. ASSUME NEW n \in Namespaces, Given(n)' # Given(n)
      PROVE  StateComing(n)'
  <2>1. stateCache'[n] # states'[n]
    BY <1>1, <1>3, GivenAnew, ChangedState
  <2> QED BY <2>1 DEF StateComing
<1> QED BY <1>2, <1>3 DEF CourseOK

-----------------------------------------------------------------------------
StateMarksOK == \A n \in Namespaces : states[n].obj.classUpdated => AttendedState(n)

SteadyInv ==
    /\ LabelsLeft /\ NamesOK /\ NsSteady /\ StatesSteady /\ StSteady
    /\ CachesOK /\ EmptiesOK /\ StateMarksOK

FollowInv == UsedOK /\ OwnersOK /\ WriteOK /\ GrowOK /\ EarlyOK /\ CourseOK

LEMMA SteadyFirst == ASSUME LabelsStay, Init PROVE SteadyInv
<1>1. PICK start \in Starts :
        /\ left = start
        /\ namespaces = [n \in Namespaces |->
                            First([terminating |-> FALSE, label |-> FirstLabel(n, start)])]
        /\ states = [n \in Namespaces |-> FirstState(n, start)]
  BY DEF Init
<1>2. /\ nsCache = namespaces /\ stateCache = states
      /\ nsWorker = NsIdle /\ stateWorker = StIdle /\ classWorker = ClIdle
  BY DEF Init
<1>3. LabelsLeft
  BY <1>1, StartAssumption DEF LabelsLeft, LabelsStay, May
<1>4. \A n \in Namespaces : Label(n) = FirstLabel(n, start)
  BY <1>1 DEF Label, First
<1>5. ASSUME NEW n \in Namespaces
      PROVE  Steady(n, states[n]) /\ (states[n].live <=> Label(n) # NoClass)
  <2>1. states[n] = FirstState(n, start)
    BY <1>1
  <2>2. CASE FirstLabel(n, start) = NoClass
    BY <1>4, <2>1, <2>2 DEF FirstState, Vacant, Steady
  <2>3. CASE FirstLabel(n, start) # NoClass
    BY <1>4, <2>1, <2>3 DEF FirstState, FirstLabel, First, Steady
  <2> QED BY <2>2, <2>3
<1>6. NamesOK
  BY <1>1, <1>2, <1>5 DEF NamesOK, First, Label
<1>7. NsSteady /\ StatesSteady /\ StSteady
  BY <1>2, <1>5, IdleTypes, ClIdleTypes DEF NsSteady, StatesSteady, StSteady
<1>8. CachesOK /\ EmptiesOK /\ StateMarksOK
  BY UnmarkedFirst DEF MarksOK, StateMarksOK
<1> QED BY <1>3, <1>6, <1>7, <1>8 DEF SteadyInv

LEMMA FollowFirst == ASSUME ListsStay, Init PROVE FollowInv
<1>1. PICK start \in Starts :
        /\ left = start
        /\ namespaces = [n \in Namespaces |->
                            First([terminating |-> FALSE, label |-> FirstLabel(n, start)])]
        /\ classes = [c \in Classes |-> FirstClass(c, start)]
        /\ instances = [n \in Namespaces |-> [i \in Items |-> FirstInstance(n, i, start)]]
        /\ states = [n \in Namespaces |-> FirstState(n, start)]
  BY DEF Init
<1>2. /\ classCache = classes /\ instCache = instances
      /\ stateWorker = StIdle /\ instWorker = InIdle
  BY DEF Init
<1>3. \A n \in Namespaces : Given(n) = FirstLabel(n, start)
  BY <1>1 DEF Given, Label, First, FirstState, Vacant
<1>4. \A c \in Classes : /\ classes[c] = FirstClass(c, start)
                         /\ classes[c].live <=> start.inPlace
                         /\ ~classes[c].obj.deleting
                         /\ start.inPlace => classes[c].obj.items = FirstItems[c]
  BY <1>1, StartAssumption DEF FirstClass, First, Vacant, NoClassObject, StartRecord
<1>5. UsedOK
  BY <1>2, <1>4 DEF UsedOK
<1>6. ASSUME NEW n \in Namespaces
      PROVE  /\ Aim(n) = Installed(n) /\ Installed(n) = FirstInstalled(n, start)
             /\ \A i \in Items : instances[n][i].live =>
                   instances[n][i].obj.owner = 1 /\ Given(n) # NoClass
  <2>1. Aim(n) = Installed(n)
    BY <1>2, IdleTypes, AimOf
  <2>2. ASSUME NEW i \in Items
        PROVE  /\ instances[n][i].live <=> i \in FirstInstalled(n, start)
               /\ instances[n][i].live => instances[n][i].obj.owner = 1
    <3>1. instances[n][i] = FirstInstance(n, i, start)
      BY <1>1
    <3>2. CASE i \in FirstInstalled(n, start)
      BY <3>1, <3>2 DEF FirstInstance, First
    <3>3. CASE i \notin FirstInstalled(n, start)
      BY <3>1, <3>3 DEF FirstInstance, Vacant
    <3> QED BY <3>2, <3>3
  <2>3. FirstInstalled(n, start) \subseteq Items
    <3>1. FirstLabel(n, start) # NoClass => LabelOf[n] \in Classes
      BY StartAssumption DEF FirstLabel, Labels
    <3>2. \A c \in Classes : FirstItems[c] \in SUBSET Items
      BY StartAssumption
    <3> QED BY <3>1, <3>2 DEF FirstInstalled
  <2>4. FirstInstalled(n, start) # {} => Given(n) # NoClass
    BY <1>3 DEF FirstInstalled
  <2> QED BY <2>1, <2>2, <2>3, <2>4 DEF Installed
<1>7. OwnersOK /\ WriteOK
  BY <1>2, <1>6, IdleTypes DEF OwnersOK, WriteOK, StIdle, NothingSeen, Vacant
<1>8. ASSUME NEW n \in Namespaces, Given(n) \in Classes
      PROVE  Installed(n) = ItemsOf(Given(n))
  <2>1. Given(n) = LabelOf[n] /\ FirstLabel(n, start) # NoClass
    BY <1>3, <1>8, NoClassAssumption DEF FirstLabel
  <2> QED BY <1>4, <1>6, <1>8, <2>1 DEF FirstInstalled, ItemsOf
<1>9. EarlyOK /\ CourseOK
  BY <1>6, <1>8 DEF EarlyOK, CourseOK, ItemsOf
<1>10. GrowOK
  <2>1. InstanceLag => ~May("editClass")
    BY <1>1 DEF ListsStay, May
  <2> QED BY <1>2, <1>8, <2>1, IdleTypes DEF GrowOK, ItemsOf, DesiredItems
<1> QED BY <1>5, <1>7, <1>9, <1>10 DEF FollowInv

LEMMA SteadyStep ==
    ASSUME "state" \in Controllers, IInv, IInv', RestTypeOK, SteadyInv, [Next]_vars
    PROVE  SteadyInv'
<1>1. SidesTypeOK
  BY DEF IInv
<1>2. LabelsLeft'
  BY ActsStay DEF SteadyInv, LabelsLeft, May
<1>3. NamesOK' /\ NsSteady' /\ StatesSteady' /\ StSteady'
  BY <1>1, NamesStep, NsSteadyStep, StatesSteadyStep, StSteadyStep DEF SteadyInv, IInv
<1>4. CachesOK' /\ EmptiesOK'
  BY <1>1, CachesStep, EmptiesStep DEF SteadyInv
<1>5. StateMarksOK'
  BY <1>1, StateMarksStep DEF SteadyInv, StateMarksOK
<1> QED BY <1>2, <1>3, <1>4, <1>5 DEF SteadyInv

LEMMA FollowStep ==
    ASSUME WebhooksEnabled, {"class", "state"} \subseteq Controllers,
           IInv, IInv', RestTypeOK, SteadyInv, FollowInv, [Next]_vars
    PROVE  FollowInv'
<1>1. SidesTypeOK /\ GivenOn
  BY GivenStep DEF IInv, SteadyInv
<1>2. /\ UsedOK'
      /\ \A c \in Classes : Taken(c) => (classes[c].live => classes'[c].live)
  BY <1>1, UsedStays DEF SteadyInv, FollowInv
<1>3. OwnersOK'
  BY <1>1, OwnersStep DEF SteadyInv, FollowInv
<1>4. /\ WriteOK'
      /\ \A n \in Namespaces : Given(n) \in Classes =>
            AimTurn(n) /\ Installed(n)' \subseteq Installed(n) \cup Aim(n)
  BY <1>1, AimStep DEF SteadyInv, FollowInv
<1>5. GrowOK'
  BY <1>1, <1>2, <1>4, GrowStep DEF SteadyInv, FollowInv
<1>6. EarlyOK'
  BY <1>1, <1>2, <1>4, EarlyStep DEF SteadyInv, FollowInv
<1>7. CourseOK'
  BY <1>1, <1>4, CourseStep DEF SteadyInv, FollowInv
<1> QED BY <1>2, <1>3, <1>4, <1>5, <1>6, <1>7 DEF FollowInv

LEMMA FollowedWhenSettled ==
    ASSUME RestTypeOK, SteadyInv, FollowInv
    PROVE  SettledFollowsClass
<1> SUFFICES ASSUME Quiescent, NEW n \in Namespaces PROVE Follows(n)
  BY DEF SettledFollowsClass
<1>1. ~states[n].obj.classUpdated
  BY DEF SteadyInv, StateMarksOK, Quiescent, AttendedState
<1>2. Aim(n) = Installed(n)
  BY AimOf DEF Quiescent
<1>3. CASE Given(n) \in Classes
  <2>1. states[n].obj.class = Given(n)
    BY <1>3, NoClassAssumption DEF SteadyInv, StatesSteady, Steady, Given
  <2>2. ~ClassComing(n) /\ ~StateComing(n)
    BY <1>1 DEF Quiescent, ClassComing, StateComing
  <2> QED BY <1>1, <1>2, <1>3, <2>1, <2>2 DEF FollowInv, CourseOK, Follows
<1>4. CASE Given(n) = NoClass
  <2>1. states[n].obj = NoState
    BY <1>4 DEF SteadyInv, StatesSteady, Steady, EmptiesOK, Empty, Given
  <2>2. ItemsOf(states[n].obj.class) = {}
    BY <2>1, NoClassAssumption DEF NoState, ItemsOf
  <2>3. Installed(n) = {}
    BY <1>4 DEF FollowInv, OwnersOK, Installed
  <2> QED BY <1>1, <2>2, <2>3 DEF Follows
<1>5. Given(n) \in Labels
  BY DEF RestTypeOK, StoresOK, NamespacesTypeOK, Slot, Namespace, Label, Given, Labels
<1> QED BY <1>3, <1>4, <1>5 DEF Labels

\* While a label that is given stays, no class is deleted where labels are given, no class
\* is edited where the list of instances may be out of date, and the webhooks run: when
\* nothing is left to do, every namespace has exactly the items its class has now.  For a
\* namespace with something else coming has either a class that the reconciler has yet to
\* see or to announce there, or a NamespaceState that is new or annotated, and it came to be
\* so before the class could be read again (namespaceclass_controller.go:96-109,
\* namespacestate_controller.go:78-153).
THEOREM OperatorFollowsClass ==
    ASSUME LabelsStay, WebhooksEnabled, ListsStay, {"class", "state"} \subseteq Controllers
    PROVE  Spec => []SettledFollowsClass
<1> DEFINE Inv == SteadyInv /\ FollowInv
<1>1. Init => Inv
  BY SteadyFirst, FollowFirst
<1>2. IInv /\ RestTypeOK /\ Inv /\ [Next]_vars => Inv'
  <2>1. IInv /\ [Next]_vars => IInv'
    BY IInvStep
  <2> QED BY <2>1, SteadyStep, FollowStep
<1>3. RestTypeOK /\ Inv => SettledFollowsClass
  BY FollowedWhenSettled
<1>4. Spec => [](IInv /\ RestTypeOK)
  BY TypedHolds
<1> HIDE DEF Inv
<1> QED BY <1>1, <1>2, <1>3, <1>4, PTL DEF Spec
=============================================================================
