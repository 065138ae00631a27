----------------------- MODULE ClassAssignmentProofs -----------------------
(***************************************************************************)
(* Proofs about ClassAssignment, for any set of namespaces, classes and    *)
(* items, any changes of label, any lag of the caches, any failures.       *)
(***************************************************************************)
EXTENDS ClassAssignment, ApiObjectsProofs

(***************************************************************************)
(* Values                                                                  *)
(***************************************************************************)
LEMMA VacantTypes ==
    /\ NoNamespace \in Namespace /\ Vacant(NoNamespace) \in Slot(Namespace)
    /\ NoState \in NamespaceState /\ Vacant(NoState) \in Slot(NamespaceState)
    /\ NoInstance \in NamespaceItemInstance
    /\ Vacant(NoInstance) \in Slot(NamespaceItemInstance)
BY DEF NoNamespace, Namespace, NoState, NamespaceState, NoInstance,
       NamespaceItemInstance, Labels, Slot, Vacant

LEMMA ItemsType == \A c \in Classes : ItemsOf(c) \subseteq Items
BY ClassAssumption DEF ItemsOf

LEMMA KnownItems ==
    ASSUME classCache = KnownClasses, NEW c \in Classes
    PROVE  DesiredItems(c) = ItemsOf(c)
BY DEF DesiredItems, KnownClasses, ItemsOf

LEMMA IdleTypes ==
    /\ NsIdle \in NsCall /\ NsIdle.pc = "idle"
    /\ StIdle \in StCall /\ StIdle.pc = "idle"
<1>1. (CHOOSE n \in Namespaces : TRUE) \in Namespaces
  BY ClassAssumption
<1>2. NothingSeen \in [Items -> Slot(NamespaceItemInstance)]
  BY VacantTypes DEF NothingSeen
<1> QED
  BY <1>1, <1>2, VacantTypes DEF NsIdle, NsCall, StIdle, StCall

(***************************************************************************)
(* Type correctness                                                        *)
(***************************************************************************)
LEMMA TypeInit == Init => TypeOK
<1> SUFFICES ASSUME Init PROVE TypeOK
  OBVIOUS
<1>1. NamespacesTypeOK
  BY VacantTypes DEF Init, NamespacesInit, NamespacesTypeOK
<1>2. StatesTypeOK
  <2>1. NamesClass(Vacant(NoState))
    BY DEF NamesClass, Vacant
  <2> QED BY <2>1, VacantTypes DEF Init, StatesInit, StatesTypeOK
<1>3. InstancesTypeOK
  BY VacantTypes DEF Init, InstancesInit, InstancesTypeOK
<1> QED
  BY <1>1, <1>2, <1>3, IdleTypes DEF Init, TypeOK

\* A stored NamespaceState is replaced by a well-formed one.
LEMMA StatesReplaced ==
    ASSUME StatesTypeOK, UNCHANGED stateCache,
           NEW n \in Namespaces, NEW new \in Slot(NamespaceState), NamesClass(new),
           states' = [states EXCEPT ![n] = new]
    PROVE  StatesTypeOK'
BY DEF StatesTypeOK, NamesClass

LEMMA InstancesReplaced ==
    ASSUME InstancesTypeOK, UNCHANGED instCache,
           NEW n \in Namespaces, NEW i \in Items,
           NEW new \in Slot(NamespaceItemInstance),
           instances' = [instances EXCEPT ![n][i] = new]
    PROVE  InstancesTypeOK'
BY DEF InstancesTypeOK

LEMMA UsersType == TypeOK /\ Users => TypeOK'
<1> SUFFICES ASSUME TypeOK, Users PROVE TypeOK'
  OBVIOUS
<1> USE DEF NamespacesTypeOK
<1>1. ASSUME NEW n \in Namespaces, NEW label \in Labels, CreateNamespace(n, label)
      PROVE  namespaces' \in [Namespaces -> Slot(Namespace)]
  <2>1. [terminating |-> FALSE, label |-> label] \in Namespace
    BY DEF Namespace
  <2> QED BY <1>1, <2>1, SlotTypes DEF CreateNamespace, TypeOK
<1>2. ASSUME NEW n \in Namespaces, NEW label \in Labels, Relabel(n, label)
      PROVE  namespaces' \in [Namespaces -> Slot(Namespace)]
  <2>1. [namespaces[n].obj EXCEPT !.label = label] \in Namespace
    BY DEF TypeOK, Namespace, Slot
  <2> QED BY <1>2, <2>1, SlotTypes DEF Relabel, TypeOK
<1>3. ASSUME NEW n \in Namespaces, DeleteNamespace(n)
      PROVE  namespaces' \in [Namespaces -> Slot(Namespace)]
  <2>1. [namespaces[n].obj EXCEPT !.terminating = TRUE] \in Namespace
    BY DEF TypeOK, Namespace, Slot
  <2> QED BY <1>3, <2>1, SlotTypes DEF DeleteNamespace, TypeOK
<1>4. NamespacesTypeOK'
  BY <1>1, <1>2, <1>3 DEF Users, TypeOK
<1> QED
  BY <1>4 DEF Users, TypeOK, stateStore, instStore, classStore, nsVars, stateVars,
              StatesTypeOK, InstancesTypeOK

LEMMA KubernetesType == TypeOK /\ Kubernetes => TypeOK'
<1> SUFFICES ASSUME TypeOK, Kubernetes PROVE TypeOK'
  OBVIOUS
<1> USE DEF TypeOK
<1>1. ASSUME NEW n \in Namespaces, RemoveNamespace(n)
      PROVE  NamespacesTypeOK' /\ StatesTypeOK' /\ InstancesTypeOK'
  <2>1. Deleted(namespaces[n], NoNamespace) \in Slot(Namespace)
    BY SlotTypes, VacantTypes DEF NamespacesTypeOK
  <2> QED
    BY <1>1, <2>1 DEF RemoveNamespace, Kubernetes, NamespacesTypeOK, StatesTypeOK,
                      InstancesTypeOK
<1>2. ASSUME NEW n \in Namespaces, CollectState(n)
      PROVE  NamespacesTypeOK' /\ StatesTypeOK' /\ InstancesTypeOK'
  <2>1. Deleted(states[n], NoState) \in Slot(NamespaceState)
    BY SlotTypes, VacantTypes DEF StatesTypeOK
  <2>2. NamesClass(Deleted(states[n], NoState))
    BY DEF NamesClass, Deleted
  <2>3. StatesTypeOK'
    BY <1>2, <2>1, <2>2, StatesReplaced DEF CollectState, Kubernetes
  <2> QED
    BY <1>2, <2>3 DEF CollectState, Kubernetes, NamespacesTypeOK, InstancesTypeOK
<1>3. ASSUME NEW n \in Namespaces, NEW i \in Items,
             PurgeInstance(n, i) \/ CollectInstance(n, i)
      PROVE  NamespacesTypeOK' /\ StatesTypeOK' /\ InstancesTypeOK'
  <2>1. Deleted(instances[n][i], NoInstance) \in Slot(NamespaceItemInstance)
    BY SlotTypes, VacantTypes DEF InstancesTypeOK
  <2>2. instances' = [instances EXCEPT ![n][i] = Deleted(instances[n][i], NoInstance)]
    BY <1>3 DEF PurgeInstance, CollectInstance
  <2>3. InstancesTypeOK'
    BY <2>1, <2>2, InstancesReplaced DEF Kubernetes
  <2> QED
    BY <1>3, <2>3 DEF PurgeInstance, CollectInstance, Kubernetes, NamespacesTypeOK,
                      StatesTypeOK
<1>4. NamespacesTypeOK' /\ StatesTypeOK' /\ InstancesTypeOK'
  BY <1>1, <1>2, <1>3 DEF Kubernetes
<1> QED
  BY <1>4 DEF Kubernetes, classStore, nsVars, stateVars

LEMMA SyncType ==
    TypeOK /\ (SyncNamespaces \/ SyncStates \/ SyncInstances \/ Resync \/ Restart) => TypeOK'
<1> SUFFICES ASSUME TypeOK,
                    SyncNamespaces \/ SyncStates \/ SyncInstances \/ Resync \/ Restart
             PROVE  TypeOK'
  OBVIOUS
<1> USE DEF TypeOK, NamespacesTypeOK, StatesTypeOK, InstancesTypeOK, NamesClass,
            nsStore, stateStore, instStore, classStore, nsVars, stateVars, Changed, Living
<1>1. CASE SyncNamespaces
  BY <1>1 DEF SyncNamespaces
<1>2. CASE SyncStates
  BY <1>2 DEF SyncStates
<1>3. CASE SyncInstances
  BY <1>3 DEF SyncInstances
<1>4. CASE Resync
  BY <1>4 DEF Resync
<1>5. CASE Restart
  BY <1>5, IdleTypes DEF Restart
<1> QED
  BY <1>1, <1>2, <1>3, <1>4, <1>5

\* A reconcile of a namespace leaves the worker and the NamespaceStates well formed.
LEMMA NsReconcileType ==
    ASSUME TypeOK, NsReconcile \/ NsCallFails, UNCHANGED stateCache
    PROVE  /\ StatesTypeOK'
           /\ nsQueue' \subseteq Namespaces
           /\ nsWorker' \in NsCall
           /\ (nsWorker.pc = "markPending" =>
                  nsWorker.state.live /\ NamesClass(nsWorker.state))'
           /\ (nsWorker.pc \in {"markPending", "createState"} =>
                  nsWorker.ns.obj.label \in Classes)'
<1> DEFINE Goal ==
        /\ StatesTypeOK'
        /\ nsQueue' \subseteq Namespaces
        /\ nsWorker' \in NsCall
        /\ (nsWorker.pc = "markPending" =>
               nsWorker.state.live /\ NamesClass(nsWorker.state))'
        /\ (nsWorker.pc \in {"markPending", "createState"} =>
               nsWorker.ns.obj.label \in Classes)'
<1>a. nsWorker.key \in Namespaces
  BY DEF TypeOK, NsCall
<1>b. ASSUME nsWorker' = NsIdle, StatesTypeOK', nsQueue' \subseteq Namespaces
      PROVE  Goal
  BY <1>b, IdleTypes
<1>c. ASSUME NEW new \in Slot(NamespaceState), NamesClass(new),
             states' = [states EXCEPT ![nsWorker.key] = new], NsReturn
      PROVE  Goal
  <2>1. StatesTypeOK'
    BY <1>a, <1>c, StatesReplaced DEF TypeOK
  <2> QED
    BY <1>b, <1>c, <2>1 DEF NsReturn, TypeOK
<1>d. ASSUME UNCHANGED states
      PROVE  StatesTypeOK'
  BY <1>d DEF TypeOK, StatesTypeOK, NamesClass
<1>1. ASSUME NEW n \in Namespaces, NsGetNamespace(n)
      PROVE  Goal
  <2>1. CASE nsCache[n].live
    <3>1. nsWorker' = [pc |-> "getState", key |-> n, ns |-> nsCache[n],
                       state |-> Vacant(NoState)]
      BY <1>1, <2>1 DEF NsGetNamespace
    <3>2. nsWorker' \in NsCall
      BY <3>1, VacantTypes DEF NsCall, TypeOK, NamespacesTypeOK
    <3> QED
      BY <1>1, <1>d, <3>1, <3>2 DEF NsGetNamespace, TypeOK
  <2>2. CASE ~nsCache[n].live
    BY <1>1, <1>b, <1>d, <2>2 DEF NsGetNamespace, TypeOK
  <2> QED
    BY <2>1, <2>2
<1>2. CASE NsGetState
  <2> DEFINE state == stateCache[nsWorker.key]
             call  == NsNextCall(nsWorker.ns, state)
  <2>1. CASE call = "idle"
    BY <1>2, <1>b, <1>d, <2>1 DEF NsGetState, TypeOK
  <2>2. CASE call # "idle"
    <3>1. nsWorker' = [pc |-> call, key |-> nsWorker.key, ns |-> nsWorker.ns,
                       state |-> state]
      BY <1>2, <2>2 DEF NsGetState
    <3>2. state \in Slot(NamespaceState) /\ NamesClass(state)
      BY <1>a DEF TypeOK, StatesTypeOK
    <3>3. nsWorker.ns.obj.label \in Labels
      BY DEF TypeOK, NsCall, Slot, Namespace
    <3>4. /\ call \in NsWrites
          /\ call = "markPending" => state.live
          /\ call \in {"markPending", "createState"} => nsWorker.ns.obj.label \in Classes
      BY <2>2, <3>3 DEF NsNextCall, NsWrites, Labels
    <3>5. nsWorker' \in NsCall
      BY <1>a, <3>1, <3>2, <3>4 DEF NsCall, TypeOK
    <3> QED
      BY <1>2, <1>d, <3>1, <3>2, <3>4, <3>5 DEF NsGetState, TypeOK, NamesClass
  <2> QED
    BY <2>1, <2>2
<1>3. CASE NsDeleteState
  <2>1. Deleted(states[nsWorker.key], NoState) \in Slot(NamespaceState)
    BY <1>a, SlotTypes, VacantTypes DEF TypeOK, StatesTypeOK
  <2>2. NamesClass(Deleted(states[nsWorker.key], NoState))
    BY DEF NamesClass, Deleted
  <2> QED
    BY <1>3, <1>c, <2>1, <2>2 DEF NsDeleteState
<1>4. CASE NsMarkPending
  <2> DEFINE new == WithPending(nsWorker.state.obj, nsWorker.ns.obj.label)
  <2>1. nsWorker.state.obj \in NamespaceState
    BY DEF TypeOK, NsCall, Slot
  <2>2. new \in NamespaceState /\ new.class = nsWorker.state.obj.class
    BY <1>4, <2>1 DEF WithPending, NamespaceState, NsMarkPending, TypeOK, Labels
  <2>3. new.class \in Classes
    BY <1>4, <2>2 DEF NsMarkPending, TypeOK, NamesClass
  <2>4. Updated(states[nsWorker.key], new) \in Slot(NamespaceState)
    BY <1>a, <2>2, SlotTypes DEF TypeOK, StatesTypeOK
  <2>5. NamesClass(Updated(states[nsWorker.key], new))
    BY <1>a, <2>3 DEF NamesClass, Updated, TypeOK, StatesTypeOK
  <2> QED
    BY <1>4, <1>c, <2>4, <2>5 DEF NsMarkPending
<1>5. CASE NsCreateState
  <2> DEFINE new == NewState(nsWorker.ns)
  <2>1. new \in NamespaceState /\ new.class \in Classes
    BY <1>5 DEF NewState, NamespaceState, NsCreateState, TypeOK, NsCall, Slot, Labels
  <2>2. Created(states[nsWorker.key], new) \in Slot(NamespaceState)
    BY <1>a, <2>1, SlotTypes DEF TypeOK, StatesTypeOK
  <2>3. NamesClass(Created(states[nsWorker.key], new))
    BY <2>1 DEF NamesClass, Created
  <2> QED
    BY <1>5, <1>c, <2>2, <2>3 DEF NsCreateState
<1>6. CASE NsRejected \/ NsCallFails
  BY <1>6, <1>a, <1>b, <1>d DEF NsRejected, NsCallFails, NsRequeue, TypeOK
<1> QED
  BY <1>1, <1>2, <1>3, <1>4, <1>5, <1>6 DEF NsReconcile

\* The class a reconciled NamespaceState is to follow is a class.
LEMMA TargetType ==
    ASSUME NEW state \in Slot(NamespaceState), state.live, NamesClass(state)
    PROVE  TargetClass(state) \in Classes
BY DEF TargetClass, NamesClass, Slot, NamespaceState, Labels

LEMMA StReconcileType ==
    ASSUME TypeOK, StReconcile \/ StCallFails, UNCHANGED <<stateCache, instCache>>
    PROVE  /\ StatesTypeOK'
           /\ InstancesTypeOK'
           /\ stateQueue' \subseteq Namespaces
           /\ stateWorker' \in StCall
           /\ (stateWorker.pc # "idle" =>
                  stateWorker.state.live /\ NamesClass(stateWorker.state))'
<1> DEFINE WorkerOK ==
        /\ stateQueue' \subseteq Namespaces
        /\ stateWorker' \in StCall
        /\ (stateWorker.pc # "idle" =>
               stateWorker.state.live /\ NamesClass(stateWorker.state))'
    Goal == StatesTypeOK' /\ InstancesTypeOK' /\ WorkerOK
<1>a. /\ stateWorker.key \in Namespaces
      /\ stateWorker.state \in Slot(NamespaceState)
      /\ stateWorker.todo \subseteq Items /\ stateWorker.extra \subseteq Items
      /\ stateWorker.seen \in [Items -> Slot(NamespaceItemInstance)]
  BY DEF TypeOK, StCall
<1>b. ASSUME UNCHANGED states PROVE StatesTypeOK'
  BY <1>b DEF TypeOK, StatesTypeOK, NamesClass
<1>c. ASSUME UNCHANGED instances PROVE InstancesTypeOK'
  BY <1>c DEF TypeOK, InstancesTypeOK
<1>d. ASSUME stateWorker' = StIdle, stateQueue' \subseteq Namespaces PROVE WorkerOK
  BY <1>d, IdleTypes
<1>e. ASSUME stateWorker.pc # "idle", UNCHANGED stateQueue,
             NEW pc \in {"getClass", "list", "write"}, NEW todo \in SUBSET Items,
             NEW extra \in SUBSET Items, NEW seen \in [Items -> Slot(NamespaceItemInstance)],
             stateWorker' = [pc |-> pc, key |-> stateWorker.key,
                             state |-> stateWorker.state, todo |-> todo,
                             extra |-> extra, seen |-> seen]
      PROVE  WorkerOK
  BY <1>a, <1>e DEF TypeOK, StCall, NamesClass
<1>f. NothingSeen \in [Items -> Slot(NamespaceItemInstance)]
  BY VacantTypes DEF NothingSeen
<1>1. ASSUME NEW n \in Namespaces, StGetState(n)
      PROVE  Goal
  <2>1. CASE stateCache[n].live
    <3>1. stateWorker' = [pc |-> "getClass", key |-> n, state |-> stateCache[n],
                          todo |-> {}, extra |-> {}, seen |-> NothingSeen]
      BY <1>1, <2>1 DEF StGetState
    <3>2. stateWorker' \in StCall
      BY <1>f, <3>1 DEF StCall, TypeOK, StatesTypeOK
    <3> QED
      BY <1>1, <1>b, <1>c, <2>1, <3>1, <3>2
      DEF StGetState, TypeOK, StatesTypeOK, NamesClass
  <2>2. CASE ~stateCache[n].live
    BY <1>1, <1>b, <1>c, <1>d, <2>2 DEF StGetState, TypeOK
  <2> QED
    BY <2>1, <2>2
<1>2. CASE StGetClass
  <2>1. TargetClass(stateWorker.state) \in Classes
    BY <1>2, <1>a, TargetType DEF StGetClass, TypeOK
  <2>2. DesiredItems(TargetClass(stateWorker.state)) \in SUBSET Items
    BY <2>1, KnownItems, ItemsType DEF TypeOK
  <2>3. WorkerOK
    BY <1>2, <1>e, <1>f, <2>2 DEF StGetClass
  <2> QED
    BY <1>2, <1>b, <1>c, <2>3 DEF StGetClass
<1>3. CASE StListInstances
  <2> DEFINE seen == instCache[stateWorker.key]
             extra == LeftOver(seen, stateWorker.todo)
  <2>1. seen \in [Items -> Slot(NamespaceItemInstance)]
    BY <1>a DEF TypeOK, InstancesTypeOK
  <2>2. WorkerOK
    BY <1>3, <1>a, <1>e, <2>1 DEF StListInstances, LeftOver
  <2> QED
    BY <1>3, <1>b, <1>c, <2>2 DEF StListInstances
<1>4. ASSUME NEW i \in Items,
             StAnnotateInstance(i) \/ StCreateInstance(i) \/ StDeleteInstance(i)
      PROVE  Goal
  <2> DEFINE n == stateWorker.key
  <2>1. PICK new \in Slot(NamespaceItemInstance) :
            instances' = [instances EXCEPT ![n][i] = new]
    <3>1. instances[n][i] \in Slot(NamespaceItemInstance)
      BY <1>a DEF TypeOK, InstancesTypeOK
    <3>2. CASE StAnnotateInstance(i)
      <4>1. Touched(stateWorker.seen[i].obj) \in NamespaceItemInstance
        BY <1>a DEF Touched, Slot, NamespaceItemInstance
      <4> QED
        BY <3>1, <3>2, <4>1, SlotTypes DEF StAnnotateInstance
    <3>3. CASE StCreateInstance(i)
      <4>1. NewInstance(stateWorker.state) \in NamespaceItemInstance
        BY <1>a DEF NewInstance, Slot, NamespaceItemInstance
      <4> QED
        BY <3>1, <3>3, <4>1, SlotTypes DEF StCreateInstance
    <3>4. CASE StDeleteInstance(i)
      BY <3>1, <3>4, SlotTypes, VacantTypes DEF StDeleteInstance
    <3> QED
      BY <1>4, <3>2, <3>3, <3>4
  <2>2. InstancesTypeOK'
    BY <1>a, <2>1, InstancesReplaced DEF TypeOK
  <2>3. WorkerOK
    BY <1>4, <1>a
    DEF StAnnotateInstance, StCreateInstance, StDeleteInstance, TypeOK, StCall, NamesClass
  <2> QED
    BY <1>4, <1>b, <2>2, <2>3 DEF StAnnotateInstance, StCreateInstance, StDeleteInstance
<1>5. CASE StCommit
  <2> DEFINE new == Committed(stateWorker.state)
             n   == stateWorker.key
  <2>1. new \in NamespaceState /\ new.class \in Classes
    <3>1. TargetClass(stateWorker.state) \in Classes
      BY <1>5, <1>a, TargetType DEF StCommit, StInstancesDone, TypeOK
    <3> QED
      BY <1>a, <3>1 DEF Committed, NamespaceState, Slot, Labels
  <2>2. Updated(states[n], new) \in Slot(NamespaceState)
    BY <1>a, <2>1, SlotTypes DEF TypeOK, StatesTypeOK
  <2>3. NamesClass(Updated(states[n], new))
    BY <1>a, <2>1 DEF NamesClass, Updated, TypeOK, StatesTypeOK
  <2>4. StatesTypeOK'
    BY <1>5, <1>a, <2>2, <2>3, StatesReplaced DEF StCommit, TypeOK
  <2> QED
    BY <1>5, <1>c, <1>d, <2>4 DEF StCommit, StReturn, TypeOK
<1>6. CASE StNothingToCommit
  BY <1>6, <1>b, <1>c, <1>d DEF StNothingToCommit, StReturn, TypeOK
<1>7. CASE StRejected \/ StCallFails
  BY <1>7, <1>a, <1>b, <1>c, <1>d DEF StRejected, StCallFails, StRequeue, TypeOK
<1> QED
  BY <1>1, <1>2, <1>3, <1>4, <1>5, <1>6, <1>7 DEF StReconcile

LEMMA TypeNext == TypeOK /\ [Next]_vars => TypeOK'
<1> SUFFICES ASSUME TypeOK, [Next]_vars PROVE TypeOK'
  OBVIOUS
<1>1. CASE Users
  BY <1>1, UsersType
<1>2. CASE Kubernetes
  BY <1>2, KubernetesType
<1>3. CASE SyncNamespaces \/ SyncStates \/ SyncInstances \/ Resync \/ Restart
  BY <1>3, SyncType
<1>4. CASE NsStep \/ (Fault /\ NsCallFails /\ UNCHANGED <<instances, stateVars>>)
  <2>1. /\ NsReconcile \/ NsCallFails
        /\ UNCHANGED <<nsStore, stateCache, instStore, classStore, stateVars>>
    BY <1>4 DEF NsStep, Fault, instStore
  <2> QED
    BY <2>1, NsReconcileType
    DEF TypeOK, nsStore, instStore, classStore, stateVars, NamespacesTypeOK,
        InstancesTypeOK, NamesClass
<1>5. CASE StateStep \/ (Fault /\ StCallFails /\ UNCHANGED nsVars)
  <2>1. /\ StReconcile \/ StCallFails
        /\ UNCHANGED <<nsStore, stateCache, instCache, classStore, nsVars>>
    BY <1>5 DEF StateStep, Fault
  <2> QED
    BY <2>1, StReconcileType
    DEF TypeOK, nsStore, classStore, nsVars, NamespacesTypeOK, NamesClass
<1>6. CASE UNCHANGED vars
  BY <1>6
  DEF vars, TypeOK, nsStore, stateStore, instStore, classStore, nsVars, stateVars,
      NamespacesTypeOK, StatesTypeOK, InstancesTypeOK, NamesClass
<1> QED
  BY <1>1, <1>2, <1>3, <1>4, <1>5, <1>6 DEF Next, Fault

\* Every variable always holds a value of its kind, and no NamespaceState, nor any
\* copy of one, is ever without a class.
THEOREM TypeCorrect == Spec => []TypeOK
BY TypeInit, TypeNext, PTL DEF Spec

(***************************************************************************)
(* Copies are sound                                                        *)
(***************************************************************************)
\* What anybody but the NamespaceState reconciler may do to a NamespaceState:
\* nothing, delete it, mark it pending, or create another one.
Moves(old, new) ==
    \/ new = old
    \/ /\ new.rv > old.rv
       /\ new.uid >= old.uid
       /\ ~new.live \/ new.obj.pending # NoClass \/ new.uid > old.uid

\* No instance gets a new owner.
OwnersStay ==
    \A n \in Namespaces, i \in Items :
        instances'[n][i].obj.owner <= instances[n][i].obj.owner

LEMMA CopyKept ==
    ASSUME NEW copy \in Slot(NamespaceState), NEW old \in Slot(NamespaceState),
           NEW new \in Slot(NamespaceState),
           Fresh(copy, old), AimsRight(copy, old), Moves(old, new)
    PROVE  Fresh(copy, new) /\ AimsRight(copy, new)
BY DEF Fresh, AimsRight, Moves, Slot

\* A slot of the right kind, by name, for the provers.
LEMMA TypedStates ==
    ASSUME TypeOK, NEW n \in Namespaces
    PROVE  /\ states[n] \in Slot(NamespaceState)
           /\ stateCache[n] \in Slot(NamespaceState)
           /\ \A i \in Items : /\ instances[n][i] \in Slot(NamespaceItemInstance)
                               /\ instCache[n][i] \in Slot(NamespaceItemInstance)
BY DEF TypeOK, StatesTypeOK, InstancesTypeOK

LEMMA TypedWorkers ==
    ASSUME TypeOK
    PROVE  /\ nsWorker.key \in Namespaces /\ nsWorker.state \in Slot(NamespaceState)
           /\ stateWorker.key \in Namespaces /\ stateWorker.state \in Slot(NamespaceState)
           /\ \A i \in Items : stateWorker.seen[i] \in Slot(NamespaceItemInstance)
BY DEF TypeOK, NsCall, StCall

LEMMA Numbers ==
    /\ \A s \in Slot(NamespaceState) : s.uid \in Nat /\ s.rv \in Nat
    /\ \A s \in Slot(NamespaceItemInstance) : s.obj.owner \in Nat
BY DEF Slot, NamespaceItemInstance

\* Nobody else can make a copy unsound.
LEMMA SoundKept ==
    ASSUME CopiesSound, TypeOK', UNCHANGED <<stateCache, instCache, stateWorker>>,
           \A n \in Namespaces : Moves(states[n], states'[n]), OwnersStay
    PROVE  CacheOK' /\ StateWorkerOK'
<1> USE DEF CopiesSound
<1>1. ASSUME NEW n \in Namespaces, NEW copy \in Slot(NamespaceState),
             OwnersSeen(copy, instances[n])
      PROVE  OwnersSeen(copy, instances'[n])
  <2> SUFFICES ASSUME NEW i \in Items
               PROVE  instances'[n][i].obj.owner <= copy.uid
    BY DEF OwnersSeen
  <2>1. instances[n][i] \in Slot(NamespaceItemInstance)
    BY TypedStates
  <2>2. instances'[n][i] \in Slot(NamespaceItemInstance)
    BY DEF TypeOK, InstancesTypeOK
  <2> QED
    BY <1>1, <2>1, <2>2, Numbers DEF OwnersSeen, OwnersStay
<1>2. \A n \in Namespaces : states'[n] \in Slot(NamespaceState)
  BY DEF TypeOK, StatesTypeOK
<1>3. CacheOK'
  BY <1>1, <1>2, TypedStates, CopyKept DEF CacheOK
<1>4. StateWorkerOK'
  BY <1>1, <1>2, TypedStates, TypedWorkers, CopyKept DEF StateWorkerOK
<1> QED
  BY <1>3, <1>4

LEMMA NsStepMoves ==
    ASSUME TypeOK, NsReconcile \/ NsCallFails
    PROVE  \A n \in Namespaces : Moves(states[n], states'[n])
<1> SUFFICES ASSUME NEW n \in Namespaces PROVE Moves(states[n], states'[n])
  OBVIOUS
<1>a. states[n] \in Slot(NamespaceState) /\ states[n].uid \in Nat /\ states[n].rv \in Nat
  BY TypedStates, Numbers
<1>1. CASE UNCHANGED states
  BY <1>1 DEF Moves
<1>2. CASE NsDeleteState
  BY <1>2, <1>a DEF NsDeleteState, Deleted, Moves, TypeOK, StatesTypeOK
<1>3. CASE NsMarkPending
  <2>1. WithPending(nsWorker.state.obj, nsWorker.ns.obj.label).pending # NoClass
    <3>1. nsWorker.state.obj \in NamespaceState
      BY DEF TypeOK, NsCall, Slot
    <3> QED
      BY <1>3, <3>1, NoClassAssumption
      DEF WithPending, NsMarkPending, TypeOK, NamespaceState
  <2> QED
    BY <1>3, <1>a, <2>1 DEF NsMarkPending, Updated, Moves, TypeOK, StatesTypeOK
<1>4. CASE NsCreateState
  BY <1>4, <1>a DEF NsCreateState, Created, Moves, TypeOK, StatesTypeOK
<1> QED
  BY <1>1, <1>2, <1>3, <1>4
  DEF NsReconcile, NsGetNamespace, NsGetState, NsRejected, NsCallFails

LEMMA KubernetesMoves ==
    ASSUME TypeOK, Kubernetes
    PROVE  OwnersStay /\ \A n \in Namespaces : Moves(states[n], states'[n])
<1>a. \A n \in Namespaces : /\ states[n].uid \in Nat /\ states[n].rv \in Nat
                           /\ \A i \in Items : instances[n][i].obj.owner \in Nat
  BY TypedStates, Numbers
<1>1. CASE UNCHANGED <<states, instances>>
  BY <1>1, <1>a DEF Moves, OwnersStay
<1>2. ASSUME NEW m \in Namespaces, CollectState(m)
      PROVE  OwnersStay /\ \A n \in Namespaces : Moves(states[n], states'[n])
  BY <1>2, <1>a DEF CollectState, Deleted, Moves, OwnersStay, TypeOK, StatesTypeOK
<1>3. ASSUME NEW m \in Namespaces, NEW j \in Items,
             PurgeInstance(m, j) \/ CollectInstance(m, j)
      PROVE  OwnersStay /\ \A n \in Namespaces : Moves(states[n], states'[n])
  <2>1. /\ instances' = [instances EXCEPT ![m][j] = Deleted(instances[m][j], NoInstance)]
        /\ UNCHANGED states
    BY <1>3 DEF PurgeInstance, CollectInstance
  <2>2. Deleted(instances[m][j], NoInstance).obj.owner = 0
    BY DEF Deleted, NoInstance
  <2>3. ASSUME NEW n \in Namespaces, NEW i \in Items
        PROVE  instances'[n][i].obj.owner <= instances[n][i].obj.owner
    BY <1>a, <2>1, <2>2 DEF TypeOK, InstancesTypeOK
  <2> QED
    BY <2>1, <2>3 DEF Moves, OwnersStay
<1> QED
  BY <1>1, <1>2, <1>3 DEF Kubernetes, RemoveNamespace

LEMMA SyncSound ==
    CopiesSound /\ (SyncStates \/ SyncInstances \/ Restart)
    => CacheOK' /\ StateWorkerOK' /\ NsWorkerOK'
<1> SUFFICES ASSUME CopiesSound, SyncStates \/ SyncInstances \/ Restart
             PROVE  CacheOK' /\ StateWorkerOK' /\ NsWorkerOK'
  OBVIOUS
<1>a. \A n \in Namespaces :
          /\ states[n].uid \in Nat /\ states[n].rv \in Nat
          /\ stateCache[n].uid \in Nat /\ stateCache[n].rv \in Nat
          /\ \A i \in Items : /\ instances[n][i].obj.owner \in Nat
                              /\ instCache[n][i].obj.owner \in Nat
  BY TypedStates, Numbers DEF CopiesSound
<1>b. stateWorker.key \in Namespaces /\ stateWorker.state.uid \in Nat
      /\ stateWorker.state.rv \in Nat
  BY TypedWorkers, Numbers DEF CopiesSound
\* What is stored is a sound copy of itself.
<1>c. \A n \in Namespaces : /\ Fresh(states[n], states[n])
                            /\ AimsRight(states[n], states[n])
                            /\ OwnersSeen(states[n], instances[n])
                            /\ OwnersSeen(states[n], instCache[n])
  <2> SUFFICES ASSUME NEW n \in Namespaces
               PROVE  /\ Fresh(states[n], states[n])
                      /\ AimsRight(states[n], states[n])
                      /\ OwnersSeen(states[n], instances[n])
                      /\ OwnersSeen(states[n], instCache[n])
    OBVIOUS
  <2>1. Fresh(states[n], states[n])
    BY <1>a DEF Fresh
  <2>2. AimsRight(states[n], states[n])
    BY DEF AimsRight, TargetClass
  <2>3. /\ OwnersSeen(stateCache[n], instances[n])
        /\ OwnersSeen(stateCache[n], instCache[n])
        /\ stateCache[n].uid <= states[n].uid
    BY DEF CopiesSound, CacheOK, Fresh
  <2>4. OwnersSeen(states[n], instances[n]) /\ OwnersSeen(states[n], instCache[n])
    BY <1>a, <2>3 DEF OwnersSeen
  <2> QED
    BY <2>1, <2>2, <2>4
<1>1. CASE SyncStates
  <2>1. CacheOK'
    BY <1>1, <1>c DEF SyncStates, CacheOK, instStore
  <2>2. \A n \in Namespaces : stateCache[n].rv <= states[n].rv
                              /\ stateCache[n].uid <= states[n].uid
    BY DEF CopiesSound, CacheOK, Fresh
  <2>3. StateWorkerOK'
    BY <1>1, <1>a, <1>b, <2>2 DEF SyncStates, CopiesSound, StateWorkerOK, instStore
  <2> QED
    BY <1>1, <2>1, <2>3 DEF SyncStates, CopiesSound, NsWorkerOK, nsVars
<1>2. CASE SyncInstances
  BY <1>2, <1>b DEF SyncInstances, CopiesSound, CacheOK, StateWorkerOK, NsWorkerOK,
                    stateStore, nsVars, stateVars
<1>3. CASE Restart
  <2>1. CacheOK'
    BY <1>3, <1>c DEF Restart, CacheOK
  <2> QED
    BY <1>3, <2>1, IdleTypes DEF Restart, StateWorkerOK, NsWorkerOK
<1> QED
  BY <1>1, <1>2, <1>3

\* A reconcile of a namespace that read the cache holds a copy of what is cached.
LEMMA NsStepSound ==
    CopiesSound /\ (NsReconcile \/ NsCallFails) => NsWorkerOK'
<1> SUFFICES ASSUME CopiesSound, NsReconcile \/ NsCallFails, nsWorker'.pc = "markPending"
             PROVE  Fresh(nsWorker'.state, states'[nsWorker'.key])
  BY DEF NsWorkerOK
<1>1. CASE NsGetState
  <2>1. /\ nsWorker'.state = stateCache[nsWorker.key]
        /\ nsWorker'.key = nsWorker.key
        /\ states' = states
    BY <1>1, IdleTypes DEF NsGetState
  <2> QED
    BY <2>1, TypedWorkers DEF CopiesSound, CacheOK
<1>2. CASE ~NsGetState
  <2>1. nsWorker'.pc # "markPending"
    BY <1>2, IdleTypes
    DEF NsReconcile, NsCallFails, NsGetNamespace, NsDeleteState, NsMarkPending,
        NsCreateState, NsRejected, NsReturn, NsRequeue
  <2> QED
    BY <2>1
<1> QED
  BY <1>1, <1>2

\* Committing keeps every copy sound: whoever commits had the stored version, and
\* so has the cache.
LEMMA CommitSound ==
    ASSUME CopiesSound, StCommit, UNCHANGED <<stateCache, instCache>>
    PROVE  CacheOK' /\ StateWorkerOK'
<1> DEFINE k == stateWorker.key
           w == stateWorker.state
           new == Updated(states[k], Committed(w))
<1> USE DEF CopiesSound
<1>1. /\ states[k].rv = w.rv /\ states' = [states EXCEPT ![k] = new]
      /\ stateWorker' = StIdle /\ UNCHANGED instances /\ stateWorker.pc # "idle"
  BY DEF StCommit, StReturn, SameVersion, StInstancesDone
<1>2. /\ k \in Namespaces
      /\ \A n \in Namespaces :
            /\ states[n].rv \in Nat /\ states[n].uid \in Nat
            /\ stateCache[n].rv \in Nat /\ stateCache[n].uid \in Nat
  BY TypedStates, TypedWorkers, Numbers
<1>3. w = states[k] /\ stateCache[k] = states[k]
  <2>1. w.rv <= stateCache[k].rv /\ stateCache[k].rv <= states[k].rv
    BY <1>1, <1>2 DEF StateWorkerOK, CacheOK, Fresh
  <2>2. stateCache[k].rv = states[k].rv
    BY <1>1, <1>2, <2>1
  <2> QED
    BY <1>1, <1>2, <2>2 DEF StateWorkerOK, CacheOK, Fresh
<1>4. /\ new.uid = states[k].uid
      /\ new = states[k] \/ new.rv > states[k].rv
      /\ new.obj.class = TargetClass(states[k])
  BY <1>2, <1>3 DEF Updated, Committed
<1>5a. new.rv \in Nat
  BY <1>2 DEF Updated
<1>5. ASSUME NEW n \in Namespaces
      PROVE  Fresh(stateCache[n], states'[n]) /\ AimsRight(stateCache[n], states'[n])
  <2>1. CASE n = k
    <3>1. states'[n] = new
      BY <1>1, <1>2, <2>1 DEF TypeOK, StatesTypeOK
    <3>2. /\ stateCache[n] = states[n]
          /\ states'[n].uid = states[n].uid
          /\ states'[n] = states[n] \/ states'[n].rv > states[n].rv
          /\ states'[n].obj.class = TargetClass(states[n])
      BY <1>3, <1>4, <2>1, <3>1
    <3> HIDE DEF new
    <3>3. Fresh(stateCache[n], states'[n])
      BY <1>2, <1>4, <1>5a, <2>1, <3>1, <3>2 DEF Fresh
    <3>4. AimsRight(stateCache[n], states'[n])
      BY <3>2 DEF AimsRight
    <3> QED
      BY <3>3, <3>4
  <2>2. CASE n # k
    BY <1>1, <2>2 DEF CacheOK, TypeOK, StatesTypeOK
  <2> QED
    BY <2>1, <2>2
<1>6. CacheOK'
  BY <1>1, <1>5 DEF CacheOK
<1> QED
  BY <1>1, <1>6, IdleTypes DEF StateWorkerOK

\* What the NamespaceState reconciler may do to an instance.
LEMMA InstanceWrites ==
    ASSUME CopiesSound, NEW i \in Items,
           StAnnotateInstance(i) \/ StCreateInstance(i) \/ StDeleteInstance(i)
    PROVE  \E new \in Slot(NamespaceItemInstance) :
              /\ new.obj.owner <= stateWorker.state.uid
              /\ instances' = [instances EXCEPT ![stateWorker.key][i] = new]
<1> DEFINE n == stateWorker.key
           old == instances[n][i]
           w == stateWorker.state
<1> USE DEF CopiesSound
<1>1. /\ n \in Namespaces
      /\ old \in Slot(NamespaceItemInstance)
      /\ w.uid \in Nat
      /\ stateWorker.seen[i] \in Slot(NamespaceItemInstance)
  BY TypedStates, TypedWorkers, Numbers
<1>2. CASE StAnnotateInstance(i)
  <2> DEFINE touched == Touched(stateWorker.seen[i].obj)
  <2>1. /\ touched \in NamespaceItemInstance
        /\ touched.owner = stateWorker.seen[i].obj.owner
    BY <1>1 DEF Touched, Slot, NamespaceItemInstance
  <2>2. touched.owner <= w.uid /\ old.obj.owner <= w.uid
    BY <1>1, <1>2, <2>1 DEF StAnnotateInstance, StateWorkerOK, OwnersSeen
  <2>3. Updated(old, touched) \in Slot(NamespaceItemInstance)
    BY <1>1, <2>1, SlotTypes
  <2>4. Updated(old, touched).obj.owner <= w.uid
    BY <2>2 DEF Updated
  <2> QED
    BY <1>2, <2>3, <2>4 DEF StAnnotateInstance
<1>3. CASE StCreateInstance(i)
  <2> DEFINE new == NewInstance(w)
  <2>1. new \in NamespaceItemInstance /\ new.owner = w.uid
    BY <1>1 DEF NewInstance, NamespaceItemInstance
  <2>2. Created(old, new) \in Slot(NamespaceItemInstance)
    BY <1>1, <2>1, SlotTypes
  <2>3. Created(old, new).obj.owner <= w.uid
    BY <1>1, <2>1 DEF Created
  <2> QED
    BY <1>3, <2>2, <2>3 DEF StCreateInstance
<1>4. CASE StDeleteInstance(i)
  <2>1. Deleted(old, NoInstance) \in Slot(NamespaceItemInstance)
    BY <1>1, SlotTypes, VacantTypes
  <2>2. Deleted(old, NoInstance).obj.owner <= w.uid
    BY <1>1 DEF Deleted, NoInstance
  <2> QED
    BY <1>4, <2>1, <2>2 DEF StDeleteInstance
<1> QED
  BY <1>2, <1>3, <1>4

LEMMA WritesSound ==
    ASSUME CopiesSound, UNCHANGED <<stateCache, instCache>>, NEW i \in Items,
           StAnnotateInstance(i) \/ StCreateInstance(i) \/ StDeleteInstance(i)
    PROVE  CacheOK' /\ StateWorkerOK'
<1> DEFINE k == stateWorker.key
           w == stateWorker.state
<1> USE DEF CopiesSound
<1>1. PICK new \in Slot(NamespaceItemInstance) :
          /\ new.obj.owner <= w.uid
          /\ instances' = [instances EXCEPT ![k][i] = new]
  BY InstanceWrites
<1>2. /\ k \in Namespaces /\ w.uid \in Nat
      /\ new.obj.owner \in Nat
      /\ \A n \in Namespaces :
            /\ stateCache[n].uid \in Nat
            /\ \A j \in Items : instances[n][j].obj.owner \in Nat
  BY TypedStates, TypedWorkers, Numbers
<1>3. /\ stateWorker.pc = "write"
      /\ stateWorker'.pc = "write"
      /\ stateWorker'.key = k
      /\ stateWorker'.state = w
      /\ stateWorker'.seen = stateWorker.seen
      /\ stateWorker'.extra \subseteq stateWorker.extra
      /\ UNCHANGED states
  BY DEF StAnnotateInstance, StCreateInstance, StDeleteInstance, TypeOK, StCall
<1>4. w.uid <= stateCache[k].uid
  BY <1>3 DEF StateWorkerOK
<1>5. ASSUME NEW n \in Namespaces, NEW copy \in Slot(NamespaceState),
             OwnersSeen(copy, instances[n]),
             n = k => w.uid <= copy.uid
      PROVE  OwnersSeen(copy, instances'[n])
  <2> SUFFICES ASSUME NEW j \in Items
               PROVE  instances'[n][j].obj.owner <= copy.uid
    BY DEF OwnersSeen
  <2>1. copy.uid \in Nat /\ instances[n][j].obj.owner <= copy.uid
    BY <1>5, Numbers DEF OwnersSeen
  <2>2. CASE n = k /\ j = i
    <3>1. instances'[n][j] = new
      BY <1>1, <2>2 DEF TypeOK, InstancesTypeOK
    <3> QED
      BY <1>1, <1>2, <1>5, <2>1, <2>2, <3>1
  <2>3. CASE ~(n = k /\ j = i)
    <3>1. instances'[n][j] = instances[n][j]
      BY <1>1, <2>3 DEF TypeOK, InstancesTypeOK
    <3> QED
      BY <2>1, <3>1
  <2> QED
    BY <2>2, <2>3
<1>6. CacheOK'
  BY <1>3, <1>4, <1>5, TypedStates DEF CacheOK
<1>7. OwnersSeen(w, instances'[k])
  BY <1>2, <1>3, <1>5, TypedWorkers DEF StateWorkerOK
<1> QED
  BY <1>3, <1>6, <1>7 DEF StateWorkerOK

LEMMA StReconcileSound ==
    ASSUME CopiesSound, StReconcile \/ StCallFails,
           UNCHANGED <<stateCache, instCache, classStore>>
    PROVE  CacheOK' /\ StateWorkerOK'
<1> USE DEF CopiesSound
<1>a. UNCHANGED <<states, instances>> => CacheOK'
  BY DEF CacheOK
<1>1. ASSUME NEW n \in Namespaces, StGetState(n)
      PROVE  StateWorkerOK'
  <2>1. CASE stateCache[n].live
    <3>1. /\ stateWorker' = [pc |-> "getClass", key |-> n, state |-> stateCache[n],
                             todo |-> {}, extra |-> {}, seen |-> NothingSeen]
          /\ UNCHANGED <<states, instances>>
      BY <1>1, <2>1 DEF StGetState
    <3>2. stateCache[n].uid \in Nat /\ stateCache[n].rv \in Nat
      BY TypedStates, Numbers
    <3>3. OwnersSeen(stateCache[n], NothingSeen)
      BY <3>2 DEF OwnersSeen, NothingSeen, Vacant, NoInstance
    <3> QED
      BY <3>1, <3>2, <3>3 DEF StateWorkerOK, CacheOK
  <2>2. CASE ~stateCache[n].live
    BY <1>1, <2>2, IdleTypes DEF StGetState, StateWorkerOK
  <2> QED
    BY <2>1, <2>2
<1>2. ASSUME StGetClass
      PROVE  StateWorkerOK'
  <2> DEFINE target == TargetClass(stateWorker.state)
  <2>1. target \in Classes
    BY <1>2, TypedWorkers, TargetType DEF StGetClass, TypeOK
  <2>2. DesiredItems(target) = ItemsOf(target)
    BY <2>1, KnownItems DEF TypeOK
  <2>3. stateWorker.key \in Namespaces /\ stateWorker.state.uid \in Nat
    BY TypedWorkers, Numbers
  <2>4. OwnersSeen(stateWorker.state, NothingSeen)
    BY <2>3 DEF OwnersSeen, NothingSeen, Vacant, NoInstance
  <2> QED
    BY <1>2, <2>2, <2>4 DEF StGetClass, StateWorkerOK
<1>3. ASSUME StListInstances
      PROVE  StateWorkerOK'
  <2> DEFINE w == stateWorker
             seen == instCache[w.key]
             extra == LeftOver(seen, w.todo)
  <2>1. /\ stateWorker' = [pc |-> "write", key |-> w.key, state |-> w.state,
                           todo |-> w.todo, extra |-> extra, seen |-> seen]
        /\ w.pc = "list"
        /\ UNCHANGED <<states, instances>>
    BY <1>3 DEF StListInstances
  <2>2. extra \cap ItemsOf(TargetClass(w.state)) = {}
    BY <2>1 DEF StateWorkerOK, LeftOver
  <2> HIDE DEF extra
  <2> QED
    BY <2>1, <2>2 DEF StateWorkerOK
<1>4. ASSUME StNothingToCommit \/ StRejected \/ StCallFails
      PROVE  StateWorkerOK'
  BY <1>4, IdleTypes
  DEF StNothingToCommit, StRejected, StCallFails, StReturn, StRequeue, StateWorkerOK
<1>5. CASE UNCHANGED <<states, instances>>
  BY <1>1, <1>2, <1>3, <1>4, <1>5, <1>a, WritesSound, CommitSound DEF StReconcile
<1> QED
  BY <1>1, <1>2, <1>3, <1>4, <1>5, WritesSound, CommitSound
  DEF StReconcile, StGetState, StGetClass, StListInstances, StNothingToCommit, StRejected,
      StCallFails

\* A version only grows, and with it the identity.
Grows(old, new) == new = old \/ (new.rv > old.rv /\ new.uid >= old.uid)

LEMMA FreshKept ==
    ASSUME NEW copy \in Slot(NamespaceState), NEW old \in Slot(NamespaceState),
           NEW new \in Slot(NamespaceState), Fresh(copy, old), Grows(old, new)
    PROVE  Fresh(copy, new)
BY DEF Fresh, Grows, Slot

LEMMA StReconcileGrows ==
    ASSUME TypeOK, StReconcile \/ StCallFails
    PROVE  \A n \in Namespaces : Grows(states[n], states'[n])
<1>1. CASE UNCHANGED states
  BY <1>1 DEF Grows
<1>2. CASE StCommit
  <2> DEFINE k == stateWorker.key
             new == Updated(states[k], Committed(stateWorker.state))
  <2>1. /\ states' = [states EXCEPT ![k] = new]
        /\ k \in Namespaces /\ states[k].rv \in Nat /\ states[k].uid \in Nat
    BY <1>2, TypedStates, TypedWorkers, Numbers DEF StCommit
  <2>2. Grows(states[k], new)
    BY <2>1 DEF Updated, Grows
  <2> HIDE DEF new
  <2> QED
    BY <2>1, <2>2 DEF TypeOK, StatesTypeOK, Grows
<1> QED
  BY <1>1, <1>2
  DEF StReconcile, StGetState, StGetClass, StListInstances, StNothingToCommit, StRejected,
      StCallFails, StAnnotateInstance, StCreateInstance, StDeleteInstance

LEMMA SoundInit == Init => CopiesSound
<1> SUFFICES ASSUME Init PROVE CopiesSound
  OBVIOUS
<1>1. TypeOK
  BY TypeInit
<1>2. \A n \in Namespaces : /\ states[n] = Vacant(NoState)
                            /\ stateCache[n] = Vacant(NoState)
                            /\ \A i \in Items : /\ instances[n][i] = Vacant(NoInstance)
                                                /\ instCache[n][i] = Vacant(NoInstance)
  BY DEF Init, StatesInit, InstancesInit
<1>3. ASSUME NEW n \in Namespaces
      PROVE  /\ Fresh(stateCache[n], states[n])
             /\ AimsRight(stateCache[n], states[n])
             /\ OwnersSeen(stateCache[n], instances[n])
             /\ OwnersSeen(stateCache[n], instCache[n])
  <2>1. /\ stateCache[n] = states[n] /\ ~states[n].live
        /\ stateCache[n].uid = 0 /\ states[n].rv = 0
    BY <1>2 DEF Vacant
  <2>2. \A i \in Items : instances[n][i].obj.owner = 0 /\ instCache[n][i].obj.owner = 0
    BY <1>2 DEF Vacant, NoInstance
  <2> QED
    BY <2>1, <2>2 DEF Fresh, AimsRight, OwnersSeen
<1>4. StateWorkerOK /\ NsWorkerOK
  BY IdleTypes DEF Init, StateWorkerOK, NsWorkerOK
<1> QED
  BY <1>1, <1>3, <1>4 DEF CopiesSound, CacheOK

LEMMA SoundNext == CopiesSound /\ [Next]_vars => CopiesSound'
<1> SUFFICES ASSUME CopiesSound, [Next]_vars PROVE CopiesSound'
  OBVIOUS
<1> USE DEF CopiesSound
<1>a. TypeOK'
  BY TypeNext
<1>b. \A n \in Namespaces : states'[n] \in Slot(NamespaceState)
  BY <1>a DEF TypeOK, StatesTypeOK
\* A worker that stays as it is keeps a fresh copy, since versions only grow.
<1>c. ASSUME UNCHANGED nsWorker, \A n \in Namespaces : Grows(states[n], states'[n])
      PROVE  NsWorkerOK'
  BY <1>b, <1>c, TypedStates, TypedWorkers, FreshKept DEF NsWorkerOK
<1>d. ASSUME UNCHANGED instances
      PROVE  OwnersStay
  BY <1>d, TypedStates, Numbers DEF OwnersStay
<1>1. CASE UNCHANGED <<stateStore, instStore, nsWorker, stateWorker>>
  BY <1>1, <1>a DEF stateStore, instStore, CacheOK, StateWorkerOK, NsWorkerOK
<1>2. CASE Kubernetes
  <2>1. /\ UNCHANGED <<stateCache, instCache, nsWorker, stateWorker>>
        /\ OwnersStay /\ \A n \in Namespaces : Moves(states[n], states'[n])
    BY <1>2, KubernetesMoves DEF Kubernetes, nsVars, stateVars
  <2>2. \A n \in Namespaces : Grows(states[n], states'[n])
    BY <2>1 DEF Moves, Grows
  <2> QED
    BY <1>a, <1>c, <2>1, <2>2, SoundKept
<1>3. CASE SyncStates \/ SyncInstances \/ Restart
  BY <1>3, <1>a, SyncSound
<1>4. CASE NsStep \/ (Fault /\ NsCallFails /\ UNCHANGED <<instances, stateVars>>)
  <2>1. /\ NsReconcile \/ NsCallFails
        /\ UNCHANGED <<stateCache, instStore, stateWorker>>
    BY <1>4 DEF NsStep, Fault, instStore, stateVars
  <2> QED
    BY <1>a, <1>d, <2>1, NsStepMoves, NsStepSound, SoundKept DEF instStore
<1>5. CASE StateStep \/ (Fault /\ StCallFails /\ UNCHANGED nsVars)
  <2>1. /\ StReconcile \/ StCallFails
        /\ UNCHANGED <<stateCache, instCache, classStore, nsWorker>>
    BY <1>5 DEF StateStep, Fault, nsVars
  <2> QED
    BY <1>a, <1>c, <2>1, StReconcileSound, StReconcileGrows
<1> QED
  BY <1>1, <1>2, <1>3, <1>4, <1>5
  DEF Next, Fault, Users, SyncNamespaces, Resync, vars, nsVars, stateVars

\* Whatever the caches hold and however old it is, no copy of a NamespaceState is
\* ahead of what is stored, and none that a reconcile works from aims at a class
\* other than the committed one once nothing is pending.
THEOREM CopiesAreSound == Spec => []CopiesSound
BY SoundInit, SoundNext, PTL DEF Spec

(***************************************************************************)
(* What no step may do                                                     *)
(***************************************************************************)
\* The part of SwitchOnlyToPending one step of Next has to respect.
SwitchStep ==
    \A n \in Namespaces :
        /\ states[n].live /\ states'[n].live
        /\ states'[n].obj.class # states[n].obj.class
        => /\ states'[n].uid = states[n].uid
           /\ states'[n].obj.class = states[n].obj.pending

\* Only a commit changes the class of a NamespaceState that stays.
LEMMA OnlyCommitSwitches ==
    ASSUME CopiesSound, [Next]_vars, NEW n \in Namespaces,
           states[n].live, states'[n].live,
           states'[n].obj.class # states[n].obj.class
    PROVE  /\ StCommit /\ n = stateWorker.key
           /\ states'[n].uid = states[n].uid
           /\ states'[n].obj.class = states[n].obj.pending
<1> USE DEF CopiesSound
<1>a. states[n] \in Slot(NamespaceState) /\ states \in [Namespaces -> Slot(NamespaceState)]
  BY DEF TypeOK, StatesTypeOK
<1>1. CASE UNCHANGED states
  BY <1>1
<1>2. ASSUME NEW m \in Namespaces, CollectState(m)
      PROVE  FALSE
  BY <1>2, <1>a DEF CollectState, Deleted
<1>3. ASSUME NsReconcile \/ NsCallFails
      PROVE  UNCHANGED states
  <2>1. CASE NsDeleteState
    BY <2>1, <1>a DEF NsDeleteState, Deleted
  <2>2. CASE NsMarkPending
    <3> DEFINE k == nsWorker.key
               marked == WithPending(nsWorker.state.obj, nsWorker.ns.obj.label)
    <3>1. /\ states' = [states EXCEPT ![k] = Updated(states[k], marked)]
          /\ nsWorker.pc = "markPending" /\ states[k].rv = nsWorker.state.rv
      BY <2>2 DEF NsMarkPending, SameVersion
    <3>2. nsWorker.state = states[k]
      BY <3>1 DEF NsWorkerOK, Fresh
    <3>3. marked.class = states[k].obj.class
      BY <3>2, TypedWorkers DEF WithPending, Slot, NamespaceState
    <3>4. Updated(states[k], marked).obj.class = states[k].obj.class
      BY <3>3 DEF Updated
    <3> HIDE DEF marked
    <3> QED
      BY <1>a, <3>1, <3>4
  <2>3. CASE NsCreateState
    BY <2>3, <1>a DEF NsCreateState
  <2> QED
    BY <1>3, <2>1, <2>2, <2>3
    DEF NsReconcile, NsGetNamespace, NsGetState, NsRejected, NsCallFails
<1>4. CASE StCommit
  <2> DEFINE k == stateWorker.key
             w == stateWorker.state
             new == Updated(states[k], Committed(w))
  <2>1. /\ states[k].rv = w.rv /\ states' = [states EXCEPT ![k] = new]
        /\ k \in Namespaces /\ stateWorker.pc = "write"
    BY <1>4, TypedWorkers DEF StCommit, SameVersion, StInstancesDone
  <2>2. w = states[k]
    BY <2>1 DEF StateWorkerOK, Fresh
  <2>3. new.uid = states[k].uid /\ new.obj.class = TargetClass(states[k])
    BY <2>2 DEF Updated, Committed
  <2>4. n = k /\ states'[n] = new
    BY <1>a, <2>1
  <2> QED
    BY <1>4, <2>3, <2>4 DEF TargetClass
<1>5. CASE (StReconcile /\ ~StCommit) \/ StCallFails
  BY <1>1, <1>5
  DEF StReconcile, StGetState, StGetClass, StListInstances, StNothingToCommit, StRejected,
      StCallFails, StAnnotateInstance, StCreateInstance, StDeleteInstance
<1> QED
  BY <1>1, <1>2, <1>3, <1>4, <1>5
  DEF Next, Users, Kubernetes, RemoveNamespace, PurgeInstance, CollectInstance,
      SyncNamespaces, SyncStates, SyncInstances, Resync, NsStep, StateStep, Fault, Restart,
      stateStore, vars

LEMMA SwitchNext == CopiesSound /\ [Next]_vars => SwitchStep
BY OnlyCommitSwitches DEF SwitchStep

\* A NamespaceState changes class only to the class that was pending in the version
\* that the change replaces, for any number of namespaces and classes, however
\* stale the caches and in whatever order users act.
THEOREM SwitchesOnlyToPending == Spec => SwitchOnlyToPending
<1>1. CopiesSound /\ [Next]_vars => [SwitchStep]_vars
  BY SwitchNext
<1> QED
  BY <1>1, CopiesAreSound, PTL DEF Spec, SwitchOnlyToPending, SwitchStep

\* The part of CommittedInstancesStay one step of Next has to respect.
StayStep ==
    \A n \in Namespaces, i \in Items :
        /\ states[n].live /\ states[n].obj.pending = NoClass
        /\ instances[n][i].live /\ Owns(states[n], instances[n][i])
        /\ i \in ItemsOf(states[n].obj.class)
        /\ ~namespaces[n].obj.terminating
        => instances'[n][i].live

LEMMA StayNext == CopiesSound /\ [Next]_vars => StayStep
<1> SUFFICES ASSUME CopiesSound, [Next]_vars, NEW n \in Namespaces, NEW i \in Items,
                    states[n].live, states[n].obj.pending = NoClass,
                    instances[n][i].live, Owns(states[n], instances[n][i]),
                    i \in ItemsOf(states[n].obj.class),
                    ~namespaces[n].obj.terminating
             PROVE  instances'[n][i].live
  BY DEF StayStep
<1> USE DEF CopiesSound
<1>a. instances \in [Namespaces -> [Items -> Slot(NamespaceItemInstance)]]
  BY DEF TypeOK, InstancesTypeOK
<1>1. CASE UNCHANGED instances
  BY <1>1
<1>2. ASSUME NEW m \in Namespaces, NEW j \in Items,
             PurgeInstance(m, j) \/ CollectInstance(m, j)
      PROVE  instances'[n][i].live
  <2>1. <<m, j>> # <<n, i>>
    BY <1>2 DEF PurgeInstance, CollectInstance, OrphanInstance
  <2>2. instances'[n][i] = instances[n][i]
    BY <1>2, <1>a, <2>1 DEF PurgeInstance, CollectInstance
  <2> QED
    BY <2>2
<1>3. ASSUME NEW j \in Items, StAnnotateInstance(j) \/ StCreateInstance(j)
      PROVE  instances'[n][i].live
  <2> DEFINE k == stateWorker.key
  <2>1. PICK new : /\ instances' = [instances EXCEPT ![k][j] = new]
                   /\ new.live
    <3>1. CASE StAnnotateInstance(j)
      <4> DEFINE new == Updated(instances[k][j], Touched(stateWorker.seen[j].obj))
      <4>1. new.live
        BY <3>1 DEF StAnnotateInstance, SameVersion, Updated
      <4> QED
        BY <3>1, <4>1 DEF StAnnotateInstance
    <3>2. CASE StCreateInstance(j)
      <4> DEFINE new == Created(instances[k][j], NewInstance(stateWorker.state))
      <4>1. new.live
        BY DEF Created
      <4> QED
        BY <3>2, <4>1 DEF StCreateInstance
    <3> QED
      BY <1>3, <3>1, <3>2
  <2> QED
    BY <1>a, <2>1
<1>4. ASSUME NEW j \in Items, StDeleteInstance(j)
      PROVE  instances'[n][i].live
  <2> DEFINE k == stateWorker.key
             w == stateWorker.state
  <2>1. /\ instances' = [instances EXCEPT ![k][j] = Deleted(instances[k][j], NoInstance)]
        /\ stateWorker.pc = "write" /\ j \in stateWorker.extra
        /\ k \in Namespaces /\ w.live
    BY <1>4, TypedWorkers DEF StDeleteInstance, TypeOK
  <2>2. ASSUME n = k, i = j
        PROVE  FALSE
    <3>1. /\ w.uid \in Nat /\ states[k].uid \in Nat
          /\ states[k].uid = instances[k][i].obj.owner
      BY <2>2, TypedStates, TypedWorkers, Numbers DEF Owns
    <3>2. w.uid <= states[k].uid /\ instances[k][i].obj.owner <= w.uid
      BY <2>1 DEF StateWorkerOK, Fresh, OwnersSeen
    <3>3. w.uid = states[k].uid
      BY <3>1, <3>2
    <3>4. TargetClass(w) = states[k].obj.class
      BY <2>1, <2>2, <3>3 DEF StateWorkerOK, AimsRight
    <3> QED
      BY <2>1, <2>2, <3>4 DEF StateWorkerOK
  <2>3. instances'[n][i] = instances[n][i]
    BY <1>a, <2>1, <2>2
  <2> QED
    BY <2>3
<1>5. ASSUME StReconcile \/ StCallFails
      PROVE  instances'[n][i].live
  BY <1>1, <1>3, <1>4, <1>5
  DEF StReconcile, StGetState, StGetClass, StListInstances, StCommit, StNothingToCommit,
      StRejected, StCallFails
<1> QED
  BY <1>1, <1>2, <1>5
  DEF Next, Users, Kubernetes, RemoveNamespace, CollectState, SyncNamespaces, SyncStates,
      SyncInstances, Resync, NsStep, StateStep, Fault, Restart, instStore, vars

\* While a NamespaceState is committed to its class, no step deletes an instance
\* it owns for that class, except in a namespace that is being deleted.
THEOREM InstancesOfCommittedClassStay == Spec => CommittedInstancesStay
<1>1. CopiesSound /\ [Next]_vars => [StayStep]_vars
  BY StayNext
<1> QED
  BY <1>1, CopiesAreSound, PTL DEF Spec, CommittedInstancesStay, StayStep
=============================================================================
