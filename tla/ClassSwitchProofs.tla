--------------------------- MODULE ClassSwitchProofs ---------------------------
(***************************************************************************)
(* Proofs that the two reconcilers of ClassAssignment implement the steps  *)
(* of ClassSwitch, for any set of namespaces, classes and items, any lag   *)
(* of the copies of NamespaceStates and of the list of instances, any      *)
(* failures and restarts, as long as no name is used twice; that no name   *)
(* is, where labels are removed for good or not at all; and that then      *)
(* every namespace follows its label once nothing is left to do.           *)
(***************************************************************************)
EXTENDS ClassAssignmentRefinement, ClassAssignmentProofs

\* A namespace has the instances of these items, and no others unless a list of
\* instances may be old.
HasItems(n, wanted) ==
    /\ wanted \subseteq Installed(n)
    /\ InstanceLag \/ Installed(n) \subseteq wanted

-----------------------------------------------------------------------------
(***************************************************************************)
(* The invariant behind the refinement                                     *)
(***************************************************************************)
\* An object that exists is the first of its name, at least; an instance that exists
\* is owned by somebody.
Begun(slot) == slot.live => slot.uid >= 1

Owned(slot) == slot.live => slot.obj.owner >= 1

\* A NamespaceState comes after its namespace, and leaves nothing behind.
LivesOK ==
    \A n \in Namespaces :
        /\ Begun(namespaces[n]) /\ Begun(nsCache[n])
        /\ Begun(states[n]) /\ Begun(stateCache[n])
        /\ nsCache[n].uid <= namespaces[n].uid
        /\ states[n].uid >= 1 => namespaces[n].uid >= 1
        /\ ~states[n].live => states[n].obj = NoState
        /\ \A i \in Items : Owned(instances[n][i]) /\ Owned(instCache[n][i])

\* Whoever asks for a class has seen that another one is on record.
NsCallOK ==
    LET w == nsWorker IN
    /\ w.pc # "idle" => w.ns.live /\ 1 <= w.ns.uid /\ w.ns.uid <= namespaces[w.key].uid
    /\ w.pc = "markPending" => w.state.obj.class # w.ns.obj.label

\* Whoever reconciles a NamespaceState knows whose instances are.
StCopyOK ==
    LET w == stateWorker IN
    w.pc # "idle" => w.state.uid >= 1 /\ \A i \in Items : Owned(w.seen[i])

\* This much holds however often a name is used.
LivesInv == CopiesSound /\ LivesOK /\ NsCallOK /\ StCopyOK

\* The items of the class the reconciler aims at.
Wanted == ItemsOf(TargetClass(stateWorker.state))

\* While instances are written, those of the class handled so far exist, and whatever
\* else exists is going to be deleted, or the list in hand was old and did not show it.
StWriteOK ==
    LET w == stateWorker
        n == stateWorker.key
    IN
    w.pc = "write" =>
        /\ w.todo \subseteq Wanted
        /\ \A i \in Items \ Wanted :
              instances[n][i].live => i \in w.extra \/ (InstanceLag /\ ~w.seen[i].live)
        /\ Admits(n) /\ states[n].live => \A i \in Wanted \ w.todo : instances[n][i].live

SwitchInv == LivesInv /\ StWriteOK

-----------------------------------------------------------------------------
(***************************************************************************)
(* The steps                                                               *)
(***************************************************************************)
stored == <<namespaces, states, instances>>

workers == <<nsWorker, stateWorker>>

caches == <<nsCache, stateCache, instCache>>

UserMove == Users /\ UNCHANGED <<states, instances, caches, workers>>

TidyMove == Kubernetes /\ UNCHANGED <<caches, workers>>

\* The informers catch up or the calls in progress are given up.
ManagerMove ==
    /\ UNCHANGED stored
    /\ nsCache' = nsCache \/ nsCache' = namespaces
    /\ stateCache' = stateCache \/ stateCache' = states
    /\ instCache' = instCache \/ instCache' = instances
    /\ nsWorker' = nsWorker \/ nsWorker' = NsIdle
    /\ stateWorker' = stateWorker \/ stateWorker' = StIdle

NsMove == NsReconcile /\ UNCHANGED <<namespaces, instances, caches, stateWorker>>

StMove == StReconcile /\ UNCHANGED <<namespaces, caches, nsWorker, classStore>>

\* Every step is one of these.
LEMMA SwitchMoves ==
    ASSUME [Next]_vars
    PROVE  UserMove \/ TidyMove \/ ManagerMove \/ NsMove \/ StMove
<1> USE DEF stored, caches, workers, nsStore, stateStore, instStore, nsVars, stateVars
<1>1. CASE Users
  BY <1>1 DEF Users, UserMove
<1>2. CASE Kubernetes
  BY <1>2 DEF Kubernetes, TidyMove
<1>3. CASE SyncNamespaces \/ SyncStates \/ SyncInstances \/ Resync
  BY <1>3 DEF SyncNamespaces, SyncStates, SyncInstances, Resync, ManagerMove
<1>4. CASE NsStep
  BY <1>4 DEF NsStep, NsMove
<1>5. CASE StateStep
  BY <1>5 DEF StateStep, StMove
<1>6. CASE Fault
  BY <1>6 DEF Fault, NsCallFails, NsRequeue, StCallFails, StRequeue, ManagerMove
<1>7. CASE Restart
  BY <1>7 DEF Restart, ManagerMove
<1>8. CASE UNCHANGED vars
  BY <1>8 DEF vars, ManagerMove
<1> QED BY <1>1, <1>2, <1>3, <1>4, <1>5, <1>6, <1>7, <1>8 DEF Next

\* What a step leaves in the slots, by name, for the provers.
LEMMA Typed ==
    ASSUME TypeOK
    PROVE  /\ \A n \in Namespaces :
                 /\ namespaces[n] \in Slot(Namespace) /\ nsCache[n] \in Slot(Namespace)
                 /\ namespaces[n].uid \in Nat /\ nsCache[n].uid \in Nat
                 /\ states[n] \in Slot(NamespaceState)
                 /\ states[n].uid \in Nat /\ stateCache[n].uid \in Nat
                 /\ \A i \in Items : /\ instances[n][i] \in Slot(NamespaceItemInstance)
                                     /\ instances[n][i].obj.owner \in Nat
           /\ nsWorker.key \in Namespaces /\ stateWorker.key \in Namespaces
           /\ nsWorker.ns \in Slot(Namespace) /\ nsWorker.ns.uid \in Nat
           /\ stateWorker.state \in Slot(NamespaceState) /\ stateWorker.state.uid \in Nat
<1>1. /\ nsWorker.key \in Namespaces /\ stateWorker.key \in Namespaces
      /\ nsWorker.ns \in Slot(Namespace) /\ stateWorker.state \in Slot(NamespaceState)
  BY DEF TypeOK, NsCall, StCall
<1>2. \A n \in Namespaces : namespaces[n] \in Slot(Namespace) /\ nsCache[n] \in Slot(Namespace)
  BY DEF TypeOK, NamespacesTypeOK
<1> QED BY <1>1, <1>2, TypedStates, Numbers DEF Slot

\* A namespace is made, changed or removed: it comes into being once.
NamespaceGoesOn(m) ==
    /\ \A n \in Namespaces \ {m} : namespaces'[n] = namespaces[n]
    /\ Begun(namespaces'[m])
    /\ namespaces'[m].uid \in Nat /\ namespaces[m].uid <= namespaces'[m].uid
    /\ Admits(m)' => Admits(m) \/ namespaces[m].uid < namespaces'[m].uid

LEMMA UserWrites ==
    ASSUME TypeOK, LivesOK, UserMove
    PROVE  \E m \in Namespaces :
              /\ NamespaceGoesOn(m)
              /\ namespaces' = [namespaces EXCEPT ![m] = namespaces'[m]]
<1>1. ASSUME NEW n \in Namespaces, NEW label \in Labels, CreateNamespace(n, label)
      PROVE  /\ NamespaceGoesOn(n)
             /\ namespaces' = [namespaces EXCEPT ![n] = namespaces'[n]]
  BY <1>1, Typed DEF CreateNamespace, Created, TypeOK, NamespacesTypeOK, NamespaceGoesOn, Begun
<1>2. ASSUME NEW n \in Namespaces, NEW obj, namespaces[n].live,
             obj.terminating = FALSE => namespaces[n].obj.terminating = FALSE,
             obj.terminating \in BOOLEAN,
             namespaces' = [namespaces EXCEPT ![n] = Updated(@, obj)]
      PROVE  /\ NamespaceGoesOn(n)
             /\ namespaces' = [namespaces EXCEPT ![n] = namespaces'[n]]
  <2>1. namespaces'[n] = Updated(namespaces[n], obj)
    BY <1>2 DEF TypeOK, NamespacesTypeOK
  <2>2. /\ namespaces'[n].uid = namespaces[n].uid
        /\ namespaces'[n].obj = obj
    BY <2>1 DEF Updated
  <2>3. namespaces[n].uid \in Nat /\ namespaces[n].uid >= 1
    BY <1>2, Typed DEF LivesOK, Begun
  <2>4. /\ namespaces' = [namespaces EXCEPT ![n] = namespaces'[n]]
        /\ \A k \in Namespaces \ {n} : namespaces'[k] = namespaces[k]
    BY <1>2, <2>1 DEF TypeOK, NamespacesTypeOK
  <2> QED BY <1>2, <2>2, <2>3, <2>4 DEF NamespaceGoesOn, Begun, Admits
<1>3. ASSUME NEW n \in Namespaces, NEW label \in Labels, Relabel(n, label)
      PROVE  /\ NamespaceGoesOn(n)
             /\ namespaces' = [namespaces EXCEPT ![n] = namespaces'[n]]
  <2> DEFINE obj == [namespaces[n].obj EXCEPT !.label = label]
  <2>1. obj.terminating = namespaces[n].obj.terminating /\ obj.terminating \in BOOLEAN
    BY Typed DEF Slot, Namespace
  <2>2. namespaces[n].live /\ namespaces' = [namespaces EXCEPT ![n] = Updated(@, obj)]
    BY <1>3 DEF Relabel
  <2> HIDE DEF obj
  <2> QED BY <1>2, <2>1, <2>2
<1>4. ASSUME NEW n \in Namespaces, DeleteNamespace(n)
      PROVE  /\ NamespaceGoesOn(n)
             /\ namespaces' = [namespaces EXCEPT ![n] = namespaces'[n]]
  <2> DEFINE obj == [namespaces[n].obj EXCEPT !.terminating = TRUE]
  <2>1. obj.terminating = TRUE
    BY Typed DEF Slot, Namespace
  <2>2. namespaces[n].live /\ namespaces' = [namespaces EXCEPT ![n] = Updated(@, obj)]
    BY <1>4 DEF DeleteNamespace
  <2> HIDE DEF obj
  <2> QED BY <1>2, <2>1, <2>2
<1> QED BY <1>1, <1>3, <1>4 DEF UserMove, Users

LEMMA NamespaceRemoved ==
    ASSUME TypeOK, NEW m \in Namespaces, RemoveNamespace(m)
    PROVE  NamespaceGoesOn(m) /\ ~Admits(m) /\ ~Admits(m)'
BY Typed DEF RemoveNamespace, Deleted, TypeOK, NamespacesTypeOK, NamespaceGoesOn, Begun, Admits

\* What may become of the NamespaceState of n.
StateGoesOn(n) ==
    /\ Begun(states'[n])
    /\ states'[n].uid \in Nat /\ states[n].uid <= states'[n].uid
    /\ ~states'[n].live => states'[n].obj = NoState
    /\ states'[n].live => states[n].live \/ states[n].uid < states'[n].uid

LEMMA StateCollected ==
    ASSUME TypeOK, LivesOK, NEW m \in Namespaces, CollectState(m)
    PROVE  \A n \in Namespaces : StateGoesOn(n)
BY Typed DEF CollectState, Deleted, TypeOK, StatesTypeOK, StateGoesOn, LivesOK, Begun

LEMMA StatesStay ==
    ASSUME TypeOK, LivesOK, UNCHANGED states
    PROVE  \A n \in Namespaces : StateGoesOn(n)
BY Typed DEF StateGoesOn, LivesOK

LEMMA NsStateGoesOn ==
    ASSUME TypeOK, LivesOK, NsReconcile
    PROVE  \A n \in Namespaces :
              /\ StateGoesOn(n)
              /\ states[n].uid < states'[n].uid => n = nsWorker.key /\ nsWorker.pc = "createState"
<1> USE DEF StateGoesOn
<1>1. CASE UNCHANGED states
  BY <1>1, Typed, StatesStay
<1>2. CASE NsDeleteState
  BY <1>2, Typed DEF NsDeleteState, Deleted, TypeOK, StatesTypeOK, LivesOK, Begun
<1>3. CASE NsMarkPending
  BY <1>3, Typed DEF NsMarkPending, SameVersion, Updated, TypeOK, StatesTypeOK, LivesOK, Begun
<1>4. CASE NsCreateState
  BY <1>4, Typed DEF NsCreateState, Created, TypeOK, StatesTypeOK, LivesOK, Begun
<1> QED
  BY <1>1, <1>2, <1>3, <1>4 DEF NsReconcile, NsGetNamespace, NsGetState, NsRejected

LEMMA StStateGoesOn ==
    ASSUME TypeOK, LivesOK, StReconcile
    PROVE  \A n \in Namespaces : StateGoesOn(n) /\ states'[n].uid = states[n].uid
<1> USE DEF StateGoesOn
<1>1. CASE UNCHANGED states
  BY <1>1, Typed, StatesStay
<1>2. CASE StCommit
  BY <1>2, Typed DEF StCommit, SameVersion, Updated, TypeOK, StatesTypeOK, LivesOK, Begun
<1> QED
  BY <1>1, <1>2
  DEF StReconcile, StGetState, StGetClass, StListInstances, StNothingToCommit, StRejected,
      StAnnotateInstance, StCreateInstance, StDeleteInstance

-----------------------------------------------------------------------------
(***************************************************************************)
(* The invariant is kept                                                   *)
(***************************************************************************)
\* In a namespace that stands and has its first NamespaceState, no instance is an
\* orphan: there is no other NamespaceState it could belong to.
LEMMA NotOrphan ==
    ASSUME CopiesSound, LivesOK, UsedOnce, NEW n \in Namespaces, NEW i \in Items,
           Admits(n), states[n].live, instances[n][i].live
    PROVE  Owns(states[n], instances[n][i])
<1> USE DEF CopiesSound
<1>1. /\ states[n].uid \in Nat /\ stateCache[n].uid \in Nat
      /\ instances[n][i].obj.owner \in Nat
  BY Typed
<1>2. states[n].uid <= 1 /\ instances[n][i].obj.owner >= 1
  BY DEF UsedOnce, LivesOK, Owned
<1>3. instances[n][i].obj.owner <= stateCache[n].uid /\ stateCache[n].uid <= states[n].uid
  BY DEF CacheOK, OwnersSeen, Fresh
<1>4. states[n].uid = instances[n][i].obj.owner
  BY <1>1, <1>2, <1>3
<1> QED BY <1>4 DEF Owns

LEMMA LivesKept ==
    ASSUME TypeOK, TypeOK', LivesOK, UNCHANGED caches,
           \A n \in Namespaces :
              /\ Begun(namespaces'[n]) /\ namespaces[n].uid <= namespaces'[n].uid
              /\ StateGoesOn(n)
              /\ states[n].uid < states'[n].uid => namespaces'[n].uid >= 1
              /\ \A i \in Items : Owned(instances'[n][i])
    PROVE  LivesOK'
<1>1. UNCHANGED <<nsCache, stateCache, instCache>>
  BY DEF caches
<1>2. ASSUME NEW n \in Namespaces
      PROVE  /\ namespaces[n].uid \in Nat /\ nsCache[n].uid \in Nat
             /\ states[n].uid \in Nat /\ states'[n].uid \in Nat
             /\ namespaces'[n].uid \in Nat
  <2>1. namespaces'[n] \in Slot(Namespace)
    BY DEF TypeOK, NamespacesTypeOK
  <2> QED BY <2>1, Typed DEF StateGoesOn, Slot
<1>3. ASSUME NEW n \in Namespaces
      PROVE  /\ nsCache[n].uid <= namespaces'[n].uid
             /\ states'[n].uid >= 1 => namespaces'[n].uid >= 1
  <2>1. /\ nsCache[n].uid <= namespaces[n].uid
        /\ states[n].uid >= 1 => namespaces[n].uid >= 1
    BY DEF LivesOK
  <2>2. /\ namespaces[n].uid <= namespaces'[n].uid
        /\ states[n].uid <= states'[n].uid
        /\ states[n].uid < states'[n].uid => namespaces'[n].uid >= 1
    BY DEF StateGoesOn
  <2> QED BY <1>2, <2>1, <2>2
<1> QED BY <1>1, <1>3 DEF LivesOK, StateGoesOn, Begun

\* Whoever reconciles a NamespaceState makes instances that it owns.
LEMMA OwnedStay ==
    ASSUME CopiesSound, LivesOK, StCopyOK, StReconcile
    PROVE  \A n \in Namespaces, i \in Items : Owned(instances'[n][i])
<1> DEFINE k == stateWorker.key
           w == stateWorker.state
<1>a. instances \in [Namespaces -> [Items -> Slot(NamespaceItemInstance)]]
  BY DEF CopiesSound, TypeOK, InstancesTypeOK
<1>b. \A n \in Namespaces, i \in Items : Owned(instances[n][i])
  BY DEF LivesOK
<1>1. ASSUME NEW j \in Items, NEW new, Owned(new), instances' = [instances EXCEPT ![k][j] = new]
      PROVE  \A n \in Namespaces, i \in Items : Owned(instances'[n][i])
  BY <1>1, <1>a, <1>b
<1>2. ASSUME NEW j \in Items, StAnnotateInstance(j)
      PROVE  \A n \in Namespaces, i \in Items : Owned(instances'[n][i])
  <2> DEFINE seen == stateWorker.seen[j]
             new == Updated(instances[k][j], Touched(seen.obj))
  <2>1. seen.live /\ seen.obj.owner >= 1 /\ Touched(seen.obj).owner = seen.obj.owner
    BY <1>2, TypedWorkers
    DEF StAnnotateInstance, StCopyOK, Owned, Touched, CopiesSound, Slot, NamespaceItemInstance
  <2>2. Owned(new)
    BY <1>b, <2>1, Typed DEF Owned, Updated, CopiesSound
  <2>3. instances' = [instances EXCEPT ![k][j] = new]
    BY <1>2 DEF StAnnotateInstance
  <2> HIDE DEF new
  <2> QED BY <1>1, <2>2, <2>3
<1>3. ASSUME NEW j \in Items, StCreateInstance(j)
      PROVE  \A n \in Namespaces, i \in Items : Owned(instances'[n][i])
  <2> DEFINE new == Created(instances[k][j], NewInstance(w))
  <2>1. Owned(new)
    BY <1>3 DEF StCreateInstance, StCopyOK, Owned, Created, NewInstance
  <2>2. instances' = [instances EXCEPT ![k][j] = new]
    BY <1>3 DEF StCreateInstance
  <2> HIDE DEF new
  <2> QED BY <1>1, <2>1, <2>2
<1>4. ASSUME NEW j \in Items, StDeleteInstance(j)
      PROVE  \A n \in Namespaces, i \in Items : Owned(instances'[n][i])
  <2> DEFINE new == Deleted(instances[k][j], NoInstance)
  <2>1. Owned(new)
    BY DEF Owned, Deleted
  <2>2. instances' = [instances EXCEPT ![k][j] = new]
    BY <1>4 DEF StDeleteInstance
  <2> HIDE DEF new
  <2> QED BY <1>1, <2>1, <2>2
<1>5. CASE UNCHANGED instances
  BY <1>5, <1>b
<1> QED
  BY <1>2, <1>3, <1>4, <1>5
  DEF StReconcile, StGetState, StGetClass, StListInstances, StCommit, StNothingToCommit,
      StRejected

\* What Kubernetes may do to the instances: end some.
LEMMA TidyDeletes ==
    ASSUME TypeOK, Kubernetes
    PROVE  \A n \in Namespaces, i \in Items :
              \/ instances'[n][i] = instances[n][i]
              \/ /\ ~instances'[n][i].live
                 /\ namespaces[n].obj.terminating \/ OrphanInstance(n, i)
                 /\ UNCHANGED <<namespaces, states>>
<1>1. ASSUME NEW m \in Namespaces, NEW j \in Items,
             PurgeInstance(m, j) \/ CollectInstance(m, j)
      PROVE  \A n \in Namespaces, i \in Items :
                \/ instances'[n][i] = instances[n][i]
                \/ /\ ~instances'[n][i].live
                   /\ namespaces[n].obj.terminating \/ OrphanInstance(n, i)
                   /\ UNCHANGED <<namespaces, states>>
  <2>1. /\ instances' = [instances EXCEPT ![m][j] = Deleted(instances[m][j], NoInstance)]
        /\ namespaces[m].obj.terminating \/ OrphanInstance(m, j)
        /\ UNCHANGED <<namespaces, states>>
    BY <1>1 DEF PurgeInstance, CollectInstance
  <2>2. ~Deleted(instances[m][j], NoInstance).live
    BY DEF Deleted
  <2> QED BY <2>1, <2>2 DEF TypeOK, InstancesTypeOK
<1> QED BY <1>1 DEF Kubernetes, RemoveNamespace, CollectState

\* What Kubernetes may do to a namespace or a NamespaceState: end it.
LEMMA TidyEnds ==
    ASSUME TypeOK, LivesOK, Kubernetes
    PROVE  \A n \in Namespaces :
              /\ Begun(namespaces'[n]) /\ namespaces'[n].uid = namespaces[n].uid
              /\ Admits(n)' => Admits(n)
              /\ StateGoesOn(n) /\ states'[n].uid = states[n].uid
<1>1. ASSUME NEW m \in Namespaces, RemoveNamespace(m)
      PROVE  \A n \in Namespaces :
                /\ Begun(namespaces'[n]) /\ namespaces'[n].uid = namespaces[n].uid
                /\ Admits(n)' => Admits(n)
  BY <1>1 DEF RemoveNamespace, Deleted, Begun, Admits, TypeOK, NamespacesTypeOK, LivesOK
<1>2. ASSUME NEW m \in Namespaces, CollectState(m)
      PROVE  \A n \in Namespaces : StateGoesOn(n) /\ states'[n].uid = states[n].uid
  BY <1>2, StateCollected DEF CollectState, Deleted, TypeOK, StatesTypeOK
<1>3. UNCHANGED namespaces =>
         \A n \in Namespaces :
            /\ Begun(namespaces'[n]) /\ namespaces'[n].uid = namespaces[n].uid
            /\ Admits(n)' => Admits(n)
  BY DEF LivesOK, Admits
<1>4. UNCHANGED states =>
         \A n \in Namespaces : StateGoesOn(n) /\ states'[n].uid = states[n].uid
  BY StatesStay
<1> QED
  BY <1>1, <1>2, <1>3, <1>4
  DEF Kubernetes, RemoveNamespace, CollectState, PurgeInstance, CollectInstance

LEMMA LivesNext ==
    ASSUME LivesInv, TypeOK', [Next]_vars
    PROVE  LivesOK'
<1> USE DEF LivesInv, CopiesSound
<1>1. CASE UserMove
  <2>1. PICK m \in Namespaces : NamespaceGoesOn(m)
    BY <1>1, UserWrites
  <2>2. \A n \in Namespaces : Begun(namespaces'[n]) /\ namespaces[n].uid <= namespaces'[n].uid
    BY <2>1, Typed DEF NamespaceGoesOn, LivesOK
  <2>3. UNCHANGED <<states, instances>> /\ UNCHANGED caches
    BY <1>1 DEF UserMove, caches
  <2>4. \A n \in Namespaces : StateGoesOn(n) /\ ~(states[n].uid < states'[n].uid)
    BY <2>3, StatesStay, Typed
  <2> QED BY <2>2, <2>3, <2>4, LivesKept DEF LivesOK
<1>2. CASE TidyMove
  <2>1. UNCHANGED caches /\ Kubernetes
    BY <1>2 DEF TidyMove
  <2>2. \A n \in Namespaces, i \in Items : Owned(instances'[n][i])
    BY <2>1, TidyDeletes DEF LivesOK, Owned
  <2>3. \A n \in Namespaces :
           /\ Begun(namespaces'[n]) /\ namespaces[n].uid <= namespaces'[n].uid
           /\ StateGoesOn(n) /\ ~(states[n].uid < states'[n].uid)
    BY <2>1, TidyEnds, Typed
  <2> QED BY <2>1, <2>2, <2>3, LivesKept
<1>3. CASE ManagerMove
  BY <1>3, Typed DEF ManagerMove, stored, LivesOK
<1>4. CASE NsMove
  <2>1. UNCHANGED <<namespaces, instances>> /\ UNCHANGED caches /\ NsReconcile
    BY <1>4 DEF NsMove, caches
  <2>2. ASSUME NEW n \in Namespaces
        PROVE  /\ Begun(namespaces'[n]) /\ namespaces[n].uid <= namespaces'[n].uid
               /\ StateGoesOn(n)
               /\ states[n].uid < states'[n].uid => namespaces'[n].uid >= 1
    <3>1. nsWorker.pc = "createState" => namespaces[nsWorker.key].uid >= 1
      BY Typed DEF NsCallOK
    <3> QED BY <2>1, <3>1, Typed, NsStateGoesOn DEF LivesOK
  <2> QED BY <2>1, <2>2, LivesKept DEF LivesOK
<1>5. CASE StMove
  <2>1. UNCHANGED namespaces /\ UNCHANGED caches /\ StReconcile
    BY <1>5 DEF StMove, caches
  <2>2. \A n \in Namespaces :
           /\ Begun(namespaces'[n]) /\ namespaces[n].uid <= namespaces'[n].uid
           /\ StateGoesOn(n) /\ ~(states[n].uid < states'[n].uid)
    BY <2>1, StStateGoesOn, Typed DEF LivesOK
  <2> QED BY <2>1, <2>2, LivesKept, OwnedStay
<1> QED BY <1>1, <1>2, <1>3, <1>4, <1>5, SwitchMoves
LEMMA NsCallNext ==
    ASSUME LivesInv, TypeOK', [Next]_vars
    PROVE  NsCallOK'
<1> USE DEF LivesInv, CopiesSound
<1>a. NsIdle.pc = "idle"
  BY IdleTypes
<1>b. ASSUME UNCHANGED nsWorker,
             \A n \in Namespaces : namespaces[n].uid <= namespaces'[n].uid
      PROVE  NsCallOK'
  <2>1. namespaces'[nsWorker.key] \in Slot(Namespace)
    BY Typed DEF TypeOK, NamespacesTypeOK
  <2> QED BY <1>b, <2>1, Typed DEF NsCallOK, Slot
<1>1. CASE UserMove
  <2>1. PICK m \in Namespaces : NamespaceGoesOn(m)
    BY <1>1, UserWrites
  <2>2. \A n \in Namespaces : namespaces[n].uid <= namespaces'[n].uid
    BY <2>1, Typed DEF NamespaceGoesOn
  <2> QED BY <1>1, <1>b, <2>2 DEF UserMove, workers
<1>2. CASE TidyMove
  BY <1>2, <1>b, TidyEnds, Typed DEF TidyMove, workers
<1>3. CASE ManagerMove
  BY <1>3, <1>a, <1>b, Typed DEF ManagerMove, stored, NsCallOK
<1>4. CASE NsMove
  <2>1. UNCHANGED namespaces
    BY <1>4 DEF NsMove
  <2>2. ASSUME NEW n \in Namespaces, NsGetNamespace(n)
        PROVE  NsCallOK'
    <3>1. CASE nsCache[n].live
      <4>1. nsWorker' = [pc |-> "getState", key |-> n, ns |-> nsCache[n],
                         state |-> Vacant(NoState)]
        BY <2>2, <3>1 DEF NsGetNamespace
      <4> QED BY <2>1, <3>1, <4>1 DEF NsCallOK, LivesOK, Begun
    <3>2. CASE ~nsCache[n].live
      BY <1>a, <2>2, <3>2 DEF NsGetNamespace, NsCallOK
    <3> QED BY <3>1, <3>2
  <2>3. CASE NsGetState
    <3> DEFINE state == stateCache[nsWorker.key]
               call  == NsNextCall(nsWorker.ns, state)
    <3>1. CASE call = "idle"
      BY <1>a, <2>3, <3>1 DEF NsGetState, NsCallOK
    <3>2. CASE call # "idle"
      <4>1. nsWorker' = [pc |-> call, key |-> nsWorker.key, ns |-> nsWorker.ns,
                         state |-> state]
        BY <2>3, <3>2 DEF NsGetState
      <4>2. call = "markPending" => state.obj.class # nsWorker.ns.obj.label
        BY DEF NsNextCall
      <4>3. nsWorker.pc # "idle"
        BY <2>3 DEF NsGetState
      <4> HIDE DEF state, call
      <4> QED BY <2>1, <4>1, <4>2, <4>3 DEF NsCallOK
    <3> QED BY <3>1, <3>2
  <2>4. CASE nsWorker' = NsIdle
    BY <1>a, <2>4 DEF NsCallOK
  <2> QED
    BY <1>4, <2>2, <2>3, <2>4
    DEF NsMove, NsReconcile, NsDeleteState, NsMarkPending, NsCreateState, NsRejected, NsReturn,
        NsRequeue
<1>5. CASE StMove
  BY <1>5, <1>b, Typed DEF StMove
<1> QED BY <1>1, <1>2, <1>3, <1>4, <1>5, SwitchMoves

LEMMA StCopyNext ==
    ASSUME LivesInv, [Next]_vars
    PROVE  StCopyOK'
<1> USE DEF LivesInv, CopiesSound
<1>1. CASE UNCHANGED stateWorker
  BY <1>1 DEF StCopyOK
<1>2. CASE stateWorker' = StIdle
  BY <1>2, IdleTypes DEF StCopyOK
<1>3. ASSUME NEW n \in Namespaces, StGetState(n), stateCache[n].live
      PROVE  StCopyOK'
  BY <1>3 DEF StGetState, StCopyOK, LivesOK, Begun, Owned, NothingSeen, Vacant
<1>4. CASE StGetClass
  BY <1>4 DEF StGetClass, StCopyOK, Owned, NothingSeen, Vacant
<1>5. CASE StListInstances
  <2>1. /\ stateWorker'.seen = instCache[stateWorker.key]
        /\ stateWorker'.state = stateWorker.state /\ stateWorker.pc # "idle"
    BY <1>5 DEF StListInstances
  <2>2. \A i \in Items : Owned(instCache[stateWorker.key][i])
    BY Typed DEF LivesOK
  <2> QED BY <2>1, <2>2 DEF StCopyOK
<1>6. ASSUME NEW j \in Items,
             StAnnotateInstance(j) \/ StCreateInstance(j) \/ StDeleteInstance(j)
      PROVE  StCopyOK'
  BY <1>6 DEF StAnnotateInstance, StCreateInstance, StDeleteInstance, TypeOK, StCall, StCopyOK
<1>7. CASE StMove
  BY <1>7, <1>2, <1>3, <1>4, <1>5, <1>6
  DEF StMove, StReconcile, StGetState, StCommit, StNothingToCommit, StRejected, StReturn,
      StRequeue
<1> QED
  BY <1>1, <1>2, <1>7, SwitchMoves DEF UserMove, TidyMove, ManagerMove, NsMove, workers

LEMMA LivesInvInit == Init => LivesInv
<1> SUFFICES ASSUME Init PROVE LivesInv
  OBVIOUS
<1>1. CopiesSound
  BY SoundInit
<1>2. LivesOK
  <2>1. \A n \in Namespaces :
           /\ namespaces[n] = Vacant(NoNamespace) /\ nsCache[n] = Vacant(NoNamespace)
           /\ states[n] = Vacant(NoState) /\ stateCache[n] = Vacant(NoState)
           /\ \A i \in Items : /\ instances[n][i] = Vacant(NoInstance)
                               /\ instCache[n][i] = Vacant(NoInstance)
    BY DEF Init, NamespacesInit, StatesInit, InstancesInit
  <2>2. /\ ~Vacant(NoNamespace).live /\ Vacant(NoNamespace).uid = 0
        /\ ~Vacant(NoState).live /\ Vacant(NoState).uid = 0 /\ Vacant(NoState).obj = NoState
        /\ ~Vacant(NoInstance).live
    BY DEF Vacant
  <2> HIDE DEF Vacant
  <2>3. \A n \in Namespaces : /\ ~namespaces[n].live /\ namespaces[n].uid = 0
                             /\ ~nsCache[n].live /\ nsCache[n].uid = 0
                             /\ ~states[n].live /\ states[n].uid = 0
                             /\ states[n].obj = NoState /\ ~stateCache[n].live
    BY <2>1, <2>2
  <2>4. \A n \in Namespaces, i \in Items : ~instances[n][i].live /\ ~instCache[n][i].live
    BY <2>1, <2>2
  <2>5. \A n \in Namespaces : /\ Begun(namespaces[n]) /\ Begun(nsCache[n])
                             /\ Begun(states[n]) /\ Begun(stateCache[n])
    BY <2>3 DEF Begun
  <2>6. \A n \in Namespaces : /\ nsCache[n].uid <= namespaces[n].uid
                             /\ ~(states[n].uid >= 1)
    BY <2>3, 0 <= 0, ~(0 >= 1)
  <2>7. \A n \in Namespaces, i \in Items : Owned(instances[n][i]) /\ Owned(instCache[n][i])
    BY <2>4 DEF Owned
  <2> QED BY <2>3, <2>5, <2>6, <2>7 DEF LivesOK
<1>3. NsCallOK /\ StCopyOK
  BY IdleTypes DEF Init, NsCallOK, StCopyOK
<1> QED BY <1>1, <1>2, <1>3 DEF LivesInv

LEMMA LivesInvNext == LivesInv /\ [Next]_vars => LivesInv'
<1> SUFFICES ASSUME LivesInv, [Next]_vars PROVE LivesInv'
  OBVIOUS
<1>1. CopiesSound'
  BY SoundNext DEF LivesInv
<1> QED BY <1>1, LivesNext, NsCallNext, StCopyNext DEF LivesInv, CopiesSound

\* Nobody else disturbs a reconcile of a NamespaceState that writes instances.
LEMMA StWriteKept ==
    ASSUME TypeOK, StWriteOK, UNCHANGED stateWorker,
           \A i \in Items :
              LET old == instances[stateWorker.key][i]
                  new == instances'[stateWorker.key][i]
              IN  \/ new.live <=> old.live
                  \/ ~new.live /\ (Admits(stateWorker.key)' => ~states'[stateWorker.key].live),
           /\ stateWorker.pc = "write" /\ Admits(stateWorker.key)'
           /\ states'[stateWorker.key].live
           => Admits(stateWorker.key) /\ states[stateWorker.key].live
    PROVE  StWriteOK'
<1>1. Wanted' = Wanted
  BY DEF Wanted, TargetClass
<1>2. stateWorker.pc = "write" => Wanted \subseteq Items
  BY Typed, TargetType, ItemsType DEF TypeOK, Wanted
<1>3. stateWorker' = stateWorker
  OBVIOUS
<1> QED BY <1>1, <1>2, <1>3 DEF StWriteOK, Admits

LEMMA StWritesOn ==
    ASSUME SwitchInv, NEW j \in Items, UNCHANGED namespaces,
           StAnnotateInstance(j) \/ StCreateInstance(j) \/ StDeleteInstance(j)
    PROVE  StWriteOK'
<1> DEFINE k == stateWorker.key
<1> USE DEF SwitchInv, LivesInv, CopiesSound
<1>a. instances \in [Namespaces -> [Items -> Slot(NamespaceItemInstance)]] /\ k \in Namespaces
  BY Typed DEF TypeOK, InstancesTypeOK
<1>1. /\ stateWorker.pc = "write" /\ stateWorker'.pc = "write"
      /\ stateWorker'.key = k /\ stateWorker'.state = stateWorker.state
      /\ stateWorker'.seen = stateWorker.seen
      /\ UNCHANGED states
  BY DEF StAnnotateInstance, StCreateInstance, StDeleteInstance, TypeOK, StCall
<1>2. PICK new :
         /\ instances' = [instances EXCEPT ![k][j] = new]
         /\ StDeleteInstance(j) <=> ~new.live
  <2>1. CASE StAnnotateInstance(j)
    <3> DEFINE new == Updated(instances[k][j], Touched(stateWorker.seen[j].obj))
    <3>1. new.live /\ ~StDeleteInstance(j)
      BY <2>1 DEF StAnnotateInstance, SameVersion, Updated, StDeleteInstance
    <3> QED BY <2>1, <3>1 DEF StAnnotateInstance
  <2>2. CASE StCreateInstance(j)
    <3> DEFINE new == Created(instances[k][j], NewInstance(stateWorker.state))
    <3>1. new.live /\ ~StDeleteInstance(j)
      BY <2>2 DEF StCreateInstance, Created, StDeleteInstance
    <3> QED BY <2>2, <3>1 DEF StCreateInstance
  <2>3. CASE StDeleteInstance(j)
    <3> DEFINE new == Deleted(instances[k][j], NoInstance)
    <3>1. ~new.live
      BY DEF Deleted
    <3> QED BY <2>3, <3>1 DEF StDeleteInstance
  <2> QED BY <2>1, <2>2, <2>3
<1>3. \A i \in Items : instances'[k][i] = IF i = j THEN new ELSE instances[k][i]
  BY <1>a, <1>2
<1>4. Wanted' = Wanted
  BY <1>1 DEF Wanted, TargetClass
<1>5. CASE StDeleteInstance(j)
  <2>1. /\ stateWorker'.todo = stateWorker.todo
        /\ stateWorker'.extra = stateWorker.extra \ {j}
        /\ j \in stateWorker.extra
    BY <1>5 DEF StDeleteInstance, TypeOK, StCall
  <2>2. j \notin Wanted
    BY <1>1, <2>1 DEF StateWorkerOK, Wanted
  <2> QED BY <1>1, <1>2, <1>3, <1>4, <1>5, <2>1, <2>2 DEF StWriteOK, Admits
<1>6. CASE ~StDeleteInstance(j)
  <2>1. /\ stateWorker'.todo = stateWorker.todo \ {j}
        /\ stateWorker'.extra = stateWorker.extra
        /\ j \in stateWorker.todo
    BY <1>6 DEF StAnnotateInstance, StCreateInstance, TypeOK, StCall
  <2> QED BY <1>1, <1>2, <1>3, <1>4, <1>6, <2>1 DEF StWriteOK, Admits
<1> QED BY <1>5, <1>6

LEMMA StWriteNext ==
    ASSUME SwitchInv, UsedOnce, UsedOnce', TypeOK', [Next]_vars
    PROVE  StWriteOK'
<1> DEFINE k == stateWorker.key
           w == stateWorker.state
<1> USE DEF SwitchInv, LivesInv, CopiesSound
<1>a. StIdle.pc = "idle"
  BY IdleTypes
<1>b. /\ k \in Namespaces /\ states[k].uid \in Nat /\ w.uid \in Nat
      /\ namespaces[k].uid \in Nat
  BY Typed
<1>c. stateWorker.pc # "idle" => w.uid >= 1 /\ w.uid <= states[k].uid
  BY DEF StCopyOK, StateWorkerOK, Fresh
<1>1. CASE UserMove
  <2>1. PICK m \in Namespaces : NamespaceGoesOn(m)
    BY <1>1, UserWrites
  <2>2. UNCHANGED <<states, instances, stateWorker>>
    BY <1>1 DEF UserMove, workers
  <2>3. ASSUME stateWorker.pc = "write", Admits(k)' PROVE Admits(k)
    <3>1. namespaces'[k].uid <= 1 /\ namespaces[k].uid >= 1
      BY <1>b, <1>c, <2>3 DEF UsedOnce, LivesOK
    <3>2. CASE m = k
      BY <1>b, <2>1, <2>2, <2>3, <3>1, <3>2 DEF NamespaceGoesOn
    <3>3. CASE m # k
      BY <1>b, <2>1, <2>2, <2>3, <3>3 DEF NamespaceGoesOn, Admits
    <3> QED BY <3>2, <3>3
  <2> QED BY <2>2, <2>3, StWriteKept
<1>2. CASE TidyMove
  <2>1. UNCHANGED stateWorker /\ Kubernetes
    BY <1>2 DEF TidyMove, workers
  <2>2. Admits(k)' /\ states'[k].live => Admits(k) /\ states[k].live
    BY <1>b, <2>1, TidyEnds DEF StateGoesOn
  <2>3. ASSUME NEW i \in Items, instances'[k][i].live # instances[k][i].live
        PROVE  ~instances'[k][i].live /\ (Admits(k)' => ~states'[k].live)
    <3>1. /\ ~instances'[k][i].live /\ UNCHANGED <<namespaces, states>>
          /\ namespaces[k].obj.terminating \/ OrphanInstance(k, i)
      BY <1>b, <2>1, <2>3, TidyDeletes
    <3>2. ASSUME Admits(k), states[k].live PROVE FALSE
      BY <1>b, <3>1, <3>2, NotOrphan DEF Admits, OrphanInstance
    <3> QED BY <2>2, <3>1, <3>2
  <2> QED BY <2>1, <2>2, <2>3, StWriteKept
<1>3. CASE ManagerMove
  <2>1. UNCHANGED <<namespaces, states, instances>>
    BY <1>3 DEF ManagerMove, stored
  <2>2. CASE UNCHANGED stateWorker
    BY <2>1, <2>2, StWriteKept DEF Admits
  <2> QED BY <1>3, <1>a, <2>2 DEF ManagerMove, StWriteOK
<1>4. CASE NsMove
  <2>1. UNCHANGED <<namespaces, instances, stateWorker>> /\ NsReconcile
    BY <1>4 DEF NsMove
  <2>2. ASSUME stateWorker.pc = "write", Admits(k)', states'[k].live, ~states[k].live
        PROVE  FALSE
    <3>1. states[k].uid < states'[k].uid /\ states'[k].uid \in Nat
      BY <1>b, <2>1, <2>2, NsStateGoesOn DEF StateGoesOn
    <3>2. states'[k].uid <= 1
      BY <1>b, <2>1, <2>2 DEF UsedOnce, Admits
    <3> QED BY <1>b, <1>c, <2>2, <3>1, <3>2
  <2> QED BY <2>1, <2>2, StWriteKept DEF Admits
<1>5. CASE StMove
  <2>1. UNCHANGED namespaces /\ StReconcile
    BY <1>5 DEF StMove
  <2>2. ASSUME NEW n \in Namespaces, StGetState(n)
        PROVE  StWriteOK'
    BY <1>a, <2>2 DEF StGetState, StWriteOK
  <2>3. CASE StGetClass
    BY <2>3 DEF StGetClass, StWriteOK
  <2>4. CASE StListInstances
    <3> DEFINE seen == instCache[k]
    <3>1. /\ stateWorker' = [pc |-> "write", key |-> k, state |-> w,
                             todo |-> stateWorker.todo,
                             extra |-> LeftOver(seen, stateWorker.todo), seen |-> seen]
          /\ stateWorker.pc = "list" /\ UNCHANGED <<states, instances>>
      BY <2>4 DEF StListInstances
    <3>2. stateWorker.todo = Wanted /\ Wanted' = Wanted
      BY <3>1 DEF StateWorkerOK, Wanted, TargetClass
    <3>3. InstanceLag \/ instances'[k] = seen
      BY <2>4, <3>1 DEF StListInstances
    <3> HIDE DEF seen
    <3> QED BY <3>1, <3>2, <3>3 DEF StWriteOK, LeftOver
  <2>5. ASSUME NEW j \in Items,
               StAnnotateInstance(j) \/ StCreateInstance(j) \/ StDeleteInstance(j)
        PROVE  StWriteOK'
    BY <2>1, <2>5, StWritesOn
  <2>6. CASE stateWorker' = StIdle
    BY <1>a, <2>6 DEF StWriteOK
  <2> QED
    BY <2>1, <2>2, <2>3, <2>4, <2>5, <2>6
    DEF StReconcile, StCommit, StNothingToCommit, StRejected, StReturn, StRequeue
<1> QED BY <1>1, <1>2, <1>3, <1>4, <1>5, SwitchMoves

LEMMA SwitchInvInit == Init => SwitchInv
BY LivesInvInit, IdleTypes DEF SwitchInv, Init, StWriteOK

LEMMA SwitchInvNext ==
    SwitchInv /\ UsedOnce /\ UsedOnce' /\ [Next]_vars => SwitchInv'
<1> SUFFICES ASSUME SwitchInv, UsedOnce, UsedOnce', [Next]_vars PROVE SwitchInv'
  OBVIOUS
<1>1. LivesInv'
  BY LivesInvNext DEF SwitchInv
<1> QED BY <1>1, StWriteNext DEF SwitchInv, LivesInv, CopiesSound

-----------------------------------------------------------------------------
(***************************************************************************)
(* Every step is one of ClassSwitch, or shows nothing                      *)
(***************************************************************************)
\* What ClassSwitch sees of a namespace.
LEMMA Seen ==
    /\ \A n \in Namespaces : /\ Open[n] <=> Admits(n)
                             /\ Assigned[n] = states[n].obj.class
                             /\ Requested[n] = states[n].obj.pending
                             /\ InstalledItems[n] = Installed(n)
    /\ DOMAIN Open = Namespaces /\ DOMAIN Assigned = Namespaces
    /\ DOMAIN Requested = Namespaces /\ DOMAIN InstalledItems = Namespaces
BY DEF Open, Assigned, Requested, InstalledItems, Admits

LEMMA OpenSame ==
    ASSUME \A n \in Namespaces : Admits(n)' <=> Admits(n)
    PROVE  UNCHANGED Open
BY DEF Open, Admits

LEMMA InstalledSame ==
    ASSUME \A n \in Namespaces, i \in Items : instances'[n][i].live <=> instances[n][i].live
    PROVE  UNCHANGED InstalledItems
BY DEF InstalledItems, Installed

LEMMA OpenFlips ==
    ASSUME NEW m \in Namespaces, Admits(m)' <=> ~Admits(m),
           \A n \in Namespaces \ {m} : namespaces'[n] = namespaces[n],
           UNCHANGED <<states, instances>>
    PROVE  Switching!OpenOrClose(m)
<1> DEFINE now(n)  == namespaces[n].live /\ ~namespaces[n].obj.terminating
           next(n) == namespaces'[n].live /\ ~namespaces'[n].obj.terminating
<1>2. \A n \in Namespaces \ {m} : next(n) = now(n)
  OBVIOUS
<1>3. next(m) = ~now(m)
  BY DEF Admits
<1>4. Open = [n \in Namespaces |-> now(n)] /\ Open' = [n \in Namespaces |-> next(n)]
  BY DEF Open
<1> HIDE DEF now, next
<1>1. Open' = [Open EXCEPT ![m] = ~@]
  BY <1>2, <1>3, <1>4
<1> QED BY <1>1 DEF Switching!OpenOrClose, Assigned, Requested, InstalledItems, Installed

LEMMA InstallStep ==
    ASSUME TypeOK, NEW m \in Namespaces, NEW j \in Items, NEW new, new.live,
           instances' = [instances EXCEPT ![m][j] = new],
           Admits(m), Switching!Steady(m) => j \in ItemsOf(Assigned[m]),
           UNCHANGED <<namespaces, states>>
    PROVE  Switching!Install(m, j)
<1>1. Installed(m)' = Installed(m) \cup {j}
  BY DEF Installed, TypeOK, InstancesTypeOK
<1>2. \A n \in Namespaces \ {m} : Installed(n)' = Installed(n)
  BY DEF Installed, TypeOK, InstancesTypeOK
<1>3. InstalledItems' = [InstalledItems EXCEPT ![m] = @ \cup {j}]
  BY <1>1, <1>2 DEF InstalledItems
<1> QED BY <1>3, Seen DEF Switching!Install, Open, Assigned, Requested

LEMMA UninstallStep ==
    ASSUME TypeOK, NEW m \in Namespaces, NEW j \in Items, NEW new, ~new.live,
           instances' = [instances EXCEPT ![m][j] = new],
           Switching!Steady(m) => j \notin ItemsOf(Assigned[m]),
           UNCHANGED <<namespaces, states>>
    PROVE  Switching!Uninstall(m, j)
<1>1. Installed(m)' = Installed(m) \ {j}
  BY DEF Installed, TypeOK, InstancesTypeOK
<1>2. \A n \in Namespaces \ {m} : Installed(n)' = Installed(n)
  BY DEF Installed, TypeOK, InstancesTypeOK
<1>3. InstalledItems' = [InstalledItems EXCEPT ![m] = @ \ {j}]
  BY <1>1, <1>2 DEF InstalledItems
<1> QED BY <1>3 DEF Switching!Uninstall, Open, Assigned, Requested

\* A write to one NamespaceState.
LEMMA StateStepSeen ==
    ASSUME TypeOK, NEW m \in Namespaces, NEW new, states' = [states EXCEPT ![m] = new],
           UNCHANGED <<namespaces, instances>>
    PROVE  /\ Assigned' = [Assigned EXCEPT ![m] = new.obj.class]
           /\ Requested' = [Requested EXCEPT ![m] = new.obj.pending]
           /\ UNCHANGED <<Open, InstalledItems>>
BY DEF TypeOK, StatesTypeOK, Assigned, Requested, Open, InstalledItems, Installed

\* In a steady namespace there is a NamespaceState that nothing is pending in.
LEMMA SteadyMeans ==
    ASSUME LivesOK, NEW m \in Namespaces, Switching!Steady(m)
    PROVE  /\ Admits(m) /\ states[m].live /\ states[m].obj.pending = NoClass
           /\ Assigned[m] = states[m].obj.class
BY Seen DEF Switching!Steady, LivesOK, NoState

LEMMA Stutters ==
    ASSUME \A n \in Namespaces : Admits(n)' <=> Admits(n), UNCHANGED <<states, instances>>
    PROVE  UNCHANGED Switching!switchVars
BY OpenSame DEF Switching!switchVars, Assigned, Requested, InstalledItems, Installed

\* Of ClassSwitch, a step that nothing is seen of counts as one.
Refined == Switching!Next \/ UNCHANGED Switching!switchVars

LEMMA UserRefined ==
    ASSUME SwitchInv, UserMove
    PROVE  Refined
<1> USE DEF SwitchInv, LivesInv, CopiesSound
<1>1. PICK m \in Namespaces :
         /\ NamespaceGoesOn(m)
         /\ namespaces' = [namespaces EXCEPT ![m] = namespaces'[m]]
  BY UserWrites
<1>2. /\ UNCHANGED <<states, instances>>
      /\ \A n \in Namespaces \ {m} : namespaces'[n] = namespaces[n]
  BY <1>1 DEF UserMove, NamespaceGoesOn
<1>3. CASE Admits(m)' <=> Admits(m)
  <2>1. \A n \in Namespaces : Admits(n)' <=> Admits(n)
    BY <1>2, <1>3 DEF Admits
  <2> QED BY <1>2, <2>1, Stutters DEF Refined
<1>4. CASE Admits(m)' <=> ~Admits(m)
  BY <1>2, <1>4, OpenFlips DEF Refined, Switching!Next
<1> QED BY <1>3, <1>4

LEMMA TidyRefined ==
    ASSUME SwitchInv, UsedOnce, TidyMove
    PROVE  Refined
<1> USE DEF SwitchInv, LivesInv, CopiesSound
<1>1. ASSUME NEW m \in Namespaces, RemoveNamespace(m)
      PROVE  Refined
  <2>1. NamespaceGoesOn(m) /\ ~Admits(m) /\ ~Admits(m)'
    BY <1>1, NamespaceRemoved
  <2>2. \A n \in Namespaces : Admits(n)' <=> Admits(n)
    BY <2>1 DEF NamespaceGoesOn, Admits
  <2> QED BY <1>1, <2>2, Stutters DEF Refined, RemoveNamespace
<1>2. ASSUME NEW m \in Namespaces, CollectState(m)
      PROVE  Refined
  <2> DEFINE new == Deleted(states[m], NoState)
  <2>1. /\ states' = [states EXCEPT ![m] = new] /\ UNCHANGED <<namespaces, instances>>
        /\ states[m].live
    BY <1>2 DEF CollectState, OrphanState
  <2>2. new.obj.class = NoClass /\ new.obj.pending = NoClass
    BY DEF Deleted, NoState
  <2>3. Assigned[m] # NoClass
    BY <2>1, Seen, NoClassAssumption DEF TypeOK, StatesTypeOK, NamesClass
  <2> HIDE DEF new
  <2>4. /\ Assigned' = [Assigned EXCEPT ![m] = NoClass]
        /\ Requested' = [Requested EXCEPT ![m] = NoClass]
        /\ UNCHANGED <<Open, InstalledItems>>
    <3>1. /\ Assigned' = [Assigned EXCEPT ![m] = new.obj.class]
          /\ Requested' = [Requested EXCEPT ![m] = new.obj.pending]
          /\ UNCHANGED <<Open, InstalledItems>>
      BY <2>1, StateStepSeen
    <3> QED BY <2>2, <3>1
  <2>5. Switching!Release(m)
    BY <2>3, <2>4 DEF Switching!Release
  <2> QED BY <2>5 DEF Refined, Switching!Next
<1>3. ASSUME NEW m \in Namespaces, NEW j \in Items,
             PurgeInstance(m, j) \/ CollectInstance(m, j)
      PROVE  Refined
  <2> DEFINE new == Deleted(instances[m][j], NoInstance)
  <2>1. /\ instances' = [instances EXCEPT ![m][j] = new]
        /\ UNCHANGED <<namespaces, states>>
        /\ namespaces[m].obj.terminating \/ OrphanInstance(m, j)
    BY <1>3 DEF PurgeInstance, CollectInstance
  <2>2. ~new.live
    BY DEF Deleted
  <2>3. ~Switching!Steady(m)
    BY <2>1, SteadyMeans, NotOrphan DEF Admits, OrphanInstance
  <2> HIDE DEF new
  <2>4. Switching!Uninstall(m, j)
    BY <2>1, <2>2, <2>3, UninstallStep
  <2> QED BY <2>4 DEF Refined, Switching!Next
<1> QED BY <1>1, <1>2, <1>3 DEF TidyMove, Kubernetes

LEMMA NsRefined ==
    ASSUME SwitchInv, NsMove
    PROVE  Refined
<1> DEFINE k == nsWorker.key
           label == nsWorker.ns.obj.label
<1> USE DEF SwitchInv, LivesInv, CopiesSound
<1>a. k \in Namespaces /\ states[k] \in Slot(NamespaceState)
  BY Typed
<1>b. UNCHANGED <<namespaces, instances>> /\ NsReconcile
  BY DEF NsMove
<1>1. CASE NsDeleteState
  <2> DEFINE new == Deleted(states[k], NoState)
  <2>1. states' = [states EXCEPT ![k] = new] /\ states[k].live
    BY <1>1 DEF NsDeleteState
  <2>2. new.obj.class = NoClass /\ new.obj.pending = NoClass
    BY DEF Deleted, NoState
  <2>3. Assigned[k] # NoClass
    BY <1>a, <2>1, Seen, NoClassAssumption DEF TypeOK, StatesTypeOK, NamesClass
  <2> HIDE DEF new
  <2>4. /\ Assigned' = [Assigned EXCEPT ![k] = NoClass]
        /\ Requested' = [Requested EXCEPT ![k] = NoClass]
        /\ UNCHANGED <<Open, InstalledItems>>
    <3>1. /\ Assigned' = [Assigned EXCEPT ![k] = new.obj.class]
          /\ Requested' = [Requested EXCEPT ![k] = new.obj.pending]
          /\ UNCHANGED <<Open, InstalledItems>>
      BY <1>a, <1>b, <2>1, StateStepSeen
    <3> QED BY <2>2, <3>1
  <2>5. Switching!Release(k)
    BY <2>3, <2>4 DEF Switching!Release
  <2> QED BY <1>a, <2>5 DEF Refined, Switching!Next
<1>2. CASE NsMarkPending
  <2> DEFINE marked == WithPending(nsWorker.state.obj, label)
             new == Updated(states[k], marked)
  <2>1. /\ states' = [states EXCEPT ![k] = new]
        /\ nsWorker.pc = "markPending" /\ states[k].rv = nsWorker.state.rv
        /\ states[k].live /\ label \in Classes
    BY <1>2 DEF NsMarkPending, SameVersion, TypeOK
  <2>2. nsWorker.state = states[k]
    BY <2>1 DEF NsWorkerOK, Fresh
  <2>3. marked.class = states[k].obj.class /\ marked.pending = label
    BY <1>a, <2>2 DEF WithPending, Slot, NamespaceState
  <2>4. new.obj = marked
    BY DEF Updated
  <2>5. Assigned[k] \notin {NoClass, label}
    BY <1>a, <2>1, <2>2, Seen, NoClassAssumption
    DEF TypeOK, StatesTypeOK, NamesClass, NsCallOK
  <2> HIDE DEF new, marked
  <2>6. /\ Assigned' = [Assigned EXCEPT ![k] = states[k].obj.class]
        /\ Requested' = [Requested EXCEPT ![k] = label]
        /\ UNCHANGED <<Open, InstalledItems>>
    <3>1. /\ Assigned' = [Assigned EXCEPT ![k] = new.obj.class]
          /\ Requested' = [Requested EXCEPT ![k] = new.obj.pending]
          /\ UNCHANGED <<Open, InstalledItems>>
      BY <1>a, <1>b, <2>1, StateStepSeen
    <3> QED BY <2>3, <2>4, <3>1
  <2>7. Assigned' = Assigned
    BY <1>a, <2>6 DEF Assigned
  <2>8. Switching!Request(k, label)
    BY <2>5, <2>6, <2>7 DEF Switching!Request
  <2> QED BY <1>a, <2>1, <2>8 DEF Refined, Switching!Next
<1>3. CASE NsCreateState
  <2> DEFINE new == Created(states[k], NewState(nsWorker.ns))
  <2>1. /\ states' = [states EXCEPT ![k] = new]
        /\ ~states[k].live /\ label \in Classes
    BY <1>3 DEF NsCreateState, TypeOK
  <2>2. new.obj.class = label /\ new.obj.pending = NoClass
    BY DEF Created, NewState
  <2>3. Assigned[k] = NoClass /\ Requested[k] = NoClass
    BY <1>a, <2>1, Seen DEF LivesOK, NoState
  <2> HIDE DEF new
  <2>4. /\ Assigned' = [Assigned EXCEPT ![k] = label]
        /\ Requested' = [Requested EXCEPT ![k] = NoClass]
        /\ UNCHANGED <<Open, InstalledItems>>
    <3>1. /\ Assigned' = [Assigned EXCEPT ![k] = new.obj.class]
          /\ Requested' = [Requested EXCEPT ![k] = new.obj.pending]
          /\ UNCHANGED <<Open, InstalledItems>>
      BY <1>a, <1>b, <2>1, StateStepSeen
    <3> QED BY <2>2, <3>1
  <2>5. Requested' = Requested
    BY <1>a, <2>3, <2>4 DEF Requested
  <2>6. Switching!Assign(k, label)
    BY <2>3, <2>4, <2>5 DEF Switching!Assign
  <2> QED BY <1>a, <2>1, <2>6 DEF Refined, Switching!Next
<1>4. CASE UNCHANGED states
  BY <1>4, <1>b, Stutters DEF Refined, Admits
<1> QED
  BY <1>b, <1>1, <1>2, <1>3, <1>4 DEF NsReconcile, NsGetNamespace, NsGetState, NsRejected

\* Of the instances of its class, a reconciler deletes none.
LEMMA DeletesOthers ==
    ASSUME SwitchInv, UsedOnce, NEW j \in Items, StDeleteInstance(j),
           Switching!Steady(stateWorker.key)
    PROVE  j \notin ItemsOf(Assigned[stateWorker.key])
<1> DEFINE k == stateWorker.key
           w == stateWorker.state
<1> USE DEF SwitchInv, LivesInv, CopiesSound
<1>1. k \in Namespaces /\ w.uid \in Nat /\ states[k].uid \in Nat
  BY Typed
<1>2. stateWorker.pc = "write" /\ j \in stateWorker.extra
  BY DEF StDeleteInstance
<1>3. /\ Admits(k) /\ states[k].live /\ states[k].obj.pending = NoClass
      /\ Assigned[k] = states[k].obj.class
  BY <1>1, SteadyMeans
<1>4. w.uid = states[k].uid
  BY <1>1, <1>2, <1>3 DEF StCopyOK, StateWorkerOK, Fresh, UsedOnce
<1>5. TargetClass(w) = states[k].obj.class
  BY <1>2, <1>3, <1>4 DEF StateWorkerOK, AimsRight, TypeOK
<1> QED BY <1>2, <1>3, <1>5 DEF StateWorkerOK

\* Of the instances of other classes, it creates none.
LEMMA CreatesWanted ==
    ASSUME SwitchInv, UsedOnce, NEW j \in Items, StCreateInstance(j),
           Switching!Steady(stateWorker.key)
    PROVE  j \in ItemsOf(Assigned[stateWorker.key])
<1> DEFINE k == stateWorker.key
           w == stateWorker.state
<1> USE DEF SwitchInv, LivesInv, CopiesSound
<1>1. k \in Namespaces /\ w.uid \in Nat /\ states[k].uid \in Nat
  BY Typed
<1>2. stateWorker.pc = "write" /\ j \in stateWorker.todo
  BY DEF StCreateInstance
<1>3. /\ Admits(k) /\ states[k].live /\ states[k].obj.pending = NoClass
      /\ Assigned[k] = states[k].obj.class
  BY <1>1, SteadyMeans
<1>4. w.uid = states[k].uid
  BY <1>1, <1>2, <1>3 DEF StCopyOK, StateWorkerOK, Fresh, UsedOnce
<1>5. TargetClass(w) = states[k].obj.class
  BY <1>2, <1>3, <1>4 DEF StateWorkerOK, AimsRight, TypeOK
<1> QED BY <1>2, <1>3, <1>5 DEF StWriteOK, Wanted

\* Whoever commits has the stored version, and has seen to every instance of the list.
LEMMA CommitMeans ==
    ASSUME SwitchInv, StCommit
    PROVE  /\ stateWorker.state = states[stateWorker.key] /\ states[stateWorker.key].live
           /\ Admits(stateWorker.key) =>
                 /\ HasItems(stateWorker.key, Wanted)
                 /\ \A i \in Installed(stateWorker.key) \ Wanted :
                       InstanceLag /\ ~stateWorker.seen[i].live
<1> DEFINE k == stateWorker.key
<1> USE DEF SwitchInv, LivesInv, CopiesSound
<1>1. /\ stateWorker.pc = "write" /\ stateWorker.todo = {} /\ stateWorker.extra = {}
      /\ states[k].live /\ states[k].rv = stateWorker.state.rv
  BY DEF StCommit, StInstancesDone, SameVersion
<1>2. stateWorker.state = states[k]
  BY <1>1 DEF StateWorkerOK, Fresh
<1>3. Wanted \subseteq Items
  BY <1>1, Typed, TargetType, ItemsType DEF TypeOK, Wanted
<1>4. Admits(k) => Wanted \subseteq Installed(k)
  BY <1>1, <1>3 DEF StWriteOK, Installed
<1>5. \A i \in Installed(k) \ Wanted : InstanceLag /\ ~stateWorker.seen[i].live
  BY <1>1 DEF StWriteOK, Installed
<1> QED BY <1>1, <1>2, <1>4, <1>5 DEF HasItems

LEMMA StRefined ==
    ASSUME SwitchInv, UsedOnce, StMove
    PROVE  Refined
<1> DEFINE k == stateWorker.key
           w == stateWorker.state
<1> USE DEF SwitchInv, LivesInv, CopiesSound
<1>a. k \in Namespaces /\ states[k] \in Slot(NamespaceState)
  BY Typed
<1>b. UNCHANGED namespaces /\ StReconcile
  BY DEF StMove
<1>1. ASSUME NEW j \in Items, StAnnotateInstance(j)
      PROVE  Refined
  <2> DEFINE new == Updated(instances[k][j], Touched(stateWorker.seen[j].obj))
  <2>1. /\ instances' = [instances EXCEPT ![k][j] = new]
        /\ instances[k][j].live /\ UNCHANGED states
    BY <1>1 DEF StAnnotateInstance, SameVersion
  <2>2. new.live
    BY <2>1 DEF Updated
  <2> HIDE DEF new
  <2>3. \A n \in Namespaces, i \in Items : instances'[n][i].live <=> instances[n][i].live
    BY <1>a, <2>1, <2>2 DEF TypeOK, InstancesTypeOK
  <2> QED
    BY <1>b, <2>1, <2>3, InstalledSame, OpenSame
    DEF Refined, Switching!switchVars, Assigned, Requested, Admits
<1>2. ASSUME NEW j \in Items, StCreateInstance(j)
      PROVE  Refined
  <2> DEFINE new == Created(instances[k][j], NewInstance(w))
  <2>1. /\ instances' = [instances EXCEPT ![k][j] = new]
        /\ Admits(k) /\ UNCHANGED states
    BY <1>2 DEF StCreateInstance
  <2>2. new.live
    BY DEF Created
  <2>3. Switching!Steady(k) => j \in ItemsOf(Assigned[k])
    BY <1>2, CreatesWanted
  <2> HIDE DEF new
  <2>4. Switching!Install(k, j)
    BY <1>a, <1>b, <2>1, <2>2, <2>3, InstallStep
  <2> QED BY <1>a, <2>4 DEF Refined, Switching!Next
<1>3. ASSUME NEW j \in Items, StDeleteInstance(j)
      PROVE  Refined
  <2> DEFINE new == Deleted(instances[k][j], NoInstance)
  <2>1. instances' = [instances EXCEPT ![k][j] = new] /\ UNCHANGED states
    BY <1>3 DEF StDeleteInstance
  <2>2. ~new.live
    BY DEF Deleted
  <2>3. Switching!Steady(k) => j \notin ItemsOf(Assigned[k])
    BY <1>3, DeletesOthers
  <2> HIDE DEF new
  <2>4. Switching!Uninstall(k, j)
    BY <1>a, <1>b, <2>1, <2>2, <2>3, UninstallStep
  <2> QED BY <1>a, <2>4 DEF Refined, Switching!Next
<1>4. CASE StCommit
  <2> DEFINE new == Updated(states[k], Committed(w))
  <2>1. states' = [states EXCEPT ![k] = new] /\ UNCHANGED instances
    BY <1>4 DEF StCommit
  <2>2. w = states[k] /\ (Admits(k) => HasItems(k, Wanted))
    BY <1>4, CommitMeans
  <2>3. new.obj.class = TargetClass(states[k]) /\ new.obj.pending = NoClass
    BY <2>2 DEF Updated, Committed
  <2> HIDE DEF new
  <2>4. /\ Assigned' = [Assigned EXCEPT ![k] = TargetClass(states[k])]
        /\ Requested' = [Requested EXCEPT ![k] = NoClass]
        /\ UNCHANGED <<Open, InstalledItems>>
    BY <1>a, <1>b, <2>1, <2>3, StateStepSeen
  <2>5. CASE states[k].obj.pending = NoClass
    <3>1. TargetClass(states[k]) = Assigned[k] /\ Requested[k] = NoClass
      BY <1>a, <2>5, Seen DEF TargetClass
    <3>2. Assigned' = Assigned /\ Requested' = Requested
      BY <1>a, <2>4, <3>1, Seen DEF Assigned, Requested
    <3> QED BY <2>4, <3>2 DEF Refined, Switching!switchVars
  <2>6. CASE states[k].obj.pending # NoClass
    <3>1. TargetClass(states[k]) = Requested[k] /\ Requested[k] # NoClass
      BY <1>a, <2>6, Seen DEF TargetClass
    <3>2. Open[k] => /\ ItemsOf(Requested[k]) \subseteq InstalledItems[k]
                     /\ ~InstanceLag => InstalledItems[k] \subseteq ItemsOf(Requested[k])
      BY <1>a, <2>2, <3>1, Seen DEF Wanted, HasItems
    <3>3. Switching!Switch(k)
      BY <2>4, <3>1, <3>2 DEF Switching!Switch
    <3> QED BY <1>a, <3>3 DEF Refined, Switching!Next
  <2> QED BY <2>5, <2>6
<1>5. CASE UNCHANGED <<states, instances>>
  BY <1>5, <1>b, Stutters DEF Refined, Admits
<1> QED
  BY <1>b, <1>1, <1>2, <1>3, <1>4, <1>5
  DEF StReconcile, StGetState, StGetClass, StListInstances, StNothingToCommit, StRejected

LEMMA RefinedNext ==
    SwitchInv /\ UsedOnce /\ [Next]_vars => [Switching!Next]_(Switching!switchVars)
<1> SUFFICES ASSUME SwitchInv, UsedOnce, [Next]_vars PROVE Refined
  BY DEF Refined
<1>1. CASE ManagerMove
  BY <1>1, Stutters DEF ManagerMove, stored, Refined, Admits
<1> QED
  BY <1>1, UserRefined, TidyRefined, NsRefined, StRefined, SwitchMoves
  DEF SwitchInv, LivesInv, CopiesSound

LEMMA RefinedInit == Init => Switching!Init
<1> SUFFICES ASSUME Init PROVE Switching!Init
  OBVIOUS
<1>1. /\ namespaces = [n \in Namespaces |-> Vacant(NoNamespace)]
      /\ states = [n \in Namespaces |-> Vacant(NoState)]
      /\ instances = [n \in Namespaces |-> [i \in Items |-> Vacant(NoInstance)]]
  BY DEF Init, NamespacesInit, StatesInit, InstancesInit
<1>2. Open = [n \in Namespaces |-> FALSE]
  BY <1>1 DEF Open, Vacant
<1>3. Assigned = [n \in Namespaces |-> NoClass] /\ Requested = [n \in Namespaces |-> NoClass]
  BY <1>1 DEF Assigned, Requested, Vacant, NoState
<1>4. InstalledItems = [n \in Namespaces |-> {}]
  BY <1>1 DEF InstalledItems, Installed, Vacant
<1> QED BY <1>2, <1>3, <1>4 DEF Switching!Init

\* As long as no name is used twice, every step of users, Kubernetes and the manager
\* is a step of ClassSwitch or shows nothing of it: for any number of namespaces,
\* classes and items, any changes of label, any age of the copies of NamespaceStates and
\* of the lists of instances, any failed calls and restarts
\* (namespace_controller.go:60-144, namespacestate_controller.go:49-153).
THEOREM OnceRefines ==
    Spec /\ []UsedOnce => SwitchesSafely
<1>1. SwitchInv /\ UsedOnce /\ UsedOnce' /\ [Next]_vars => SwitchInv'
  BY SwitchInvNext
<1>2. SwitchInv /\ UsedOnce /\ [Next]_vars => [Switching!Next]_(Switching!switchVars)
  BY RefinedNext
<1> QED
  BY <1>1, <1>2, SwitchInvInit, RefinedInit, PTL DEF Spec, SwitchesSafely, Switching!SafeSpec

\* The part of CommitInstalls one step of Next has to respect.
CommitStep ==
    \A n \in Namespaces :
        /\ states[n].live /\ states'[n].live
        /\ states'[n].obj.class # states[n].obj.class
        /\ namespaces[n].live /\ ~namespaces[n].obj.terminating
        => /\ ItemsOf(states'[n].obj.class) \subseteq Installed(n)
           /\ \A i \in Installed(n) \ ItemsOf(states'[n].obj.class) :
                 InstanceLag /\ ~stateWorker.seen[i].live

LEMMA CommitNext ==
    ASSUME SwitchInv, [Next]_vars
    PROVE  CommitStep
<1> SUFFICES ASSUME NEW n \in Namespaces, states[n].live, states'[n].live,
                    states'[n].obj.class # states[n].obj.class, Admits(n)
             PROVE  /\ ItemsOf(states'[n].obj.class) \subseteq Installed(n)
                    /\ \A i \in Installed(n) \ ItemsOf(states'[n].obj.class) :
                          InstanceLag /\ ~stateWorker.seen[i].live
  BY DEF CommitStep, Admits
<1>1. /\ StCommit /\ n = stateWorker.key
      /\ states'[n].obj.class = states[n].obj.pending
  BY OnlyCommitSwitches DEF SwitchInv, LivesInv
<1>2. states[n].obj.pending # NoClass => Wanted = ItemsOf(states[n].obj.pending)
  BY <1>1, CommitMeans DEF Wanted, TargetClass
<1>3. states[n].obj.pending # NoClass
  <2>1. states[n] \in Slot(NamespaceState) /\ TypeOK'
    BY Typed, SoundNext DEF SwitchInv, LivesInv, CopiesSound
  <2> QED BY <1>1, <2>1, NoClassAssumption DEF TypeOK, StatesTypeOK, NamesClass
<1> QED BY <1>1, <1>2, <1>3, CommitMeans DEF HasItems

\* Under the same conditions, a pending class is committed only when the namespace,
\* unless it is being deleted, has all the instances of that class and no other that the
\* reconciler's list showed (namespacestate_controller.go:91-153).
THEOREM OnceCommitInstalls ==
    Spec /\ []UsedOnce => CommitInstalls
<1>1. SwitchInv /\ UsedOnce /\ UsedOnce' /\ [Next]_vars => SwitchInv'
  BY SwitchInvNext
<1>2. SwitchInv /\ [Next]_vars => [CommitStep]_vars
  BY CommitNext
<1> QED
  BY <1>1, <1>2, SwitchInvInit, PTL DEF Spec, CommitInstalls, CommitStep

-----------------------------------------------------------------------------
(***************************************************************************)
(* What becomes of a namespace and of its NamespaceState, where a deleted  *)
(* namespace does not come back under its name                             *)
(***************************************************************************)
\* The first namespace of its name is the only one, and owns the NamespaceState.
FirstOnly ==
    \A n \in Namespaces :
        namespaces[n].uid <= 1 /\ (states[n].live => states[n].obj.owner = 1)

Label(n) == namespaces[n].obj.label

\* A namespace is made, changed or removed, once.
NameTurn(n) ==
    LET old == namespaces[n]
        new == namespaces'[n]
    IN  \/ new = old
        \/ old.uid = 0 /\ new.uid = 1 /\ old.rv < new.rv /\ states[n].uid = 0
        \/ /\ new.uid = old.uid /\ old.rv < new.rv
           /\ \/ /\ old.live /\ new.live /\ (Admits(n)' => Admits(n))
                 /\ new.obj.label \in Labels
                 /\ \/ new.obj.label = old.obj.label
                    \/ <<old.obj.label, new.obj.label>> \in LabelMoves
              \/ ~Admits(n) /\ ~new.live /\ new.obj.label = NoClass

LEMMA NameTurns ==
    ASSUME MaxLives = 1, LivesInv, FirstOnly, UserMove \/ TidyMove
    PROVE  \A n \in Namespaces : NameTurn(n)
<1> USE DEF LivesInv, CopiesSound
<1>1. ASSUME NEW m \in Namespaces, NEW new, namespaces' = [namespaces EXCEPT ![m] = new]
      PROVE  /\ namespaces'[m] = new
             /\ \A n \in Namespaces \ {m} : NameTurn(n)
  BY <1>1 DEF TypeOK, NamespacesTypeOK, NameTurn
<1>2. \A n \in Namespaces :
         /\ namespaces[n].uid \in Nat /\ namespaces[n].rv \in Nat /\ states[n].uid \in Nat
         /\ namespaces[n].obj \in Namespace
  BY Typed DEF Slot
<1>3. ASSUME NEW m \in Namespaces, NEW label \in Labels, CreateNamespace(m, label)
      PROVE  \A n \in Namespaces : NameTurn(n)
  <2> DEFINE new == Created(namespaces[m], [terminating |-> FALSE, label |-> label])
  <2>1. namespaces' = [namespaces EXCEPT ![m] = new] /\ namespaces[m].uid < 1
    BY <1>3 DEF CreateNamespace
  <2>2. namespaces[m].uid = 0 /\ states[m].uid = 0
    BY <1>2, <2>1 DEF LivesOK
  <2>3. new.uid = 1 /\ namespaces[m].rv < new.rv
    BY <1>2, <2>2 DEF Created
  <2> HIDE DEF new
  <2>4. NameTurn(m)
    BY <1>1, <2>1, <2>2, <2>3 DEF NameTurn
  <2> QED BY <1>1, <2>1, <2>4
<1>4. ASSUME NEW m \in Namespaces, NEW obj, namespaces[m].live,
             namespaces' = [namespaces EXCEPT ![m] = Updated(@, obj)],
             ~obj.terminating => ~namespaces[m].obj.terminating, obj.label \in Labels,
             obj.label = Label(m) \/ <<Label(m), obj.label>> \in LabelMoves
      PROVE  \A n \in Namespaces : NameTurn(n)
  <2> DEFINE new == Updated(namespaces[m], obj)
  <2>1. \/ new = namespaces[m]
        \/ /\ new.live /\ new.uid = namespaces[m].uid /\ namespaces[m].rv < new.rv
           /\ new.obj = obj
    BY <1>2 DEF Updated
  <2>2. namespaces'[m] = new
    BY <1>1, <1>4
  <2> HIDE DEF new
  <2>3. NameTurn(m)
    BY <1>2, <1>4, <2>1, <2>2 DEF NameTurn, Label, Admits
  <2> QED BY <1>1, <1>4, <2>3
<1>5. ASSUME NEW m \in Namespaces, NEW label \in Labels, Relabel(m, label)
      PROVE  \A n \in Namespaces : NameTurn(n)
  <2> DEFINE obj == [namespaces[m].obj EXCEPT !.label = label]
  <2>1. obj.label = label /\ obj.terminating = namespaces[m].obj.terminating
    BY <1>2 DEF Namespace
  <2>2. /\ namespaces' = [namespaces EXCEPT ![m] = Updated(@, obj)] /\ namespaces[m].live
        /\ <<Label(m), label>> \in LabelMoves
    BY <1>5 DEF Relabel, Label
  <2> HIDE DEF obj
  <2> QED BY <1>4, <2>1, <2>2
<1>6. ASSUME NEW m \in Namespaces, DeleteNamespace(m)
      PROVE  \A n \in Namespaces : NameTurn(n)
  <2> DEFINE obj == [namespaces[m].obj EXCEPT !.terminating = TRUE]
  <2>1. obj.label = Label(m) /\ obj.label \in Labels /\ obj.terminating
    BY <1>2 DEF Namespace, Label
  <2>2. namespaces' = [namespaces EXCEPT ![m] = Updated(@, obj)] /\ namespaces[m].live
    BY <1>6 DEF DeleteNamespace
  <2> HIDE DEF obj
  <2> QED BY <1>4, <2>1, <2>2
<1>7. ASSUME NEW m \in Namespaces, RemoveNamespace(m)
      PROVE  \A n \in Namespaces : NameTurn(n)
  <2> DEFINE new == Deleted(namespaces[m], NoNamespace)
  <2>1. namespaces' = [namespaces EXCEPT ![m] = new] /\ ~Admits(m)
    BY <1>7 DEF RemoveNamespace, Admits
  <2>2. /\ ~new.live /\ new.uid = namespaces[m].uid /\ namespaces[m].rv < new.rv
        /\ new.obj.label = NoClass
    BY <1>2 DEF Deleted, NoNamespace
  <2> HIDE DEF new
  <2>3. NameTurn(m)
    BY <1>1, <2>1, <2>2 DEF NameTurn
  <2> QED BY <1>1, <2>1, <2>3
<1>8. CASE UNCHANGED namespaces
  BY <1>8 DEF NameTurn
<1> QED
  BY <1>3, <1>5, <1>6, <1>7, <1>8
  DEF UserMove, Users, TidyMove, Kubernetes, CollectState, PurgeInstance, CollectInstance

\* Nobody but the reconciler of namespaces makes a NamespaceState, and nobody else ends
\* one while its namespace stands.
StateOutlives(n) ==
    /\ states'[n].uid = states[n].uid
    /\ states'[n].live => states[n].live /\ states'[n].obj.owner = states[n].obj.owner
    /\ states[n].live /\ ~states'[n].live => ~Admits(n) /\ ~Admits(n)'

LEMMA StatesOutlive ==
    ASSUME LivesInv, FirstOnly, UserMove \/ TidyMove \/ ManagerMove \/ StMove
    PROVE  \A n \in Namespaces : StateOutlives(n)
<1> USE DEF LivesInv, CopiesSound
<1>1. UNCHANGED states => \A n \in Namespaces : StateOutlives(n)
  BY DEF StateOutlives
<1>2. ASSUME NEW m \in Namespaces, CollectState(m)
      PROVE  \A n \in Namespaces : StateOutlives(n)
  <2> DEFINE new == Deleted(states[m], NoState)
  <2>1. /\ states' = [states EXCEPT ![m] = new] /\ UNCHANGED namespaces
        /\ states[m].live /\ ~Owns(namespaces[m], states[m])
    BY <1>2 DEF CollectState, OrphanState
  <2>2. ~new.live /\ new.uid = states[m].uid
    BY DEF Deleted
  <2> HIDE DEF new
  <2>3. states'[m] = new /\ \A n \in Namespaces \ {m} : states'[n] = states[n]
    BY <2>1 DEF TypeOK, StatesTypeOK
  <2>4. namespaces[m].live => namespaces[m].uid = 1
    BY Typed DEF LivesOK, Begun, FirstOnly
  <2>5. ~Admits(m) /\ ~Admits(m)'
    BY <2>1, <2>4 DEF Owns, FirstOnly, Admits
  <2> QED BY <2>2, <2>3, <2>5 DEF StateOutlives
<1>3. CASE StCommit
  <2> DEFINE k == stateWorker.key
             new == Updated(states[k], Committed(stateWorker.state))
  <2>1. /\ states' = [states EXCEPT ![k] = new] /\ k \in Namespaces
        /\ states[k].live /\ states[k].rv = stateWorker.state.rv
        /\ stateWorker.pc = "write"
    BY <1>3, Typed DEF StCommit, SameVersion, StInstancesDone
  <2>2. stateWorker.state = states[k]
    BY <2>1 DEF StateWorkerOK, Fresh
  <2>3. new.live /\ new.uid = states[k].uid /\ new.obj.owner = states[k].obj.owner
    BY <2>1, <2>2 DEF Updated, Committed
  <2> HIDE DEF new
  <2> QED BY <2>1, <2>3 DEF TypeOK, StatesTypeOK, StateOutlives
<1> QED
  BY <1>1, <1>2, <1>3
  DEF UserMove, TidyMove, Kubernetes, RemoveNamespace, PurgeInstance, CollectInstance, ManagerMove,
      stored, StMove, StReconcile, StGetState, StGetClass, StListInstances, StNothingToCommit,
      StRejected, StAnnotateInstance, StCreateInstance, StDeleteInstance

\* What everybody but the reconciler of namespaces does.
OthersMove ==
    /\ \A n \in Namespaces : NameTurn(n) /\ StateOutlives(n)
    /\ nsCache' = nsCache \/ (nsCache' = namespaces /\ UNCHANGED namespaces)
    /\ nsWorker' = nsWorker \/ nsWorker'.pc = "idle"

LEMMA OthersTurn ==
    ASSUME MaxLives = 1, LivesInv, FirstOnly, UserMove \/ TidyMove \/ ManagerMove \/ StMove
    PROVE  OthersMove
<1>1. ASSUME UNCHANGED namespaces PROVE \A n \in Namespaces : NameTurn(n)
  BY <1>1 DEF NameTurn
<1>2. CASE UserMove \/ TidyMove
  BY <1>2, NameTurns, StatesOutlive DEF UserMove, TidyMove, caches, workers, OthersMove
<1>3. CASE ManagerMove
  BY <1>1, <1>3, StatesOutlive, IdleTypes DEF ManagerMove, stored, OthersMove
<1>4. CASE StMove
  BY <1>1, <1>4, StatesOutlive DEF StMove, caches, OthersMove
<1> QED BY <1>2, <1>3, <1>4

\* A namespace stays one of a kind, and stands only if it did, or is new.
LEMMA NameGoesOn ==
    ASSUME LivesInv, FirstOnly, OthersMove, NEW n \in Namespaces
    PROVE  /\ namespaces'[n].uid <= 1
           /\ Admits(n)' => Admits(n) \/ states'[n].uid = 0
           /\ states'[n].live => states'[n].obj.owner = 1
<1>1. /\ namespaces[n].uid \in Nat /\ states'[n].uid = states[n].uid
      /\ NameTurn(n) /\ StateOutlives(n)
  BY Typed DEF LivesInv, CopiesSound, OthersMove, StateOutlives
<1>2. namespaces[n].uid <= 1 /\ (states[n].live => states[n].obj.owner = 1)
  BY DEF FirstOnly
<1> QED BY <1>1, <1>2 DEF NameTurn, StateOutlives, Admits

-----------------------------------------------------------------------------
(***************************************************************************)
(* No name is used twice, where a label that is removed is not put back    *)
(***************************************************************************)
\* A namespace that is deleted does not come back under its name, and a label that is
\* removed is not put back.
LabelsLeave ==
    /\ MaxLives = 1
    /\ \A c \in Classes : <<NoClass, c>> \notin LabelMoves

\* The namespace has been there, and has no label any more.
Left(slot) == slot.uid >= 1 /\ slot.obj.label = NoClass

\* The reconciler will not make another NamespaceState: it has seen the label gone.
SeenLeft(n) ==
    /\ Left(nsCache[n])
    /\ nsWorker.pc # "idle" /\ nsWorker.key = n => Left(nsWorker.ns)

\* Copies of a namespace that has left tell the truth, and only a namespace that has
\* left or is going away loses its NamespaceState.
OnceInv ==
    /\ FirstOnly
    /\ \A n \in Namespaces :
          /\ Left(nsCache[n]) => Left(namespaces[n])
          /\ states[n].uid >= 1 /\ ~states[n].live => ~Admits(n) \/ SeenLeft(n)
          /\ Admits(n) => states[n].uid <= 1
    /\ nsWorker.pc # "idle" /\ Left(nsWorker.ns) => Left(nsCache[nsWorker.key])
    /\ nsWorker.pc = "deleteState" => Left(nsWorker.ns)

LEMMA OnceOthers ==
    ASSUME LivesInv, OnceInv, LabelsLeave, OthersMove
    PROVE  OnceInv'
<1> USE DEF OnceInv
<1>1. \A n \in Namespaces : Left(namespaces[n]) => Left(namespaces'[n])
  BY ~(0 >= 1) DEF LabelsLeave, OthersMove, NameTurn, Left, Labels
<1>2. /\ \A n \in Namespaces : Left(nsCache[n]) => Left(nsCache'[n])
      /\ \A n \in Namespaces : Left(nsCache'[n]) => Left(namespaces'[n])
  BY <1>1 DEF OthersMove
<1>3. nsWorker.key \in Namespaces /\ (nsWorker' = nsWorker \/ nsWorker'.pc = "idle")
  BY Typed DEF LivesInv, CopiesSound, OthersMove
<1>4. \A n \in Namespaces : SeenLeft(n) => SeenLeft(n)'
  BY <1>2, <1>3 DEF SeenLeft
<1>5. FirstOnly'
  BY NameGoesOn DEF FirstOnly
<1>6. ASSUME NEW n \in Namespaces
      PROVE  /\ states'[n].uid >= 1 /\ ~states'[n].live => ~Admits(n)' \/ SeenLeft(n)'
             /\ Admits(n)' => states'[n].uid <= 1
  <2>1. Admits(n)' => Admits(n) \/ states'[n].uid = 0
    BY NameGoesOn
  <2>2. StateOutlives(n)
    BY DEF OthersMove
  <2> QED BY <1>4, <2>1, <2>2, 0 <= 1, ~(0 >= 1) DEF StateOutlives
<1> QED BY <1>2, <1>3, <1>5, <1>6

LEMMA OnceReconciler ==
    ASSUME LivesInv, OnceInv, NsMove
    PROVE  OnceInv'
<1> DEFINE k == nsWorker.key
<1> USE DEF LivesInv, CopiesSound, FirstOnly
<1>a. /\ k \in Namespaces /\ UNCHANGED <<namespaces, nsCache>> /\ NsReconcile
      /\ \A n \in Namespaces : states[n].uid \in Nat
  BY Typed DEF NsMove, caches
<1>b. NsIdle.pc = "idle"
  BY IdleTypes
<1>1. ASSUME NEW n \in Namespaces, NsGetNamespace(n)
      PROVE  OnceInv'
  <2>1. CASE nsCache[n].live
    <3>1. /\ nsWorker' = [pc |-> "getState", key |-> n, ns |-> nsCache[n],
                          state |-> Vacant(NoState)]
          /\ UNCHANGED states /\ nsWorker.pc = "idle"
      BY <1>1, <2>1 DEF NsGetNamespace
    <3>2. \A m \in Namespaces : SeenLeft(m) => SeenLeft(m)'
      BY <1>a, <3>1 DEF SeenLeft
    <3> QED BY <1>a, <3>1, <3>2 DEF OnceInv, Admits
  <2>2. CASE ~nsCache[n].live
    <3>1. nsWorker' = NsIdle /\ UNCHANGED states
      BY <1>1, <2>2 DEF NsGetNamespace
    <3> QED BY <1>a, <1>b, <3>1 DEF OnceInv, SeenLeft, Admits
  <2> QED BY <2>1, <2>2
<1>2. CASE NsGetState
  <2> DEFINE state == stateCache[nsWorker.key]
             call  == NsNextCall(nsWorker.ns, state)
  <2>1. CASE call = "idle"
    <3>1. nsWorker' = NsIdle /\ UNCHANGED states
      BY <1>2, <2>1 DEF NsGetState
    <3> QED BY <1>a, <1>b, <3>1 DEF OnceInv, SeenLeft, Admits
  <2>2. CASE call # "idle"
    <3>1. /\ nsWorker' = [pc |-> call, key |-> nsWorker.key, ns |-> nsWorker.ns,
                          state |-> state]
          /\ UNCHANGED states /\ nsWorker.pc # "idle"
      BY <1>2, <2>2 DEF NsGetState
    <3>2. call = "deleteState" => nsWorker.ns.obj.label = NoClass
      BY DEF NsNextCall
    <3>3. nsWorker.ns.uid >= 1
      BY <3>1 DEF NsCallOK
    <3> HIDE DEF call, state
    <3>4. \A m \in Namespaces : SeenLeft(m) => SeenLeft(m)'
      BY <1>a, <3>1 DEF SeenLeft
    <3> QED BY <1>a, <3>1, <3>2, <3>3, <3>4 DEF OnceInv, Left, Admits
  <2> QED BY <2>1, <2>2
<1>3. CASE NsDeleteState
  <2> DEFINE new == Deleted(states[k], NoState)
  <2>1. /\ states' = [states EXCEPT ![k] = new] /\ nsWorker' = NsIdle
        /\ nsWorker.pc = "deleteState"
    BY <1>3 DEF NsDeleteState, NsReturn
  <2>2. ~new.live /\ new.uid = states[k].uid
    BY DEF Deleted
  <2> HIDE DEF new
  <2>3. states'[k] = new /\ \A n \in Namespaces \ {k} : states'[n] = states[n]
    BY <1>a, <2>1 DEF TypeOK, StatesTypeOK
  <2>4. \A n \in Namespaces : n = k => SeenLeft(n)'
    BY <1>a, <1>b, <2>1 DEF OnceInv, SeenLeft
  <2>5. \A n \in Namespaces : SeenLeft(n) => SeenLeft(n)'
    BY <1>a, <1>b, <2>1 DEF SeenLeft
  <2> QED BY <1>a, <1>b, <2>1, <2>2, <2>3, <2>4, <2>5 DEF OnceInv, Admits
<1>4. CASE NsMarkPending
  <2> DEFINE marked == WithPending(nsWorker.state.obj, nsWorker.ns.obj.label)
             new == Updated(states[k], marked)
  <2>1. /\ states' = [states EXCEPT ![k] = new] /\ nsWorker' = NsIdle
        /\ nsWorker.pc = "markPending" /\ states[k].live /\ states[k].rv = nsWorker.state.rv
    BY <1>4 DEF NsMarkPending, SameVersion, NsReturn
  <2>2. nsWorker.state = states[k]
    BY <2>1 DEF NsWorkerOK, Fresh
  <2>3. marked.owner = states[k].obj.owner
    BY <1>a, <2>2, Typed DEF WithPending, Slot, NamespaceState
  <2>4. new.live /\ new.uid = states[k].uid /\ new.obj = marked
    BY <2>1 DEF Updated
  <2> HIDE DEF new, marked
  <2>5. states'[k] = new /\ \A n \in Namespaces \ {k} : states'[n] = states[n]
    BY <1>a, <2>1 DEF TypeOK, StatesTypeOK
  <2>6. \A n \in Namespaces : SeenLeft(n) => SeenLeft(n)'
    BY <1>a, <1>b, <2>1 DEF SeenLeft
  <2> QED BY <1>a, <1>b, <2>1, <2>3, <2>4, <2>5, <2>6 DEF OnceInv, Admits
<1>5. CASE NsCreateState
  <2> DEFINE new == Created(states[k], NewState(nsWorker.ns))
  <2>1. /\ states' = [states EXCEPT ![k] = new] /\ nsWorker' = NsIdle
        /\ nsWorker.pc = "createState" /\ ~states[k].live
        /\ nsWorker.ns.obj.label # NoClass
    BY <1>5, NoClassAssumption DEF NsCreateState, NsReturn, TypeOK
  <2>2. new.live /\ new.uid = states[k].uid + 1 /\ new.obj.owner = nsWorker.ns.uid
    BY DEF Created, NewState
  <2>3. nsWorker.ns.uid = 1
    BY <1>a, <2>1, Typed DEF NsCallOK, OnceInv
  <2>4. ASSUME Admits(k) PROVE states[k].uid = 0
    <3>1. ~SeenLeft(k)
      BY <2>1 DEF SeenLeft, Left
    <3> QED BY <1>a, <2>1, <2>4, <3>1 DEF OnceInv
  <2> HIDE DEF new
  <2>5. states'[k] = new /\ \A n \in Namespaces \ {k} : states'[n] = states[n]
    BY <1>a, <2>1 DEF TypeOK, StatesTypeOK
  <2>6. \A n \in Namespaces : SeenLeft(n) => SeenLeft(n)'
    BY <1>a, <1>b, <2>1 DEF SeenLeft
  <2>7. \A n \in Namespaces : Admits(n)' <=> Admits(n)
    BY <1>a DEF Admits
  <2> QED BY <1>a, <1>b, <2>1, <2>2, <2>3, <2>4, <2>5, <2>6, <2>7 DEF OnceInv
<1>6. CASE NsRejected
  BY <1>6, <1>a, <1>b DEF NsRejected, NsRequeue, OnceInv, SeenLeft, Admits
<1> QED BY <1>a, <1>1, <1>2, <1>3, <1>4, <1>5, <1>6 DEF NsReconcile

LEMMA OnceNext ==
    ASSUME LabelsLeave
    PROVE  LivesInv /\ OnceInv /\ [Next]_vars => OnceInv'
<1> SUFFICES ASSUME LivesInv, OnceInv, [Next]_vars PROVE OnceInv'
  OBVIOUS
<1>1. MaxLives = 1 /\ FirstOnly
  BY DEF LabelsLeave, OnceInv
<1> QED
  BY <1>1, OthersTurn, OnceOthers, OnceReconciler, SwitchMoves DEF LivesInv, CopiesSound

LEMMA VacantNow ==
    Init => /\ FirstOnly
            /\ \A n \in Namespaces :
                  /\ nsCache[n].uid = 0 /\ ~namespaces[n].live
                  /\ states[n].uid = 0 /\ ~states[n].live
<1> SUFFICES ASSUME Init, NEW n \in Namespaces
             PROVE  /\ namespaces[n].uid = 0 /\ nsCache[n].uid = 0 /\ ~namespaces[n].live
                    /\ ~states[n].live /\ states[n].uid = 0
  BY 0 <= 1 DEF FirstOnly
<1>1. /\ namespaces[n] = Vacant(NoNamespace) /\ nsCache[n] = Vacant(NoNamespace)
      /\ states[n] = Vacant(NoState)
  BY DEF Init, NamespacesInit, StatesInit
<1>2. /\ ~Vacant(NoNamespace).live /\ Vacant(NoNamespace).uid = 0
      /\ ~Vacant(NoState).live /\ Vacant(NoState).uid = 0
  BY DEF Vacant
<1> QED BY <1>1, <1>2

LEMMA OnceInit == Init => OnceInv
BY VacantNow, IdleTypes, 0 <= 1, ~(0 >= 1) DEF Init, OnceInv, Left, Admits

-----------------------------------------------------------------------------
(***************************************************************************)
(* No name is used twice, where no label is removed                        *)
(***************************************************************************)
\* A namespace that is deleted does not come back under its name, and no label is
\* removed.
LabelsStick ==
    /\ MaxLives = 1
    /\ \A c \in Classes : <<c, NoClass>> \notin LabelMoves

\* The namespace has been there, and has its label until it goes.
Given(slot) == slot.uid >= 1 /\ (slot.live => slot.obj.label # NoClass)

\* Once there is a NamespaceState nobody takes the label for missing, so that it goes
\* only with its namespace.
StickInv ==
    /\ FirstOnly
    /\ \A n \in Namespaces :
          /\ Given(nsCache[n]) => Given(namespaces[n])
          /\ states[n].uid >= 1 => Given(nsCache[n])
          /\ states[n].uid >= 1 /\ ~states[n].live => ~Admits(n)
          /\ Admits(n) => states[n].uid <= 1
    /\ nsWorker.pc # "idle" =>
          /\ Given(nsWorker.ns) => Given(nsCache[nsWorker.key])
          /\ states[nsWorker.key].uid >= 1 => Given(nsWorker.ns)
    /\ nsWorker.pc # "deleteState"

LEMMA StickOthers ==
    ASSUME LivesInv, StickInv, LabelsStick, OthersMove
    PROVE  StickInv'
<1> USE DEF StickInv
<1>1. ASSUME NEW n \in Namespaces, Given(namespaces[n])
      PROVE  Given(namespaces'[n])
  <2>1. Label(n) \in Labels /\ NameTurn(n) /\ namespaces[n].uid >= 1
    BY <1>1, Typed DEF LivesInv, CopiesSound, Slot, Namespace, Label, OthersMove, Given
  <2> QED BY <1>1, <2>1, ~(0 >= 1) DEF LabelsStick, NameTurn, Given, Labels, Label
<1>2. /\ \A n \in Namespaces : Given(nsCache[n]) => Given(nsCache'[n])
      /\ \A n \in Namespaces : Given(nsCache'[n]) => Given(namespaces'[n])
  BY <1>1 DEF OthersMove
<1>3. nsWorker.key \in Namespaces /\ (nsWorker' = nsWorker \/ nsWorker'.pc = "idle")
  BY Typed DEF LivesInv, CopiesSound, OthersMove
<1>4. FirstOnly'
  BY NameGoesOn DEF FirstOnly
<1>5. ASSUME NEW n \in Namespaces
      PROVE  /\ states'[n].uid = states[n].uid
             /\ states'[n].uid >= 1 /\ ~states'[n].live => ~Admits(n)'
             /\ Admits(n)' => states'[n].uid <= 1
  <2>1. Admits(n)' => Admits(n) \/ states'[n].uid = 0
    BY NameGoesOn
  <2>2. StateOutlives(n)
    BY DEF OthersMove
  <2> QED BY <2>1, <2>2, 0 <= 1, ~(0 >= 1) DEF StateOutlives
<1> QED BY <1>2, <1>3, <1>4, <1>5

LEMMA StickReconciler ==
    ASSUME LivesInv, StickInv, NsMove
    PROVE  StickInv'
<1> DEFINE k == nsWorker.key
<1> USE DEF LivesInv, CopiesSound, FirstOnly
<1>a. /\ k \in Namespaces /\ UNCHANGED <<namespaces, nsCache>> /\ NsReconcile
      /\ \A n \in Namespaces : states[n].uid \in Nat /\ stateCache[n].uid \in Nat
  BY Typed DEF NsMove, caches
<1>b. NsIdle.pc = "idle"
  BY IdleTypes
<1>1. ASSUME UNCHANGED states, nsWorker' = NsIdle
      PROVE  StickInv'
  BY <1>a, <1>b, <1>1 DEF StickInv, Admits
<1>2. ASSUME NEW n \in Namespaces, NsGetNamespace(n)
      PROVE  StickInv'
  <2>1. CASE nsCache[n].live
    <3>1. /\ nsWorker' = [pc |-> "getState", key |-> n, ns |-> nsCache[n],
                          state |-> Vacant(NoState)]
          /\ UNCHANGED states
      BY <1>2, <2>1 DEF NsGetNamespace
    <3> QED BY <1>a, <3>1 DEF StickInv, Admits
  <2> QED BY <1>1, <1>2, <2>1 DEF NsGetNamespace
<1>3. CASE NsGetState
  <2> DEFINE state == stateCache[nsWorker.key]
             call  == NsNextCall(nsWorker.ns, state)
  <2>1. CASE call # "idle"
    <3>1. /\ nsWorker' = [pc |-> call, key |-> nsWorker.key, ns |-> nsWorker.ns,
                          state |-> state]
          /\ UNCHANGED states /\ nsWorker.pc # "idle"
      BY <1>3, <2>1 DEF NsGetState
    <3>2. call = "deleteState" => nsWorker.ns.obj.label = NoClass /\ state.live
      BY DEF NsNextCall
    <3>3. ASSUME state.live PROVE nsWorker.ns.obj.label # NoClass
      <4>1. state.uid >= 1 /\ state.uid <= states[k].uid
        BY <1>a, <3>3 DEF LivesOK, Begun, CacheOK, Fresh
      <4> QED BY <1>a, <3>1, <4>1 DEF StickInv, Given, NsCallOK
    <3> HIDE DEF call, state
    <3> QED BY <1>a, <3>1, <3>2, <3>3 DEF StickInv, Admits
  <2> QED BY <1>1, <1>3, <2>1 DEF NsGetState
<1>4. ASSUME NEW new, states' = [states EXCEPT ![k] = new], nsWorker' = NsIdle,
             new.live, new.uid = states[k].uid, states[k].live,
             new.obj.owner = states[k].obj.owner
      PROVE  StickInv'
  <2>1. states'[k] = new /\ \A n \in Namespaces \ {k} : states'[n] = states[n]
    BY <1>a, <1>4 DEF TypeOK, StatesTypeOK
  <2> QED BY <1>a, <1>b, <1>4, <2>1 DEF StickInv, Admits
<1>5. CASE NsMarkPending
  <2> DEFINE marked == WithPending(nsWorker.state.obj, nsWorker.ns.obj.label)
             new == Updated(states[k], marked)
  <2>1. /\ states' = [states EXCEPT ![k] = new] /\ nsWorker' = NsIdle
        /\ nsWorker.pc = "markPending" /\ states[k].live /\ states[k].rv = nsWorker.state.rv
    BY <1>5 DEF NsMarkPending, SameVersion, NsReturn
  <2>2. nsWorker.state = states[k]
    BY <2>1 DEF NsWorkerOK, Fresh
  <2>3. marked.owner = states[k].obj.owner
    BY <1>a, <2>2, Typed DEF WithPending, Slot, NamespaceState
  <2>4. new.live /\ new.uid = states[k].uid /\ new.obj = marked
    BY <2>1 DEF Updated
  <2> HIDE DEF new, marked
  <2> QED BY <1>4, <2>1, <2>3, <2>4
<1>6. CASE NsCreateState
  <2> DEFINE new == Created(states[k], NewState(nsWorker.ns))
  <2>1. /\ states' = [states EXCEPT ![k] = new] /\ nsWorker' = NsIdle
        /\ nsWorker.pc = "createState" /\ ~states[k].live
        /\ nsWorker.ns.obj.label # NoClass
    BY <1>6, NoClassAssumption DEF NsCreateState, NsReturn, TypeOK
  <2>2. new.live /\ new.uid = states[k].uid + 1 /\ new.obj.owner = nsWorker.ns.uid
    BY DEF Created, NewState
  <2>3. nsWorker.ns.uid = 1
    BY <1>a, <2>1, Typed DEF NsCallOK, StickInv
  <2>4. Admits(k) => states[k].uid = 0
    BY <1>a, <2>1 DEF StickInv
  <2>5. Given(nsCache[k])
    BY <1>a, <2>1, <2>3 DEF StickInv, Given
  <2> HIDE DEF new
  <2>6. states'[k] = new /\ \A n \in Namespaces \ {k} : states'[n] = states[n]
    BY <1>a, <2>1 DEF TypeOK, StatesTypeOK
  <2>7. \A n \in Namespaces : Admits(n)' <=> Admits(n)
    BY <1>a DEF Admits
  <2> QED BY <1>a, <1>b, <2>1, <2>2, <2>3, <2>4, <2>5, <2>6, <2>7 DEF StickInv
<1>7. CASE NsDeleteState
  BY <1>7 DEF NsDeleteState, StickInv
<1>8. CASE NsRejected
  BY <1>8, <1>1 DEF NsRejected, NsRequeue
<1> QED BY <1>a, <1>2, <1>3, <1>5, <1>6, <1>7, <1>8 DEF NsReconcile

LEMMA StickNext ==
    ASSUME LabelsStick
    PROVE  LivesInv /\ StickInv /\ [Next]_vars => StickInv'
<1> SUFFICES ASSUME LivesInv, StickInv, [Next]_vars PROVE StickInv'
  OBVIOUS
<1>1. MaxLives = 1 /\ FirstOnly
  BY DEF LabelsStick, StickInv
<1> QED
  BY <1>1, OthersTurn, StickOthers, StickReconciler, SwitchMoves DEF LivesInv, CopiesSound

LEMMA StickInit == Init => StickInv
BY VacantNow, IdleTypes, 0 <= 1, ~(0 >= 1) DEF Init, StickInv, Given, Admits

\* Where a deleted namespace does not come back, and a removed label is not put back or
\* no label is removed, no namespace gets a second NamespaceState, however old the
\* copies its reconciler reads, whatever fails and whenever the manager restarts: the
\* reconciler never takes a NamespaceState its copy does not show yet for one that is
\* missing for good (namespace_controller.go:93-144).
THEOREM NamesUsedOnce ==
    ASSUME LabelsLeave \/ LabelsStick
    PROVE  Spec => []UsedOnce
<1>1. CASE LabelsLeave
  <2>1. LivesInv /\ OnceInv /\ [Next]_vars => OnceInv'
    BY <1>1, OnceNext
  <2>2. OnceInv => UsedOnce
    BY DEF OnceInv, FirstOnly, UsedOnce
  <2> QED
    BY <2>1, <2>2, OnceInit, LivesInvInit, LivesInvNext, PTL DEF Spec
<1>2. CASE LabelsStick
  <2>1. LivesInv /\ StickInv /\ [Next]_vars => StickInv'
    BY <1>2, StickNext
  <2>2. StickInv => UsedOnce
    BY DEF StickInv, FirstOnly, UsedOnce
  <2> QED
    BY <2>1, <2>2, StickInit, LivesInvInit, LivesInvNext, PTL DEF Spec
<1> QED BY <1>1, <1>2

\* So there the two reconcilers implement the steps of ClassSwitch
\* (namespace_controller.go:60-144, namespacestate_controller.go:49-153).
THEOREM RefinesSwitch ==
    ASSUME LabelsLeave \/ LabelsStick
    PROVE  Spec => SwitchesSafely
<1>1. Spec => []UsedOnce
  BY NamesUsedOnce
<1>2. Spec /\ []UsedOnce => SwitchesSafely
  BY OnceRefines
<1> QED BY <1>1, <1>2, PTL

\* There a pending class is committed only when the namespace, unless it is being
\* deleted, has all the instances of that class and no other that the reconciler's list
\* showed (namespacestate_controller.go:91-153).
THEOREM CommitsInstalled ==
    ASSUME LabelsLeave \/ LabelsStick
    PROVE  Spec => CommitInstalls
<1>1. Spec => []UsedOnce
  BY NamesUsedOnce
<1>2. Spec /\ []UsedOnce => CommitInstalls
  BY OnceCommitInstalls
<1> QED BY <1>1, <1>2, PTL

-----------------------------------------------------------------------------
(***************************************************************************)
(* Once nothing is left to do, every namespace follows its label           *)
(***************************************************************************)
Upto(rank, one, other) == one = other \/ rank[one] < rank[other]

\* Every change of label goes up in this order.
Forward(rank) ==
    \A one, other \in Labels : <<one, other>> \in LabelMoves => Upto(rank, one, other)

\* A label that is once left does not come back.
LabelsForward == \E rank \in [Labels -> Nat] : Forward(rank)

Busy(n) == nsWorker.pc # "idle" /\ nsWorker.key = n

\* A name has one namespace, and only one that is going away or has lost its label loses
\* its NamespaceState.
LastingOK ==
    /\ FirstOnly
    /\ \A n \in Namespaces :
          Admits(n) /\ Busy(n) /\ nsWorker.ns.obj.label # NoClass
          => states[n].live \/ states[n].uid = 0
    /\ nsWorker.pc = "deleteState" => nsWorker.ns.obj.label = NoClass
    /\ nsWorker.pc # "idle" /\ nsWorker.ns.obj.label = NoClass
       => ~StateLag \/ ~states[nsWorker.key].live

BaseInv == SwitchInv /\ UsedOnce /\ LastingOK

\* The reconciler of namespaces will look at this one as it is.
AttendedName(n) ==
    \/ nsCache[n] # namespaces[n]
    \/ n \in nsQueue
    \/ Busy(n) /\ nsWorker.ns = namespaces[n]

\* Older copies have lower labels, and what a NamespaceState aims at is not above the
\* label that any reconcile still to come will read.
Ordered(rank, n) ==
    Admits(n) =>
        /\ nsCache[n].live => Upto(rank, nsCache[n].obj.label, Label(n))
        /\ Busy(n) =>
              nsCache[n].live /\ Upto(rank, nsWorker.ns.obj.label, nsCache[n].obj.label)
        /\ states[n].live =>
              /\ nsCache[n].live
              /\ Upto(rank, TargetClass(states[n]), nsCache[n].obj.label)
              /\ Busy(n) => Upto(rank, TargetClass(states[n]), nsWorker.ns.obj.label)
              /\ Upto(rank, states[n].obj.class, TargetClass(states[n]))
              /\ stateCache[n].live =>
                    Upto(rank, stateCache[n].obj.class, states[n].obj.class)

\* What is on record is the label, or the reconciler will see that it is not.
Recorded(n) == Admits(n) => TargetClass(states[n]) = Label(n) \/ AttendedName(n)

NamesInv(rank) ==
    /\ \A n \in Namespaces :
          Fresh(nsCache[n], namespaces[n]) /\ Ordered(rank, n) /\ Recorded(n)
    /\ nsWorker.pc # "idle" => AttendedName(nsWorker.key)

LEMMA UptoOrders ==
    ASSUME NEW rank \in [Labels -> Nat]
    PROVE  /\ \A a \in Labels : Upto(rank, a, a)
           /\ \A a, b, c \in Labels : Upto(rank, a, b) /\ Upto(rank, b, c) => Upto(rank, a, c)
           /\ \A a, b \in Labels : Upto(rank, a, b) /\ Upto(rank, b, a) => a = b
BY DEF Upto

LEMMA LabelTypes ==
    ASSUME TypeOK
    PROVE  /\ \A n \in Namespaces :
                 /\ Label(n) \in Labels /\ nsCache[n].obj.label \in Labels
                 /\ states[n].obj.class \in Labels /\ stateCache[n].obj.class \in Labels
                 /\ TargetClass(states[n]) \in Labels
           /\ nsWorker.ns.obj.label \in Labels
BY Typed, TypedStates DEF Slot, Namespace, NamespaceState, Label, TargetClass

\* The namespace stays, is made for the first time, or is changed or removed: its
\* label goes up.
Turned(rank, n) ==
    \/ namespaces'[n] = namespaces[n]
    \/ /\ namespaces[n].rv < namespaces'[n].rv /\ namespaces[n].uid <= namespaces'[n].uid
       /\ Admits(n)' =>
             \/ ~nsCache[n].live /\ ~states[n].live /\ ~Busy(n)
             \/ Admits(n) /\ Upto(rank, Label(n), namespaces'[n].obj.label)

LEMMA TurnsForward ==
    ASSUME BaseInv, NEW rank, Forward(rank), NEW n \in Namespaces, NameTurn(n)
    PROVE  Turned(rank, n)
<1> USE DEF BaseInv, SwitchInv, LivesInv, CopiesSound
<1>1. CASE namespaces'[n] = namespaces[n]
  BY <1>1 DEF Turned
<1>2. CASE /\ namespaces[n].uid = 0 /\ namespaces'[n].uid = 1
           /\ namespaces[n].rv < namespaces'[n].rv /\ states[n].uid = 0
  <2>1. nsCache[n].uid = 0 /\ nsWorker.key \in Namespaces
    BY <1>2, Typed DEF LivesOK
  <2>2. ~Busy(n)
    BY <1>2, Typed DEF NsCallOK, Busy
  <2>3. ~nsCache[n].live /\ ~states[n].live
    BY <1>2, <2>1, ~(0 >= 1) DEF LivesOK, Begun
  <2> QED BY <1>2, <2>2, <2>3, 0 <= 1 DEF Turned
<1>3. CASE /\ namespaces'[n].uid = namespaces[n].uid /\ namespaces[n].rv < namespaces'[n].rv
           /\ Admits(n)' => /\ Admits(n) /\ namespaces'[n].obj.label \in Labels
                            /\ \/ namespaces'[n].obj.label = Label(n)
                               \/ <<Label(n), namespaces'[n].obj.label>> \in LabelMoves
  <2>1. Admits(n)' => Upto(rank, Label(n), namespaces'[n].obj.label)
    BY <1>3, LabelTypes DEF Forward, Upto
  <2> QED BY <1>3, <2>1, Typed DEF Turned
<1> QED BY <1>1, <1>2, <1>3 DEF NameTurn, Admits, Label

\* What users and Kubernetes do.
LEMMA NamesKept ==
    ASSUME TypeOK, TypeOK', NEW rank \in [Labels -> Nat], NamesInv(rank),
           UNCHANGED <<nsCache, nsQueue, nsWorker, stateCache>>,
           \A n \in Namespaces :
              Turned(rank, n) /\ (Admits(n)' => states'[n] = states[n])
    PROVE  NamesInv(rank)'
<1>a. /\ \A n \in Namespaces :
            /\ namespaces[n].uid \in Nat /\ namespaces[n].rv \in Nat
            /\ namespaces'[n].uid \in Nat /\ namespaces'[n].rv \in Nat
            /\ nsCache[n].uid \in Nat /\ nsCache[n].rv \in Nat
      /\ nsWorker.key \in Namespaces
  <2>1. \A n \in Namespaces : namespaces'[n] \in Slot(Namespace)
    BY DEF TypeOK, NamespacesTypeOK
  <2> QED BY <2>1, Typed DEF Slot
<1>1. ASSUME NEW n \in Namespaces
      PROVE  /\ Fresh(nsCache[n], namespaces[n])'
             /\ AttendedName(n)' \/ (namespaces'[n] = namespaces[n] /\ ~AttendedName(n))
  <2>1. Fresh(nsCache[n], namespaces[n]) /\ Turned(rank, n)
    BY DEF NamesInv
  <2>2. CASE namespaces'[n] = namespaces[n]
    BY <2>1, <2>2 DEF AttendedName, Busy
  <2>3. CASE namespaces[n].rv < namespaces'[n].rv /\ namespaces[n].uid <= namespaces'[n].uid
    BY <1>a, <2>1, <2>3 DEF AttendedName, Fresh
  <2> QED BY <2>1, <2>2, <2>3 DEF Turned
<1>2. ASSUME NEW n \in Namespaces, Admits(n)'
      PROVE  Ordered(rank, n)'
  <2>1. Ordered(rank, n) /\ states'[n] = states[n] /\ UNCHANGED <<nsCache, nsWorker, stateCache>>
    BY <1>2 DEF NamesInv
  <2>2. TargetClass(states'[n]) = TargetClass(states[n])
    BY <2>1
  <2>3. CASE namespaces'[n] = namespaces[n]
    BY <1>2, <2>1, <2>2, <2>3 DEF Ordered, Admits, Label, Busy, TargetClass
  <2>4. CASE ~nsCache[n].live /\ ~states[n].live /\ ~Busy(n)
    BY <2>1, <2>4 DEF Ordered, Busy
  <2>5. CASE Admits(n) /\ Upto(rank, Label(n), namespaces'[n].obj.label)
    <3>1. namespaces'[n].obj.label \in Labels
      BY DEF TypeOK, NamespacesTypeOK, Slot, Namespace
    <3>2. nsCache[n].live => Upto(rank, nsCache[n].obj.label, namespaces'[n].obj.label)
      BY <2>1, <2>5, <3>1, LabelTypes, UptoOrders DEF Ordered
    <3> QED BY <2>1, <2>2, <2>5, <3>2 DEF Ordered, Label, Busy, Upto, TargetClass
  <2> QED BY <1>2, <2>3, <2>4, <2>5 DEF Turned
<1>3. ASSUME NEW n \in Namespaces
      PROVE  Recorded(n)'
  <2>1. CASE AttendedName(n)'
    BY <2>1 DEF Recorded
  <2>2. CASE namespaces'[n] = namespaces[n] /\ ~AttendedName(n)
    BY <2>2 DEF Recorded, Admits, Label, TargetClass, NamesInv
  <2> QED BY <1>1, <2>1, <2>2
<1>4. (nsWorker.pc # "idle" => AttendedName(nsWorker.key))'
  <2>1. nsWorker' = nsWorker
    OBVIOUS
  <2>2. nsWorker.pc # "idle" => AttendedName(nsWorker.key)
    BY DEF NamesInv
  <2>3. nsWorker.pc # "idle" => AttendedName(nsWorker.key)'
    BY <1>1, <1>a, <2>2
  <2> QED BY <2>1, <2>3
<1>5. \A n \in Namespaces : Ordered(rank, n)'
  BY <1>2 DEF Ordered
<1> QED BY <1>1, <1>3, <1>4, <1>5 DEF NamesInv

\* The informers catch up, or the calls in progress are given up.
LEMMA NamesSynced ==
    ASSUME TypeOK, TypeOK', NEW rank \in [Labels -> Nat], NamesInv(rank),
           UNCHANGED <<namespaces, states>>, stateCache' = stateCache \/ stateCache' = states,
           \/ UNCHANGED <<nsCache, nsWorker>> /\ nsQueue \subseteq nsQueue'
           \/ SyncNamespaces
           \/ Restart
           \/ NsCallFails /\ UNCHANGED nsCache
    PROVE  NamesInv(rank)'
<1>a. nsWorker.key \in Namespaces /\ NsIdle.pc = "idle"
  BY Typed, IdleTypes
<1>b. UNCHANGED <<namespaces, states>>
  OBVIOUS
<1>c. /\ nsCache' = nsCache \/ nsCache' = namespaces
      /\ nsWorker' = nsWorker \/ nsWorker' = NsIdle
  BY DEF SyncNamespaces, Restart, NsCallFails, NsRequeue
<1>1. ASSUME NEW n \in Namespaces
      PROVE  Fresh(nsCache[n], namespaces[n])'
  <2>1. Fresh(namespaces[n], namespaces[n])
    BY Typed, FreshSelf
  <2> QED BY <1>b, <1>c, <2>1 DEF NamesInv
<1>2. ASSUME NEW n \in Namespaces
      PROVE  Ordered(rank, n)'
  <2>1. SUFFICES ASSUME Admits(n) PROVE Ordered(rank, n)'
    BY <1>b DEF Ordered, Admits
  <2> DEFINE L == Label(n)
             C == nsCache[n].obj.label
             W == nsWorker.ns.obj.label
             T == TargetClass(states[n])
             S == states[n].obj.class
  <2>2. /\ L \in Labels /\ C \in Labels /\ W \in Labels /\ T \in Labels /\ S \in Labels
    BY LabelTypes
  <2>3. Ordered(rank, n)
    BY DEF NamesInv
  <2>4. /\ nsCache[n].live => Upto(rank, C, L)
        /\ Busy(n) => nsCache[n].live /\ Upto(rank, W, C)
        /\ states[n].live => /\ nsCache[n].live /\ Upto(rank, T, C)
                             /\ Busy(n) => Upto(rank, T, W)
                             /\ Upto(rank, S, T)
                             /\ stateCache[n].live => Upto(rank, stateCache[n].obj.class, S)
    BY <2>1, <2>3 DEF Ordered
  <2>5. namespaces'[n] = namespaces[n] /\ namespaces[n].live
    BY <1>b, <2>1 DEF Admits
  <2>6. /\ nsCache'[n].live => Upto(rank, nsCache'[n].obj.label, L)
        /\ Busy(n)' =>
              nsCache'[n].live /\ Upto(rank, nsWorker'.ns.obj.label, nsCache'[n].obj.label)
    BY <1>a, <1>c, <2>2, <2>4, <2>5, UptoOrders DEF Busy, Label
  <2>7. states[n].live =>
           /\ nsCache'[n].live /\ Upto(rank, T, nsCache'[n].obj.label)
           /\ Busy(n)' => Upto(rank, T, nsWorker'.ns.obj.label)
    BY <1>a, <1>c, <2>2, <2>4, <2>5, UptoOrders DEF Busy, Label
  <2>8. states[n].live /\ stateCache'[n].live => Upto(rank, stateCache'[n].obj.class, S)
    BY <2>2, <2>4, UptoOrders
  <2> QED BY <1>b, <2>4, <2>6, <2>7, <2>8 DEF Ordered, Label, TargetClass, Upto
<1>3. ASSUME NEW n \in Namespaces, AttendedName(n), namespaces[n].live \/ nsWorker'.pc # "idle"
      PROVE  AttendedName(n)'
  <2>1. CASE UNCHANGED <<nsCache, nsWorker>> /\ nsQueue \subseteq nsQueue'
    BY <1>3, <1>b, <2>1 DEF AttendedName, Busy
  <2>2. CASE SyncNamespaces
    BY <1>3, <1>b, <2>2 DEF SyncNamespaces, AttendedName, Busy, Changed, TypeOK, NamespacesTypeOK
  <2>3. CASE Restart
    BY <1>3, <1>a, <2>3 DEF Restart, AttendedName, Living, TypeOK, NamespacesTypeOK
  <2>4. CASE NsCallFails /\ UNCHANGED nsCache
    BY <1>3, <1>b, <2>4 DEF NsCallFails, NsRequeue, AttendedName, Busy
  <2> QED BY <2>1, <2>2, <2>3, <2>4
<1>4. ASSUME NEW n \in Namespaces
      PROVE  Recorded(n)'
  <2>1. Recorded(n)
    BY DEF NamesInv
  <2> QED BY <1>3, <1>b, <2>1 DEF Recorded, Admits, Label, TargetClass
<1>5. nsWorker'.pc # "idle" => AttendedName(nsWorker.key)' /\ nsWorker'.key = nsWorker.key
  <2>1. nsWorker'.pc # "idle" => nsWorker' = nsWorker
    BY <1>a, <1>c
  <2>2. nsWorker.pc # "idle" => AttendedName(nsWorker.key)
    BY DEF NamesInv
  <2> DEFINE k == nsWorker.key
  <2>3. ASSUME NEW n \in Namespaces, n = nsWorker.key, nsWorker'.pc # "idle"
        PROVE  AttendedName(n)'
    BY <1>3, <2>1, <2>2, <2>3
  <2>4. PICK n \in Namespaces : n = nsWorker.key
    BY <1>a
  <2> QED BY <2>1, <2>3, <2>4 DEF AttendedName, Busy
<1> QED BY <1>1, <1>2, <1>4, <1>5 DEF NamesInv, AttendedName, Busy

\* The reconciler of namespaces.
LEMMA NamesReconciled ==
    ASSUME BaseInv, TypeOK', NEW rank \in [Labels -> Nat], NamesInv(rank), NsMove,
           StateLag \/ stateCache = states \/ nsWorker.pc # "getState"
    PROVE  NamesInv(rank)'
<1> USE DEF BaseInv, SwitchInv, LivesInv, CopiesSound
<1> DEFINE W == nsWorker.ns.obj.label
<1>k. PICK k \in Namespaces : k = nsWorker.key
  BY Typed
<1> USE <1>k
<1>a. NsIdle.pc = "idle" /\ W \in Labels
  BY IdleTypes, LabelTypes
<1>b. UNCHANGED <<namespaces, nsCache, stateCache>> /\ NsReconcile
  BY DEF NsMove, caches
<1>c. \A n \in Namespaces : Fresh(nsCache[n], namespaces[n])'
  BY <1>b DEF NamesInv
<1>d. nsWorker.pc # "idle" => AttendedName(k)
  BY DEF NamesInv
<1>e. \A n \in Namespaces : Ordered(rank, n) /\ Recorded(n)
  BY DEF NamesInv
<1>1. ASSUME NEW m \in Namespaces, NsGetNamespace(m)
      PROVE  NamesInv(rank)'
  <2>1. /\ nsWorker.pc = "idle" /\ nsQueue' = nsQueue \ {m} /\ UNCHANGED states
        /\ nsCache[m].live =>
              nsWorker'.pc = "getState" /\ nsWorker'.key = m /\ nsWorker'.ns = nsCache[m]
        /\ ~nsCache[m].live => nsWorker'.pc = "idle"
    BY <1>a, <1>1 DEF NsGetNamespace
  <2>2. ASSUME NEW n \in Namespaces, AttendedName(n), namespaces[n].live \/ nsCache[m].live
        PROVE  AttendedName(n)'
    BY <1>b, <2>1, <2>2 DEF AttendedName, Busy
  <2>3. ASSUME NEW n \in Namespaces PROVE Recorded(n)'
    <3>1. Recorded(n)
      BY <1>e
    <3> QED BY <1>b, <2>1, <2>2, <3>1 DEF Recorded, Admits, Label, TargetClass
  <2>4. ASSUME NEW n \in Namespaces PROVE Ordered(rank, n)'
    <3>1. Ordered(rank, n) /\ ~Busy(n)
      BY <1>e, <2>1 DEF Busy
    <3>2. Busy(n)' => nsCache[n].live /\ nsWorker'.ns.obj.label = nsCache[n].obj.label
      BY <2>1 DEF Busy
    <3>3. Upto(rank, nsCache[n].obj.label, nsCache[n].obj.label)
      BY DEF Upto
    <3> QED BY <1>b, <2>1, <3>1, <3>2, <3>3 DEF Ordered, Admits, Label, TargetClass, Upto
  <2>5. ASSUME nsWorker'.pc # "idle" PROVE AttendedName(m)' /\ nsWorker'.key = m
    BY <1>b, <2>1, <2>5 DEF AttendedName, Busy
  <2> QED BY <1>c, <2>3, <2>4, <2>5 DEF NamesInv, AttendedName, Busy
<1>2. ASSUME UNCHANGED states, nsWorker.pc # "idle", nsQueue \subseteq nsQueue',
             nsWorker' = NsIdle,
             k \in nsQueue' \/ (Admits(k) /\ nsWorker.ns = namespaces[k]
                                => TargetClass(states[k]) = Label(k))
      PROVE  NamesInv(rank)'
  <2>1. ASSUME NEW n \in Namespaces PROVE Ordered(rank, n)'
    <3>1. Ordered(rank, n) /\ ~Busy(n)'
      BY <1>a, <1>e, <1>2 DEF Busy
    <3> QED BY <1>b, <1>2, <3>1 DEF Ordered, Admits, Label, TargetClass, Upto
  <2>2. ASSUME NEW n \in Namespaces PROVE Recorded(n)'
    <3>1. Recorded(n)
      BY <1>e
    <3>2. n # k => (AttendedName(n) => AttendedName(n)')
      BY <1>b, <1>2 DEF AttendedName, Busy
    <3>3. AttendedName(k)' \/ (Admits(k) => TargetClass(states[k]) = Label(k))
      BY <1>b, <1>d, <1>2 DEF AttendedName, Busy
    <3> QED BY <1>b, <1>2, <3>1, <3>2, <3>3 DEF Recorded, Admits, Label, TargetClass
  <2> QED BY <1>a, <1>c, <1>2, <2>1, <2>2 DEF NamesInv
<1>3. CASE NsGetState
  <2> DEFINE copy == stateCache[k]
             call == NsNextCall(nsWorker.ns, copy)
  <2>1. nsWorker.pc = "getState" /\ UNCHANGED <<states, nsQueue>>
    BY <1>3 DEF NsGetState
  <2>2. CASE call = "idle"
    <3>1. nsWorker' = NsIdle
      BY <1>3, <2>2 DEF NsGetState
    <3>2. ASSUME Admits(k), nsWorker.ns = namespaces[k] PROVE TargetClass(states[k]) = Label(k)
      <4>1. W = Label(k) /\ Busy(k)
        BY <2>1, <3>2 DEF Label, Busy
      <4>2. CASE W = NoClass
        <5>1. ~copy.live
          BY <2>2, <4>2 DEF NsNextCall
        <5>2. ~states[k].live
          BY <2>1, <4>2, <5>1 DEF LastingOK
        <5>3. states[k].obj = NoState
          BY <1>a, <5>2 DEF LivesOK
        <5> QED BY <4>1, <4>2, <5>3 DEF TargetClass, NoState
      <4>3. CASE W # NoClass
        <5>1. copy.live /\ copy.obj.class = W
          BY <2>2, <4>3 DEF NsNextCall
        <5>2. copy.uid >= 1 /\ copy.uid <= states[k].uid
          BY <1>a, <5>1 DEF LivesOK, Begun, CacheOK, Fresh
        <5>3. states[k].live
          BY <1>a, <3>2, <4>1, <4>3, <5>2, Typed DEF LastingOK
        <5> DEFINE T == TargetClass(states[k])
                   S == states[k].obj.class
        <5>4. Upto(rank, T, W) /\ Upto(rank, S, T) /\ Upto(rank, W, S)
          BY <1>a, <1>e, <3>2, <4>1, <5>1, <5>3 DEF Ordered
        <5>5. T \in Labels /\ S \in Labels
          BY <1>a, LabelTypes
        <5> HIDE DEF T, S
        <5>6. T = W
          BY <1>a, <5>4, <5>5, UptoOrders
        <5> QED BY <4>1, <5>6 DEF T
      <4> QED BY <4>2, <4>3
    <3> QED BY <1>2, <2>1, <3>1, <3>2
  <2>3. CASE call # "idle"
    <3>1. nsWorker'.pc = call /\ nsWorker'.key = k /\ nsWorker'.ns = nsWorker.ns
      BY <1>3, <2>3 DEF NsGetState
    <3> HIDE DEF call
    <3>2. \A n \in Namespaces : /\ Busy(n)' <=> Busy(n)
                               /\ AttendedName(n)' <=> AttendedName(n)
      BY <1>b, <2>1, <2>3, <3>1 DEF Busy, AttendedName
    <3>3. ASSUME NEW n \in Namespaces PROVE Ordered(rank, n)'
      <4>1. Ordered(rank, n)
        BY <1>e
      <4>2. Busy(n)' <=> Busy(n)
        BY <2>1, <2>3, <3>1 DEF Busy
      <4> QED BY <1>b, <2>1, <3>1, <4>1, <4>2 DEF Ordered, Admits, Label, TargetClass, Upto
    <3>4. \A n \in Namespaces : Recorded(n)'
      BY <1>b, <1>e, <2>1, <3>2 DEF Recorded, Admits, Label, TargetClass
    <3>5. AttendedName(k)'
      BY <1>a, <1>d, <2>1, <3>2
    <3> QED BY <1>c, <3>1, <3>3, <3>4, <3>5 DEF NamesInv, AttendedName, Busy
  <2> QED BY <2>2, <2>3
<1>4. ASSUME NEW new, states' = [states EXCEPT ![k] = new], nsWorker.pc # "idle",
             nsWorker' = NsIdle, UNCHANGED nsQueue,
             TargetClass(new) \in Labels,
             Admits(k) /\ nsWorker.ns = namespaces[k] => TargetClass(new) = Label(k),
             Admits(k) /\ new.live =>
                /\ Upto(rank, TargetClass(new), W)
                /\ Upto(rank, new.obj.class, TargetClass(new))
                /\ stateCache[k].live => Upto(rank, stateCache[k].obj.class, new.obj.class)
      PROVE  NamesInv(rank)'
  <2>1. states'[k] = new /\ \A n \in Namespaces \ {k} : states'[n] = states[n]
    BY <1>a, <1>4 DEF TypeOK, StatesTypeOK
  <2>2. \A n \in Namespaces : ~Busy(n)'
    BY <1>a, <1>4 DEF Busy
  <2>3. ASSUME NEW n \in Namespaces, n # k
        PROVE  Ordered(rank, n)' /\ Recorded(n)'
    <3>1. Ordered(rank, n) /\ Recorded(n) /\ states'[n] = states[n] /\ ~Busy(n)
      BY <1>e, <2>1, <2>3 DEF Busy
    <3> QED
      BY <1>b, <1>4, <2>2, <3>1
      DEF Ordered, Recorded, Admits, Label, TargetClass, Upto, AttendedName
  <2>4. Recorded(k)'
    <3>1. AttendedName(k)' \/ nsWorker.ns = namespaces[k]
      BY <1>b, <1>d, <1>4 DEF AttendedName
    <3>2. TargetClass(states[k])' = TargetClass(new)
      BY <2>1, <1>b, <1>4 DEF TargetClass, NsMove
    <3> QED BY <1>b, <1>4, <2>1, <3>1 DEF Recorded, Admits, Label, TargetClass
  <2>5. ASSUME Admits(k) PROVE Ordered(rank, k)'
    <3> DEFINE C == nsCache[k].obj.label
    <3>1. Ordered(rank, k) /\ Busy(k)
      BY <1>a, <1>e, <1>4 DEF Busy
    <3>2. nsCache[k].live /\ Upto(rank, W, C) /\ Upto(rank, C, Label(k))
      BY <2>5, <3>1 DEF Ordered
    <3>3. C \in Labels
      BY <1>a, LabelTypes
    <3>4. new.live => Upto(rank, TargetClass(new), C)
      BY <1>a, <1>4, <2>5, <3>2, <3>3, UptoOrders
    <3> QED BY <1>a, <1>b, <1>4, <2>1, <2>2, <2>5, <3>2, <3>4 DEF Ordered, Label, TargetClass, Upto
  <2>6. Ordered(rank, k)'
    BY <1>b, <2>5 DEF Ordered, Admits
  <2> QED BY <1>a, <1>c, <1>4, <2>3, <2>4, <2>6 DEF NamesInv
<1>5. CASE NsDeleteState
  <2> DEFINE new == Deleted(states[k], NoState)
  <2>1. /\ states' = [states EXCEPT ![k] = new] /\ nsWorker' = NsIdle /\ UNCHANGED nsQueue
        /\ nsWorker.pc = "deleteState"
    BY <1>5 DEF NsDeleteState, NsReturn
  <2>2. ~new.live /\ TargetClass(new) = NoClass /\ NoClass \in Labels
    BY DEF Deleted, TargetClass, NoState, Labels
  <2>3. W = NoClass
    BY <2>1 DEF LastingOK
  <2> HIDE DEF new
  <2> QED BY <1>4, <2>1, <2>2, <2>3 DEF Label
<1>6. CASE NsMarkPending
  <2> DEFINE marked == WithPending(nsWorker.state.obj, W)
             new == Updated(states[k], marked)
             T == TargetClass(states[k])
             S == states[k].obj.class
  <2>1. /\ states' = [states EXCEPT ![k] = new] /\ nsWorker' = NsIdle /\ UNCHANGED nsQueue
        /\ nsWorker.pc = "markPending" /\ states[k].live /\ states[k].rv = nsWorker.state.rv
        /\ W # NoClass
    BY <1>6, NoClassAssumption DEF NsMarkPending, SameVersion, NsReturn, TypeOK
  <2>2. nsWorker.state = states[k]
    BY <2>1 DEF NsWorkerOK, Fresh
  <2>3. marked.class = S /\ marked.pending = W
    BY <1>a, <2>2, Typed DEF WithPending, Slot, NamespaceState
  <2>4. new.obj = marked
    BY DEF Updated
  <2>5. TargetClass(new) = W /\ new.obj.class = S
    BY <2>1, <2>3, <2>4 DEF TargetClass
  <2>6. ASSUME Admits(k)
        PROVE  /\ Upto(rank, S, W)
               /\ stateCache[k].live => Upto(rank, stateCache[k].obj.class, S)
    <3>1. /\ Upto(rank, T, W) /\ Upto(rank, S, T)
          /\ stateCache[k].live => Upto(rank, stateCache[k].obj.class, S)
      BY <1>a, <1>e, <2>1, <2>6 DEF Ordered, Busy
    <3>2. T \in Labels /\ S \in Labels
      BY <1>a, LabelTypes
    <3> HIDE DEF T, S
    <3> QED BY <1>a, <3>1, <3>2, UptoOrders
  <2>7. Upto(rank, W, W)
    BY DEF Upto
  <2> HIDE DEF new, marked
  <2> QED BY <1>4, <1>a, <2>1, <2>5, <2>6, <2>7 DEF Label
<1>7. CASE NsCreateState
  <2> DEFINE new == Created(states[k], NewState(nsWorker.ns))
  <2>1. /\ states' = [states EXCEPT ![k] = new] /\ nsWorker' = NsIdle /\ UNCHANGED nsQueue
        /\ nsWorker.pc = "createState" /\ ~states[k].live /\ W # NoClass
    BY <1>7, NoClassAssumption DEF NsCreateState, NsReturn, TypeOK
  <2>2. TargetClass(new) = W /\ new.obj.class = W
    BY DEF Created, NewState, TargetClass
  <2>3. Admits(k) => ~stateCache[k].live
    <3>1. stateCache[k].live => stateCache[k].uid >= 1 /\ stateCache[k].uid <= states[k].uid
      BY <1>a DEF LivesOK, Begun, CacheOK, Fresh
    <3> QED BY <1>a, <2>1, <3>1, Typed DEF LastingOK, Busy
  <2>4. Upto(rank, W, W)
    BY DEF Upto
  <2> HIDE DEF new
  <2> QED BY <1>4, <1>a, <2>1, <2>2, <2>3, <2>4 DEF Label
<1>8. CASE NsRejected
  <2>1. k \in nsQueue' /\ nsQueue \subseteq nsQueue' /\ nsWorker' = NsIdle /\ UNCHANGED states
    BY <1>8 DEF NsRejected, NsRequeue
  <2>2. nsWorker.pc # "idle"
    BY <1>8 DEF NsRejected
  <2> QED BY <1>2, <2>1, <2>2
<1> QED BY <1>b, <1>1, <1>3, <1>5, <1>6, <1>7, <1>8 DEF NsReconcile

\* What the reconciler of a NamespaceState writes in it: the class that it aims at.
LEMMA StatesCommitted ==
    ASSUME BaseInv, StMove
    PROVE  \A n \in Namespaces :
              \/ states'[n] = states[n]
              \/ /\ states[n].live /\ states'[n].live /\ states[n].rv < states'[n].rv
                 /\ states'[n].obj.class = TargetClass(states[n])
                 /\ states'[n].obj.pending = NoClass
<1> DEFINE k == stateWorker.key
           new == Updated(states[k], Committed(stateWorker.state))
<1> USE DEF BaseInv, SwitchInv, LivesInv, CopiesSound
<1>1. CASE StCommit
  <2>1. states' = [states EXCEPT ![k] = new] /\ k \in Namespaces
    BY <1>1, Typed DEF StCommit
  <2>2. stateWorker.state = states[k] /\ states[k].live
    BY <1>1, CommitMeans
  <2>3. \/ new = states[k]
        \/ /\ new.live /\ states[k].rv < new.rv
           /\ new.obj.class = TargetClass(states[k]) /\ new.obj.pending = NoClass
    BY <2>1, <2>2, Typed DEF Updated, Committed, Slot
  <2> HIDE DEF new
  <2> QED BY <2>1, <2>2, <2>3 DEF TypeOK, StatesTypeOK
<1> QED
  BY <1>1 DEF StMove, StReconcile, StGetState, StGetClass, StListInstances, StNothingToCommit,
              StRejected, StAnnotateInstance, StCreateInstance, StDeleteInstance

LEMMA NamesCommitted ==
    ASSUME BaseInv, TypeOK', NEW rank \in [Labels -> Nat], NamesInv(rank), StMove, UNCHANGED nsQueue
    PROVE  NamesInv(rank)'
<1> USE DEF BaseInv, SwitchInv, LivesInv, CopiesSound
<1>a. UNCHANGED <<namespaces, nsCache, stateCache, nsWorker>>
  BY DEF StMove, caches
<1>1. ASSUME NEW n \in Namespaces
      PROVE  Ordered(rank, n)' /\ Recorded(n)'
  <2>1. Ordered(rank, n) /\ Recorded(n)
    BY DEF NamesInv
  <2>2. CASE states'[n] = states[n]
    BY <1>a, <2>1, <2>2
    DEF Ordered, Recorded, Admits, Label, Busy, TargetClass, Upto, AttendedName
  <2>3. CASE /\ states[n].live /\ states'[n].live /\ states[n].rv < states'[n].rv
             /\ states'[n].obj.class = TargetClass(states[n])
             /\ states'[n].obj.pending = NoClass
    <3> DEFINE T == TargetClass(states[n])
               S == states[n].obj.class
               D == stateCache[n].obj.class
    <3>1. T \in Labels /\ S \in Labels /\ D \in Labels
      BY LabelTypes
    <3>2. Upto(rank, D, S) /\ Upto(rank, S, T) => Upto(rank, D, T)
      BY <3>1, UptoOrders
    <3>3. TargetClass(states'[n]) = T
      BY <2>3 DEF TargetClass
    <3>4. Upto(rank, T, T)
      BY DEF Upto
    <3> HIDE DEF T
    <3>5. ASSUME Admits(n) PROVE Ordered(rank, n)'
      BY <1>a, <2>1, <2>3, <3>2, <3>3, <3>4, <3>5 DEF Ordered, Label, Busy, TargetClass, Upto, T
    <3>6. Ordered(rank, n)'
      BY <1>a, <3>5 DEF Ordered, Admits
    <3>7. Recorded(n)'
      BY <1>a, <2>1, <3>3 DEF Recorded, Admits, Label, Busy, TargetClass, AttendedName, T
    <3> QED BY <3>6, <3>7
  <2> QED BY <2>2, <2>3, StatesCommitted
<1> QED BY <1>a, <1>1 DEF NamesInv, AttendedName, Busy

LEMMA NamesNext ==
    ASSUME MaxLives = 1, BaseInv, BaseInv', NEW rank \in [Labels -> Nat], Forward(rank),
           NamesInv(rank), [Next]_vars
    PROVE  NamesInv(rank)'
<1> USE DEF BaseInv, SwitchInv, LivesInv, CopiesSound,
            nsStore, stateStore, instStore, nsVars, stateVars
<1>1. ASSUME UserMove \/ TidyMove
      PROVE  \A n \in Namespaces : Turned(rank, n) /\ StateOutlives(n)
  BY <1>1, NameTurns, TurnsForward, StatesOutlive DEF LastingOK
<1>2. CASE Users \/ Kubernetes
  <2>1. UserMove \/ TidyMove
    BY <1>2 DEF Users, Kubernetes, UserMove, TidyMove, caches, workers
  <2>2. UNCHANGED <<nsCache, nsQueue, nsWorker, stateCache>>
    BY <1>2 DEF Users, Kubernetes
  <2>3. ASSUME NEW m \in Namespaces, CollectState(m)
        PROVE  \A n \in Namespaces : Admits(n)' => states'[n] = states[n]
    <3> DEFINE new == Deleted(states[m], NoState)
    <3>1. states' = [states EXCEPT ![m] = new] /\ states[m].live
      BY <2>3 DEF CollectState, OrphanState
    <3>2. ~new.live
      BY DEF Deleted
    <3> HIDE DEF new
    <3> QED BY <1>1, <2>1, <3>1, <3>2 DEF TypeOK, StatesTypeOK, StateOutlives
  <2>4. \A n \in Namespaces : Admits(n)' => states'[n] = states[n]
    BY <1>2, <2>3 DEF Users, Kubernetes, RemoveNamespace, PurgeInstance, CollectInstance
  <2> QED BY <1>1, <2>1, <2>2, <2>4, NamesKept
<1>3. CASE SyncNamespaces
  BY <1>3, NamesSynced DEF SyncNamespaces
<1>4. CASE SyncStates \/ SyncInstances \/ Resync \/ UNCHANGED vars
  <2>1. /\ UNCHANGED <<namespaces, states, nsCache, nsWorker>> /\ nsQueue \subseteq nsQueue'
        /\ stateCache' = stateCache \/ stateCache' = states
    BY <1>4 DEF SyncStates, SyncInstances, Resync, vars
  <2> QED BY <2>1, NamesSynced
<1>5. CASE NsStep
  <2>1. NsMove
    BY <1>5 DEF NsStep, NsMove, caches
  <2>2. StateLag \/ stateCache = states \/ nsWorker.pc # "getState"
    BY <1>5
    DEF NsStep, NsReconcile, NsGetNamespace, NsGetState, NsDeleteState, NsMarkPending,
        NsCreateState, NsRejected
  <2> QED BY <2>1, <2>2, NamesReconciled
<1>6. CASE StateStep
  <2>1. StMove /\ UNCHANGED nsQueue
    BY <1>6 DEF StateStep, StMove, caches
  <2> QED BY <2>1, NamesCommitted
<1>7. CASE Fault
  <2>1. UNCHANGED <<namespaces, nsCache, states, stateCache>>
    BY <1>7 DEF Fault, NsCallFails, StCallFails
  <2>2. NsCallFails \/ UNCHANGED <<nsWorker, nsQueue>>
    BY <1>7 DEF Fault
  <2> QED BY <2>1, <2>2, NamesSynced
<1>8. CASE Restart
  BY <1>8, NamesSynced DEF Restart
<1> QED BY <1>2, <1>3, <1>4, <1>5, <1>6, <1>7, <1>8 DEF Next

LEMMA NamesInit ==
    ASSUME NEW rank, Init
    PROVE  NamesInv(rank)
<1>1. \A n \in Namespaces : ~Admits(n) /\ nsCache[n] = namespaces[n]
  BY VacantNow DEF Admits, Init, NamespacesInit
<1>2. \A n \in Namespaces : Fresh(nsCache[n], namespaces[n])
  BY <1>1, TypeInit, Typed, FreshSelf
<1> QED BY <1>1, <1>2, IdleTypes DEF NamesInv, Ordered, Recorded, Init

\* The reconciler of NamespaceStates will look at this one as it is.
AttendedState(n) ==
    \/ stateCache[n] # states[n]
    \/ n \in stateQueue
    \/ stateWorker.pc # "idle" /\ stateWorker.key = n /\ stateWorker.state = states[n]

\* Nothing is pending, and what is to be installed is.
Arrived(n) ==
    /\ states[n].obj.pending = NoClass
    /\ Admits(n) /\ states[n].live => HasItems(n, ItemsOf(TargetClass(states[n])))

StatesInv ==
    /\ \A n \in Namespaces : Arrived(n) \/ AttendedState(n)
    /\ stateWorker.pc # "idle" => AttendedState(stateWorker.key)

\* What everybody but the reconciler of NamespaceStates does.
LEMMA StatesKept ==
    ASSUME TypeOK, CacheOK, StatesInv, UNCHANGED <<stateCache, stateQueue, stateWorker>>,
           \A n \in Namespaces :
              /\ states'[n] = states[n] \/ states[n].rv < states'[n].rv
              /\ states'[n].rv \in Nat
              /\ Admits(n)' /\ states'[n].live =>
                    /\ Admits(n)
                    /\ \A i \in Items : instances'[n][i].live <=> instances[n][i].live
    PROVE  StatesInv'
<1>1. ASSUME NEW n \in Namespaces
      PROVE  AttendedState(n)' \/ (states'[n] = states[n] /\ ~AttendedState(n))
  <2>1. stateCache[n].rv \in Nat /\ states[n].rv \in Nat /\ Fresh(stateCache[n], states[n])
    BY TypedStates, Numbers DEF CacheOK
  <2>2. CASE states'[n] = states[n]
    BY <2>2 DEF AttendedState
  <2>3. CASE states[n].rv < states'[n].rv
    BY <2>1, <2>3 DEF AttendedState, Fresh
  <2> QED BY <2>2, <2>3
<1>2. ASSUME NEW n \in Namespaces, states'[n] = states[n], Arrived(n)
      PROVE  Arrived(n)'
  <2>1. states'[n].obj.pending = NoClass
    BY <1>2 DEF Arrived
  <2>2. ASSUME Admits(n)', states'[n].live
        PROVE  HasItems(n, ItemsOf(TargetClass(states[n])))'
    <3>1. Installed(n)' = Installed(n)
      BY <2>2 DEF Installed
    <3>2. HasItems(n, ItemsOf(TargetClass(states[n])))
      BY <1>2, <2>2 DEF Arrived
    <3> QED BY <1>2, <3>1, <3>2 DEF HasItems, TargetClass
  <2> QED BY <2>1, <2>2 DEF Arrived, TargetClass
<1>3. \A n \in Namespaces : Arrived(n)' \/ AttendedState(n)'
  BY <1>1, <1>2 DEF StatesInv
<1>4. stateWorker.pc # "idle" => AttendedState(stateWorker.key)'
  <2>1. stateWorker.key \in Namespaces
    BY TypedWorkers
  <2> QED BY <1>1, <2>1 DEF StatesInv
<1> QED BY <1>3, <1>4 DEF StatesInv

\* The informers catch up, or the calls in progress are given up.
LEMMA StatesSynced ==
    ASSUME TypeOK, LivesOK, StatesInv, UNCHANGED <<namespaces, states, instances>>,
           \/ UNCHANGED <<stateCache, stateWorker>> /\ stateQueue \subseteq stateQueue'
           \/ SyncStates
           \/ Restart
           \/ StCallFails /\ UNCHANGED stateCache
    PROVE  StatesInv'
<1>a. stateWorker.key \in Namespaces /\ StIdle.pc = "idle"
  BY TypedWorkers, IdleTypes
<1>b. stateWorker' = stateWorker \/ stateWorker' = StIdle
  BY DEF SyncStates, stateVars, Restart, StCallFails, StRequeue
<1>1. ASSUME NEW n \in Namespaces, Arrived(n) PROVE Arrived(n)'
  BY <1>1 DEF Arrived, HasItems, Admits, Installed, TargetClass
<1>2. ASSUME NEW n \in Namespaces, ~states[n].live PROVE Arrived(n)
  BY <1>2 DEF Arrived, LivesOK, NoState
<1>3. ASSUME NEW n \in Namespaces, AttendedState(n), states[n].live \/ stateWorker'.pc # "idle"
      PROVE  AttendedState(n)'
  <2>1. CASE UNCHANGED <<stateCache, stateWorker>> /\ stateQueue \subseteq stateQueue'
    BY <1>3, <2>1 DEF AttendedState
  <2>2. CASE SyncStates
    BY <1>3, <2>2 DEF SyncStates, AttendedState, Changed, TypeOK, StatesTypeOK
  <2>3. CASE Restart
    BY <1>3, <1>a, <2>3 DEF Restart, AttendedState, Living, TypeOK, StatesTypeOK
  <2>4. CASE StCallFails /\ UNCHANGED stateCache
    BY <1>3, <2>4 DEF StCallFails, StRequeue, AttendedState
  <2> QED BY <2>1, <2>2, <2>3, <2>4
<1>4. \A n \in Namespaces : Arrived(n)' \/ AttendedState(n)'
  BY <1>1, <1>2, <1>3 DEF StatesInv
<1>5. PICK k \in Namespaces : k = stateWorker.key
  BY <1>a
<1>6. stateWorker'.pc # "idle" => AttendedState(k)' /\ stateWorker'.key = k
  BY <1>3, <1>5, <1>a, <1>b DEF StatesInv
<1> QED BY <1>4, <1>6 DEF StatesInv, AttendedState

\* Once all is written, the namespace has what the reconciler aimed at.
LEMMA AllWritten ==
    ASSUME SwitchInv, StInstancesDone, Admits(stateWorker.key), states[stateWorker.key].live
    PROVE  HasItems(stateWorker.key, Wanted)
<1> USE DEF SwitchInv, LivesInv, CopiesSound
<1>1. stateWorker.pc = "write" /\ stateWorker.todo = {} /\ stateWorker.extra = {}
  BY DEF StInstancesDone
<1>2. Wanted \subseteq Items
  BY <1>1, Typed, TargetType, ItemsType DEF TypeOK, Wanted
<1> QED BY <1>1, <1>2 DEF StWriteOK, Installed, HasItems

LEMMA StatesReconciled ==
    ASSUME BaseInv, StatesInv, StMove
    PROVE  StatesInv'
<1> USE DEF BaseInv, SwitchInv, LivesInv, CopiesSound
<1>k. PICK k \in Namespaces : k = stateWorker.key
  BY Typed
<1> USE <1>k
<1>b. UNCHANGED <<namespaces, stateCache>> /\ StReconcile
  BY DEF StMove, caches
<1>c. /\ \A n \in Namespaces : Arrived(n) \/ AttendedState(n)
      /\ stateWorker.pc # "idle" => AttendedState(k)
  BY DEF StatesInv
<1>d. StIdle.pc = "idle"
  BY IdleTypes
<1>e. ASSUME NEW n \in Namespaces, Arrived(n), states'[n] = states[n],
             \A i \in Items : instances'[n][i] = instances[n][i]
      PROVE  Arrived(n)'
  <2>1. Installed(n)' = Installed(n)
    BY <1>e DEF Installed
  <2> QED BY <1>b, <1>e, <2>1 DEF Arrived, HasItems, Admits, TargetClass
<1>1. ASSUME NEW m \in Namespaces, StGetState(m)
      PROVE  StatesInv'
  <2>1. /\ stateWorker.pc = "idle" /\ stateQueue' = stateQueue \ {m}
        /\ UNCHANGED <<states, instances>>
        /\ stateCache[m].live => /\ stateWorker'.pc = "getClass" /\ stateWorker'.key = m
                                 /\ stateWorker'.state = stateCache[m]
        /\ ~stateCache[m].live => stateWorker'.pc = "idle"
    BY <1>1, <1>d DEF StGetState
  <2>2. ASSUME NEW n \in Namespaces, AttendedState(n) PROVE AttendedState(n)' \/ Arrived(n)
    <3>1. CASE n # m \/ stateCache[n] # states[n] \/ stateCache[m].live
      BY <1>b, <2>1, <2>2, <3>1 DEF AttendedState
    <3>2. CASE stateCache[n] = states[n] /\ ~stateCache[n].live
      BY <3>2 DEF Arrived, LivesOK, NoState
    <3> QED BY <3>1, <3>2
  <2>3. \A n \in Namespaces : Arrived(n) => Arrived(n)'
    BY <1>e, <2>1
  <2>4. ASSUME stateWorker'.pc # "idle" PROVE AttendedState(m)' /\ stateWorker'.key = m
    BY <1>b, <2>1, <2>4 DEF AttendedState
  <2> QED BY <1>c, <2>2, <2>3, <2>4 DEF StatesInv, AttendedState
<1>2. ASSUME UNCHANGED <<states, stateQueue>>, stateWorker.pc # "idle", stateWorker'.pc # "idle",
             stateWorker'.key = k, stateWorker'.state = stateWorker.state,
             \A n \in Namespaces \ {k}, i \in Items : instances'[n][i] = instances[n][i]
      PROVE  StatesInv'
  <2>1. \A n \in Namespaces : AttendedState(n) => AttendedState(n)'
    BY <1>b, <1>2 DEF AttendedState
  <2>2. AttendedState(k)'
    BY <1>c, <1>2, <2>1
  <2>3. \A n \in Namespaces \ {k} : Arrived(n) => Arrived(n)'
    BY <1>e, <1>2
  <2> QED BY <1>c, <1>2, <2>1, <2>2, <2>3 DEF StatesInv, AttendedState
<1>3. ASSUME stateWorker.pc # "idle", stateWorker' = StIdle, stateQueue \subseteq stateQueue',
             UNCHANGED instances, \A n \in Namespaces \ {k} : states'[n] = states[n],
             AttendedState(k)' \/ Arrived(k)'
      PROVE  StatesInv'
  <2>1. \A n \in Namespaces \ {k} : AttendedState(n) => AttendedState(n)'
    BY <1>b, <1>3 DEF AttendedState
  <2>2. \A n \in Namespaces \ {k} : Arrived(n) => Arrived(n)'
    BY <1>e, <1>3
  <2> QED BY <1>c, <1>d, <1>3, <2>1, <2>2 DEF StatesInv
<1>4. CASE StGetClass \/ StListInstances
  <2>1. /\ UNCHANGED <<states, stateQueue, instances>>
        /\ stateWorker.pc # "idle" /\ stateWorker'.pc # "idle"
        /\ stateWorker'.key = k /\ stateWorker'.state = stateWorker.state
    BY <1>4 DEF StGetClass, StListInstances
  <2> QED BY <1>2, <2>1
<1>5. ASSUME NEW j \in Items,
             StAnnotateInstance(j) \/ StCreateInstance(j) \/ StDeleteInstance(j)
      PROVE  StatesInv'
  <2>1. /\ UNCHANGED <<states, stateQueue>>
        /\ stateWorker.pc # "idle" /\ stateWorker'.pc # "idle"
        /\ stateWorker'.key = k /\ stateWorker'.state = stateWorker.state
    BY <1>5 DEF StAnnotateInstance, StCreateInstance, StDeleteInstance, TypeOK, StCall
  <2>2. \E new : instances' = [instances EXCEPT ![k][j] = new]
    BY <1>5 DEF StAnnotateInstance, StCreateInstance, StDeleteInstance
  <2>3. \A n \in Namespaces \ {k}, i \in Items : instances'[n][i] = instances[n][i]
    BY <2>2 DEF TypeOK, InstancesTypeOK
  <2> QED BY <1>2, <2>1, <2>3
<1>6. CASE StCommit
  <2> DEFINE new == Updated(states[k], Committed(stateWorker.state))
  <2>1. /\ states' = [states EXCEPT ![k] = new] /\ stateWorker' = StIdle
        /\ UNCHANGED <<stateQueue, instances>> /\ StInstancesDone
    BY <1>6 DEF StCommit, StReturn
  <2>2. new.obj.pending = NoClass /\ new.obj.class = TargetClass(stateWorker.state)
    BY DEF Updated, Committed
  <2>3. states[k].live /\ stateWorker.pc # "idle"
    BY <1>6, <2>1, CommitMeans DEF StInstancesDone
  <2> HIDE DEF new
  <2>4. states'[k] = new /\ \A n \in Namespaces \ {k} : states'[n] = states[n]
    BY <2>1 DEF TypeOK, StatesTypeOK
  <2>5. ASSUME Admits(k)
        PROVE  /\ Wanted \subseteq Installed(k)'
               /\ InstanceLag \/ Installed(k)' \subseteq Wanted
    <3>1. HasItems(k, Wanted)
      BY <2>1, <2>3, <2>5, AllWritten
    <3>2. Installed(k)' = Installed(k)
      BY <2>1 DEF Installed
    <3> QED BY <3>1, <3>2 DEF HasItems
  <2>6. ItemsOf(TargetClass(states'[k])) = Wanted
    BY <2>2, <2>4 DEF TargetClass, Wanted
  <2>7. Arrived(k)'
    BY <1>b, <2>2, <2>4, <2>5, <2>6 DEF Arrived, HasItems, Admits, TargetClass
  <2> QED BY <1>3, <2>1, <2>3, <2>4, <2>7
<1>7. CASE StNothingToCommit
  <2>1. /\ stateWorker' = StIdle /\ UNCHANGED <<states, stateQueue, instances>>
        /\ StInstancesDone /\ stateWorker.state.obj.pending = NoClass
        /\ stateWorker.pc # "idle"
    BY <1>7 DEF StNothingToCommit, StReturn, StNeedUpdate, StInstancesDone
  <2>2. stateWorker.state = states[k] => Arrived(k)
    BY <2>1, AllWritten DEF Arrived, Wanted
  <2>3. AttendedState(k)' \/ Arrived(k)'
    <3>1. CASE stateWorker.state = states[k]
      BY <1>e, <2>1, <2>2, <3>1
    <3>2. CASE stateWorker.state # states[k]
      BY <1>b, <1>c, <2>1, <3>2 DEF AttendedState
    <3> QED BY <3>1, <3>2
  <2> QED BY <1>3, <2>1, <2>3
<1>8. CASE StRejected
  <2>1. /\ stateWorker' = StIdle /\ stateQueue' = stateQueue \cup {k} /\ stateWorker.pc # "idle"
        /\ UNCHANGED <<states, instances>>
    BY <1>8 DEF StRejected, StRequeue
  <2>2. AttendedState(k)'
    BY <2>1 DEF AttendedState
  <2> QED BY <1>3, <2>1, <2>2
<1> QED BY <1>b, <1>1, <1>4, <1>5, <1>6, <1>7, <1>8 DEF StReconcile

LEMMA StatesNext ==
    ASSUME BaseInv, BaseInv', StatesInv, [Next]_vars
    PROVE  StatesInv'
<1> USE DEF BaseInv, SwitchInv, LivesInv, CopiesSound,
            nsStore, stateStore, instStore, nsVars, stateVars
<1>a. \A n \in Namespaces : states'[n].rv \in Nat
  BY Numbers DEF TypeOK, StatesTypeOK
<1>1. CASE Users
  <2>1. UserMove /\ UNCHANGED <<states, instances, stateCache, stateQueue, stateWorker>>
    BY <1>1 DEF Users, UserMove, caches, workers
  <2>2. PICK m \in Namespaces : NamespaceGoesOn(m)
    BY <2>1, UserWrites
  <2>3. ASSUME NEW n \in Namespaces, Admits(n)', states'[n].live PROVE Admits(n)
    <3>1. states[n].uid >= 1
      BY <2>1, <2>3 DEF LivesOK, Begun
    <3>2. namespaces[n].uid >= 1 /\ namespaces'[n].uid <= 1
      BY <3>1 DEF LivesOK, LastingOK, FirstOnly
    <3> QED BY <2>2, <2>3, <3>2, Typed DEF NamespaceGoesOn, Admits
  <2> QED BY <1>a, <2>1, <2>3, StatesKept
<1>2. CASE Kubernetes
  <2>1. UNCHANGED <<stateCache, stateQueue, stateWorker>>
    BY <1>2 DEF Kubernetes
  <2>2. \A n \in Namespaces : states'[n] = states[n] \/ states[n].rv < states'[n].rv
    BY <1>2, <1>a, KubernetesMoves, TypedStates, Numbers DEF Moves
  <2>3. ASSUME NEW n \in Namespaces, Admits(n)', states'[n].live
        PROVE  /\ Admits(n)
               /\ \A i \in Items : instances'[n][i].live <=> instances[n][i].live
    <3>1. Admits(n) /\ states[n].live
      BY <1>2, <2>3, TidyEnds, Typed DEF StateGoesOn
    <3>2. ASSUME NEW i \in Items PROVE instances'[n][i].live <=> instances[n][i].live
      <4>1. CASE instances'[n][i] = instances[n][i]
        BY <4>1
      <4>2. CASE ~instances[n][i].live
        BY <1>2, <4>2, TidyDeletes
      <4>3. CASE namespaces[n].obj.terminating \/ OrphanInstance(n, i)
        BY <3>1, <4>2, <4>3, NotOrphan DEF Admits, OrphanInstance
      <4> QED BY <1>2, <4>1, <4>2, <4>3, TidyDeletes
    <3> QED BY <3>1, <3>2
  <2> QED BY <1>a, <2>1, <2>2, <2>3, StatesKept
<1>3. CASE SyncStates
  BY <1>3, StatesSynced DEF SyncStates
<1>4. CASE SyncNamespaces \/ SyncInstances \/ Resync \/ UNCHANGED vars
  <2>1. /\ UNCHANGED <<namespaces, states, instances, stateCache, stateWorker>>
        /\ stateQueue \subseteq stateQueue'
    BY <1>4 DEF SyncNamespaces, SyncInstances, Resync, vars
  <2> QED BY <2>1, StatesSynced
<1>5. CASE NsStep
  <2>1. UNCHANGED <<namespaces, instances, stateCache, stateQueue, stateWorker>> /\ NsReconcile
    BY <1>5 DEF NsStep
  <2>2. \A n \in Namespaces : states'[n] = states[n] \/ states[n].rv < states'[n].rv
    BY <1>a, <2>1, NsStepMoves, TypedStates, Numbers DEF Moves
  <2> QED BY <1>a, <2>1, <2>2, StatesKept DEF Admits
<1>6. CASE StateStep
  <2>1. StMove
    BY <1>6 DEF StateStep, StMove, caches
  <2> QED BY <2>1, StatesReconciled
<1>7. CASE Fault
  <2>1. UNCHANGED <<namespaces, instances, states, stateCache>>
    BY <1>7 DEF Fault, NsCallFails, StCallFails
  <2>2. StCallFails \/ UNCHANGED <<stateWorker, stateQueue>>
    BY <1>7 DEF Fault
  <2> QED BY <2>1, <2>2, StatesSynced
<1>8. CASE Restart
  BY <1>8, StatesSynced DEF Restart
<1> QED BY <1>1, <1>2, <1>3, <1>4, <1>5, <1>6, <1>7, <1>8 DEF Next

LEMMA StatesInvInit == Init => StatesInv
<1> SUFFICES ASSUME Init PROVE StatesInv
  OBVIOUS
<1>1. \A n \in Namespaces : ~states[n].live /\ states[n].obj.pending = NoClass
  <2>1. LivesOK
    BY LivesInvInit DEF LivesInv
  <2>2. \A n \in Namespaces : ~states[n].live
    BY VacantNow
  <2>3. NoState.pending = NoClass
    BY DEF NoState
  <2> QED BY <2>1, <2>2, <2>3 DEF LivesOK
<1> QED BY <1>1, IdleTypes DEF StatesInv, Arrived, Init

\* With every queue empty nobody is about to look, so that all is as it should be.
LEMMA SettledMeans ==
    ASSUME BaseInv, NEW rank, NamesInv(rank), StatesInv
    PROVE  SettledFollowsLabel
<1> SUFFICES ASSUME Quiescent, NEW n \in Namespaces PROVE FollowsAsSeen(n)
  BY DEF SettledFollowsLabel
<1> USE DEF BaseInv, SwitchInv, LivesInv, CopiesSound
<1>1. ~AttendedName(n) /\ ~AttendedState(n)
  BY DEF Quiescent, AttendedName, AttendedState, Busy
<1>2. Arrived(n) /\ Recorded(n)
  BY <1>1 DEF NamesInv, StatesInv
<1>3. ~states[n].live => states[n].obj.pending = NoClass /\ states[n].obj.class = NoClass
  BY DEF LivesOK, NoState
<1>4. states[n].live => states[n].obj.class # NoClass
  BY NoClassAssumption DEF TypeOK, StatesTypeOK, NamesClass
<1>5. TargetClass(states[n]) = states[n].obj.class
  BY <1>2 DEF Arrived, TargetClass
<1>6. CASE namespaces[n].live
  <2>1. Admits(n)
    BY <1>6 DEF Admits, Quiescent
  <2>2. states[n].obj.class = namespaces[n].obj.label
    BY <1>1, <1>2, <1>5, <2>1 DEF Recorded, Label
  <2>3. states[n].live => HasItems(n, ItemsOf(states[n].obj.class))
    BY <1>2, <1>5, <2>1 DEF Arrived
  <2>4. ~states[n].live => Installed(n) = {}
    BY DEF Quiescent, OrphanInstance, Owns, Installed
  <2> QED
    BY <1>2, <1>3, <1>4, <1>6, <2>2, <2>3, <2>4
    DEF FollowsAsSeen, HasItems, Labelled, LabelledHasState, UnlabelledHasNone, RecordsLabel, InstallsItems,
        DropsExtras, Arrived
<1>7. CASE ~namespaces[n].live
  <2>1. ~states[n].live
    BY <1>7 DEF Quiescent, OrphanState, Owns
  <2>2. Installed(n) = {}
    BY <2>1 DEF Quiescent, OrphanInstance, Owns, Installed
  <2> QED
    BY <1>7, <2>1, <2>2
    DEF FollowsAsSeen, HasItems, Labelled, LabelledHasState, UnlabelledHasNone, RecordsLabel, InstallsItems,
        DropsExtras
<1> QED BY <1>6, <1>7

LEMMA OnceLasts ==
    ASSUME LivesInv, OnceInv, ~StateLag
    PROVE  LastingOK
<1>1. \A n \in Namespaces : states[n].uid \in Nat
  BY Typed DEF LivesInv, CopiesSound
<1> QED BY <1>1 DEF OnceInv, SeenLeft, Left, Busy, LastingOK

LEMMA StickLasts ==
    ASSUME LivesInv, StickInv
    PROVE  LastingOK
<1>1. /\ \A n \in Namespaces : states[n].uid \in Nat
      /\ nsWorker.key \in Namespaces
  BY Typed DEF LivesInv, CopiesSound
<1>2. nsWorker.pc # "idle" /\ nsWorker.ns.obj.label = NoClass => ~states[nsWorker.key].live
  <2>1. nsWorker.pc # "idle" => nsWorker.ns.live
    BY DEF LivesInv, NsCallOK
  <2> QED BY <1>1, <2>1 DEF StickInv, Given, LivesInv, LivesOK, Begun
<1> QED BY <1>1, <1>2 DEF StickInv, Busy, LastingOK

\* Labels are removed for good and no copy of a NamespaceState is old, or labels are not
\* removed at all.
LabelsLast == (LabelsLeave /\ ~StateLag) \/ LabelsStick

LEMMA BaseHolds ==
    ASSUME LabelsLast
    PROVE  Spec => []BaseInv
<1>1. Spec => []LivesInv
  BY LivesInvInit, LivesInvNext, PTL DEF Spec
<1>2. Spec => []LastingOK /\ []UsedOnce
  <2>1. CASE LabelsLeave /\ ~StateLag
    <3>1. LivesInv /\ OnceInv /\ [Next]_vars => OnceInv'
      BY <2>1, OnceNext
    <3>2. LivesInv /\ OnceInv => LastingOK /\ UsedOnce
      BY <2>1, OnceLasts DEF OnceInv, FirstOnly, UsedOnce
    <3> QED BY <1>1, <3>1, <3>2, OnceInit, PTL DEF Spec
  <2>2. CASE LabelsStick
    <3>1. LivesInv /\ StickInv /\ [Next]_vars => StickInv'
      BY <2>2, StickNext
    <3>2. LivesInv /\ StickInv => LastingOK /\ UsedOnce
      BY StickLasts DEF StickInv, FirstOnly, UsedOnce
    <3> QED BY <1>1, <3>1, <3>2, StickInit, PTL DEF Spec
  <2> QED BY <2>1, <2>2 DEF LabelsLast
<1>3. SwitchInv /\ UsedOnce /\ UsedOnce' /\ [Next]_vars => SwitchInv'
  BY SwitchInvNext
<1>4. SwitchInv /\ UsedOnce /\ LastingOK => BaseInv
  BY DEF BaseInv
<1> QED BY <1>2, <1>3, <1>4, SwitchInvInit, PTL DEF Spec

\* Once no reconciler has anything left to do, every namespace follows its label: with a
\* label it has a NamespaceState that records it as the class and all the instances that
\* class asks for, and no others where the list of instances is never old, and without one
\* it has neither. It is so where a deleted namespace does
\* not come back, labels only ever move on, and they are not removed, or are removed where
\* the copies of NamespaceStates are never old (namespace_controller.go:60-144,
\* namespacestate_controller.go:49-153).
THEOREM FollowsLabel ==
    ASSUME LabelsForward, LabelsLast
    PROVE  Spec => []SettledFollowsLabel
<1>1. PICK rank \in [Labels -> Nat] : Forward(rank)
  BY DEF LabelsForward
<1>2. BaseInv /\ BaseInv' /\ NamesInv(rank) /\ [Next]_vars => NamesInv(rank)'
  BY <1>1, NamesNext DEF LabelsLast, LabelsLeave, LabelsStick
<1>3. BaseInv /\ BaseInv' /\ StatesInv /\ [Next]_vars => StatesInv'
  BY StatesNext
<1>4. Init => NamesInv(rank) /\ StatesInv
  BY NamesInit, StatesInvInit
<1>5. BaseInv /\ NamesInv(rank) /\ StatesInv => SettledFollowsLabel
  BY SettledMeans
<1>6. Spec => []BaseInv
  BY BaseHolds
<1> QED BY <1>2, <1>3, <1>4, <1>5, <1>6, PTL DEF Spec
=============================================================================
