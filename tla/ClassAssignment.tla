--------------------------- MODULE ClassAssignment ---------------------------
(***************************************************************************)
(* How a namespace comes to follow the class its label names.              *)
(*                                                                         *)
(* Composes the Namespace and the NamespaceState reconcilers, which        *)
(* communicate only through the NamespaceState they both read from their   *)
(* informer cache and write with optimistic locking.  Around them: users   *)
(* who create, label and delete namespaces, the informers, the garbage     *)
(* collector and the namespace lifecycle of Kubernetes, and a manager that *)
(* may restart.  The classes do not change here (see ClassRollout).        *)
(***************************************************************************)
EXTENDS NamespaceController, NamespaceStateController, Housekeeping

CONSTANTS
    ClassItems,     \* the items of every class that exists
    LabelMoves,     \* the changes of label users make: <<from, to>> pairs
    Resyncs,        \* do the informers resync?
    \* Bounds.
    MaxEdits,       \* relabellings and deletions by users
    MaxLives,       \* namespaces created under one name
    MaxCreated,     \* objects created under one name from old copies
    MaxFaults,      \* writes that fail for a reason of their own
    MaxRestarts,    \* restarts of the manager
    MaxMishaps      \* both together

VARIABLES
    edits, faults, restarts     \* what is used of the bounds

boundVars == <<edits, faults, restarts>>

vars == <<nsStore, stateStore, instStore, classStore, nsVars, stateVars, boundVars>>

ASSUME ClassAssumption ==
    /\ Namespaces # {}
    /\ DOMAIN ClassItems \subseteq Classes
    /\ \A c \in DOMAIN ClassItems : ClassItems[c] \subseteq Items

ItemsOf(class) == IF class \in DOMAIN ClassItems THEN ClassItems[class] ELSE {}

\* The classes, which nobody changes here; a class that ClassItems says nothing
\* of does not exist.
KnownClasses ==
    [c \in Classes |->
        [live |-> c \in DOMAIN ClassItems, uid |-> 1, rv |-> 1,
         obj  |-> [items |-> ItemsOf(c), finalizer |-> TRUE, deleting |-> FALSE,
                   itemUpdated |-> FALSE]]]

-----------------------------------------------------------------------------
(***************************************************************************)
(* Users                                                                   *)
(***************************************************************************)
CreateNamespace(n, label) ==
    /\ ~namespaces[n].live
    /\ namespaces[n].uid < MaxLives
    /\ namespaces' = [namespaces EXCEPT ![n] =
                         Created(@, [terminating |-> FALSE, label |-> label])]
    /\ UNCHANGED <<edits, faults, restarts>>

Relabel(n, label) ==
    /\ edits < MaxEdits
    /\ namespaces[n].live
    /\ <<namespaces[n].obj.label, label>> \in LabelMoves
    /\ namespaces' = [namespaces EXCEPT ![n] = Updated(@, [@.obj EXCEPT !.label = label])]
    /\ edits' = edits + 1
    /\ UNCHANGED <<faults, restarts>>

DeleteNamespace(n) ==
    /\ edits < MaxEdits
    /\ namespaces[n].live
    /\ ~namespaces[n].obj.terminating
    /\ namespaces' = [namespaces EXCEPT ![n] = Updated(@, [@.obj EXCEPT !.terminating = TRUE])]
    /\ edits' = edits + 1
    /\ UNCHANGED <<faults, restarts>>

Users ==
    /\ \E n \in Namespaces :
          \/ \E label \in Labels : CreateNamespace(n, label) \/ Relabel(n, label)
          \/ DeleteNamespace(n)
    /\ UNCHANGED <<nsCache, stateStore, instStore, classStore, nsVars, stateVars>>

Kubernetes ==
    /\ \E n \in Namespaces :
          \/ RemoveNamespace(n)
          \/ CollectState(n)
          \/ \E i \in Items : PurgeInstance(n, i) \/ CollectInstance(n, i)
    /\ UNCHANGED <<nsCache, stateCache, instCache, classStore, nsVars, stateVars, boundVars>>

(***************************************************************************)
(* The manager: informers, reconcilers, restarts                           *)
(***************************************************************************)
SyncNamespaces ==
    /\ nsCache # namespaces
    /\ nsCache' = namespaces
    /\ nsQueue' = nsQueue \cup Changed(nsCache, namespaces)
    /\ UNCHANGED <<namespaces, stateStore, instStore, classStore, nsWorker, stateVars,
                   boundVars>>

SyncStates ==
    /\ stateCache # states
    /\ stateCache' = states
    /\ stateQueue' = stateQueue \cup Changed(stateCache, states)
    /\ UNCHANGED <<nsStore, states, instStore, classStore, nsVars, stateWorker,
                   boundVars>>

SyncInstances ==
    /\ instCache # instances
    /\ instCache' = instances
    /\ UNCHANGED <<nsStore, stateStore, instances, classStore, nsVars, stateVars,
                   boundVars>>

\* A worker that keeps reading an old copy of an owner creates, and the collector
\* collects, the same object over and over: it may start on one only so often.
FewCreated ==
    \A n \in Namespaces :
        states[n].uid < MaxCreated /\ \A i \in Items : instances[n][i].uid < MaxCreated

\* Every ten hours the informers hand all they have to the reconcilers again.
Resync ==
    /\ Resyncs
    /\ nsQueue' = nsQueue \cup Living(nsCache)
    /\ stateQueue' = stateQueue \cup Living(stateCache)
    /\ UNCHANGED <<nsStore, stateStore, instStore, classStore, nsWorker, stateWorker,
                   boundVars>>

NsStep ==
    /\ NsReconcile
    /\ nsWorker.pc = "idle" => nsCache = namespaces \/ FewCreated
    /\ UNCHANGED <<nsStore, stateCache, instStore, classStore, stateVars, boundVars>>

StateStep ==
    /\ StReconcile
    /\ stateWorker.pc = "idle" => stateCache = states \/ FewCreated
    /\ UNCHANGED <<nsStore, stateCache, instCache, classStore, nsVars, boundVars>>

Fault ==
    /\ faults < MaxFaults
    /\ faults + restarts < MaxMishaps
    /\ faults' = faults + 1
    /\ \/ NsCallFails /\ UNCHANGED <<instances, stateVars>>
       \/ StCallFails /\ UNCHANGED nsVars
    /\ UNCHANGED <<nsStore, stateCache, instCache, classStore, edits, restarts>>

\* A new process lists every object into its caches and queues every key.
Restart ==
    /\ restarts < MaxRestarts
    /\ faults + restarts < MaxMishaps
    /\ restarts' = restarts + 1
    /\ nsCache' = namespaces
    /\ stateCache' = states
    /\ instCache' = instances
    /\ nsQueue' = Living(namespaces)
    /\ stateQueue' = Living(states)
    /\ nsWorker' = NsIdle
    /\ stateWorker' = StIdle
    /\ UNCHANGED <<namespaces, states, instances, classStore, edits, faults>>

-----------------------------------------------------------------------------
Init ==
    /\ NamespacesInit
    /\ StatesInit
    /\ InstancesInit
    /\ classes = KnownClasses /\ classCache = KnownClasses
    /\ nsQueue = {} /\ nsWorker = NsIdle
    /\ stateQueue = {} /\ stateWorker = StIdle
    /\ edits = 0 /\ faults = 0 /\ restarts = 0

Next ==
    \/ Users
    \/ Kubernetes
    \/ SyncNamespaces
    \/ SyncStates
    \/ SyncInstances
    \/ Resync
    \/ NsStep
    \/ StateStep
    \/ Fault
    \/ Restart

Spec == Init /\ [][Next]_vars

\* The informers deliver, the workers run and Kubernetes tidies up; nothing
\* obliges users to act, calls to fail or the manager to restart.
Fairness ==
    /\ WF_vars(SyncNamespaces)
    /\ WF_vars(SyncStates)
    /\ WF_vars(SyncInstances)
    /\ WF_vars(Resync)
    /\ WF_vars(NsStep)
    /\ WF_vars(StateStep)
    /\ WF_vars(Kubernetes)

FairSpec == Spec /\ Fairness

-----------------------------------------------------------------------------
\* Every variable holds values of its kind; a NamespaceState, and every copy of
\* one, names a class, and whoever writes one has seen the label
\* (namespace_controller.go:70) or a copy that exists
\* (namespacestate_controller.go:57).
TypeOK ==
    /\ NamespacesTypeOK
    /\ StatesTypeOK
    /\ InstancesTypeOK
    /\ classes = KnownClasses /\ classCache = KnownClasses
    /\ nsQueue \subseteq Namespaces
    /\ nsWorker \in NsCall
    /\ nsWorker.pc = "markPending" => nsWorker.state.live /\ NamesClass(nsWorker.state)
    /\ nsWorker.pc \in {"markPending", "createState"} => nsWorker.ns.obj.label \in Classes
    /\ stateQueue \subseteq Namespaces
    /\ stateWorker \in StCall
    /\ stateWorker.pc # "idle" => stateWorker.state.live /\ NamesClass(stateWorker.state)

\* Nothing is left to do until a user acts: every queue is empty, every worker
\* idle, every cache up to date, and Kubernetes has nothing to collect.
Quiescent ==
    /\ nsQueue = {} /\ stateQueue = {}
    /\ nsWorker.pc = "idle" /\ stateWorker.pc = "idle"
    /\ nsCache = namespaces /\ stateCache = states /\ instCache = instances
    /\ \A n \in Namespaces :
          /\ ~namespaces[n].obj.terminating
          /\ ~OrphanState(n)
          /\ \A i \in Items : ~OrphanInstance(n, i)

Installed(n) == {i \in Items : instances[n][i].live}

Labelled(n) == namespaces[n].live /\ namespaces[n].obj.label # NoClass

LabelledHasState(n) == Labelled(n) => states[n].live

UnlabelledHasNone(n) == ~Labelled(n) => ~states[n].live

RecordsLabel(n) ==
    Labelled(n) /\ states[n].live
    => states[n].obj.class = namespaces[n].obj.label /\ states[n].obj.pending = NoClass

InstallsItems(n) == states[n].live => ItemsOf(states[n].obj.class) \subseteq Installed(n)

DropsExtras(n) ==
    Installed(n) \subseteq IF states[n].live THEN ItemsOf(states[n].obj.class) ELSE {}

\* The namespace has exactly what its label asks for.
Follows(n) ==
    /\ LabelledHasState(n)
    /\ UnlabelledHasNone(n)
    /\ RecordsLabel(n)
    /\ InstallsItems(n)
    /\ DropsExtras(n)

\* It has it but for an instance of a class it has left, which a list that may be old
\* does not have to show: nobody looks for it again before the next change.
FollowsAsSeen(n) ==
    /\ LabelledHasState(n)
    /\ UnlabelledHasNone(n)
    /\ RecordsLabel(n)
    /\ InstallsItems(n)
    /\ ~InstanceLag \/ ~states[n].live => DropsExtras(n)

\* Whatever order users, informers, reconcilers, failures and the collector act
\* in, once nothing is left to do every namespace has the NamespaceState and the
\* instances its label asks for, and no others where the list of instances is up to date
\* or the label is gone (namespace_controller.go Reconcile together with
\* namespacestate_controller.go Reconcile).
SettledFollowsLabel == Quiescent => \A n \in Namespaces : FollowsAsSeen(n)

\* One part of it: the class on record is the class of the label
\* (namespace_controller.go:103-118).
SettledRecordsLabel == Quiescent => \A n \in Namespaces : RecordsLabel(n)

\* The class a NamespaceState records changes only to the class that was pending
\* in the very version that the change replaces: a reconcile that works from an
\* old copy never commits a class nobody is asking for any more
\* (namespacestate_controller.go:145-153).
SwitchOnlyToPending ==
    [][\A n \in Namespaces :
          /\ states[n].live /\ states'[n].live
          /\ states'[n].obj.class # states[n].obj.class
          => /\ states'[n].uid = states[n].uid
             /\ states'[n].obj.class = states[n].obj.pending]_vars

\* While a NamespaceState is committed to a class and no other is pending, none
\* of the instances it owns for that class is deleted, except with its namespace:
\* no reconcile that started from an old copy tears them down
\* (namespacestate_controller.go:137-142).
CommittedInstancesStay ==
    [][\A n \in Namespaces, i \in Items :
          /\ states[n].live /\ states[n].obj.pending = NoClass
          /\ instances[n][i].live /\ Owns(states[n], instances[n][i])
          /\ i \in ItemsOf(states[n].obj.class)
          /\ ~namespaces[n].obj.terminating
          => instances'[n][i].live]_vars

\* A pending class is committed only when the namespace, unless it is being
\* deleted, has all the instances of that class, and no other that the list of the
\* reconcile showed; a list that is up to date shows every one
\* (namespacestate_controller.go:91-153: the commit comes after every create and every
\* delete).
CommitInstalls ==
    [][\A n \in Namespaces :
          /\ states[n].live /\ states'[n].live
          /\ states'[n].obj.class # states[n].obj.class
          /\ namespaces[n].live /\ ~namespaces[n].obj.terminating
          => /\ ItemsOf(states'[n].obj.class) \subseteq Installed(n)
             /\ \A i \in Installed(n) \ ItemsOf(states'[n].obj.class) :
                   InstanceLag /\ ~stateWorker.seen[i].live]_vars

\* No namespace gets a second NamespaceState under its name while it exists, and no
\* name a second namespace: so long as labels are not given back, the reconciler never
\* takes the answer of an old copy for a reason to make another one
\* (namespace_controller.go:93-144).
UsedOnce ==
    \A n \in Namespaces : namespaces[n].uid <= 1 /\ (Admits(n) => states[n].uid <= 1)

\* Every run ends with every namespace following its label for good: no request
\* is left hanging between the two reconcilers (namespace_controller.go Reconcile,
\* namespacestate_controller.go Reconcile).
Converges == <>[](\A n \in Namespaces : Follows(n))

-----------------------------------------------------------------------------
(***************************************************************************)
(* The invariant behind SwitchOnlyToPending and CommittedInstancesStay.    *)
(***************************************************************************)
\* While nothing is pending in a NamespaceState, a copy of it aims at its class.
AimsRight(copy, stored) ==
    stored.live /\ stored.obj.pending = NoClass /\ copy.live /\ copy.uid = stored.uid
    => TargetClass(copy) = stored.obj.class

\* Whoever holds the copy has seen the owners of all these instances.
OwnersSeen(copy, slots) == \A i \in Items : slots[i].obj.owner <= copy.uid

CacheOK ==
    \A n \in Namespaces :
        /\ Fresh(stateCache[n], states[n])
        /\ AimsRight(stateCache[n], states[n])
        /\ OwnersSeen(stateCache[n], instances[n])
        /\ OwnersSeen(stateCache[n], instCache[n])

\* The NamespaceState reconciler holds a copy no newer than the informer's, and
\* what it is going to delete is not of the class it aims at.
StateWorkerOK ==
    LET w == stateWorker
        n == stateWorker.key
    IN
    w.pc # "idle" =>
        /\ w.state.rv <= stateCache[n].rv
        /\ w.state.uid <= stateCache[n].uid
        /\ Fresh(w.state, states[n])
        /\ AimsRight(w.state, states[n])
        /\ OwnersSeen(w.state, instances[n])
        /\ OwnersSeen(w.state, instCache[n])
        /\ OwnersSeen(w.state, w.seen)
        /\ w.pc = "list"  => w.todo = ItemsOf(TargetClass(w.state))
        /\ w.pc = "write" => w.extra \cap ItemsOf(TargetClass(w.state)) = {}

NsWorkerOK ==
    nsWorker.pc = "markPending" => Fresh(nsWorker.state, states[nsWorker.key])

\* Copies in caches and workers may be old, yet never misleading: each was the
\* stored object, none is ahead of it, and once a switch of class is committed
\* no copy of that NamespaceState aims anywhere else
\* (namespacestate_controller.go:66-153, namespace_controller.go:93-118).
CopiesSound == TypeOK /\ CacheOK /\ StateWorkerOK /\ NsWorkerOK
=============================================================================
