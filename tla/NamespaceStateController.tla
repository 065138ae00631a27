---------------------- MODULE NamespaceStateController ----------------------
(***************************************************************************)
(* internal/controller/namespacestate_controller.go: the reconciler that   *)
(* gives a namespace one NamespaceItemInstance for every item of its       *)
(* class, and commits a pending class once the instances follow it.  Steps *)
(* and errors are as in NamespaceController.                               *)
(***************************************************************************)
EXTENDS NamespaceStore, StateStore, ClassStore, InstanceStore

VARIABLES
    stateQueue,     \* keys waiting to be reconciled
    stateWorker     \* the Reconcile call in progress

stateVars == <<stateQueue, stateWorker>>

CONSTANT
    InstanceLag     \* may the list of instances be out of date?

StCall ==
    [pc : {"idle", "getClass", "list", "write"}, key : Namespaces,
     state : Slot(NamespaceState),          \* nsState
     todo  : SUBSET Items,                  \* desiredItems not handled yet
     extra : SUBSET Items,                  \* what will be left in existingMap
     seen  : [Items -> Slot(NamespaceItemInstance)]]  \* existingNIIList

NothingSeen == [i \in Items |-> Vacant(NoInstance)]

StIdle ==
    [pc |-> "idle", key |-> CHOOSE n \in Namespaces : TRUE,
     state |-> Vacant(NoState), todo |-> {}, extra |-> {}, seen |-> NothingSeen]

StReturn == stateWorker' = StIdle /\ UNCHANGED stateQueue

\* Reconcile returned an error: the key is queued again.
StRequeue ==
    /\ stateWorker' = StIdle
    /\ stateQueue' = stateQueue \cup {stateWorker.key}

-----------------------------------------------------------------------------
StGetState(n) ==
    /\ stateWorker.pc = "idle"
    /\ n \in stateQueue
    /\ stateQueue' = stateQueue \ {n}
    /\ stateWorker' = IF stateCache[n].live
                      THEN [pc |-> "getClass", key |-> n, state |-> stateCache[n],
                            todo |-> {}, extra |-> {}, seen |-> NothingSeen]
                      ELSE StIdle
    /\ UNCHANGED <<states, instances>>

\* The class the namespace is to follow: the pending one, if there is one.
TargetClass(state) ==
    IF state.obj.pending # NoClass THEN state.obj.pending ELSE state.obj.class

\* A class that cannot be read counts as a class without items.
DesiredItems(class) ==
    IF classCache[class].live THEN classCache[class].obj.items ELSE {}

StGetClass ==
    /\ stateWorker.pc = "getClass"
    /\ stateWorker' = [pc |-> "list", key |-> stateWorker.key,
                       state |-> stateWorker.state,
                       todo  |-> DesiredItems(TargetClass(stateWorker.state)),
                       extra |-> {}, seen |-> NothingSeen]
    /\ UNCHANGED <<states, instances, stateQueue>>

\* Mutant of LeftOver: handled items are not taken out of existingMap.
AllListed(seen, desired) == {i \in Items : seen[i].live}

\* What is left in existingMap once every desired item is handled.
LeftOver(seen, desired) == {i \in Items : seen[i].live} \ desired

StListInstances ==
    /\ stateWorker.pc = "list"
    /\ InstanceLag \/ instCache = instances
    /\ LET seen == instCache[stateWorker.key]
       IN  stateWorker' = [pc |-> "write", key |-> stateWorker.key,
                           state |-> stateWorker.state,
                           todo  |-> stateWorker.todo,
                           extra |-> LeftOver(seen, stateWorker.todo),
                           seen  |-> seen]
    /\ UNCHANGED <<states, instances, stateQueue>>

Touched(instance) == [instance EXCEPT !.updated = TRUE]

\* A desired item that has an instance in the list: touch the instance.
StAnnotateInstance(i) ==
    LET n == stateWorker.key  IN
    /\ stateWorker.pc = "write"
    /\ i \in stateWorker.todo
    /\ stateWorker.seen[i].live
    /\ SameVersion(instances[n][i], stateWorker.seen[i])
    /\ instances' = [instances EXCEPT ![n][i] =
                        Updated(@, Touched(stateWorker.seen[i].obj))]
    /\ stateWorker' = [stateWorker EXCEPT !.todo = @ \ {i}]
    /\ UNCHANGED <<states, stateQueue>>

NewInstance(state) ==
    [owner |-> state.uid, updated |-> FALSE, obs |-> 0, kind |-> NoKind]

StCreateInstance(i) ==
    LET n == stateWorker.key  IN
    /\ stateWorker.pc = "write"
    /\ i \in stateWorker.todo
    /\ ~stateWorker.seen[i].live
    /\ ~instances[n][i].live
    /\ Admits(n)
    /\ instances' = [instances EXCEPT ![n][i] = Created(@, NewInstance(stateWorker.state))]
    /\ stateWorker' = [stateWorker EXCEPT !.todo = @ \ {i}]
    /\ UNCHANGED <<states, stateQueue>>

\* Instances left over once every desired item is handled.
StDeleteInstance(i) ==
    LET n == stateWorker.key  IN
    /\ stateWorker.pc = "write"
    /\ stateWorker.todo = {}
    /\ i \in stateWorker.extra
    /\ instances[n][i].live
    /\ instances' = [instances EXCEPT ![n][i] = Deleted(@, NoInstance)]
    /\ stateWorker' = [stateWorker EXCEPT !.extra = @ \ {i}]
    /\ UNCHANGED <<states, stateQueue>>

\* Mutant of StInstancesDone: commit first, delete the rest later.
StDesiredDone == stateWorker.pc = "write" /\ stateWorker.todo = {}

StInstancesDone ==
    stateWorker.pc = "write" /\ stateWorker.todo = {} /\ stateWorker.extra = {}

\* Mutant of StNeedUpdate: only a pending class is committed.
StNeedSwitch(state) == state.obj.pending # NoClass

StNeedUpdate(state) == state.obj.pending # NoClass \/ state.obj.classUpdated

\* Mutant of Committed: the class-updated annotation is removed, the pending one kept.
CommittedHalf(state) ==
    [owner |-> state.obj.owner, class |-> TargetClass(state),
     pending |-> state.obj.pending, classUpdated |-> FALSE]

Committed(state) ==
    [owner |-> state.obj.owner, class |-> TargetClass(state), pending |-> NoClass,
     classUpdated |-> FALSE]

\* Mutant of StCommit: the update carries no resourceVersion.
StCommitBlindly ==
    LET n == stateWorker.key IN
    /\ StInstancesDone
    /\ StNeedUpdate(stateWorker.state)
    /\ states[n].live
    /\ states' = [states EXCEPT ![n] = Updated(@, Committed(stateWorker.state))]
    /\ StReturn
    /\ UNCHANGED instances

StCommit ==
    LET n == stateWorker.key  IN
    /\ StInstancesDone
    /\ StNeedUpdate(stateWorker.state)
    /\ SameVersion(states[n], stateWorker.state)
    /\ states' = [states EXCEPT ![n] = Updated(@, Committed(stateWorker.state))]
    /\ StReturn
    /\ UNCHANGED instances

StNothingToCommit ==
    /\ StInstancesDone
    /\ ~StNeedUpdate(stateWorker.state)
    /\ StReturn
    /\ UNCHANGED <<states, instances>>

\* The API server refuses the next write: Conflict, NotFound, AlreadyExists or
\* Forbidden.
StRejected ==
    LET n == stateWorker.key
        s == stateWorker.seen
    IN
    /\ stateWorker.pc = "write"
    /\ \/ \E i \in stateWorker.todo :
            IF s[i].live THEN ~SameVersion(instances[n][i], s[i])
                         ELSE instances[n][i].live \/ ~Admits(n)
       \/ stateWorker.todo = {} /\ \E i \in stateWorker.extra : ~instances[n][i].live
       \/ /\ StInstancesDone
          /\ StNeedUpdate(stateWorker.state)
          /\ ~SameVersion(states[n], stateWorker.state)
    /\ StRequeue
    /\ UNCHANGED <<states, instances>>

\* The next write fails for a reason of its own: a timeout, a connection lost.
StCallFails ==
    /\ stateWorker.pc = "write"
    /\ StRequeue
    /\ UNCHANGED <<states, instances>>

StReconcile ==
    \/ \E n \in Namespaces : StGetState(n)
    \/ StGetClass
    \/ StListInstances
    \/ \E i \in Items : StAnnotateInstance(i) \/ StCreateInstance(i) \/ StDeleteInstance(i)
    \/ StCommit
    \/ StNothingToCommit
    \/ StRejected
=============================================================================
