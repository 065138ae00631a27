----------------------- MODULE NamespaceClassController -----------------------
(***************************************************************************)
(* internal/controller/namespaceclass_controller.go: the reconciler that   *)
(* tells the NamespaceStates of a class that the class changed, keeps the  *)
(* class listed in its items' status, and takes it out again before it     *)
(* lets a deleted class go.  Steps and errors are as in                    *)
(* NamespaceController.                                                    *)
(***************************************************************************)
EXTENDS StateStore, Webhooks

VARIABLES
    classQueue,     \* keys waiting to be reconciled
    classWorker     \* the Reconcile call in progress

clVars == <<classQueue, classWorker>>

CONSTANT
    ItemLag         \* may the read of an item be out of date?

\* update: Reconcile of a class that stays; release: handleDeletion.
ClCall ==
    [pc : {"idle", "addFinalizer", "list", "update", "addRef", "release", "dropRef"},
     key : Classes,
     class : Slot(NamespaceClass),                  \* nc
     marks : SUBSET Namespaces,                     \* states to annotate
     seen  : [Namespaces -> Slot(NamespaceState)],  \* nsList
     todo  : SUBSET Items,                          \* spec.items not handled yet
     at    : Items, item : Slot(NamespaceClassItem)] \* nci

NoStatesSeen == [n \in Namespaces |-> Vacant(NoState)]

\* A call at work on a class, before it has read anything else.
ClAt(pc, key, class, todo) ==
    [pc |-> pc, key |-> key, class |-> class, marks |-> {}, seen |-> NoStatesSeen,
     todo |-> todo, at |-> CHOOSE i \in Items : TRUE, item |-> Vacant(NoItem)]

ClIdle == ClAt("idle", CHOOSE c \in Classes : TRUE, Vacant(NoClassObject), {})

ClReturn == classWorker' = ClIdle /\ UNCHANGED classQueue

\* Reconcile returned an error: the key is queued again.
ClRequeue ==
    /\ classWorker' = ClIdle
    /\ classQueue' = classQueue \cup {classWorker.key}

-----------------------------------------------------------------------------
\* Mutant of ClFirst: the finalizer comes with a later update.
ClFirstLate(class) == IF class.obj.deleting THEN "release" ELSE "list"

\* Where Reconcile starts with the class it read.
ClFirst(class) ==
    CASE class.obj.deleting                          -> "release"
      [] ~class.obj.deleting /\ ~class.obj.finalizer -> "addFinalizer"
      [] OTHER                                       -> "list"

ClGetClass(c) ==
    LET class == classCache[c] IN
    /\ classWorker.pc = "idle"
    /\ c \in classQueue
    /\ classQueue' = classQueue \ {c}
    /\ classWorker' = IF class.live THEN ClAt(ClFirst(class), c, class, class.obj.items)
                      ELSE ClIdle
    /\ UNCHANGED <<states, classes, items>>

\* The reconciler may write back its copy of the class.
ClMayUpdate ==
    /\ SameVersion(classes[classWorker.key], classWorker.class)
    /\ AdmitsClass(classWorker.class.obj.items)

WithFinalizer(class) == [class EXCEPT !.finalizer = TRUE]

ClAddFinalizer ==
    LET c == classWorker.key
        new == Updated(classes[c], WithFinalizer(classWorker.class.obj))
    IN
    /\ classWorker.pc = "addFinalizer"
    /\ ClMayUpdate
    /\ classes' = [classes EXCEPT ![c] = new]
    /\ classWorker' = ClAt("list", c, new, classWorker.todo)
    /\ UNCHANGED <<states, items, classQueue>>

\* The NamespaceStates of the class that are not annotated yet.
ToAnnotate(c, seen) ==
    {n \in Namespaces : /\ seen[n].live
                        /\ seen[n].obj.class = c
                        /\ ~seen[n].obj.classUpdated}

ClListStates ==
    /\ classWorker.pc = "list"
    /\ classWorker' = [pc |-> "update", key |-> classWorker.key,
                       class |-> classWorker.class,
                       marks |-> ToAnnotate(classWorker.key, stateCache),
                       seen |-> stateCache, todo |-> classWorker.todo,
                       at |-> classWorker.at, item |-> classWorker.item]
    /\ UNCHANGED <<states, classes, items, classQueue>>

WithClassUpdated(state) == [state EXCEPT !.classUpdated = TRUE]

ClAnnotateState(n) ==
    /\ classWorker.pc = "update"
    /\ n \in classWorker.marks
    /\ SameVersion(states[n], classWorker.seen[n])
    /\ states' = [states EXCEPT ![n] =
                     Updated(@, WithClassUpdated(classWorker.seen[n].obj))]
    /\ classWorker' = [classWorker EXCEPT !.marks = @ \ {n}]
    /\ UNCHANGED <<classes, items, classQueue>>

\* Mutant of ClPasses: a class that is going away passes listed items over, too.
ClPassesListed(w, item) == ~item.live \/ w.key \in item.obj.refs

\* Nothing to do for an item: it does not exist or lists the class already.
ClPasses(w, item) == ~item.live \/ (w.pc = "update" /\ w.key \in item.obj.refs)

\* Read the next item.
ClGetItem(i) ==
    LET w == classWorker
        item == itemCache[i]
    IN
    /\ w.pc \in {"update", "release"}
    /\ w.marks = {}
    /\ i \in w.todo
    /\ ItemLag \/ itemCache = items
    /\ classWorker' =
          IF ClPasses(w, item)
          THEN [w EXCEPT !.todo = @ \ {i}]
          ELSE [pc |-> IF w.pc = "update" THEN "addRef" ELSE "dropRef",
                key |-> w.key, class |-> w.class, marks |-> {}, seen |-> w.seen,
                todo |-> w.todo, at |-> i, item |-> item]
    /\ UNCHANGED <<states, classes, items, classQueue>>

WithRefs(item, refs) == [item EXCEPT !.refs = refs]

\* Write status.referencedBy, then go on with the next item.
ClWriteRefs(pc, refs, next) ==
    LET w == classWorker IN
    /\ w.pc = pc
    /\ SameVersion(items[w.at], w.item)
    /\ items' = [items EXCEPT ![w.at] = Updated(@, WithRefs(w.item.obj, refs))]
    /\ classWorker' = [pc |-> next, key |-> w.key, class |-> w.class, marks |-> {},
                       seen |-> w.seen, todo |-> w.todo \ {w.at}, at |-> w.at,
                       item |-> w.item]
    /\ UNCHANGED <<states, classes, classQueue>>

ClAddRef ==
    ClWriteRefs("addRef", classWorker.item.obj.refs \cup {classWorker.key}, "update")

\* Written back even when the class was not listed.
ClDropRef ==
    ClWriteRefs("dropRef", classWorker.item.obj.refs \ {classWorker.key}, "release")

ClItemsDone == classWorker.marks = {} /\ classWorker.todo = {}

WithoutTrigger(class) == [class EXCEPT !.itemUpdated = FALSE]

\* Reconcile ends by taking off the annotation that an item changed.
ClRemoveTrigger ==
    LET c == classWorker.key IN
    /\ classWorker.pc = "update"
    /\ ClItemsDone
    /\ classWorker.class.obj.itemUpdated
    /\ ClMayUpdate
    /\ classes' = [classes EXCEPT ![c] =
                      Updated(@, WithoutTrigger(classWorker.class.obj))]
    /\ ClReturn
    /\ UNCHANGED <<states, items>>

ClNoTrigger ==
    /\ classWorker.pc = "update"
    /\ ClItemsDone
    /\ ~classWorker.class.obj.itemUpdated
    /\ ClReturn
    /\ UNCHANGED <<states, classes, items>>

\* handleDeletion ends by taking off the finalizer: the class is gone.
ClRemoveFinalizer ==
    LET c == classWorker.key IN
    /\ classWorker.pc = "release"
    /\ ClItemsDone
    /\ ClMayUpdate
    /\ classes' = [classes EXCEPT ![c] = Deleted(@, NoClassObject)]
    /\ ClReturn
    /\ UNCHANGED <<states, items>>

\* The worker is about to write the class.
ClUpdatesClass ==
    \/ classWorker.pc = "addFinalizer"
    \/ classWorker.pc = "update" /\ ClItemsDone /\ classWorker.class.obj.itemUpdated
    \/ classWorker.pc = "release" /\ ClItemsDone

\* The API server refuses the next write.
ClRejected ==
    LET w == classWorker IN
    /\ \/ ClUpdatesClass /\ ~ClMayUpdate
       \/ w.pc = "update" /\ \E n \in w.marks : ~SameVersion(states[n], w.seen[n])
       \/ w.pc \in {"addRef", "dropRef"} /\ ~SameVersion(items[w.at], w.item)
    /\ ClRequeue
    /\ UNCHANGED <<states, classes, items>>

\* The next write fails for a reason of its own: a timeout, a connection lost.
ClCallFails ==
    LET w == classWorker IN
    /\ \/ ClUpdatesClass
       \/ w.pc = "update" /\ w.marks # {}
       \/ w.pc \in {"addRef", "dropRef"}
    /\ ClRequeue
    /\ UNCHANGED <<states, classes, items>>

ClReconcile ==
    \/ \E c \in Classes : ClGetClass(c)
    \/ ClAddFinalizer
    \/ ClListStates
    \/ \E n \in Namespaces : ClAnnotateState(n)
    \/ \E i \in Items : ClGetItem(i)
    \/ ClAddRef
    \/ ClDropRef
    \/ ClRemoveTrigger
    \/ ClNoTrigger
    \/ ClRemoveFinalizer
    \/ ClRejected
=============================================================================
