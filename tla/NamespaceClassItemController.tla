--------------------- MODULE NamespaceClassItemController ---------------------
(***************************************************************************)
(* internal/controller/namespaceclassitem_controller.go: the reconciler    *)
(* that tells the classes of an item that its specification changed.       *)
(* Steps and errors are as in NamespaceController.                         *)
(***************************************************************************)
EXTENDS Webhooks

VARIABLES
    itemQueue,      \* keys waiting to be reconciled
    itemWorker      \* the Reconcile call in progress

itVars == <<itemQueue, itemWorker>>

ItCall ==
    [pc : {"idle", "observe", "refetch", "announce", "annotate"}, key : Items,
     item : Slot(NamespaceClassItem),   \* nci
     todo : SUBSET Classes,             \* referencingClasses not handled yet
     at : Classes, class : Slot(NamespaceClass)]    \* nc

\* A call at work on an item, before it has read any class.
ItAt(pc, key, item, todo) ==
    [pc |-> pc, key |-> key, item |-> item, todo |-> todo,
     at |-> CHOOSE c \in Classes : TRUE, class |-> Vacant(NoClassObject)]

ItIdle == ItAt("idle", CHOOSE i \in Items : TRUE, Vacant(NoItem), {})

ItReturn == itemWorker' = ItIdle /\ UNCHANGED itemQueue

\* Reconcile returned an error: the key is queued again.
ItRequeue ==
    /\ itemWorker' = ItIdle
    /\ itemQueue' = itemQueue \cup {itemWorker.key}

-----------------------------------------------------------------------------
SpecChanged(item) == item.obj.gen # item.obj.obs

ItGetItem(i) ==
    LET item == itemCache[i] IN
    /\ itemWorker.pc = "idle"
    /\ i \in itemQueue
    /\ itemQueue' = itemQueue \ {i}
    /\ itemWorker' = IF item.live /\ SpecChanged(item) THEN ItAt("observe", i, item, {})
                     ELSE ItIdle
    /\ UNCHANGED <<items, classes>>

Observed(item) == [item EXCEPT !.obs = item.gen]

\* The status says that the change has been seen, before anybody is told of it.
ItObserve ==
    LET i == itemWorker.key IN
    /\ itemWorker.pc = "observe"
    /\ SameVersion(items[i], itemWorker.item)
    /\ items' = [items EXCEPT ![i] = Updated(@, Observed(itemWorker.item.obj))]
    /\ itemWorker' = [itemWorker EXCEPT !.pc = "refetch"]
    /\ UNCHANGED <<classes, itemQueue>>

\* The item is read again, from the cache.
ItRefetch ==
    LET item == itemCache[itemWorker.key] IN
    /\ itemWorker.pc = "refetch"
    /\ \/ ~item.live /\ ItRequeue
       \/ /\ item.live
          /\ itemWorker' = ItAt("announce", itemWorker.key, item, item.obj.refs)
          /\ UNCHANGED itemQueue
    /\ UNCHANGED <<items, classes>>

\* A class that does not exist or has the annotation already is passed over.
ItGetClass(c) ==
    LET w == itemWorker
        class == classCache[c]
    IN
    /\ w.pc = "announce"
    /\ c \in w.todo
    /\ itemWorker' = IF ~class.live \/ class.obj.itemUpdated
                     THEN [w EXCEPT !.todo = @ \ {c}]
                     ELSE [pc |-> "annotate", key |-> w.key, item |-> w.item,
                           todo |-> w.todo, at |-> c, class |-> class]
    /\ UNCHANGED <<items, classes, itemQueue>>

WithTrigger(class) == [class EXCEPT !.itemUpdated = TRUE]

ItMayUpdate ==
    /\ SameVersion(classes[itemWorker.at], itemWorker.class)
    /\ AdmitsClass(itemWorker.class.obj.items)

ItAnnotateClass ==
    LET w == itemWorker IN
    /\ w.pc = "annotate"
    /\ ItMayUpdate
    /\ classes' = [classes EXCEPT ![w.at] = Updated(@, WithTrigger(w.class.obj))]
    /\ itemWorker' = ItAt("announce", w.key, w.item, w.todo \ {w.at})
    /\ UNCHANGED <<items, itemQueue>>

ItAnnounced ==
    /\ itemWorker.pc = "announce"
    /\ itemWorker.todo = {}
    /\ ItReturn
    /\ UNCHANGED <<items, classes>>

\* The API server, or a webhook, refuses the write.
ItRejected ==
    /\ \/ itemWorker.pc = "observe" /\ ~SameVersion(items[itemWorker.key], itemWorker.item)
       \/ itemWorker.pc = "annotate" /\ ~ItMayUpdate
    /\ ItRequeue
    /\ UNCHANGED <<items, classes>>

\* The write fails for a reason of its own: a timeout, a connection lost.
ItCallFails ==
    /\ itemWorker.pc \in {"observe", "annotate"}
    /\ ItRequeue
    /\ UNCHANGED <<items, classes>>

ItReconcile ==
    \/ \E i \in Items : ItGetItem(i)
    \/ ItObserve
    \/ ItRefetch
    \/ \E c \in Classes : ItGetClass(c)
    \/ ItAnnotateClass
    \/ ItAnnounced
    \/ ItRejected
=============================================================================
