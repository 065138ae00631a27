------------------------------ MODULE Operator ------------------------------
(***************************************************************************)
(* The whole operator: how a change of a label, of a NamespaceClass or of  *)
(* a NamespaceClassItem reaches the resources in the namespaces.           *)
(*                                                                         *)
(* Composes the five reconcilers and the webhooks.  A change travels by    *)
(* annotation: the reconciler of an item annotates the classes of the      *)
(* item, that of a class the NamespaceStates, that of a NamespaceState the *)
(* instances, and that of an instance writes the resource; each takes its  *)
(* annotation off when it is done.  A run may leave reconcilers out, to    *)
(* look at some of them only.                                              *)
(***************************************************************************)
EXTENDS NamespaceController, NamespaceStateController, NamespaceClassController,
        NamespaceClassItemController, NamespaceItemInstanceController, UserWrites,
        Housekeeping

CONSTANTS
    Controllers,    \* the reconcilers that run
    LabelOf,        \* the label of every namespace
    FirstTemplate,  \* what every item says at first
    FirstItems,     \* the items of every class at first
    ItemsWanted,    \* the sets of items users may give to every class
    Starts,         \* where a run may start: records of
                    \*   labelled: have the namespaces their label, and a NamespaceState?
                    \*   inPlace: do the classes exist, with all they install?
                    \*   acts, edits: what users may do, and how often
                    \*   tame: is it nothing that is known to need a resync?
                    \*   mayFail, faults: whose writes may fail for a reason of their
                    \*      own, and how often
                    \*   restarts: how often the manager restarts
                    \*   resyncs: the informers that resync in the end
    \* Bounds.
    MaxTouched,     \* versions of one instance made from old copies
    MaxVersions     \* versions of one NamespaceState made from old copies

VARIABLES
    left,           \* the start, and what is left of its bounds
    failed,         \* has a write of the item reconciler failed?
    healed          \* have the informers done their resyncs?

boundVars == <<left, failed, healed>>

stores == <<nsStore, stateStore, instStore, classStore, itemStore, resources>>

vars == <<stores, nsVars, stateVars, clVars, itVars, inVars, boundVars>>

Reconcilers == {"namespace", "state", "class", "item", "instance"}

UserActs == {"createItem", "editItem", "deleteItem", "createClass", "editClass", "deleteClass",
             "label", "relabel"}

StartRecord ==
    [labelled : BOOLEAN, inPlace : BOOLEAN, acts : SUBSET UserActs, edits : Nat,
     tame : BOOLEAN, mayFail : SUBSET Reconcilers, faults : Nat, restarts : Nat,
     resyncs : SUBSET Reconcilers]

\* What is in place at first has passed the webhooks.
ASSUME StartAssumption ==
    /\ Namespaces # {} /\ Classes # {} /\ Items # {}
    /\ LabelOf \in [Namespaces -> Labels]
    /\ FirstTemplate \in [Items -> Templates]
    /\ FirstItems \in [Classes -> SUBSET Items]
    /\ ItemsWanted \in [Classes -> SUBSET SUBSET Items]
    /\ Controllers \subseteq Reconcilers
    /\ Starts \subseteq StartRecord
    /\ WebhooksEnabled =>
          \A start \in Starts : start.inPlace => \A c \in Classes : FirstItems[c] # {}

Keys == Namespaces \X Items

\* The keys an informer hands to a reconciler.
Watched(controller, keys) == IF controller \in Controllers THEN keys ELSE {}

-----------------------------------------------------------------------------
(***************************************************************************)
(* Users                                                                   *)
(***************************************************************************)
Relabel(n, label) ==
    /\ label # namespaces[n].obj.label
    /\ namespaces' = [namespaces EXCEPT ![n] = Updated(@, [@.obj EXCEPT !.label = label])]

May(act) == act \in left.acts

Users ==
    /\ left.edits > 0
    /\ left' = [left EXCEPT !.edits = @ - 1]
    /\ \/ /\ \/ \E i \in Items, t \in Templates :
                   \/ May("createItem") /\ CreateItem(i, t)
                   \/ May("editItem") /\ EditItem(i, t)
             \/ \E i \in Items : May("deleteItem") /\ DeleteItem(i)
             \/ \E c \in Classes : \E set \in ItemsWanted[c] :
                   \/ May("createClass") /\ CreateClass(c, set)
                   \/ May("editClass") /\ EditClass(c, set)
             \/ \E c \in Classes : May("deleteClass") /\ DeleteClass(c)
          /\ UNCHANGED namespaces
       \/ /\ \E n \in Namespaces, label \in Labels :
                \/ May("label") /\ namespaces[n].obj.label = NoClass /\ Relabel(n, label)
                \/ May("relabel") /\ Relabel(n, label)
          /\ UNCHANGED <<items, classes>>
    /\ UNCHANGED <<nsCache, stateStore, instStore, classCache, itemCache, resources,
                   nsVars, stateVars, clVars, itVars, inVars, failed, healed>>

Kubernetes ==
    /\ \/ /\ \/ \E n \in Namespaces : CollectState(n)
             \/ \E n \in Namespaces, i \in Items : CollectInstance(n, i)
          /\ UNCHANGED resources
       \/ /\ \E n \in Namespaces, r \in Resources : CollectResource(n, r)
          /\ UNCHANGED <<namespaces, states, instances>>
    /\ UNCHANGED <<nsCache, stateCache, instCache, classStore, itemStore,
                   nsVars, stateVars, clVars, itVars, inVars, boundVars>>

(***************************************************************************)
(* The informers                                                           *)
(***************************************************************************)
SyncNamespaces ==
    /\ nsCache # namespaces
    /\ nsCache' = namespaces
    /\ nsQueue' = nsQueue \cup Watched("namespace", Changed(nsCache, namespaces))
    /\ UNCHANGED <<namespaces, stateStore, instStore, classStore, itemStore, resources,
                   nsWorker, stateVars, clVars, itVars, inVars, boundVars>>

SyncStates ==
    /\ stateCache # states
    /\ stateCache' = states
    /\ stateQueue' = stateQueue \cup Watched("state", Changed(stateCache, states))
    /\ UNCHANGED <<nsStore, states, instStore, classStore, itemStore, resources,
                   nsVars, stateWorker, clVars, itVars, inVars, boundVars>>

SyncClasses ==
    /\ classCache # classes
    /\ classCache' = classes
    /\ classQueue' = classQueue \cup Watched("class", Changed(classCache, classes))
    /\ UNCHANGED <<nsStore, stateStore, instStore, classes, itemStore, resources,
                   nsVars, stateVars, classWorker, itVars, inVars, boundVars>>

SyncItems ==
    /\ itemCache # items
    /\ itemCache' = items
    /\ itemQueue' = itemQueue \cup Watched("item", Changed(itemCache, items))
    /\ UNCHANGED <<nsStore, stateStore, instStore, classStore, items, resources,
                   nsVars, stateVars, clVars, itemWorker, inVars, boundVars>>

SyncInstances ==
    /\ instCache # instances
    /\ instCache' = instances
    /\ instQueue' = instQueue \cup Watched("instance", ChangedInstances)
    /\ UNCHANGED <<nsStore, stateStore, instances, classStore, itemStore, resources,
                   nsVars, stateVars, clVars, itVars, instWorker, boundVars>>

(***************************************************************************)
(* The reconcilers                                                         *)
(***************************************************************************)
\* Working from old copies again and again, the state reconciler may write an
\* instance, and the class reconciler a NamespaceState, over and over: they may start
\* on one only so often.
FewTouched == \A n \in Namespaces, i \in Items : instances[n][i].rv < MaxTouched

FewVersions == \A n \in Namespaces : states[n].rv < MaxVersions

NsStep ==
    /\ NsReconcile
    /\ UNCHANGED <<nsStore, stateCache, instStore, classStore, itemStore, resources,
                   stateVars, clVars, itVars, inVars, boundVars>>

StateStep ==
    /\ StReconcile
    /\ stateWorker.pc = "idle" => stateCache = states \/ FewTouched
    /\ UNCHANGED <<nsStore, stateCache, instCache, classStore, itemStore, resources,
                   nsVars, clVars, itVars, inVars, boundVars>>

ClassStep ==
    /\ ClReconcile
    /\ classWorker.pc = "idle" =>
          (classCache = classes /\ stateCache = states /\ itemCache = items) \/ FewVersions
    /\ UNCHANGED <<nsStore, stateCache, instStore, classCache, itemCache, resources,
                   nsVars, stateVars, itVars, inVars, boundVars>>

ItemStep ==
    /\ ItReconcile
    /\ UNCHANGED <<nsStore, stateStore, instStore, classCache, itemCache, resources,
                   nsVars, stateVars, clVars, inVars, boundVars>>

InstanceStep ==
    /\ InReconcile
    /\ UNCHANGED <<nsStore, stateStore, instCache, classStore, itemStore,
                   nsVars, stateVars, clVars, itVars, boundVars>>

Fault ==
    /\ left.faults > 0
    /\ left' = [left EXCEPT !.faults = @ - 1]
    /\ \/ /\ "namespace" \in left.mayFail /\ NsCallFails
          /\ UNCHANGED <<instances, classes, items, resources, stateVars, clVars, itVars,
                         inVars, failed>>
       \/ /\ "state" \in left.mayFail /\ StCallFails
          /\ UNCHANGED <<classes, items, resources, nsVars, clVars, itVars, inVars, failed>>
       \/ /\ "class" \in left.mayFail /\ ClCallFails
          /\ UNCHANGED <<instances, resources, nsVars, stateVars, itVars, inVars, failed>>
       \/ /\ "item" \in left.mayFail /\ ItCallFails
          /\ failed' = TRUE
          /\ UNCHANGED <<states, instances, resources, nsVars, stateVars, clVars, inVars>>
       \/ /\ "instance" \in left.mayFail /\ (InCallFails \/ InGetOldFails)
          /\ UNCHANGED <<states, classes, items, nsVars, stateVars, clVars, itVars, failed>>
    /\ UNCHANGED <<nsStore, stateCache, instCache, classCache, itemCache, healed>>

-----------------------------------------------------------------------------
(***************************************************************************)
(* Restarts and resyncs                                                    *)
(***************************************************************************)
\* Nothing is left to do until a user acts or the informers resync.
Quiescent ==
    /\ nsQueue = {} /\ stateQueue = {} /\ classQueue = {} /\ itemQueue = {} /\ instQueue = {}
    /\ nsWorker.pc = "idle" /\ stateWorker.pc = "idle" /\ classWorker.pc = "idle"
    /\ itemWorker.pc = "idle" /\ instWorker.pc = "idle"
    /\ nsCache = namespaces /\ stateCache = states /\ instCache = instances
    /\ classCache = classes /\ itemCache = items
    /\ \A n \in Namespaces :
          /\ ~OrphanState(n)
          /\ \A i \in Items : ~OrphanInstance(n, i)
          /\ \A r \in Resources : ~Orphan(n, r)

\* A new process lists every object into its caches and queues every key; here once
\* the users are done.
Restart ==
    /\ left.restarts > 0
    /\ left.edits = 0
    /\ left' = [left EXCEPT !.restarts = @ - 1]
    /\ nsCache' = namespaces /\ stateCache' = states /\ instCache' = instances
    /\ classCache' = classes /\ itemCache' = items
    /\ nsQueue' = Watched("namespace", Living(namespaces))
    /\ stateQueue' = Watched("state", Living(states))
    /\ classQueue' = Watched("class", Living(classes))
    /\ itemQueue' = Watched("item", Living(items))
    /\ instQueue' = Watched("instance", LivingInstances(instances))
    /\ nsWorker' = NsIdle /\ stateWorker' = StIdle /\ classWorker' = ClIdle
    /\ itemWorker' = ItIdle /\ instWorker' = InIdle
    /\ UNCHANGED <<namespaces, states, instances, classes, items, resources, failed, healed>>

\* Every ten hours or so, and each at a time of its own, the informers hand all they
\* have to their reconcilers again; here once the users are done and the operator has
\* been idle for long.
Resync ==
    /\ left.edits = 0
    /\ Quiescent
    /\ \E informer \in left.resyncs :
          LET All(controller, keys) == IF informer = controller THEN keys ELSE {} IN
          /\ left' = [left EXCEPT !.resyncs = @ \ {informer}]
          /\ healed' = (left.resyncs = {informer})
          /\ nsQueue' = All("namespace", Living(namespaces))
          /\ stateQueue' = All("state", Living(states))
          /\ classQueue' = All("class", Living(classes))
          /\ itemQueue' = All("item", Living(items))
          /\ instQueue' = All("instance", LivingInstances(instances))
    /\ UNCHANGED <<stores, nsWorker, stateWorker, classWorker, itemWorker, instWorker, failed>>

-----------------------------------------------------------------------------
(***************************************************************************)
(* What is there at first                                                  *)
(***************************************************************************)
First(obj) == [live |-> TRUE, uid |-> 1, rv |-> 1, obj |-> obj]

FirstLabel(n, start) == IF start.labelled THEN LabelOf[n] ELSE NoClass

FirstState(n, start) ==
    IF FirstLabel(n, start) = NoClass THEN Vacant(NoState)
    ELSE First([owner |-> 1, class |-> LabelOf[n], pending |-> NoClass,
                classUpdated |-> FALSE])

FirstClass(c, start) ==
    IF start.inPlace
    THEN First([items |-> FirstItems[c], finalizer |-> TRUE, deleting |-> FALSE,
                itemUpdated |-> FALSE])
    ELSE Vacant(NoClassObject)

\* Items that no class lists yet are known to the item reconciler all the same.
FirstItem(i, start) ==
    First([gen |-> 1, template |-> FirstTemplate[i], obs |-> 1,
           refs |-> IF start.inPlace THEN {c \in Classes : i \in FirstItems[c]} ELSE {}])

FirstInstalled(n, start) ==
    IF start.inPlace /\ FirstLabel(n, start) # NoClass THEN FirstItems[LabelOf[n]] ELSE {}

FirstInstance(n, i, start) ==
    IF i \in FirstInstalled(n, start)
    THEN First([owner |-> 1, updated |-> FALSE, obs |-> 1,
                kind |-> KindOf(ResourceOf[FirstTemplate[i]])])
    ELSE Vacant(NoInstance)

FirstResource(n, r, start) ==
    LET describing == {i \in FirstInstalled(n, start) : ResourceOf[FirstTemplate[i]] = r}
    IN  IF describing = {} THEN Vacant(NoResource)
        ELSE LET i == CHOOSE j \in describing : TRUE
             IN  First([from |-> i, owner |-> 1, template |-> FirstTemplate[i]])

Init ==
    \E start \in Starts :
        /\ left = start /\ failed = FALSE /\ healed = FALSE
        /\ namespaces = [n \in Namespaces |->
                            First([terminating |-> FALSE, label |-> FirstLabel(n, start)])]
        /\ states = [n \in Namespaces |-> FirstState(n, start)]
        /\ classes = [c \in Classes |-> FirstClass(c, start)]
        /\ items = [i \in Items |-> FirstItem(i, start)]
        /\ instances = [n \in Namespaces |-> [i \in Items |-> FirstInstance(n, i, start)]]
        /\ resources = [n \in Namespaces |-> [r \in Resources |-> FirstResource(n, r, start)]]
        /\ nsCache = namespaces /\ stateCache = states /\ instCache = instances
        /\ classCache = classes /\ itemCache = items
        /\ nsQueue = {} /\ stateQueue = {} /\ classQueue = {} /\ itemQueue = {} /\ instQueue = {}
        /\ nsWorker = NsIdle /\ stateWorker = StIdle /\ classWorker = ClIdle
        /\ itemWorker = ItIdle /\ instWorker = InIdle

Next ==
    \/ Users
    \/ Kubernetes
    \/ SyncNamespaces
    \/ SyncStates
    \/ SyncClasses
    \/ SyncItems
    \/ SyncInstances
    \/ NsStep
    \/ StateStep
    \/ ClassStep
    \/ ItemStep
    \/ InstanceStep
    \/ Fault
    \/ Restart
    \/ Resync

Spec == Init /\ [][Next]_vars

\* The informers deliver, the workers run and Kubernetes tidies up; nothing obliges
\* users to act, calls to fail, the manager to restart or ten hours to pass.
Fairness ==
    /\ WF_vars(SyncNamespaces)
    /\ WF_vars(SyncStates)
    /\ WF_vars(SyncClasses)
    /\ WF_vars(SyncItems)
    /\ WF_vars(SyncInstances)
    /\ WF_vars(NsStep)
    /\ WF_vars(StateStep)
    /\ WF_vars(ClassStep)
    /\ WF_vars(ItemStep)
    /\ WF_vars(InstanceStep)
    /\ WF_vars(Kubernetes)

FairSpec == Spec /\ Fairness

-----------------------------------------------------------------------------
\* Every variable holds values of its kind, a class always lists something while the
\* webhooks run, and no status is ahead of the generation it has observed
\* (namespaceclass_webhook.go:122, namespaceclassitem_controller.go:80-84,
\* namespaceiteminstance_controller.go:212-216).
TypeOK ==
    /\ NamespacesTypeOK
    /\ StatesTypeOK
    /\ InstancesTypeOK
    /\ ClassesTypeOK
    /\ ItemsTypeOK
    /\ ResourcesTypeOK
    /\ nsQueue \subseteq Namespaces    /\ nsWorker \in NsCall
    /\ stateQueue \subseteq Namespaces /\ stateWorker \in StCall
    /\ classQueue \subseteq Classes    /\ classWorker \in ClCall
    /\ itemQueue \subseteq Items       /\ itemWorker \in ItCall
    /\ instQueue \subseteq Keys        /\ instWorker \in InCall
    /\ WebhooksEnabled => \A c \in Classes : classes[c].live => classes[c].obj.items # {}
    /\ \A i \in Items : items[i].obj.obs <= items[i].obj.gen
    /\ \A n \in Namespaces, i \in Items : instances[n][i].obj.obs <= items[i].obj.gen

ItemsOf(class) ==
    IF class \in Classes /\ classes[class].live THEN classes[class].obj.items ELSE {}

Installed(n) == {i \in Items : instances[n][i].live}

Follows(n) ==
    /\ Installed(n) = ItemsOf(states[n].obj.class)
    /\ ~states[n].obj.classUpdated

\* No change of a class is lost on its way: once nothing is left to do, every
\* namespace has exactly the items its class has now, although the class
\* reconciler skips a NamespaceState whose copy is annotated and the state
\* reconciler may take the annotation off after reading an older copy of the
\* class (namespaceclass_controller.go:96-109, namespacestate_controller.go:78-153).
SettledFollowsClass == Quiescent => \A n \in Namespaces : Follows(n)

\* Every item of a class lists the class: without it a change of the item would
\* not reach the class (namespaceclass_controller.go:196-237).
SettledReferenced ==
    Quiescent =>
        \A c \in Classes : classes[c].live => \A i \in classes[c].obj.items :
            c \in items[i].obj.refs

\* The step that lets a deleted class go leaves none of its items listing it,
\* however often the item was written in between by others
\* (namespaceclass_controller.go:132-173).
ReleasedBeforeGone ==
    [][\A c \in Classes :
          classes[c].live /\ classes[c].obj.finalizer /\ ~classes'[c].live
          => \A i \in classes[c].obj.items : c \notin items[i].obj.refs]_vars

\* An item comes to list a class only while the class is held by its finalizer:
\* none that could vanish without being taken out again
\* (namespaceclass_controller.go:76-84 before 111-115).
ListsOnlyHeld ==
    [][\A i \in Items : \A c \in items'[i].obj.refs \ items[i].obj.refs :
          classes[c].live /\ classes[c].obj.finalizer]_vars

\* Every run ends with every namespace following its class for good
\* (namespaceclass_controller.go Reconcile, namespacestate_controller.go Reconcile).
Converges == <>[](\A n \in Namespaces : Follows(n))

\* A class that is being deleted is gone in the end: handleDeletion never waits
\* for ever (namespaceclass_controller.go:132-173).
DeletionEnds ==
    \A c \in Classes : classes[c].obj.deleting ~> ~classes[c].obj.deleting

\* The resource of item i in n is as the item says now, and the instance says so.
Delivered(n, i) ==
    LET template == items[i].obj.template
        resource == resources[n][ResourceOf[template]]
    IN
    /\ OwnedBy(resource, i, instances[n][i].uid)
    /\ resource.obj.template = template
    /\ instances[n][i].obj.obs = items[i].obj.gen

\* Namespace n has what the class its label names asks for, and nothing of other items.
Supplied(n) ==
    LET wanted == ItemsOf(namespaces[n].obj.label) IN
    /\ Installed(n) = wanted
    /\ \A i \in wanted : Delivered(n, i)
    /\ \A r \in Resources : resources[n][r].live => resources[n][r].obj.from \in wanted

\* Nor anything its items do not describe any more.
Served(n) ==
    /\ Supplied(n)
    /\ \A r \in Resources : resources[n][r].live =>
          ResourceOf[items[resources[n][r].obj.from].obj.template] = r

\* No change of a label, a class or an item is lost on its way through the five
\* reconcilers: once nothing is left to do, every namespace has the resources its
\* label asks for as its items say now, although each reconciler skips whom it
\* believes to be told already and the manager may stop anywhere.  A start that is
\* tame leaves out what does get lost: labels that are changed and changed back, an
\* item edited while a class comes to list it, or that several classes list.  The
\* item reconciler records a change as seen before it tells anybody, so a write of
\* its own that fails loses the change too
\* (namespaceclassitem_controller.go:68-122,
\* namespaceclass_controller.go:96-125, namespacestate_controller.go:100-153,
\* namespaceiteminstance_controller.go:93-229).
SettledDelivers == Quiescent /\ left.tame /\ ~failed => \A n \in Namespaces : Served(n)

\* The same of what is there, not of what should not be: an item that comes to describe
\* another resource may leave the old one behind
\* (namespaceiteminstance_controller.go:143-169, 213).
SettledSupplies == Quiescent /\ left.tame /\ ~failed => \A n \in Namespaces : Supplied(n)

\* Every class that lists an item is told of its changes: once nothing is left to do,
\* no instance is behind its item (namespaceclassitem_controller.go:96-122).
SettledAllTold ==
    Quiescent /\ ~failed =>
        \A n \in Namespaces, i \in Items :
            instances[n][i].live => instances[n][i].obj.obs = items[i].obj.gen

\* And what goes wrong all the same, a label changed and changed back, an announcement
\* that failed, the next resync puts right, for every reconciler starts from what is
\* there and not from what changed
\* (namespace_controller.go:69-144, namespacestate_controller.go:66-153,
\* namespaceclass_controller.go:96-109, namespaceiteminstance_controller.go:93-97).
SettledHealed == Quiescent /\ healed => \A n \in Namespaces : Served(n)

\* No annotation stays behind, failed writes or not, that would hide the next
\* change from the one it is meant for (namespaceclassitem_controller.go:112,
\* namespaceclass_controller.go:97).
SettledUnmarked ==
    Quiescent =>
        /\ \A c \in Classes : ~classes[c].obj.itemUpdated
        /\ \A n \in Namespaces : ~states[n].obj.classUpdated
        /\ \A n \in Namespaces, i \in Items : ~instances[n][i].obj.updated

-----------------------------------------------------------------------------
(***************************************************************************)
(* The invariant behind ReleasedBeforeGone and ListsOnlyHeld.              *)
(***************************************************************************)
\* The copies that classes and items are written from may be old, yet are no others
\* than what was stored.
CopiesOK ==
    LET cl == classWorker
        it == itemWorker
    IN
    /\ \A c \in Classes : Fresh(classCache[c], classes[c])
    /\ \A i \in Items : Fresh(itemCache[i], items[i])
    /\ cl.pc # "idle" => Fresh(cl.class, classes[cl.key])
    /\ cl.pc \in {"addRef", "dropRef"} =>
          Fresh(cl.item, items[cl.at]) /\ cl.item.rv <= itemCache[cl.at].rv
    /\ it.pc = "observe" => Fresh(it.item, items[it.key])
    /\ it.pc = "annotate" => Fresh(it.class, classes[it.at])

HasFinalizer(class) == class.live /\ class.obj.finalizer

\* Whoever believes that a class is held by its finalizer is right, and only what has
\* been seen to be deleted is let go.
HeldOK ==
    LET w == classWorker
    IN
    /\ \A c \in Classes :
          HasFinalizer(classCache[c]) /\ ~classCache[c].obj.deleting =>
              HasFinalizer(classes[c])
    /\ w.pc \in {"list", "update", "addRef"} => HasFinalizer(classes[w.key])
    /\ w.pc \in {"release", "dropRef"} =>
          w.class.obj.deleting /\ w.class.rv <= classCache[w.key].rv

\* An item that lists classes is known to exist; one that the reconciler has been at
\* does not list the class any more that is being let go.
RefsOK ==
    LET w == classWorker
    IN
    /\ \A i \in Items : items[i].obj.refs # {} => items[i].live /\ itemCache[i].live
    /\ w.pc \in {"release", "dropRef"} =>
          \A i \in w.class.obj.items \ w.todo : w.key \notin items[i].obj.refs

\* However old the copies are that the class reconciler works from, while it lists a
\* class with its items the class cannot vanish, and while it lets the class go the
\* items it has been at, or found missing, stay without it
\* (namespaceclass_controller.go:62-84, 132-173, 196-237).
ListingSound == CopiesOK /\ HeldOK /\ RefsOK
=============================================================================
