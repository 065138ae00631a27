---------------------------- MODULE InstanceSync ----------------------------
(***************************************************************************)
(* How an instance comes to install what its item says.                    *)
(*                                                                         *)
(* Composes the NamespaceItemInstance reconciler with what surrounds it:   *)
(* users who change, delete and create items; the other reconcilers,       *)
(* reduced to what they do to an instance (create it, delete it, annotate  *)
(* it once its item changed; see Operator for how they come to do so);     *)
(* the garbage collector; a manager that may restart.                      *)
(***************************************************************************)
EXTENDS NamespaceItemInstanceController

CONSTANTS
    TemplateMoves,      \* the changes of an item users make: <<from, to>> pairs
    FirstTemplates,     \* what a new item may say
    Starts,             \* what a run may hold: records of
                        \*   edits: changes of items, instances created and deleted
                        \*   hasty: those made before the last has been dealt with
                        \*   faults: calls that fail for a reason of their own
                        \*   restarts: restarts of the manager
    \* Bounds.
    MaxItemLives,       \* items created under one name
    MaxVersions         \* versions of a resource the garbage collector takes

VARIABLES
    untold,         \* instances to be annotated: their item changed
    disturbed,      \* has what may leave an old resource behind happened?
    left            \* what is left of the start

\* There is something to install, and what new items say are templates.
ASSUME InstanceAssumption ==
    Namespaces # {} /\ Items # {} /\ FirstTemplates \subseteq Templates

vars == <<nsStore, itemStore, instStore, resources, inVars, untold, disturbed, left>>

Keys == Namespaces \X Items

OpenNamespaces ==
    [n \in Namespaces |->
        [live |-> TRUE, uid |-> 1, rv |-> 1,
         obj |-> [terminating |-> FALSE, label |-> NoClass]]]

-----------------------------------------------------------------------------
(***************************************************************************)
(* Users, and the other reconcilers                                        *)
(***************************************************************************)
CreateItem(i) ==
    /\ ~items[i].live
    /\ items[i].uid < MaxItemLives
    /\ \E t \in FirstTemplates :
          items' = [items EXCEPT ![i] =
                       Created(@, [gen |-> 1, template |-> t, obs |-> 1, refs |-> {}])]
    /\ UNCHANGED <<instances, untold>>

EditItem(i, t) ==
    /\ items[i].live
    /\ <<items[i].obj.template, t>> \in TemplateMoves
    /\ items' = [items EXCEPT ![i] =
                    Updated(@, [gen |-> @.obj.gen + 1, template |-> t,
                                obs |-> @.obj.obs, refs |-> @.obj.refs])]
    /\ untold' = untold \cup (Namespaces \X {i})
    /\ UNCHANGED instances

NameOf(t) == ResourceOf[t][2]

Renames ==
    \E i \in Items :
        /\ items[i].live /\ items'[i].live
        /\ NameOf(items[i].obj.template) # NameOf(items'[i].obj.template)

DeleteItem(i) ==
    /\ items[i].live
    /\ items[i].uid < MaxItemLives
    /\ items' = [items EXCEPT ![i] = Deleted(@, NoItem)]
    /\ UNCHANGED <<instances, untold>>

Install(n, i) ==
    /\ ~instances[n][i].live
    /\ instances' = [instances EXCEPT ![n][i] =
                        Created(@, [owner |-> 1, updated |-> FALSE, obs |-> 0,
                                    kind |-> NoKind])]
    /\ UNCHANGED <<items, untold>>

Uninstall(n, i) ==
    /\ instances[n][i].live
    /\ instances' = [instances EXCEPT ![n][i] = Deleted(@, NoInstance)]
    /\ UNCHANGED <<items, untold>>

\* Every change so far has been dealt with.
Quiescent ==
    /\ instQueue = {} /\ instWorker.pc = "idle" /\ untold = {}
    /\ itemCache = items /\ instCache = instances
    /\ \A n \in Namespaces, r \in Resources : ~Orphan(n, r)

Edit ==
    /\ left.edits > 0
    /\ Quiescent \/ left.hasty > 0
    /\ left' = [left EXCEPT !.edits = @ - 1, !.hasty = IF Quiescent THEN @ ELSE @ - 1]
    /\ \E i \in Items :
          \/ CreateItem(i)
          \/ \E t \in Templates : EditItem(i, t)
          \/ DeleteItem(i)
          \/ \E n \in Namespaces : Install(n, i) \/ Uninstall(n, i)
    /\ disturbed' = (disturbed \/ ~Quiescent \/ Renames)
    /\ UNCHANGED <<nsStore, itemCache, instCache, resources, inVars>>

\* The change of an item reaches an instance, if that still exists, after it has
\* reached the manager's informer.
\* (The state reconciler annotates the instances that exist on every pass, for
\* whatever reason it runs, namespacestate_controller.go:101-111; here it is once for
\* each change.  Module Operator has its passes.)
Annotate(n, i) ==
    /\ <<n, i>> \in untold
    /\ itemCache[i] = items[i]
    /\ untold' = untold \ {<<n, i>>}
    /\ instances' = IF instances[n][i].live
                    THEN [instances EXCEPT ![n][i] =
                             Updated(@, [@.obj EXCEPT !.updated = TRUE])]
                    ELSE instances
    /\ UNCHANGED <<nsStore, itemStore, instCache, resources, inVars, disturbed, left>>

Collect(n, r) ==
    /\ CollectResource(n, r)
    /\ resources[n][r].rv < MaxVersions
    /\ UNCHANGED <<nsStore, itemStore, instStore, inVars, untold, disturbed, left>>

(***************************************************************************)
(* The manager                                                             *)
(***************************************************************************)
SyncItems ==
    /\ itemCache # items
    /\ itemCache' = items
    /\ UNCHANGED <<nsStore, items, instStore, resources, inVars, untold, disturbed, left>>

SyncInstances ==
    /\ instCache # instances
    /\ instCache' = instances
    /\ instQueue' = instQueue \cup ChangedInstances
    /\ UNCHANGED <<nsStore, itemStore, instances, resources, instWorker, untold, disturbed,
                   left>>

InstanceStep ==
    /\ InReconcile
    /\ UNCHANGED <<nsStore, itemStore, instCache, untold, disturbed, left>>

Fault ==
    /\ left.faults > 0
    /\ left' = [left EXCEPT !.faults = @ - 1]
    /\ \/ InCallFails /\ UNCHANGED disturbed
       \/ InGetOldFails /\ disturbed' = TRUE
    /\ UNCHANGED <<nsStore, itemStore, instCache, untold>>

\* A new process lists every object into its caches and queues every key.
Restart ==
    /\ left.restarts > 0
    /\ left' = [left EXCEPT !.restarts = @ - 1]
    /\ itemCache' = items
    /\ instCache' = instances
    /\ instQueue' = LivingInstances(instances)
    /\ instWorker' = InIdle
    /\ UNCHANGED <<nsStore, items, instances, resources, untold, disturbed>>

-----------------------------------------------------------------------------
\* Items that have been created, and no instance yet.
Init ==
    /\ namespaces = OpenNamespaces /\ nsCache = OpenNamespaces
    /\ items \in [Items ->
                     {[live |-> TRUE, uid |-> 1, rv |-> 1,
                       obj |-> [gen |-> 1, template |-> t, obs |-> 1, refs |-> {}]]
                         : t \in FirstTemplates}]
    /\ itemCache = items
    /\ InstancesInit
    /\ ResourcesInit
    /\ instQueue = {} /\ instWorker = InIdle
    /\ untold = {} /\ disturbed = FALSE
    /\ left \in Starts

Next ==
    \/ Edit
    \/ \E n \in Namespaces, i \in Items : Annotate(n, i)
    \/ \E n \in Namespaces, r \in Resources : Collect(n, r)
    \/ SyncItems
    \/ SyncInstances
    \/ InstanceStep
    \/ Fault
    \/ Restart

Spec == Init /\ [][Next]_vars

\* The informers deliver, the worker runs, the other reconcilers pass the change
\* of an item on and the garbage collector works; nothing obliges users to act,
\* calls to fail or the manager to restart.
Fairness ==
    /\ WF_vars(SyncItems)
    /\ WF_vars(SyncInstances)
    /\ WF_vars(InstanceStep)
    /\ WF_vars(\E n \in Namespaces, i \in Items : Annotate(n, i))
    /\ WF_vars(\E n \in Namespaces, r \in Resources : Collect(n, r))

FairSpec == Spec /\ Fairness

-----------------------------------------------------------------------------
\* Every variable holds values of its kind; an instance that has observed a
\* generation has recorded a kind (namespaceiteminstance_controller.go:173-216).
TypeOK ==
    /\ namespaces = OpenNamespaces /\ nsCache = OpenNamespaces
    /\ ItemsTypeOK
    /\ InstancesTypeOK
    /\ ResourcesTypeOK
    /\ instQueue \subseteq Keys
    /\ instWorker \in InCall
    /\ untold \subseteq Keys
    /\ \A n \in Namespaces, i \in Items :
          (instances[n][i].obj.obs # 0) <=> (instances[n][i].obj.kind # NoKind)

\* The resource of the instance of item i in n is as the item says now.
Applied(n, i) ==
    LET resource == resources[n][ResourceOf[items[i].obj.template]] IN
    /\ OwnedBy(resource, i, instances[n][i].uid)
    /\ resource.obj.template = items[i].obj.template

Active(n, i) == instances[n][i].live /\ items[i].live /\ n \notin SystemNamespaces

\* Whatever fails and wherever the manager stops, once nothing is left to do every
\* instance has its item's resource as the item says now, owned by it, and has
\* recorded so (namespaceiteminstance_controller.go Reconcile).
SettledApplied ==
    Quiescent =>
        \A n \in Namespaces, i \in Items : Active(n, i) =>
            Applied(n, i) /\ instances[n][i].obj.obs = items[i].obj.gen

\* Whatever is there is what some instance installs now.
NothingElse ==
    \A n \in Namespaces, r \in Resources : resources[n][r].live =>
        \E i \in Items :
            /\ instances[n][i].live
            /\ items[i].live => ResourceOf[items[i].obj.template] = r

\* What an earlier version of an item described is gone once nothing is left to do,
\* a kind that was replaced included, whatever fails and wherever the manager stops:
\* unless the item changed before its last change was dealt with, or came to name
\* another resource, or the old one could not be read
\* (namespaceiteminstance_controller.go:143-171).
SettledNothingElse == Quiescent /\ ~disturbed => NothingElse

\* The same without exception.
SettledNoneLeft == Quiescent => NothingElse

\* The status is never ahead of the cluster: an instance that says it has observed
\* the item's present generation has the resource of that generation, at every
\* moment, whatever was restarted, refused or retried
\* (namespaceiteminstance_controller.go:173-216).
StatusHonest ==
    \A n \in Namespaces, i \in Items :
        Active(n, i) /\ instances[n][i].obj.obs = items[i].obj.gen => Applied(n, i)

\* A resource that another live instance owns by now, though this one installed it
\* once, is not taken down when this one's item changes kind, although the owner is
\* looked at in one call and the resource deleted in a later one
\* (namespaceiteminstance_controller.go:143-171).
OthersKept ==
    [][\A n \in Namespaces, r \in Resources :
          resources[n][r].live /\ ~resources'[n][r].live =>
              Orphan(n, r) \/ resources[n][r].obj.from = instWorker.key]_vars

\* Every run ends with every instance in line with its item for good, if that can be
\* read: one that could not be for a while is taken up again when it is corrected
\* (namespaceiteminstance_controller.go:93-229).
Converges ==
    <>[](\A n \in Namespaces, i \in Items :
            Active(n, i) /\ items[i].obj.template \in Parses => Applied(n, i))
=============================================================================
