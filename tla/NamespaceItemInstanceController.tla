------------------- MODULE NamespaceItemInstanceController -------------------
(***************************************************************************)
(* internal/controller/namespaceiteminstance_controller.go: the reconciler *)
(* that installs the resource an item describes, follows the item when it  *)
(* changes, and records in the status what it has installed.  The          *)
(* instance and the item come from the informers; the resource itself is   *)
(* read from the API server.  Steps and errors are as in                   *)
(* NamespaceController.                                                    *)
(***************************************************************************)
EXTENDS NamespaceStore, ResourceStore

CONSTANTS
    SystemNamespaces,   \* kube-system, kube-public, kube-node-lease
    OwnLag              \* may the read of the instance be out of date?

VARIABLES
    instQueue,      \* keys <<namespace, item>> waiting to be reconciled
    instWorker      \* the Reconcile call in progress

inVars == <<instQueue, instWorker>>

InWrites == {"deleteOld", "create", "update", "status", "unmark"}

InCall ==
    [pc : {"idle", "getItem", "getResource", "getOld"} \cup InWrites,
     ns : Namespaces, key : Items,
     inst : Slot(NamespaceItemInstance),    \* nii
     item : Slot(NamespaceClassItem),       \* nci
     found : Slot(Resource)]                \* existing

InIdle ==
    [pc |-> "idle", ns |-> CHOOSE n \in Namespaces : TRUE, key |-> CHOOSE i \in Items : TRUE,
     inst |-> Vacant(NoInstance), item |-> Vacant(NoItem), found |-> Vacant(NoResource)]

InReturn == instWorker' = InIdle /\ UNCHANGED instQueue

\* Reconcile returned an error: the key is queued again.
InRequeue ==
    /\ instWorker' = InIdle
    /\ instQueue' = instQueue \cup {<<instWorker.ns, instWorker.key>>}

\* Go on with another call; InDone(inst) ends Reconcile once the resource is right.
InGoTo(pc) == instWorker' = [instWorker EXCEPT !.pc = pc] /\ UNCHANGED instQueue

InUnmarkOrReturn(inst) ==
    /\ instWorker' = IF inst.obj.updated
                     THEN [pc |-> "unmark", ns |-> instWorker.ns, key |-> instWorker.key,
                           inst |-> inst, item |-> instWorker.item,
                           found |-> instWorker.found]
                     ELSE InIdle
    /\ UNCHANGED instQueue

-----------------------------------------------------------------------------
InGetInstance(n, i) ==
    /\ instWorker.pc = "idle"
    /\ <<n, i>> \in instQueue
    /\ OwnLag \/ instCache = instances
    /\ instQueue' = instQueue \ {<<n, i>>}
    /\ instWorker' = IF instCache[n][i].live /\ n \notin SystemNamespaces
                     THEN [pc |-> "getItem", ns |-> n, key |-> i, inst |-> instCache[n][i],
                           item |-> Vacant(NoItem), found |-> Vacant(NoResource)]
                     ELSE InIdle
    /\ UNCHANGED <<instances, resources>>

\* Mutant of InNeedsUpdate: only an annotated instance is brought up to date.
InNeedsMarked(inst, item) == inst.obj.updated /\ inst.obj.obs # item.obj.gen

InNeedsUpdate(inst, item) == inst.obj.obs # item.obj.gen

InReads(item) == item.obj.template \in Parses

\* If the item is gone nothing is done, and nothing is tried again; if it cannot be
\* read it is tried again and again.
InGetItem ==
    LET w == instWorker
        item == itemCache[w.key]
    IN
    /\ w.pc = "getItem"
    /\ \/ ~item.live /\ InReturn
       \/ item.live /\ InNeedsUpdate(w.inst, item) /\ ~InReads(item) /\ InRequeue
       \/ /\ item.live
          /\ InNeedsUpdate(w.inst, item)
          /\ InReads(item)
          /\ instWorker' = [pc |-> "getResource", ns |-> w.ns, key |-> w.key,
                            inst |-> w.inst, item |-> item, found |-> w.found]
          /\ UNCHANGED instQueue
       \/ item.live /\ ~InNeedsUpdate(w.inst, item) /\ InUnmarkOrReturn(w.inst)
    /\ UNCHANGED <<instances, resources>>

\* The resource the item describes.
InTarget == ResourceOf[instWorker.item.obj.template]

\* Where the old resource of another kind would be.
InOldResource == WithKind(InTarget, instWorker.inst.obj.kind)

InGetResource ==
    LET w == instWorker
        found == resources[w.ns][InTarget]
    IN
    /\ w.pc = "getResource"
    /\ IF found.live
       THEN /\ instWorker' = [pc |-> "update", ns |-> w.ns, key |-> w.key, inst |-> w.inst,
                              item |-> w.item, found |-> found]
            /\ UNCHANGED instQueue
       ELSE InGoTo(IF w.inst.obj.kind # NoKind THEN "getOld" ELSE "create")
    /\ UNCHANGED <<instances, resources>>

\* Mutant of InOwns: the owner of the old resource is not looked at.
InOwnsAny(resource) == resource.live

InOwns(resource) == OwnedBy(resource, instWorker.key, instWorker.inst.uid)

InGetOld ==
    /\ instWorker.pc = "getOld"
    /\ InGoTo(IF InOldResource \in Resources /\ InOwns(resources[instWorker.ns][InOldResource])
              THEN "deleteOld" ELSE "create")
    /\ UNCHANGED <<instances, resources>>

InDeleteOld ==
    LET n == instWorker.ns IN
    /\ instWorker.pc = "deleteOld"
    /\ resources[n][InOldResource].live
    /\ resources' = [resources EXCEPT ![n][InOldResource] = Deleted(@, NoResource)]
    /\ InGoTo("create")
    /\ UNCHANGED instances

\* Mutant of InResource: a resource that exists keeps what it says.
InResourceKept ==
    [from |-> instWorker.key, owner |-> instWorker.inst.uid,
     template |-> IF instWorker.found.live THEN instWorker.found.obj.template
                  ELSE instWorker.item.obj.template]

InResource ==
    [from |-> instWorker.key, owner |-> instWorker.inst.uid,
     template |-> instWorker.item.obj.template]

InCreate ==
    LET n == instWorker.ns IN
    /\ instWorker.pc = "create"
    /\ ~resources[n][InTarget].live
    /\ Admits(n)
    /\ resources' = [resources EXCEPT ![n][InTarget] = Created(@, InResource)]
    /\ InGoTo("status")
    /\ UNCHANGED instances

InUpdate ==
    LET n == instWorker.ns IN
    /\ instWorker.pc = "update"
    /\ SameVersion(resources[n][InTarget], instWorker.found)
    /\ resources' = [resources EXCEPT ![n][InTarget] = Updated(@, InResource)]
    /\ InGoTo("status")
    /\ UNCHANGED instances

\* Mutant of WithStatus: the kind of the resource is not recorded.
WithGeneration(inst, gen, kind) == [inst EXCEPT !.obs = gen]

WithStatus(inst, gen, kind) ==
    [owner |-> inst.owner, updated |-> inst.updated, obs |-> gen, kind |-> kind]

InWriteStatus ==
    LET w == instWorker
        new == Updated(instances[w.ns][w.key],
                       WithStatus(w.inst.obj, w.item.obj.gen, KindOf(InTarget)))
    IN
    /\ w.pc = "status"
    /\ SameVersion(instances[w.ns][w.key], w.inst)
    /\ instances' = [instances EXCEPT ![w.ns][w.key] = new]
    /\ InUnmarkOrReturn(new)
    /\ UNCHANGED resources

Unmarked(inst) == [inst EXCEPT !.updated = FALSE]

\* The annotation that something changed is taken off at the end.
InUnmark ==
    LET w == instWorker IN
    /\ w.pc = "unmark"
    /\ SameVersion(instances[w.ns][w.key], w.inst)
    /\ instances' = [instances EXCEPT ![w.ns][w.key] = Updated(@, Unmarked(w.inst.obj))]
    /\ InReturn
    /\ UNCHANGED resources

\* The API server refuses the write.
InRejected ==
    LET w == instWorker
        n == instWorker.ns
    IN
    /\ \/ w.pc = "deleteOld" /\ ~resources[n][InOldResource].live
       \/ w.pc = "create" /\ (resources[n][InTarget].live \/ ~Admits(n))
       \/ w.pc = "update" /\ ~SameVersion(resources[n][InTarget], w.found)
       \/ w.pc \in {"status", "unmark"} /\ ~SameVersion(instances[n][w.key], w.inst)
    /\ InRequeue
    /\ UNCHANGED <<instances, resources>>

\* A write, or the read of the resource, fails for a reason of its own: a timeout, a
\* connection lost.
InCallFails ==
    /\ instWorker.pc \in InWrites \cup {"getResource"}
    /\ InRequeue
    /\ UNCHANGED <<instances, resources>>

\* The old resource cannot be read: the error is ignored.
InGetOldFails ==
    /\ instWorker.pc = "getOld"
    /\ InGoTo("create")
    /\ UNCHANGED <<instances, resources>>

InReconcile ==
    \/ \E n \in Namespaces, i \in Items : InGetInstance(n, i)
    \/ InGetItem
    \/ InGetResource
    \/ InGetOld
    \/ InDeleteOld
    \/ InCreate
    \/ InUpdate
    \/ InWriteStatus
    \/ InUnmark
    \/ InRejected
=============================================================================
