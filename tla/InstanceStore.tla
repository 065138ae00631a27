---------------------------- MODULE InstanceStore ----------------------------
(***************************************************************************)
(* The NamespaceItemInstances: in the API server and in the manager's      *)
(* informer.  An instance has the name of its item.                        *)
(***************************************************************************)
EXTENDS ApiObjects

CONSTANTS
    Kinds,          \* the GVKs an item's resource may have
    NoKind          \* status.currentResourceGVK is nil

ASSUME NoKindAssumption == NoKind \notin Kinds

VARIABLES
    instances,      \* what the API server stores
    instCache       \* the informer's copies

instStore == <<instances, instCache>>

\* owner: UID of the owning NamespaceState; updated: the annotation
\* namespaceclassitem.akuity.io/updated; obs, kind: status.observedGeneration and
\* status.currentResourceGVK.
NamespaceItemInstance ==
    [owner : Nat, updated : BOOLEAN, obs : Nat, kind : Kinds \cup {NoKind}]

NoInstance == [owner |-> 0, updated |-> FALSE, obs |-> 0, kind |-> NoKind]

ChangedInstances == UNION {{n} \X Changed(instCache[n], instances[n]) : n \in Namespaces}

LivingInstances(slots) == UNION {{n} \X Living(slots[n]) : n \in Namespaces}

InstancesTypeOK ==
    /\ instances \in [Namespaces -> [Items -> Slot(NamespaceItemInstance)]]
    /\ instCache \in [Namespaces -> [Items -> Slot(NamespaceItemInstance)]]

InstancesInit ==
    /\ instances = [n \in Namespaces |-> [i \in Items |-> Vacant(NoInstance)]]
    /\ instCache = instances
=============================================================================
