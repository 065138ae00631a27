---------------------------- MODULE ResourceStore ----------------------------
(***************************************************************************)
(* The resources that instances install, as the API server stores them:    *)
(* they are read and written without a cache.                              *)
(***************************************************************************)
EXTENDS ItemStore, InstanceStore

VARIABLE
    resources       \* resources[n][r]: the resource r = <<kind, name>> in n

Resources == {ResourceOf[t] : t \in Templates}

KindOf(r) == r[1]

\* The resource of another kind and the same name.
WithKind(r, kind) == <<kind, r[2]>>

\* A resource is a kind and a name, and the kind is a kind.
ASSUME KindsAssumption ==
    \A r \in Resources : KindOf(r) \in Kinds /\ WithKind(r, KindOf(r)) = r

\* from, owner: item and UID of the NamespaceItemInstance that owns the resource;
\* template: the specification it was last written from.
Resource == [from : Items, owner : Nat, template : Templates]

NoResource ==
    [from |-> CHOOSE i \in Items : TRUE, owner |-> 0, template |-> CHOOSE t \in Templates : TRUE]

OwnedBy(resource, i, uid) ==
    resource.live /\ resource.obj.from = i /\ resource.obj.owner = uid

\* A resource whose owner does not exist any more.
Orphan(n, r) ==
    LET resource == resources[n][r]
        owner == instances[n][resource.obj.from]
    IN  resource.live /\ ~(owner.live /\ resource.obj.owner = owner.uid)

\* The garbage collector takes it.
CollectResource(n, r) ==
    /\ Orphan(n, r)
    /\ resources' = [resources EXCEPT ![n][r] = Deleted(@, NoResource)]

ResourcesTypeOK == resources \in [Namespaces -> [Resources -> Slot(Resource)]]

ResourcesInit == resources = [n \in Namespaces |-> [r \in Resources |-> Vacant(NoResource)]]
=============================================================================
