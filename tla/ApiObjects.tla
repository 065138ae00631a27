----------------------------- MODULE ApiObjects -----------------------------
(***************************************************************************)
(* Objects in the Kubernetes API server, and what it promises about a      *)
(* write.                                                                  *)
(*                                                                         *)
(* There is one slot per possible object name.  `live' says whether an     *)
(* object of that name exists now.  `uid' counts the objects that have had *)
(* the name and is the identity of the latest one; `rv' is the             *)
(* resourceVersion, which every effective write increments and which a     *)
(* deletion never takes back.  `obj' holds the fields the controllers read *)
(* or write; the modules of the stores say which they are.                 *)
(***************************************************************************)
EXTENDS Naturals

CONSTANTS
    Namespaces,     \* names of namespaces, and so of NamespaceStates
    Classes,        \* names of NamespaceClasses
    Items,          \* names of NamespaceClassItems, and so of instances
    NoClass         \* no class label, no pending class

ASSUME NoClassAssumption == NoClass \notin Classes

Labels == Classes \cup {NoClass}

Slot(Objects) == [live : BOOLEAN, uid : Nat, rv : Nat, obj : Objects]

Vacant(none) == [live |-> FALSE, uid |-> 0, rv |-> 0, obj |-> none]

-----------------------------------------------------------------------------
(***************************************************************************)
(* An update is accepted only if the object has not been written since the *)
(* caller's copy of it was read; a create only if the name is free; a      *)
(* delete only if an object of that name exists, whichever it is.          *)
(***************************************************************************)
SameVersion(stored, copy) == stored.live /\ stored.rv = copy.rv

\* An update that changes nothing keeps the resourceVersion: no event follows.
Updated(stored, new) ==
    IF new = stored.obj THEN stored
    ELSE [live |-> TRUE, uid |-> stored.uid, rv |-> stored.rv + 1, obj |-> new]

Created(stored, new) ==
    [live |-> TRUE, uid |-> stored.uid + 1, rv |-> stored.rv + 1, obj |-> new]

\* The identity and the version stay used.
Deleted(stored, none) ==
    [live |-> FALSE, uid |-> stored.uid, rv |-> stored.rv + 1, obj |-> none]

\* The names an informer has news of, and those of the objects there are.
Changed(copies, stored) == {k \in DOMAIN stored : copies[k] # stored[k]}

Living(slots) == {k \in DOMAIN slots : slots[k].live}

\* A copy is never newer than what is stored, and a copy of the stored version
\* is what is stored: this is what makes an optimistic update safe.
Fresh(copy, stored) ==
    /\ copy.uid <= stored.uid
    /\ copy.rv <= stored.rv
    /\ copy.rv = stored.rv => copy = stored

\* An owner reference holds while the owner with that UID exists.
Owns(owner, dependent) == owner.live /\ owner.uid = dependent.obj.owner
=============================================================================
