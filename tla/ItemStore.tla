------------------------------ MODULE ItemStore ------------------------------
(***************************************************************************)
(* The NamespaceClassItems: in the API server and in the manager's         *)
(* informer.  What an item installs is its template.                       *)
(***************************************************************************)
EXTENDS ApiObjects

CONSTANTS
    Templates,      \* what the spec of an item may say
    Parses,         \* the templates that can be read as a Kubernetes object
    ResourceOf      \* the resource, kind and name, a template describes

ASSUME TemplatesAssumption == Templates # {}

VARIABLES
    items,          \* what the API server stores
    itemCache       \* the informer's copies

itemStore == <<items, itemCache>>

\* gen: metadata.generation, which only a change of the spec increments; template:
\* spec; obs, refs: status.observedGeneration and status.referencedBy.
NamespaceClassItem ==
    [gen : Nat, template : Templates, obs : Nat, refs : SUBSET Classes]

\* What the fields of a slot without an item are.
NoItem == [gen |-> 0, template |-> CHOOSE t \in Templates : TRUE, obs |-> 0, refs |-> {}]

ItemsTypeOK ==
    /\ items \in [Items -> Slot(NamespaceClassItem)]
    /\ itemCache \in [Items -> Slot(NamespaceClassItem)]
=============================================================================
