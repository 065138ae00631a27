----------------------------- MODULE ClassStore -----------------------------
(***************************************************************************)
(* The NamespaceClasses: in the API server and in the manager's informer.  *)
(***************************************************************************)
EXTENDS ApiObjects

VARIABLES
    classes,        \* what the API server stores
    classCache      \* the informer's copies

classStore == <<classes, classCache>>

\* items: spec.items; finalizer: the controller's finalizer is set; deleting: the
\* deletion timestamp is set; itemUpdated: the annotation
\* namespaceclassitem.akuity.io/updated.
NamespaceClass ==
    [items : SUBSET Items, finalizer : BOOLEAN, deleting : BOOLEAN,
     itemUpdated : BOOLEAN]

NoClassObject ==
    [items |-> {}, finalizer |-> FALSE, deleting |-> FALSE, itemUpdated |-> FALSE]

ClassesTypeOK ==
    /\ classes \in [Classes -> Slot(NamespaceClass)]
    /\ classCache \in [Classes -> Slot(NamespaceClass)]
=============================================================================
