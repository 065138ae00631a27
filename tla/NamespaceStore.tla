--------------------------- MODULE NamespaceStore ---------------------------
(***************************************************************************)
(* The Namespaces: in the API server and in the manager's informer.        *)
(***************************************************************************)
EXTENDS ApiObjects

VARIABLES
    namespaces,     \* what the API server stores
    nsCache         \* the informer's copies

nsStore == <<namespaces, nsCache>>

\* label: the value of namespaceclass.akuity.io/name, NoClass if there is none.
Namespace == [terminating : BOOLEAN, label : Labels]

NoNamespace == [terminating |-> FALSE, label |-> NoClass]

\* The API server takes no new object into a namespace that is going away.
Admits(n) == namespaces[n].live /\ ~namespaces[n].obj.terminating

NamespacesTypeOK ==
    /\ namespaces \in [Namespaces -> Slot(Namespace)]
    /\ nsCache \in [Namespaces -> Slot(Namespace)]

NamespacesInit ==
    /\ namespaces = [n \in Namespaces |-> Vacant(NoNamespace)]
    /\ nsCache = namespaces
=============================================================================
