----------------------------- MODULE StateStore -----------------------------
(***************************************************************************)
(* The NamespaceStates: in the API server and in the manager's informer.   *)
(***************************************************************************)
EXTENDS ApiObjects

VARIABLES
    states,         \* what the API server stores
    stateCache      \* the informer's copies

stateStore == <<states, stateCache>>

\* owner: UID of the owning Namespace; class: spec.namespaceClass;
\* pending, classUpdated: the annotations namespaceclass.akuity.io/pending-update
\* and namespaceclass.akuity.io/class-updated.
NamespaceState ==
    [owner : Nat, class : Labels, pending : Labels, classUpdated : BOOLEAN]

NoState ==
    [owner |-> 0, class |-> NoClass, pending |-> NoClass, classUpdated |-> FALSE]

\* A NamespaceState that exists names a class.
NamesClass(state) == state.live => state.obj.class \in Classes

StatesTypeOK ==
    /\ states \in [Namespaces -> Slot(NamespaceState)]
    /\ stateCache \in [Namespaces -> Slot(NamespaceState)]
    /\ \A n \in Namespaces : NamesClass(states[n]) /\ NamesClass(stateCache[n])

StatesInit ==
    /\ states = [n \in Namespaces |-> Vacant(NoState)]
    /\ stateCache = states
=============================================================================
