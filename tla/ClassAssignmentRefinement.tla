---------------------- MODULE ClassAssignmentRefinement ----------------------
(***************************************************************************)
(* The two reconcilers implement ClassSwitch: what a namespace is assigned *)
(* and what is requested are read off its NamespaceState, what is          *)
(* installed off the instances that exist.  Whoever commits a switch sees  *)
(* the instances that exist unless the list of them may be old.            *)
(***************************************************************************)
EXTENDS ClassAssignment

Open      == [n \in Namespaces |-> namespaces[n].live /\ ~namespaces[n].obj.terminating]
Assigned  == [n \in Namespaces |-> states[n].obj.class]
Requested == [n \in Namespaces |-> states[n].obj.pending]
InstalledItems == [n \in Namespaces |-> Installed(n)]

Switching == INSTANCE ClassSwitch WITH
    open      <- Open,
    assigned  <- Assigned,
    requested <- Requested,
    installed <- InstalledItems,
    AllSeen   <- ~InstanceLag

\* The part of it that steps can break: whoever watches the cluster sees instances come,
\* go and be switched in the order ClassSwitch allows
\* (namespace_controller.go:87-144, namespacestate_controller.go:100-153).
SwitchesSafely == Switching!SafeSpec

\* Seen from outside, every step of users, Kubernetes and the manager is a step
\* of ClassSwitch or changes nothing ClassSwitch shows, and every class switch
\* that is requested comes to an end (namespace_controller.go:105-115,
\* namespacestate_controller.go:66-153).
ImplementsClassSwitch == Switching!Spec
=============================================================================
