----------------------------- MODULE ClassSwitch -----------------------------
(***************************************************************************)
(* What the operator promises to somebody who watches the cluster while a  *)
(* namespace is given a class and moved from one class to the next: the    *)
(* instances of a namespace leave its class only while another class is    *)
(* requested, the switch is recorded only when the class requested has all *)
(* its instances, and no others where whoever switches sees every one that *)
(* exists, and every request ends.                                         *)
(***************************************************************************)
CONSTANTS
    Namespaces, Classes, Items, NoClass, ItemsOf(_),
    AllSeen         \* are the instances that exist seen as soon as they do?

VARIABLES
    open,       \* open[n]: namespace n exists and is not being deleted
    assigned,   \* assigned[n]: the class on record, or NoClass
    requested,  \* requested[n]: the class asked for instead, or NoClass
    installed   \* installed[n]: the items that have an instance

switchVars == <<open, assigned, requested, installed>>

Init ==
    /\ open = [n \in Namespaces |-> FALSE]
    /\ assigned = [n \in Namespaces |-> NoClass]
    /\ requested = [n \in Namespaces |-> NoClass]
    /\ installed = [n \in Namespaces |-> {}]

\* The instances of n are to stay as its class says.
Steady(n) == open[n] /\ assigned[n] # NoClass /\ requested[n] = NoClass

OpenOrClose(n) ==
    /\ open' = [open EXCEPT ![n] = ~@]
    /\ UNCHANGED <<assigned, requested, installed>>

Assign(n, c) ==
    /\ assigned[n] = NoClass
    /\ assigned' = [assigned EXCEPT ![n] = c]
    /\ UNCHANGED <<open, requested, installed>>

Request(n, c) ==
    /\ assigned[n] \notin {NoClass, c}
    /\ requested' = [requested EXCEPT ![n] = c]
    /\ UNCHANGED <<open, assigned, installed>>

Install(n, i) ==
    /\ open[n]
    /\ Steady(n) => i \in ItemsOf(assigned[n])
    /\ installed' = [installed EXCEPT ![n] = @ \cup {i}]
    /\ UNCHANGED <<open, assigned, requested>>

Uninstall(n, i) ==
    /\ Steady(n) => i \notin ItemsOf(assigned[n])
    /\ installed' = [installed EXCEPT ![n] = @ \ {i}]
    /\ UNCHANGED <<open, assigned, requested>>

Switch(n) ==
    /\ requested[n] # NoClass
    /\ open[n] => /\ ItemsOf(requested[n]) \subseteq installed[n]
                  /\ AllSeen => installed[n] \subseteq ItemsOf(requested[n])
    /\ assigned' = [assigned EXCEPT ![n] = requested[n]]
    /\ requested' = [requested EXCEPT ![n] = NoClass]
    /\ UNCHANGED <<open, installed>>

\* The class is withdrawn, with a request that may be under way.
Release(n) ==
    /\ assigned[n] # NoClass
    /\ assigned' = [assigned EXCEPT ![n] = NoClass]
    /\ requested' = [requested EXCEPT ![n] = NoClass]
    /\ UNCHANGED <<open, installed>>

Next ==
    \E n \in Namespaces :
        \/ OpenOrClose(n)
        \/ \E c \in Classes : Assign(n, c) \/ Request(n, c)
        \/ \E i \in Items : Install(n, i) \/ Uninstall(n, i)
        \/ Switch(n)
        \/ Release(n)

\* What is promised of every step, and of how the steps go on.
SafeSpec == Init /\ [][Next]_switchVars

\* Every request ends: in a switch, or in the withdrawal of the class.
RequestsEnd == \A n \in Namespaces : requested[n] # NoClass ~> requested[n] = NoClass

Spec == SafeSpec /\ RequestsEnd
=============================================================================
