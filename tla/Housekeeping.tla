---------------------------- MODULE Housekeeping ----------------------------
(***************************************************************************)
(* What Kubernetes does with the operator's objects: a terminating         *)
(* namespace is emptied and then removed, and an object whose owner does   *)
(* not exist any more is collected.                                        *)
(***************************************************************************)
EXTENDS NamespaceStore, StateStore, InstanceStore

PurgeInstance(n, i) ==
    /\ namespaces[n].obj.terminating
    /\ instances[n][i].live
    /\ instances' = [instances EXCEPT ![n][i] = Deleted(@, NoInstance)]
    /\ UNCHANGED <<namespaces, states>>

RemoveNamespace(n) ==
    /\ namespaces[n].obj.terminating
    /\ \A i \in Items : ~instances[n][i].live
    /\ namespaces' = [namespaces EXCEPT ![n] = Deleted(@, NoNamespace)]
    /\ UNCHANGED <<states, instances>>

OrphanState(n) == states[n].live /\ ~Owns(namespaces[n], states[n])

OrphanInstance(n, i) == instances[n][i].live /\ ~Owns(states[n], instances[n][i])

CollectState(n) ==
    /\ OrphanState(n)
    /\ states' = [states EXCEPT ![n] = Deleted(@, NoState)]
    /\ UNCHANGED <<namespaces, instances>>

CollectInstance(n, i) ==
    /\ OrphanInstance(n, i)
    /\ instances' = [instances EXCEPT ![n][i] = Deleted(@, NoInstance)]
    /\ UNCHANGED <<namespaces, states>>
=============================================================================
