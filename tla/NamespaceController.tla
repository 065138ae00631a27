------------------------- MODULE NamespaceController -------------------------
(***************************************************************************)
(* internal/controller/namespace_controller.go: the reconciler that keeps  *)
(* one NamespaceState per labelled Namespace.                              *)
(*                                                                         *)
(* One worker handles one key of the queue at a time.  Each client call of *)
(* Reconcile is a step: the reads answer from the informer caches, the     *)
(* writes go to the API server.  A call that returns an error ends         *)
(* Reconcile and puts the key back in the queue.  An action here says what *)
(* becomes of the stores the reconciler may write and of its own variables; *)
(* the composing module frames the rest.                                   *)
(***************************************************************************)
EXTENDS NamespaceStore, StateStore

VARIABLES
    nsQueue,        \* keys waiting to be reconciled
    nsWorker        \* the Reconcile call in progress

nsVars == <<nsQueue, nsWorker>>

CONSTANT
    StateLag        \* may the read of the NamespaceState be out of date?

NsWrites == {"deleteState", "markPending", "createState"}

NsCall ==
    [pc : {"idle", "getState"} \cup NsWrites, key : Namespaces,
     ns : Slot(Namespace), state : Slot(NamespaceState)]

\* The idle worker; its other fields mean nothing.
NsIdle ==
    [pc |-> "idle", key |-> CHOOSE n \in Namespaces : TRUE,
     ns |-> Vacant(NoNamespace), state |-> Vacant(NoState)]

NsReturn == nsWorker' = NsIdle /\ UNCHANGED nsQueue

\* Reconcile returned an error: the key is queued again.
NsRequeue ==
    /\ nsWorker' = NsIdle
    /\ nsQueue' = nsQueue \cup {nsWorker.key}

-----------------------------------------------------------------------------
NsGetNamespace(n) ==
    /\ nsWorker.pc = "idle"
    /\ n \in nsQueue
    /\ nsQueue' = nsQueue \ {n}
    /\ nsWorker' = IF nsCache[n].live
                   THEN [pc |-> "getState", key |-> n,
                         ns |-> nsCache[n], state |-> Vacant(NoState)]
                   ELSE NsIdle
    /\ UNCHANGED states

\* Mutant of NsNextCall: a namespace is not asked whether it has the label.
NsNextCallUnasked(ns, state) ==
    CASE state.live /\ state.obj.class # ns.obj.label -> "markPending"
      [] ~state.live                                  -> "createState"
      [] OTHER                                        -> "idle"

\* Mutant of NsNextCall: a namespace without the label is left alone.
NsNextCallLabelled(ns, state) ==
    LET label == ns.obj.label
    IN  CASE label # NoClass /\ state.live /\ state.obj.class # label  -> "markPending"
          [] label # NoClass /\ ~state.live                            -> "createState"
          [] OTHER                                                     -> "idle"

\* What Reconcile does next, given the Namespace and the NamespaceState it read.
NsNextCall(ns, state) ==
    LET label == ns.obj.label
    IN  CASE label = NoClass /\ state.live                             -> "deleteState"
          [] label # NoClass /\ state.live /\ state.obj.class # label  -> "markPending"
          [] label # NoClass /\ ~state.live                            -> "createState"
          [] OTHER                                                     -> "idle"

NsGetState ==
    /\ nsWorker.pc = "getState"
    /\ StateLag \/ stateCache = states
    /\ LET state == stateCache[nsWorker.key]
           call  == NsNextCall(nsWorker.ns, state)
       IN  nsWorker' = IF call = "idle" THEN NsIdle
                       ELSE [pc |-> call, key |-> nsWorker.key,
                             ns |-> nsWorker.ns, state |-> state]
    /\ UNCHANGED <<states, nsQueue>>

NsDeleteState ==
    /\ nsWorker.pc = "deleteState"
    /\ states[nsWorker.key].live
    /\ states' = [states EXCEPT ![nsWorker.key] = Deleted(@, NoState)]
    /\ NsReturn

WithPending(state, class) == [state EXCEPT !.pending = class]

\* Mutant of NsMarkPending: the update carries no resourceVersion.
NsMarkPendingBlindly ==
    /\ nsWorker.pc = "markPending"
    /\ states[nsWorker.key].live
    /\ states' = [states EXCEPT ![nsWorker.key] =
                     Updated(@, WithPending(nsWorker.state.obj, nsWorker.ns.obj.label))]
    /\ NsReturn

NsMarkPending ==
    /\ nsWorker.pc = "markPending"
    /\ SameVersion(states[nsWorker.key], nsWorker.state)
    /\ states' = [states EXCEPT ![nsWorker.key] =
                     Updated(@, WithPending(nsWorker.state.obj, nsWorker.ns.obj.label))]
    /\ NsReturn

NewState(ns) ==
    [owner |-> ns.uid, class |-> ns.obj.label, pending |-> NoClass, classUpdated |-> FALSE]

\* Mutant of NsCreateState: the create replaces a NamespaceState that is there already.
NsCreateStateOver ==
    /\ nsWorker.pc = "createState"
    /\ states' = [states EXCEPT ![nsWorker.key] = Created(@, NewState(nsWorker.ns))]
    /\ NsReturn

NsCreateState ==
    /\ nsWorker.pc = "createState"
    /\ ~states[nsWorker.key].live
    /\ states' = [states EXCEPT ![nsWorker.key] = Created(@, NewState(nsWorker.ns))]
    /\ NsReturn

\* The API server refuses the write: NotFound, Conflict or AlreadyExists.
NsRejected ==
    LET stored == states[nsWorker.key] IN
    /\ \/ nsWorker.pc = "deleteState" /\ ~stored.live
       \/ nsWorker.pc = "markPending" /\ ~SameVersion(stored, nsWorker.state)
       \/ nsWorker.pc = "createState" /\ stored.live
    /\ NsRequeue
    /\ UNCHANGED states

\* The write fails for a reason of its own: a timeout, a connection lost.
NsCallFails ==
    /\ nsWorker.pc \in NsWrites
    /\ NsRequeue
    /\ UNCHANGED states

NsReconcile ==
    \/ \E n \in Namespaces : NsGetNamespace(n)
    \/ NsGetState
    \/ NsDeleteState
    \/ NsMarkPending
    \/ NsCreateState
    \/ NsRejected
=============================================================================
