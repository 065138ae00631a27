--------------------------- MODULE MCInstanceSync ---------------------------
(***************************************************************************)
(* Values for the model checking of InstanceSync: versions of one item     *)
(* that differ in content, in kind or in the name of the resource, or that *)
(* cannot be read.                                                         *)
(***************************************************************************)
EXTENDS InstanceSync

CONSTANTS policy, quota, n1, config, secret

MCTemplates == {"first", "second", "retyped", "renamed", "garbled"}

MCParses == MCTemplates \ {"garbled"}

MCResourceOf ==
    [t \in MCTemplates |-> <<IF t = "retyped" THEN secret ELSE config,
                             IF t = "renamed" THEN "other" ELSE "app">>]

MCFirst == {"first"}

\* The item keeps naming the same resource, but may change its kind.
KindMoves == {"first", "second", "retyped"} \X {"first", "second", "retyped"}

AllMoves == MCTemplates \X MCTemplates

\* Five changes, each dealt with before the next; three in quick succession.
PatientStart == [edits |-> 5, hasty |-> 0, faults |-> 2, restarts |-> 1]

HastyStart == [edits |-> 3, hasty |-> 3, faults |-> 1, restarts |-> 1]

MCStarts == {PatientStart, HastyStart}

\* Changes in quick succession and nothing else.
HastyOnly == {[edits |-> 4, hasty |-> 4, faults |-> 0, restarts |-> 0]}
=============================================================================
