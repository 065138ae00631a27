----------------------------- MODULE MCAdmission -----------------------------
(***************************************************************************)
(* Values for the model checking of Admission: two classes that may share  *)
(* items, and templates two of which describe the same resource and one    *)
(* that cannot be read.                                                    *)
(***************************************************************************)
EXTENDS Admission

CONSTANTS dev, prod, policy, quota, limits

MCParses == {"first", "second", "other"}

MCTemplates == MCParses \cup {"garbled"}

\* What cannot be read is as good as any other.
MCResourceOf == [t \in MCTemplates |-> IF t = "other" THEN "B" ELSE "A"]

\* The same resource through two versions of its group.
MCVersionedKey == [t \in MCTemplates |-> t]
=============================================================================
