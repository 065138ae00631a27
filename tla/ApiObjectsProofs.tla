-------------------------- MODULE ApiObjectsProofs --------------------------
(***************************************************************************)
(* Lemmas about slots: what a write leaves in one, and what it makes of    *)
(* the copies read before.                                                 *)
(***************************************************************************)
EXTENDS ApiObjects, TLAPS

\* What was stored and what is, after any number of writes.
Later(stored, new) == new = stored \/ (stored.uid <= new.uid /\ stored.rv < new.rv)

-----------------------------------------------------------------------------
LEMMA SlotTypes ==
    ASSUME NEW Objects, NEW stored \in Slot(Objects), NEW new \in Objects
    PROVE  /\ Updated(stored, new) \in Slot(Objects)
           /\ Created(stored, new) \in Slot(Objects)
           /\ Deleted(stored, new) \in Slot(Objects)
BY DEF Slot, Updated, Created, Deleted

LEMMA SlotHolds ==
    ASSUME NEW Objects, NEW stored \in Slot(Objects), NEW new \in Objects
    PROVE  /\ Updated(stored, new).obj = new
           /\ Created(stored, new).obj = new /\ Created(stored, new).live
           /\ Deleted(stored, new).obj = new /\ ~Deleted(stored, new).live
BY DEF Slot, Updated, Created, Deleted

LEMMA UpdatedLives ==
    ASSUME NEW Objects, NEW stored \in Slot(Objects), stored.live, NEW new \in Objects
    PROVE  Updated(stored, new).live
BY DEF Slot, Updated

LEMMA WritesGrow ==
    ASSUME NEW Objects, NEW stored \in Slot(Objects), NEW new \in Objects
    PROVE  /\ Later(stored, Updated(stored, new))
           /\ Later(stored, Created(stored, new))
           /\ Later(stored, Deleted(stored, new))
BY DEF Slot, Updated, Created, Deleted, Later

LEMMA FreshStays ==
    ASSUME NEW Objects, NEW copy \in Slot(Objects), NEW stored \in Slot(Objects),
           NEW new \in Slot(Objects), Fresh(copy, stored), Later(stored, new)
    PROVE  Fresh(copy, new)
BY DEF Slot, Fresh, Later

LEMMA FreshSelf ==
    ASSUME NEW Objects, NEW stored \in Slot(Objects)
    PROVE  Fresh(stored, stored)
BY DEF Slot, Fresh

\* An informer's copy that is brought up to date, or is not.
LEMMA CachedStays ==
    ASSUME NEW Objects, NEW copy \in Slot(Objects), NEW stored \in Slot(Objects),
           NEW new \in Slot(Objects), NEW copyNext, Fresh(copy, stored), Later(stored, new),
           copyNext = copy \/ copyNext = new
    PROVE  Fresh(copyNext, new) /\ copy.rv <= copyNext.rv
BY FreshStays, FreshSelf DEF Slot, Fresh, Later
=============================================================================
