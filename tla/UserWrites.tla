----------------------------- MODULE UserWrites -----------------------------
(***************************************************************************)
(* What users do to NamespaceClasses and NamespaceClassItems.  Every write *)
(* passes the webhooks.                                                    *)
(***************************************************************************)
EXTENDS Webhooks

CONSTANT
    MaxLives        \* bound: objects created under one name

CreateItem(i, t) ==
    /\ ~items[i].live
    /\ items[i].uid < MaxLives
    /\ AdmitsItem(t)
    /\ items' = [items EXCEPT ![i] =
                    Created(@, [gen |-> 1, template |-> t, obs |-> 0, refs |-> {}])]
    /\ UNCHANGED classes

EditItem(i, t) ==
    LET old == items[i].obj IN
    /\ items[i].live
    /\ t # old.template
    /\ AdmitsItemUpdate(i, t)
    /\ items' = [items EXCEPT ![i] =
                    Updated(@, [gen |-> old.gen + 1, template |-> t, obs |-> old.obs,
                                refs |-> old.refs])]
    /\ UNCHANGED classes

DeleteItem(i) ==
    /\ items[i].live
    /\ AdmitsItemDelete(i)
    /\ items' = [items EXCEPT ![i] = Deleted(@, NoItem)]
    /\ UNCHANGED classes

CreateClass(c, set) ==
    /\ ~classes[c].live
    /\ classes[c].uid < MaxLives
    /\ AdmitsClass(set)
    /\ classes' = [classes EXCEPT ![c] =
                      Created(@, [items |-> set, finalizer |-> FALSE, deleting |-> FALSE,
                                  itemUpdated |-> FALSE])]
    /\ UNCHANGED items

EditClass(c, set) ==
    /\ classes[c].live
    /\ set # classes[c].obj.items
    /\ AdmitsClass(set)
    /\ classes' = [classes EXCEPT ![c] = Updated(@, [@.obj EXCEPT !.items = set])]
    /\ UNCHANGED items

\* A class with the finalizer stays until the reconciler takes that off.
DeleteClass(c) ==
    /\ classes[c].live
    /\ ~classes[c].obj.deleting
    /\ AdmitsClassDelete(c)
    /\ classes' = [classes EXCEPT ![c] =
                      IF @.obj.finalizer
                      THEN Updated(@, [@.obj EXCEPT !.deleting = TRUE])
                      ELSE Deleted(@, NoClassObject)]
    /\ UNCHANGED items
=============================================================================
