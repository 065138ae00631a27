-------------------------- MODULE MCClassAssignment --------------------------
(***************************************************************************)
(* Values for the model checking of ClassAssignment: two classes that      *)
(* share an item, one class name that no NamespaceClass has.               *)
(***************************************************************************)
EXTENDS ClassAssignment

CONSTANTS dev, prod, ghost, policy, quota

MCItemsOfClasses ==
    [c \in {dev, prod} |-> IF c = dev THEN {policy} ELSE {policy, quota}]

\* A class with one item, and one with none that are left.
MCOneItem == [c \in {dev, prod} |-> IF c = dev THEN {policy} ELSE {}]

\* Users move a namespace forward only: a label once left does not come back.
ForwardMoves == {<<dev, prod>>, <<prod, ghost>>, <<dev, ghost>>}

\* The same, and a label may be given to a namespace that has none.
GivingMoves == ForwardMoves \cup ({NoClass} \X {dev, prod, ghost})

\* Forward only, and the label may be removed for good.
LeavingMoves == ForwardMoves \cup {<<dev, NoClass>>, <<prod, NoClass>>}

\* A label that is changed and changed back.
FlipMoves == {<<dev, prod>>, <<prod, dev>>}

\* A label that is removed and put back.
ToggleMoves == {<<dev, NoClass>>, <<NoClass, dev>>}

\* Any change at all.
AllMoves == {m \in Labels \X Labels : m[1] # m[2]}
=============================================================================
