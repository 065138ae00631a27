---------------------------- MODULE MCOperator ----------------------------
(***************************************************************************)
(* Values for the model checking of Operator: two classes and two items,   *)
(* each of which may say one of two things about the same resource.        *)
(***************************************************************************)
EXTENDS Operator

CONSTANTS dev, prod, policy, quota, n1, config

AllControllers == {"namespace", "state", "class", "item", "instance"}

MCLabelOf == [n \in Namespaces |-> dev]

Unlabelled == [n \in Namespaces |-> NoClass]

MCTemplates == {"first", "second", "quota"}

MCTwoTemplates == {"first", "second"}

MCResourceOf == [t \in MCTemplates |-> <<config, IF t = "quota" THEN "quota" ELSE "app">>]

MCFirstTemplate == [i \in Items |-> IF i = policy THEN "first" ELSE "quota"]

MCFirstItems == [c \in Classes |-> IF c = dev THEN {policy} ELSE {}]

-----------------------------------------------------------------------------
\* Two classes share an item, and every item has a template of its own to change to.
FourTemplates == MCTemplates \cup {"limits"}

FourResourceOf ==
    [t \in FourTemplates |-> <<config, IF t \in {"quota", "limits"} THEN "quota" ELSE "app">>]

SharedItem == [c \in Classes |-> IF c = dev THEN {policy, quota} ELSE {policy}]

LabelledProd == [n \in Namespaces |-> prod]

-----------------------------------------------------------------------------
\* A class for each item.
MCOneEach == [c \in Classes |-> IF c = dev THEN {policy} ELSE {quota}]

MCOneWanted == [c \in Classes |-> {MCOneEach[c]}]

\* Classes that come and go: dev has a namespace, prod only shares an item with it.
MCItemsWanted ==
    [c \in Classes |-> IF c = dev THEN {{}, {policy}, {policy, quota}} ELSE {{policy}}]

\* The same with fewer choices.
MCFewWanted == [c \in Classes |-> IF c = dev THEN {{policy}, {quota}} ELSE {{quota}}]

-----------------------------------------------------------------------------
\* Two edits, and nothing goes wrong.
Start(labelled, inPlace, acts) ==
    [labelled |-> labelled, inPlace |-> inPlace, acts |-> acts, edits |-> 2, tame |-> TRUE,
     mayFail |-> {}, faults |-> 0, restarts |-> 0, resyncs |-> {}]

Edits(start, n) == [start EXCEPT !.edits = n]

Fails(start, who) == [start EXCEPT !.mayFail = who, !.faults = 1]

Restarts(start) == [start EXCEPT !.restarts = 1]

\* Some changes are known to wait for the next resync.
Heals(start, informers) == [start EXCEPT !.resyncs = informers]

Wild(start) == [start EXCEPT !.tame = FALSE]

\* Classes that come, change and go, for namespaces that have their label already.
ClassesMove == Start(TRUE, FALSE, {"createClass", "editClass", "deleteClass"})

RolloutStarts == {Edits(ClassesMove, 3), Restarts(ClassesMove)}

RolloutLiveStarts == {Fails(ClassesMove, {"state", "class"}), Restarts(ClassesMove)}

\* A class whose item goes as it comes.
StuckStarts == {Edits(Start(FALSE, FALSE, {"createClass", "deleteItem", "deleteClass"}), 3)}

\* Items that are edited where they are installed, classes that are created, and
\* namespaces that get a label, or change it, while items are edited.
ItemsEdited == Start(TRUE, TRUE, {"editItem"})

ClassCreated == Edits(Start(TRUE, FALSE, {"createClass"}), 1)

LabelGiven == Start(FALSE, TRUE, {"label", "editItem"})

LabelChanged == Start(TRUE, TRUE, {"relabel"})

SharedItemEdited == {ItemsEdited}

AnnouncementFails == Fails(Edits(ItemsEdited, 1), {"class", "item"})

DeliveryStarts ==
    {ItemsEdited, Restarts(Edits(ItemsEdited, 1)), ClassCreated, LabelGiven,
     Fails(Edits(ItemsEdited, 1), {"state", "instance"}),
     Heals(AnnouncementFails, {"class"}), Heals(AnnouncementFails, {"instance"}),
     Heals(Edits(LabelChanged, 1), {"namespace"}),
     Wild(Heals(LabelChanged, {"namespace", "state"}))}
=============================================================================
