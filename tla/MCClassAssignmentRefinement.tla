-------------------- MODULE MCClassAssignmentRefinement --------------------
EXTENDS ClassAssignmentRefinement, MCClassAssignment
=============================================================================
