------------------------- MODULE MCHouseholdBoard -------------------------
(* Small instances of HouseholdBoard.                                      *)
EXTENDS HouseholdBoard, TLC

Symmetry == Permutations(Message) \cup Permutations(Item)
=============================================================================
