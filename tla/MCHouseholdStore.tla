------------------------- MODULE MCHouseholdStore -------------------------
(* A small instance of HouseholdStore: two threads of the gateway and the  *)
(* board service, a list that two of three things fill.                    *)
EXTENDS HouseholdStore

CONSTANTS milk, eggs, bread, tool1, tool2, board

MCProcOf == [a \in Actor |-> IF a = board THEN "board" ELSE "gateway"]
MCBatch == {<<milk>>, <<eggs, eggs>>, <<bread, milk>>}

Symmetry == Permutations({tool1, tool2} \cap Actor)
=============================================================================
