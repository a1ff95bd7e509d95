---------------------------- MODULE ShoppingList ----------------------------
(***************************************************************************)
(* What the household store promises (plugins/household/_store.py): a list *)
(* of things to buy, each of them at most once on it, on which every       *)
(* operation of the agent or of the board happens at one instant.  No      *)
(* locks, no files, no processes.                                          *)
(***************************************************************************)
EXTENDS Integers, FiniteSets

CONSTANTS Item,      \* the normalised names of things to buy
          MaxItems   \* MAX_ITEMS

ASSUME ListAssumption == MaxItems \in Nat

VARIABLE items  \* for each thing, whether it is on the list and bought

Absent == "absent"
Open == "open"
Bought == "bought"
Mark == {Open, Bought}

Listed == {i \in Item : items[i] # Absent}

SetTo(S, mark) == items' = [i \in Item |-> IF i \in S THEN mark ELSE items[i]]

Empty == items = [i \in Item |-> Absent]

-----------------------------------------------------------------------------
\* add: all of S are wanted, the ones bought before included; all or none.
Put(S) ==
  /\ Cardinality(Listed \cup S) <= MaxItems
  /\ SetTo(S, Open)

\* remove
TakeOff(S) == SetTo(S, Absent)

\* check: only what is on the list can be bought or put back.
Tick(S, mark) == SetTo(S \cap Listed, mark)

\* clear with scope "checked"
ClearBought == SetTo({i \in Item : items[i] = Bought}, Absent)

\* clear with scope "all"
ClearAll == SetTo(Item, Absent)

Change ==
  \/ \E S \in SUBSET Item :
       \/ Put(S)
       \/ TakeOff(S)
       \/ \E mark \in Mark : Tick(S, mark)
  \/ ClearBought
  \/ ClearAll

ListSpec == Empty /\ [][Change]_items
=============================================================================
