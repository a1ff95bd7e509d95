SPECIFICATION Spec
CONSTANTS
  Item = {milk}
  MaxItems = 1
  Chat = {family}
  Message = {m1, m2, m3}
  Faults = {"api", "crash", "store"}
  MaxUpdates = 2
  MaxChanges = 1
SYMMETRY Symmetry
INVARIANTS NothingLost SavedBoardKept
