SPECIFICATION FairSpec
CONSTANTS
  Item = {milk}
  MaxItems = 1
  Chat = {family, flat}
  Message = {m1, m2, m3, m4}
  Faults = {"deleted", "save"}
  MaxUpdates = 2
  MaxChanges = 1
PROPERTIES ChangeShown
