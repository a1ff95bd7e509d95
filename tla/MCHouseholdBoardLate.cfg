SPECIFICATION FairSpec
CONSTANTS
  Item = {milk}
  MaxItems = 1
  Chat = {family}
  Message = {m1, m2}
  Faults = {}
  MaxUpdates = 1
  MaxChanges = 1
PROPERTIES ShowsUp
