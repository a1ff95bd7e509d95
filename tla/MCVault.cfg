SPECIFICATION Spec
CONSTANTS
  w1 = w1
  w2 = w2
  w3 = w3
  Write = {w1, w2, w3}
  MaxClock = 1
  Conflict = {1, 2}
  Folder = {1}
  Name = {"a"}
  Encoded <- MCEncoded
  MaxDup = 1
  MaxToday = 1
  l1 = l1
  l2 = l2
  l3 = l3
  Line = {l1, l2, l3}
  DefaultDays = 2
  Database = {"state.db", "kanban.db"}
  RetainHourly <- MCRetainHourly
  RetainDaily <- MCRetainDaily
  HoursPerDay = 2
  MaxHour = 4
  MaxVersion = 2
INVARIANTS WritesKept ConflictsKept NoteIntact BriefWarnsRight SnapshotsKept
CHECK_DEADLOCK FALSE
