SPECIFICATION Spec
CONSTANTS
  k1 = k1
  k2 = k2
  Key = {k1}
  Worker = {w1, w2}
  PerHour <- MCPerHour
  PerDay <- MCPerDay
  HourSeconds = 2
  Ttl = 1
  DayOf <- MCDayOf
  ClockSteps <- Runs
  MaxClock = 3
  MaxCalls = 3
SYMMETRY Symmetry
INVARIANTS WithinCaps HeldRowCounted
PROPERTIES LedgerSpec
CHECK_DEADLOCK FALSE
