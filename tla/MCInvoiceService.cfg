SPECIFICATION ServiceSpec
CONSTANTS
  hermes = hermes
  Caller = {hermes}
  Ops <- Issue
  Key <- MCKey
  Worker = {w1, w2}
  MAX_CONCURRENT = 1
  Backlog = 1
  PerHour <- One
  PerDay <- One
  HourSeconds = 1
  Ttl = 0
  DayOf <- MCDayOf
  ClockSteps <- Runs
  MaxClock = 1
  MaxCalls = 2
  MaxRetries = 1
SYMMETRY Symmetry
PROPERTIES ServicePromised
