SPECIFICATION BrokerSpec
CONSTANTS
  hermes = hermes
  Caller = {hermes}
  Ops <- Update
  Key <- MCKey
  Worker = {w1}
  PerHour <- Many
  PerDay <- Many
  HourSeconds = 1
  Ttl = 0
  DayOf <- MCDayOf
  ClockSteps <- Runs
  MaxClock = 1
  MaxCalls = 1
  MaxRetries = 1
INVARIANTS FreedMeansNoEffect
CHECK_DEADLOCK FALSE
