SPECIFICATION FairBrokerSpec
CONSTANTS
  hermes = hermes
  Caller = {hermes}
  Ops <- Upload
  Key <- MCKey
  Worker = {w1, w2}
  PerHour <- One
  PerDay <- One
  HourSeconds = 1
  Ttl = 0
  DayOf <- MCDayOf
  ClockSteps <- Runs
  MaxClock = 1
  MaxCalls = 2
  MaxRetries = 1
INVARIANTS AtMostOnce EffectCharged EffectsWithinCaps ReplyHonest
PROPERTIES CallsEnd
CHECK_DEADLOCK FALSE
