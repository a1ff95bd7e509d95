SPECIFICATION FairSpec
CONSTANTS
  Worker = {w1, w2}
  MaxRetries = 1
  Skew = 1
  Life = 2
  Fallback = 2
  MaxClock = 2
  MaxTokens = 3
INVARIANTS NoStampede RefusedNotReused
PROPERTIES DropsOnlyDead NobodyStuck
CHECK_DEADLOCK FALSE
