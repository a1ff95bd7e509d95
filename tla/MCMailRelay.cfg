SPECIFICATION Spec
CONSTANTS
  Recipient = {yoram}
  Worker = {w1, w2}
  MaxLimit = 2
  Limits = {1, 2}
  Ttl = 0
  DayOf <- MCDayOf
  ClockSteps <- Runs
  MaxClock = 2
  MaxSends = 2
  MaxEdits = 2
SYMMETRY Symmetry
INVARIANTS MailCharged MailsWithinLimit ReplyTrue
PROPERTIES NewestServed LedgerSpec
CHECK_DEADLOCK FALSE
