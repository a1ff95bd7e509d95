SPECIFICATION Spec
CONSTANTS
  Conn = {1, 2}
  MAX_CONCURRENT = 1
  Backlog = 1
  Draft = {1, 2, 3}
  FileOf <- MCFileOf
  Spoolers = 2
  MaxFiles = 1
  Retention = 1
  MaxNow = 3
  ToolCall = {1, 2}
  Payload <- MCPayload
  c1 = c1
  c2 = c2
  Call = {c1, c2}
  Args <- MCArgs
  Ref = {"elon", "lihi", "kid", "stranger", "elon@x", "guest@y"}
  Address = {"elon@x", "guest@y"}
  Contacts <- MCContacts
  DefaultDuration = 1
  CalendarBacklog = 1
  DailyLimit = 1
  MaxDay = 1
INVARIANTS SettledIsTrue PreviewsKept ConfirmedAsWritten IssuedAsDrafted ToolsFit
           QuotaKept EventsJustified
PROPERTIES EveryoneLeaves NobodyWaits PromisesKept
CHECK_DEADLOCK FALSE
