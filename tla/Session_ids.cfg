SPECIFICATION Spec
CONSTANTS
  c1 = c1
  Threads <- OneThread
  Timeouts <- Shipped
  ConfigTimeout = 1
  Crowded = TRUE
  MaxSessions = 2
  MaxTime = 2
INVARIANT UniqueIds
CHECK_DEADLOCK FALSE
