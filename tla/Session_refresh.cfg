SPECIFICATION Spec
CONSTANTS
  c1 = c1
  Threads <- OneThread
  Timeouts <- Shipped
  ConfigTimeout = 1
  Crowded = FALSE
  MaxSessions = 2
  MaxTime = 2
PROPERTY RefreshExtends
CHECK_DEADLOCK FALSE
