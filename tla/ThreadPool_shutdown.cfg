SPECIFICATION LiveSpec
CONSTANTS
  w1 = w1  w2 = w2  s1 = s1  t1 = t1
  None = None
  Workers <- TwoWorkers
  Submitters <- OneSubmitter
  Tasks <- OneTask
  QueueSize = 2
  SemMax = 2
  WaitModes <- Waits
  AutoReset = TRUE
PROPERTY ShutdownReturns
CHECK_DEADLOCK FALSE
