SPECIFICATION PartSpec
CONSTANTS
  w1 = w1  w2 = w2  s1 = s1  s2 = s2  t1 = t1  t2 = t2  t3 = t3
  None = None
  Workers <- TwoWorkers
  Submitters <- TwoSubmitters
  Tasks <- ThreeTasks
  QueueSize = 2
  SemMax = 2
  WaitModes <- Waits
  AutoReset = TRUE
  c1 = c1  Audit = Audit
  Clients <- OneClient
  Ops <- Watching
  Extents <- TwoCells
  Addrs <- Cells01  Values <- Cells01  Clean <- AllZero
  Careful = FALSE  Tampering = TRUE
  ScanLimit = 1
  MaxRegions = 2  MaxBackups = 0
INVARIANTS NoLostWakeup OnePlace NeverOvercounts  PauseTakesHold
PROPERTIES ImplementsTaskQueue EveryTaskRuns  Reported 
CHECK_DEADLOCK FALSE
