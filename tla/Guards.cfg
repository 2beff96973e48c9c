SPECIFICATION PartSpec
CONSTANTS
  t1 = t1  t2 = t2  n1 = n1  n2 = n2  p1 = p1  p2 = p2
  Threads <- TwoThreads
  Timeouts <- OneTimeout
  ConfigTimeout = 1
  Crowded = FALSE
  MaxSessions = 2
  MaxTime = 2
  Callers <- TwoThreads
  Cpus <- TwoCpus
  Procs <- TwoProcs
  PageSize = 2
  Pages <- ThreePages
  Given <- MixedPages
  Regions <- TwoRegions
  FlagSets <- SomeFlags
  Kinds <- OneKind
  MaxLog = 2  MaxEntries = 2  MaxLoads = 1
  Reach = 2  Margin = 2  MaxSize = 6
SYMMETRY Symmetry
INVARIANTS ListIntact NoMisuse Released Referenced StopDrains NothingInvented Agreement
PROPERTY RefusalHolds
CHECK_DEADLOCK FALSE
