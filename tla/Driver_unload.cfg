SPECIFICATION DriverSpec
CONSTANTS
  t1 = t1  n1 = n1  p1 = p1
  Callers <- OneCaller
  Cpus <- OneCpu
  Procs <- OneProc
  PageSize = 1
  Pages <- TwoPages
  Given <- AllWrite
  Regions <- OneRegion
  FlagSets <- SomeFlags
  Kinds <- OneKind
  MaxLog = 2  MaxEntries = 2  MaxLoads = 1
INVARIANT Unhooked
CHECK_DEADLOCK FALSE
