SPECIFICATION FilesSpec
CONSTANTS
  t1 = t1  engine = engine  engineDll = engineDll  d1 = d1
  Repairers <- OneThread
  Files <- TwoFiles
  Blocks = 2
  Contains <- Nested
  Dirs <- OneDir  Default = d1
  MaxVersion = 1  MaxTick = 1  MaxCopies = 2
INVARIANT OwnFile
CHECK_DEADLOCK FALSE
