SPECIFICATION PartSpec
CONSTANTS
  t1 = t1  t2 = t2  engine = engine  engineDll = engineDll  d1 = d1  d2 = d2
  Audit = Audit
  Clients <- TwoThreads
  Ops <- AllCalls
  Extents <- OneCell
  Addrs <- Cells0  Values <- Cells01  Clean <- Zero0
  Careful = TRUE  Tampering = TRUE
  ScanLimit = 64
  MaxRegions = 2  MaxBackups = 2
  Repairers <- TwoThreads
  Files <- TwoFiles
  Blocks = 2
  Contains <- Nested
  Dirs <- TwoDirs  Default = d1
  MaxVersion = 1  MaxTick = 1  MaxCopies = 2
SYMMETRY Symmetry
CONSTRAINT FewTorn
INVARIANTS TrustKept ScanSafe NoMisuse FilesTypeOK WholeCopies
PROPERTY BackupsStay
CHECK_DEADLOCK FALSE
