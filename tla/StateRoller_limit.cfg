SPECIFICATION RollerSpec
CONSTANTS
  c1 = c1  c2 = c2
  Clients <- TwoClients
  Sequences <- WithZero
  Limits <- ZeroToThree
  DefaultLimit = 4
  Resident = FALSE
  MaxCreates = 4
SYMMETRY Symmetry
INVARIANT WithinLimit
CHECK_DEADLOCK FALSE
