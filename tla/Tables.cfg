SPECIFICATION TablesSpec
CONSTANTS
  k1 = k1  k2 = k2  l1 = l1  l2 = l2  b1 = b1  b2 = b2  p1 = p1  p2 = p2  v1 = v1  v2 = v2
  Names <- Pair
  Passwords <- Pair
  Addresses <- Pair
  Spans <- OneToThree
  Ids <- Pair
  Hashes <- Pair
  Lifetime = 2
  Capacity = 3
  MaxTime = 4
  Callers <- TwoThreads
  Labels <- TwoLabels
  Extents <- Pair
  Algorithms <- Pair
  Contents <- Pair
  Blocks <- TwoBlocks
  Nil = Nil
  Threads <- TwoThreads
  Paths <- TwoPaths
  Versions <- TwoHashes
  Slots <- Pair
  Absent = Absent
  Clients <- TwoThreads
  Sequences <- ZeroAndOne
  Limits <- TwoOrThree
  DefaultLimit = 4
  Resident = FALSE
  MaxCreates = 4
SYMMETRY Symmetry
INVARIANTS DuplicatesHarmless HeldSession VerdictRight SumsRight NewestKept LastGoodWindow
PROPERTIES Bans
CHECK_DEADLOCK FALSE
