SPECIFICATION PartSpec
CONSTANTS
  main = main  other = other  w1 = w1  w2 = w2  b1 = b1  b2 = b2  n1 = n1  n2 = n2  n3 = n3
  t1 = t1  t2 = t2  s1 = s1  s2 = s2  s3 = s3  s4 = s4
  Clients <- TwoClients
  Controller = main
  Workers <- TwoWorkers
  Names <- TwoNames
  Blocks <- TwoBlocks
  Nodes <- ThreeNodes
  Null = Null
  Threads <- TwoThreads
  Sockets <- FourSockets
  Owner = owner  None = None  MaxRestarts = 1
INVARIANTS AuditSafe CallbacksKept OneSocket ShutdownFinal
PROPERTIES  LockReleased
CHECK_DEADLOCK FALSE
