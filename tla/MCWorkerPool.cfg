SPECIFICATION PoolSpec
CONSTANTS
  Interval <- ThreeAlike
  MaxWait = 2
  MaxLate = 5
  GapThreshold = 1
  Jumps = {2, 3}
  MaxMono = 14
  MaxJumps = 2
  MaxOut = 6
  Threads = {w1, w2, w3}
  MaxWorkers = 3
  Answer = 1
  Timeout = 4
SYMMETRY AnyThread
INVARIANTS
  PoolTypeOK
  NoBurstUntilLate
  GapsAddUp
  CollectedOnce
  NoCatchingUp
  QueueKeepsUp
