SPECIFICATION PoolSpec
CONSTANTS
  Interval <- ThreeSlow
  MaxWait = 2
  MaxLate = 0
  GapThreshold = 1
  Jumps = {}
  MaxMono = 30
  MaxJumps = 0
  MaxOut = 6
  Threads = {w1, w2, w3}
  MaxWorkers = 3
  Answer = 1
  Timeout = 9
SYMMETRY AnyThread
PROPERTIES
  PacketsLeaveApart
