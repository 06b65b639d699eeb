SPECIFICATION Spec
CONSTANTS
  Targets = {1}
  FailThreshold = 2
  MinOutageMs = 1
  TriggerTraceroute = TRUE
  Workers = {w1, w2}
  HandleMayFail = TRUE
  OpenMayFail = TRUE
  SuspendMs = 3
  MaxJobs = 3
  MaxSuspends = 1
INVARIANTS
  TypeOK
  EachJobOnce
  NothingLostIfHealthy
  AllOutagesReported
PROPERTIES
  UsesClosableQueue
  ShutdownCompletes
