SPECIFICATION SafeSpec
CONSTANTS
  Targets = {1}
  FailThreshold = 2
  MinOutageMs = 1
  TriggerTraceroute = TRUE
  Workers = {w1, w2}
  HandleMayFail = FALSE
  OpenMayFail = FALSE
  SuspendMs = 3
  MaxJobs = 2
  MaxSuspends = 1
INVARIANTS
  GapSeparatesRuns
