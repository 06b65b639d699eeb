SPECIFICATION Spec
CONSTANTS
  Targets = {1, 2, 3}
  FailThreshold = 2
  MinOutageMs = 2
  TriggerTraceroute = TRUE
  AppendMayFail = TRUE
  Deltas = {1}
  GapMs = {3}
  MaxHist = 6
INVARIANTS
  TypeOK
  LogMatchesHistory
  OneTracePerOutage
  IdsAreRowNumbers
