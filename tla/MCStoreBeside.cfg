SPECIFICATION BesideSpec
CONSTANTS
  SegMs = 3
  RetentionMs = 0
  Jitter = 1
  Failures = {}
  FirstTime = 3
  MaxTime = 6
  MaxRecords = 2
  MaxFaults = 1
  MaxVisits = 1
INVARIANTS
  LosesOnlyWhatItRaces
  VerifyAloneRepairs
  WindowMissesLateOnly
