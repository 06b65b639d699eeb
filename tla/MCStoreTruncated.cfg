SPECIFICATION Spec
CONSTANTS
  SegMs = 2
  RetentionMs = 0
  Jitter = 0
  Failures = {"zst"}
  FirstTime = 2
  MaxTime = 5
  MaxRecords = 2
  MaxFaults = 2
INVARIANTS
  FailedSealKeepsPart
