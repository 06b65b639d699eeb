SPECIFICATION FairSpec
CONSTANTS
  SegMs = 2
  RetentionMs = 2
  Jitter = 0
  Failures = {"zst", "index", "remove", "open"}
  FirstTime = 2
  MaxTime = 6
  MaxRecords = 3
  MaxFaults = 2
INVARIANTS
  TypeOK
  FlushedStaysOnDisk
  FlushedIsExported
  OneSegmentPerRecord
  CleanStopKeepsEverything
  VerifyRepairs
PROPERTIES
  RetentionKeepsRecent
  RecoveryCompletes
