SPECIFICATION Spec
CONSTANTS
  Targets = {1, 2}
  MinuteMs = 2
  DayMs = 4
  RttNa = 9
  Rtts = {1, 8}
  Jitter = 1
  MayFail = TRUE
  MaxTime = 3
  MaxSamples = 3
  MaxCrashes = 1
INVARIANTS
  TypeOK
  EverySampleCounted
  OnlyRecentPending
  SummaryIsTrue
