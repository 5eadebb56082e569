SPECIFICATION MCSpec
CONSTANTS
  Jobs = {1, 2, 3}
  MaxQueue = 2
  MaxCrashes = 1
  MaxMinute = 4
  ChunkSize = 2
  Responses <- SomeResponses
  MaxQuiet = 1
  Kinds = {"refresh", "live", "plain"}
  MaxRuns = 2
  MaxAged = 1
  SessionMinutes = 4
  MaxPrice = 2
  ShortGap = 2
  BucketSize = 2
  QuietAge = 1
  StalledAge = 2
  InactiveAge = 3
  Fallback = 1
  MaxRestarts = 1
  Threads = {a1, a2}
  MaxTime = 2
  ExpectedOpen = {1, 2}
  GapLimit = 2
  MaxScans = 3
INVARIANTS AllTypes AckMeansWritten MovesStored StampedOfficial ShortGapsOnly TicksCovered NoHalfCandles AggregatesFollow ScanComplete
PROPERTIES WindowWhole ImplementsJobs
CHECK_DEADLOCK FALSE
