SPECIFICATION Spec
CONSTANTS
  Jobs = {j1, j2, j3}
  MaxQueue = 2
  MaxCrashes = 0
  MaxMinute = 4
  ChunkSize = 2
  Responses <- MovingOn
  MaxQuiet = 1
  Kinds = {"live"}
  MaxRuns = 2
  MaxAged = 0
SYMMETRY Symmetry
INVARIANT CountsMatch
CHECK_DEADLOCK FALSE
