SPECIFICATION FairSpec
CONSTANTS
  MaxItems = 1
  MaxRanges = 2
  MaxPosts = 1
  MaxFaults = 0
  Ids = {r1, r2}
  NoId = NoId
  Reports = {"bars", "nobars", "failed", "unavailable"}
  BadSymbols = {}
INVARIANTS
  RangesAccounted
PROPERTIES
  JobEnds
