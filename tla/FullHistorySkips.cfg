SPECIFICATION Spec
CONSTANTS
  MaxItems = 1
  MaxRanges = 1
  MaxPosts = 1
  MaxFaults = 0
  Ids = {r1, r2}
  NoId = NoId
  Reports = {"bars", "failed"}
  BadSymbols = {1}
INVARIANT
  RangesAccounted
