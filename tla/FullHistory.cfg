SPECIFICATION Spec
CONSTANTS
  MaxItems = 2
  MaxRanges = 2
  MaxPosts = 1
  MaxFaults = 1
  Ids = {r1, r2}
  NoId = NoId
  Reports = {"bars", "nobars", "failed"}
  BadSymbols = {}
SYMMETRY IdSymmetry
INVARIANTS
  TypeOK
  OneInFlight
  InOrder
  RangesAccounted
  ThreadsOwnTheJob
  WaitHasThreadUnlessFault
  PassesDone
PROPERTIES
  SettledByItsReport
  ImplementsRequests
