SPECIFICATION Spec
CONSTANTS
  HistoryIds = {h1, h2}
  LiveIds = {l1}
  ClockIds = {k1, k2}
  NoId = NoId
  NoClock = NoClock
  Symbols = 1
  BadSymbols = {}
  Late <- AnyCall
  MaxLate = 1
  Restarts = TRUE
SYMMETRY IdSymmetry
INVARIANTS
  TypeOK
  OffsetInTime
  OutstandingTranslated
PROPERTIES
  UsesRequests
