SPECIFICATION Spec
CONSTANTS
  HistoryIds = {h1}
  LiveIds = {l1}
  ClockIds = {k1, k2}
  NoId = NoId
  NoClock = NoClock
  Symbols = 1
  BadSymbols = {}
  Late = {}
  MaxLate = 0
  Restarts = TRUE
INVARIANT
  TranslatedBack
