SPECIFICATION FairSpec
CONSTANTS
  HistoryIds = {h1}
  LiveIds = {l1}
  ClockIds = {k1, k2}
  NoId = NoId
  NoClock = NoClock
  Symbols = 2
  BadSymbols = {}
  Late = {}
  MaxLate = 0
  Restarts = FALSE
INVARIANTS
  TranslatedBack
  OffsetsOwned
PROPERTIES
  HistoryAnswered
  SymbolsFetched
