SPECIFICATION FairSpec
CONSTANTS
  HistoryIds = {}
  LiveIds = {l1}
  ClockIds = {k1, k2}
  NoId = NoId
  NoClock = NoClock
  Symbols = 2
  BadSymbols = {1}
  Late = {}
  MaxLate = 0
  Restarts = FALSE
PROPERTY
  SymbolsFetched
