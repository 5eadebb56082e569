SPECIFICATION MCSpec
CONSTANTS
  Batches = {b1, b2, b3}
  TickQueueSize = 2
  Publishers = {p1, p2}
  Clients = {c1}
  EventTypes = {"tick", "candle"}
  QueueSize = 1
  MaxEvents = 3
  Requests = {r1, r2}
  MaxWorkers = 3
  MaxThreads = 4
  MaxCalls = 3
  Schedules = {s1, s2}
  Runners = {q1}
  Interval = 2
  MaxClock = 2
  MaxRequests = 1
  MaxFaults = 1
  Days = 8
  MonthStarts = {0, 2, 3, 6, 8}
  YearStarts = {0, 3, 8}
  HourMinutes = 2
  DayMinutes = 4
  Repairs = {1, 2}
  MaxMinute = 4
  MaxDisturbed = 1
  Widths <- FewMinutes
  SourceChunks <- ShortChunks
  InitialTables <- SomeTables
INVARIANTS AllTypes NewestKept StreamFaithful OneWorkerRuns WakeNotLost PlanCovers RepairConverges
PROPERTIES ConsumerEnds DueServed
CHECK_DEADLOCK FALSE
