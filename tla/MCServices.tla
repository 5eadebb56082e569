------------------------------ MODULE MCServices ------------------------------
(***************************************************************************)
(* The services of the server that share no state, checked in one run: a   *)
(* behaviour is one of them, named by part, and the others stand still.    *)
(* The stream hub keeps its names, the others are instances.               *)
(***************************************************************************)
EXTENDS StreamHub, FiniteSets

CONSTANTS
  Batches, TickQueueSize,
  Requests, MaxWorkers, MaxThreads, MaxCalls,
  Schedules, Runners, Interval, MaxClock, MaxRequests, MaxFaults,
  Days, MonthStarts, YearStarts, HourMinutes, DayMinutes,
  Repairs, MaxMinute, MaxDisturbed, Widths, SourceChunks, InitialTables

\* Whole years, days of whole hours.
ASSUME CalendarAssumption ==
  /\ Days \in Nat /\ {HourMinutes, DayMinutes} \subseteq Nat \ {0}
  /\ DayMinutes % HourMinutes = 0
  /\ MonthStarts \subseteq 0..Days /\ YearStarts \subseteq MonthStarts /\ Days \in YearStarts

\* A queue of no places would be one without a bound; the sentinel is no batch.
ASSUME QueueAssumption == TickQueueSize \in Nat \ {0} /\ "stop" \notin Batches

\* A schedule's interval is a minute at least (web.py:88).
ASSUME ScheduleAssumption ==
  Interval \in Nat \ {0} /\ MaxClock \in Nat /\ IsFiniteSet(Schedules)

VARIABLES
  part,
  tickQueue, post, stopping, closing, consumer, hand, accepted, ingested, raced,
  registered, workers, threads, lock, call, calls, overlapped,
  clock, schedules, loop, dueSchedules, wake, stop, job, edit, requests, faults, unseen, unwoken,
  timeframe, start, end, cursor, ranges, planned,
  repairQueue, results, waiting, outcome, child, current, stopped, crashes,
  levels, rank, run, clean, imports, errors

ticks    == <<tickQueue, post, stopping, closing, consumer, hand, accepted, ingested, raced>>
stream   == vars
super    == <<registered, workers, threads, lock, call, calls, overlapped>>
schedule == <<clock, schedules, loop, dueSchedules, wake, stop, job, edit, requests, faults,
              unseen, unwoken>>
plan     == <<timeframe, start, end, cursor, ranges, planned>>
repair   == <<repairQueue, results, waiting, outcome, child, current, stopped, crashes,
              levels, rank, run, clean, imports, errors>>

Ticks == INSTANCE TickQueue WITH MaxQueue <- TickQueueSize, queue <- tickQueue
Supervisor == INSTANCE Supervision WITH Callers <- Requests
Maintenance == INSTANCE Scheduler WITH Names <- Schedules, Callers <- Runners, due <- dueSchedules
Plan == INSTANCE HistoryPlan
Repair == INSTANCE HierarchicalRepair WITH
  Jobs <- Repairs, MaxQueue <- 1, MaxCrashes <- MaxDisturbed, MaxFaults <- MaxDisturbed,
  Width <- Widths, SourceChunk <- SourceChunks, Tables <- InitialTables,
  queue <- repairQueue, table <- levels

\* A candle has some minutes.  Rows recorded as official are the provider's.
ASSUME RepairAssumption ==
  /\ MaxMinute \in Nat /\ Widths \in [Repair!Timeframes -> Nat \ {0}]
  /\ SourceChunks \in [{"1m", "1h", "1d"} -> Nat \ {0}]
  /\ \A t \in InitialTables :
       /\ t.table \in [Repair!Timeframes -> [1..MaxMinute -> [count : Nat, complete : BOOLEAN]]]
       /\ t.rank \in [Repair!Timeframes -> [1..MaxMinute -> {0, 400, 450, 500, 520, Repair!Official}]]
       /\ \A tf \in Repair!Timeframes, m \in 1..MaxMinute :
            t.rank[tf][m] = Repair!Official => t.table[tf][m] = Repair!Row(9)

\* Four minutes, two to a quarter and to an hour, four to a day, week and month; a
\* chunk of minutes ends inside an hour.
Frames == {"1m", "15m", "1h", "1d", "1w", "1mo"}
FewMinutes == [tf \in Frames |->
                 CASE tf = "1m" -> 1 [] tf \in {"15m", "1h"} -> 2 [] OTHER -> 4]
ShortChunks == [tf \in {"1m", "1h", "1d"} |-> IF tf = "1m" THEN 3 ELSE 4]

\* Minutes all there under wrong hours, with a hole and an open one under an
\* official day, and one short without any hour.
Whole(n) == [count |-> n, complete |-> TRUE]
Half     == [count |-> 1, complete |-> FALSE]
NoRow    == [count |-> 0, complete |-> FALSE]
NoRows   == [m \in 1..MaxMinute |-> NoRow]
SomeTables ==
  {[table |-> [tf \in Frames |->
      CASE tf = "1m" -> initial.minutes
        [] tf = "1h" -> [NoRows EXCEPT ![1] = initial.hours[1], ![3] = initial.hours[2]]
        [] tf = "1d" -> [NoRows EXCEPT ![1] = Whole(9)]
        [] OTHER -> NoRows],
    rank |-> [tf \in Frames |-> [m \in 1..MaxMinute |->
      IF <<tf, m>> \in initial.official THEN 700 ELSE 0]]] :
   initial \in {[minutes |-> <<Whole(1), Whole(1), Whole(1), Whole(1)>>,
                 hours |-> <<Whole(7), Whole(9)>>, official |-> {<<"1h", 3>>}],
               [minutes |-> <<Whole(1), NoRow, Whole(1), Half>>,
                 hours |-> <<NoRow, Whole(9)>>, official |-> {<<"1h", 3>>, <<"1d", 1>>}],
               [minutes |-> <<Whole(1), Whole(1), Whole(1), NoRow>>,
                 hours |-> <<NoRow, NoRow>>, official |-> {}]}}

MCInit ==
  /\ part \in {"ticks", "stream", "super", "schedule", "plan", "repair"}
  /\ Ticks!Init /\ Init /\ Supervisor!Init /\ Maintenance!Init
  /\ Plan!Init /\ (part = "plan" \/ (timeframe = "1d" /\ start = 0 /\ end = 0))
  /\ Repair!Init /\ (part = "repair" \/ levels = (CHOOSE t \in InitialTables : TRUE).table)

\* Job ids are alike: they are used in their order.
InIdOrder ==
  \A i, j \in Repairs : i < j /\ ~ Repair!Unused(j)' => ~ Repair!Unused(i)'

MCNext ==
  /\ UNCHANGED part
  /\ \/ part = "ticks"    /\ Ticks!Next       /\ UNCHANGED <<stream, super, schedule, plan, repair>>
     \/ part = "stream"   /\ Next             /\ UNCHANGED <<ticks, super, schedule, plan, repair>>
     \/ part = "super"    /\ Supervisor!Next  /\ UNCHANGED <<ticks, stream, schedule, plan, repair>>
     \/ part = "schedule" /\ Maintenance!Next /\ UNCHANGED <<ticks, stream, super, plan, repair>>
     \/ part = "plan"     /\ Plan!Next        /\ UNCHANGED <<ticks, stream, super, schedule, repair>>
     \/ part = "repair"   /\ Repair!Next      /\ UNCHANGED <<ticks, stream, super, schedule, plan>>
                          /\ InIdOrder

\* The fairness of TickQueue and Scheduler, for the part that moves.
Fairness ==
  /\ \A b \in Batches : WF_ticks(part = "ticks" /\ Ticks!Putting(b))
  /\ WF_ticks(part = "ticks" /\ Ticks!Consume) /\ WF_ticks(part = "ticks" /\ Ticks!Shutdown)
  /\ WF_schedule(part = "schedule" /\ Maintenance!Polling)
  /\ WF_schedule(part = "schedule" /\ Maintenance!Wake)

parts == <<part, ticks, stream, super, schedule, plan, repair>>

MCSpec ==
  /\ MCInit /\ Fairness
  /\ [][MCNext]_parts

-----------------------------------------------------------------------------

\* Every variable of the service that moves has its type.
AllTypes ==
  /\ part = "ticks" => Ticks!TypeOK
  /\ part = "stream" => TypeOK
  /\ part = "super" => Supervisor!TypeOK
  /\ part = "schedule" => Maintenance!TypeOK
  /\ part = "plan" => Plan!TypeOK
  /\ part = "repair" => Repair!TypeOK

\* README.md:234: a full live queue keeps the newest batches, in order.
NewestKept == part = "ticks" => Ticks!NewestKept

\* bridge.py:199-217: a service that is shut down stops ingesting.
ConsumerEnds == Ticks!ConsumerEnds

\* runtime.py:207-210: two workers of a provider never run side by side.
OneWorkerRuns == part = "super" => Supervisor!OneWorkerRuns

\* scheduler.py:44-48: a changed schedule is not slept on, once its request woke the
\* thread.
WakeNotLost == part = "schedule" => Maintenance!WakeNotLost

\* README.md:479: a schedule that is due is run.
DueServed == Maintenance!DueServed

\* full_history.py:101-102: each available bar is planned once.
PlanCovers == part = "plan" => Plan!PlanCovers

\* hierarchical_repair.py:37-39: what a repair run establishes and leaves alone.
RepairConverges == part = "repair" => Repair!RepairConverges
==============================================================================
