----------------------------- MODULE HistoryPlan -----------------------------
(***************************************************************************)
(* FullHistoryBackfillManager._source_ranges_from_availability             *)
(* (full_history.py): the ranges a full history job downloads of one       *)
(* timeframe, M1 month by month, H1 year by year, D1 in one piece.         *)
(*                                                                         *)
(* Time is counted in minutes of a small calendar whose months have        *)
(* different lengths.  The month boundary keeps the time of day of the     *)
(* cursor, the year boundary does not.  The start is a bar, or, when the   *)
(* history is older than ten years, just a minute.                         *)
(***************************************************************************)
EXTENDS Naturals, Sequences, FiniteSetsExt

CONSTANTS
  Days,                     \* days of the calendar
  MonthStarts, YearStarts,  \* the days a month, a year begins with, Days among them
  HourMinutes, DayMinutes

Moments == 0 .. (Days * DayMinutes - 1)
Plans   == {"1m", "1h", "1d"}

VARIABLES
  timeframe, start, end,
  cursor,
  ranges,       \* planned: <<first, last>>, both included
  planned       \* the plan of the timeframe is complete

vars == <<timeframe, start, end, cursor, ranges, planned>>

\* start = max(ten years ago, earliest), end = min(now, latest)
Init ==
  /\ timeframe \in Plans /\ start \in Moments /\ end \in Moments
  /\ cursor = start /\ ranges = <<>> /\ planned = FALSE

Step == CASE timeframe = "1m" -> 1 [] timeframe = "1h" -> HourMinutes [] OTHER -> DayMinutes

\* The first of the days S that is later than t.
DayAfter(t, S) == Min({d \in S : t \div DayMinutes < d})

\* (cursor.replace(day=1) + 32 days).replace(day=1)
NextMonth(t) == DayAfter(t, MonthStarts) * DayMinutes + (t % DayMinutes)

\* datetime(cursor.year + 1, 1, 1)
NextYear(t) == DayAfter(t, YearStarts) * DayMinutes

Boundary(t) == IF timeframe = "1m" THEN NextMonth(t) ELSE NextYear(t)
Earlier(a, b) == IF a < b THEN a ELSE b

\* Mutant: both neighbours have the bar at the boundary.
PartEndAt(boundary) == Earlier(end, boundary)

PartEnd(boundary) == Earlier(end, boundary - Step)

\* One turn of the loop.
Plan ==
  /\ ~planned /\ timeframe # "1d" /\ cursor <= end
  /\ LET boundary == Boundary(cursor)  last == PartEnd(boundary) IN
       /\ ranges' = IF cursor <= last THEN Append(ranges, <<cursor, last>>) ELSE ranges
       /\ cursor' = boundary
  /\ UNCHANGED <<timeframe, start, end, planned>>

\* The days are asked for in one piece.
PlanDays ==
  /\ ~planned /\ timeframe = "1d" /\ start <= end
  /\ ranges' = <<(<<start, end>>)>> /\ planned' = TRUE
  /\ UNCHANGED <<timeframe, start, end, cursor>>

\* The loop ends; nothing is planned when the history ends before it starts.
EndPlan ==
  /\ ~planned /\ cursor > end
  /\ planned' = TRUE
  /\ UNCHANGED <<timeframe, start, end, cursor, ranges>>

Next == Plan \/ PlanDays \/ EndPlan

-----------------------------------------------------------------------------

\* Every variable has its type.
TypeOK ==
  /\ timeframe \in Plans /\ {start, end} \subseteq Moments /\ cursor \in Nat
  /\ planned \in BOOLEAN

\* full_history.py:101-102: each bar of the history that is available within ten
\* years is asked for once, whatever the lengths of the months it lies in, and no
\* part goes beyond the history.
PlanCovers ==
  planned =>
    /\ \A b \in {t \in Moments : t % Step = 0 /\ start <= t /\ t <= end} :
         \E i \in DOMAIN ranges :
           /\ ranges[i][1] <= b /\ b <= ranges[i][2]
           /\ \A j \in DOMAIN ranges : ranges[j][1] <= b /\ b <= ranges[j][2] => i = j
    /\ \A i \in DOMAIN ranges : start <= ranges[i][1] /\ ranges[i][1] <= ranges[i][2] /\ ranges[i][2] <= end
==============================================================================
