--------------------------- MODULE MCServicesProofs ---------------------------
(***************************************************************************)
(* The services of MCServices for every value of its constants: the wake   *)
(* event of the maintenance scheduler, the ranges of a download plan, the  *)
(* worker threads of SupervisionProofs, the queue of live ticks, and the   *)
(* runs of the hierarchical repair.  A behaviour of MCSpec that is not one *)
(* of the service leaves its variables alone, so an invariant of the       *)
(* service holds in both.                                                  *)
(***************************************************************************)
EXTENDS MCServices, StreamHubProofs, WellFoundedInduction, FiniteSetTheorems

-----------------------------------------------------------------------------
(* Scheduler *)

\* A change the loop has not seen is being announced, has been announced, was left
\* without a wake by its request, or is about to be seen; or there is no loop any more.
WakeInv ==
  \/ \A n \in unseen \ unwoken : n = edit /\ n # Maintenance!NoEdit
  \/ wake = TRUE
  \/ loop \in {"look", "ended", "dead"}

LEMMA WakeInit == Maintenance!Init => WakeInv
BY DEF Maintenance!Init, WakeInv

\* The loop: a look sees everything, the event is cleared only on the way to one.
LEMMA LoopKeepsWake ==
  ASSUME WakeInv,
         \/ Maintenance!Look \/ Maintenance!Sleep
         \/ Maintenance!Awake \/ Maintenance!Clear
  PROVE  WakeInv'
<1>1. CASE Maintenance!Look
  BY <1>1 DEF Maintenance!Look, WakeInv
<1>2. CASE Maintenance!Sleep
  BY <1>2 DEF Maintenance!Sleep, WakeInv
<1>3. CASE Maintenance!Awake
  BY <1>3 DEF Maintenance!Awake, WakeInv
<1>4. CASE Maintenance!Clear
  BY <1>4 DEF Maintenance!Clear, WakeInv
<1> QED
  BY <1>1, <1>2, <1>3, <1>4

\* A run, whoever executes it and whatever it raises, may end the thread, but
\* leaves it where it is otherwise.
LEMMA RunKeepsWake ==
  ASSUME WakeInv, NEW a, Maintenance!Begin \/ Maintenance!Task(a) \/ Maintenance!Complete(a)
  PROVE  WakeInv'
<1>1. UNCHANGED <<unseen, unwoken, edit, wake>>
  BY DEF Maintenance!Begin, Maintenance!Task, Maintenance!Complete
<1>2. loop' = loop \/ loop' = "dead"
  BY DEF Maintenance!Begin, Maintenance!Task, Maintenance!Complete, Maintenance!Raised
<1> QED
  BY <1>1, <1>2 DEF WakeInv

\* A request announces its change before it ends, or raises.
LEMMA WakeNext ==
  ASSUME WakeInv, Maintenance!NoEdit \notin Schedules, [Maintenance!Next]_Maintenance!vars
  PROVE  WakeInv'
<1>1. CASE Maintenance!Polling
  <2>1. \/ Maintenance!Begin \/ Maintenance!Task(Maintenance!Loop)
        \/ Maintenance!Complete(Maintenance!Loop)
        \/ Maintenance!Look \/ Maintenance!Sleep \/ Maintenance!Awake \/ Maintenance!Clear
    BY <1>1 DEF Maintenance!Polling
  <2> QED
    BY <2>1, LoopKeepsWake, RunKeepsWake
<1>2. CASE Maintenance!Wake \/ Maintenance!Stop \/ Maintenance!Tick
  <2>1. CASE Maintenance!Wake
    BY <2>1 DEF Maintenance!Wake, WakeInv
  <2>2. CASE Maintenance!Stop
    BY <2>2 DEF Maintenance!Stop, WakeInv
  <2>3. CASE Maintenance!Tick
    BY <2>3 DEF Maintenance!Tick, WakeInv
  <2> QED
    BY <1>2, <2>1, <2>2, <2>3
<1>3. ASSUME NEW c \in Runners, Maintenance!Task(c) \/ Maintenance!Complete(c)
      PROVE  WakeInv'
  BY <1>3, RunKeepsWake
<1>4. ASSUME NEW c \in Runners, NEW n \in Schedules, Maintenance!RunNow(c, n)
      PROVE  WakeInv'
  BY <1>4 DEF Maintenance!RunNow, WakeInv
<1>5. ASSUME NEW n \in Schedules, NEW enabled \in BOOLEAN, NEW immediately \in BOOLEAN,
             Maintenance!Upsert(n, enabled, immediately)
      PROVE  WakeInv'
  BY <1>5 DEF Maintenance!Upsert, WakeInv
<1>6. CASE UNCHANGED Maintenance!vars
  BY <1>6 DEF Maintenance!vars, WakeInv
<1> QED
  BY <1>1, <1>2, <1>3, <1>4, <1>5, <1>6 DEF Maintenance!Next

\* scheduler.py:44-48: a changed schedule is slept on only when its request raised
\* before it could wake the thread, however changes, runs and failures interleave
\* with the loop.
THEOREM ChangesSeen ==
  ASSUME Maintenance!NoEdit \notin Schedules
  PROVE  MCSpec => []WakeNotLost
<1>1. MCInit => WakeInv
  BY WakeInit DEF MCInit
<1>2. WakeInv /\ [MCNext]_parts => WakeInv'
  <2>1. [MCNext]_parts => [Maintenance!Next]_Maintenance!vars
    BY DEF MCNext, parts, schedule, Maintenance!vars
  <2> QED
    BY <2>1, WakeNext
<1>3. WakeInv => WakeNotLost
  BY DEF WakeInv, WakeNotLost, Maintenance!WakeNotLost
<1> QED
  BY <1>1, <1>2, <1>3, PTL DEF MCSpec

-----------------------------------------------------------------------------
(* HistoryPlan *)

\* A set of naturals has a least element.
LEMMA LeastOf ==
  ASSUME NEW S \in SUBSET Nat, S # {}
  PROVE  \E m \in S : \A n \in S : m <= n
<1> DEFINE R == OpToRel(<, Nat)
<1>1. PICK m \in S : \A n \in S : ~ (<<n, m>> \in R)
  <2>1. IsWellFoundedOn(R, Nat)
    BY NatLessThanWellFounded
  <2> HIDE DEF R
  <2> QED
    BY <2>1, WFMin
<1>2. ASSUME NEW n \in S
      PROVE  m <= n
  <2>1. ~ (<<n, m>> \in R)
    BY <1>1
  <2>2. <<n, m>> \in Nat \X Nat /\ n \in Nat /\ m \in Nat
    OBVIOUS
  <2>3. ~ (n < m)
    BY <2>1, <2>2 DEF OpToRel
  <2> QED
    BY <2>2, <2>3
<1> QED
  BY <1>2

\* Bars are multiples of their length.
LEMMA MultipleOf ==
  ASSUME NEW s \in Nat \ {0}, NEW k \in Nat
  PROVE  /\ (k * s) % s = 0
         /\ k % s = 0 => k = (k \div s) * s /\ k \div s \in Nat
BY SMTT(60)

\* Two bars are a bar apart.
LEMMA BarsApart ==
  ASSUME NEW s \in Nat \ {0}, NEW a \in Nat, NEW b \in Nat, a % s = 0, b % s = 0, a < b
  PROVE  a + s <= b
<1> DEFINE p == a \div s
           q == b \div s
<1>1. p \in Nat /\ q \in Nat /\ a = p * s /\ b = q * s
  BY MultipleOf
<1> HIDE DEF p, q
<1>2. p < q
  BY <1>1
<1>3. (p + 1) * s <= q * s
  BY <1>1, <1>2
<1> QED
  BY <1>1, <1>3

\* A day begins with a bar of an hour.
LEMMA DaysHaveHours ==
  ASSUME NEW d \in Nat
  PROVE  (d * DayMinutes) % HourMinutes = 0
<1> DEFINE k == DayMinutes \div HourMinutes
<1>1. k \in Nat /\ DayMinutes = k * HourMinutes
  BY MultipleOf, CalendarAssumption
<1> HIDE DEF k
<1>2. d * DayMinutes = (d * k) * HourMinutes /\ d * k \in Nat
  BY <1>1, CalendarAssumption
<1>3. ((d * k) * HourMinutes) % HourMinutes = 0
  BY <1>2, MultipleOf, CalendarAssumption
<1> QED
  BY <1>2, <1>3

\* A moment lies before the end of its day.
LEMMA DayOf ==
  ASSUME NEW t \in Nat
  PROVE  /\ t \div DayMinutes \in Nat
         /\ t < (t \div DayMinutes + 1) * DayMinutes
         /\ \A d \in Nat : t < d * DayMinutes => t \div DayMinutes < d
         /\ \A d \in Nat : t \div DayMinutes < d => t < d * DayMinutes
<1>1. DayMinutes \in Nat /\ DayMinutes > 0
  BY CalendarAssumption
<1>2. t \div DayMinutes \in Nat
  BY <1>1
<1>3. t < (t \div DayMinutes + 1) * DayMinutes
  BY <1>1, <1>2
<1>4. ASSUME NEW d \in Nat, t < d * DayMinutes PROVE t \div DayMinutes < d
  BY <1>1, <1>2, <1>4
<1>5. ASSUME NEW d \in Nat, t \div DayMinutes < d PROVE t < d * DayMinutes
  BY <1>1, <1>2, <1>5
<1> QED
  BY <1>2, <1>3, <1>4, <1>5

\* Months and years that begin later than a moment of the calendar.
LEMMA PlanDayAfter ==
  ASSUME NEW t \in Nat, t < Days * DayMinutes, NEW S \in SUBSET (0..Days), Days \in S
  PROVE  Plan!DayAfter(t, S) \in Nat /\ t < Plan!DayAfter(t, S) * DayMinutes
<1> DEFINE later == {d \in S : t \div DayMinutes < d}
<1>1. Days \in Nat
  BY CalendarAssumption
<1>2. t \div DayMinutes < Days
  BY <1>1, DayOf
<1>3. later \in SUBSET Nat /\ Days \in later
  <2>1. S \subseteq Nat
    BY <1>1
  <2>2. later \subseteq S
    OBVIOUS
  <2> QED
    BY <1>2, <2>1, <2>2
<1>4. Plan!Min(later) \in later
  <2> HIDE DEF later
  <2> QED
    BY <1>3, LeastOf DEF Plan!Min
<1> QED
  BY <1>1, <1>3, <1>4, DayOf DEF Plan!DayAfter

\* A boundary is later than the cursor, whatever the lengths of months and years.
LEMMA PlanBoundary ==
  ASSUME NEW t \in Nat, t < Days * DayMinutes
  PROVE  /\ Plan!NextMonth(t) \in Nat /\ t < Plan!NextMonth(t)
         /\ Plan!NextYear(t) \in Nat /\ t < Plan!NextYear(t)
         /\ Plan!NextYear(t) % HourMinutes = 0
<1> DEFINE m == Plan!DayAfter(t, MonthStarts)
           y == Plan!DayAfter(t, YearStarts)
<1>1. m \in Nat /\ t < m * DayMinutes /\ y \in Nat /\ t < y * DayMinutes
  <2>1. MonthStarts \in SUBSET (0..Days) /\ YearStarts \in SUBSET (0..Days)
        /\ Days \in MonthStarts /\ Days \in YearStarts
    BY CalendarAssumption
  <2> QED
    BY <2>1, PlanDayAfter
<1> HIDE DEF m, y
<1>2. DayMinutes \in Nat \ {0} /\ t % DayMinutes \in Nat
  BY CalendarAssumption
<1>3. m * DayMinutes \in Nat /\ y * DayMinutes \in Nat
  BY <1>1, <1>2
<1>4. Plan!NextMonth(t) = m * DayMinutes + (t % DayMinutes) /\ Plan!NextYear(t) = y * DayMinutes
  BY DEF Plan!NextMonth, Plan!NextYear, m, y
<1>5. (y * DayMinutes) % HourMinutes = 0
  BY <1>1, DaysHaveHours
<1>6. m * DayMinutes + (t % DayMinutes) \in Nat /\ t < m * DayMinutes + (t % DayMinutes)
  <2> DEFINE x == m * DayMinutes
             z == t % DayMinutes
  <2>1. x \in Nat /\ z \in Nat /\ t < x
    BY <1>1, <1>2, <1>3
  <2> HIDE DEF x, z
  <2>2. x + z \in Nat /\ t < x + z
    BY <2>1
  <2> QED
    BY <2>2 DEF x, z
<1> QED
  BY <1>1, <1>3, <1>4, <1>5, <1>6

\* The bars before the cursor are planned; the days all at once.
PlanDone(b) == b < cursor \/ (timeframe = "1d" /\ planned)

PlanTyped ==
  /\ timeframe \in Plan!Plans /\ start \in Plan!Moments /\ end \in Plan!Moments
  /\ cursor \in Nat /\ planned \in BOOLEAN
  /\ ranges \in Seq(Nat \X Nat)

\* The ranges lie in the window, one after the other and before the cursor, and hold
\* every bar that is done; the hours' cursor is the start or a bar.
PlanCut ==
  /\ start <= cursor
  /\ timeframe = "1h" => cursor = start \/ cursor % HourMinutes = 0
  /\ timeframe = "1d" => cursor = start /\ (planned \/ ranges = <<>>)
  /\ planned => end < cursor \/ timeframe = "1d"
  /\ \A i \in DOMAIN ranges :
       /\ start <= ranges[i][1] /\ ranges[i][1] <= ranges[i][2] /\ ranges[i][2] <= end
       /\ timeframe # "1d" => ranges[i][2] < cursor
  /\ \A i, j \in DOMAIN ranges : i < j => ranges[i][2] < ranges[j][1]
  /\ \A b \in start..end : b % Plan!Step = 0 /\ PlanDone(b) =>
       \E i \in DOMAIN ranges : ranges[i][1] <= b /\ b <= ranges[i][2]

PlanInv == PlanTyped /\ PlanCut

LEMMA MomentsAre ==
  /\ Plan!Moments \subseteq Nat
  /\ \A t \in Plan!Moments : t < Days * DayMinutes
<1>1. Days * DayMinutes \in Nat
  BY CalendarAssumption
<1> QED
  BY <1>1 DEF Plan!Moments

LEMMA PlanStepOf ==
  ASSUME timeframe \in Plan!Plans
  PROVE  /\ Plan!Step \in Nat \ {0}
         /\ timeframe = "1m" => Plan!Step = 1
         /\ timeframe = "1h" => Plan!Step = HourMinutes
BY CalendarAssumption DEF Plan!Plans, Plan!Step

LEMMA PlanInit == Plan!Init => PlanInv
<1> SUFFICES ASSUME Plan!Init
             PROVE  PlanInv
  OBVIOUS
<1>1. PlanTyped
  <2>1. start \in Nat /\ cursor = start
    BY MomentsAre DEF Plan!Init
  <2>2. ranges = <<>> /\ <<>> \in Seq(Nat \X Nat)
    BY DEF Plan!Init
  <2> QED
    BY <2>1, <2>2 DEF Plan!Init, PlanTyped
<1>2. \A b \in start..end : ~ PlanDone(b)
  BY <1>1 DEF Plan!Init, PlanTyped, PlanDone
<1> QED
  BY <1>1, <1>2 DEF Plan!Init, PlanInv, PlanCut, PlanTyped

\* One turn of the loop.
LEMMA PlanTurn ==
  ASSUME PlanInv, Plan!Plan
  PROVE  PlanInv'
<1> DEFINE boundary == Plan!Boundary(cursor)
           last == Plan!PartEnd(boundary)
<1>1. /\ timeframe \in {"1m", "1h"} /\ ~ planned /\ cursor <= end
      /\ ranges' = (IF cursor <= last THEN Append(ranges, <<cursor, last>>) ELSE ranges)
      /\ cursor' = boundary
      /\ UNCHANGED <<timeframe, start, end, planned>>
  BY DEF Plan!Plan, PlanInv, PlanTyped, Plan!Plans
<1>2. /\ start \in Nat /\ end \in Nat /\ cursor \in Nat /\ end < Days * DayMinutes
      /\ start <= cursor /\ ranges \in Seq(Nat \X Nat)
  BY MomentsAre DEF PlanInv, PlanTyped, PlanCut
<1>3. /\ boundary \in Nat /\ cursor < boundary
      /\ timeframe = "1h" => boundary % HourMinutes = 0
  <2>1. cursor < Days * DayMinutes
    BY <1>1, <1>2, CalendarAssumption
  <2> QED
    BY <1>1, <1>2, <2>1, PlanBoundary DEF Plan!Boundary
<1> DEFINE step == Plan!Step
<1>4. /\ step \in Nat \ {0} /\ step' = step
      /\ timeframe = "1m" => step = 1
      /\ timeframe = "1h" => step = HourMinutes
  BY <1>1, PlanStepOf DEF Plan!Plans, Plan!Step
<1>5. last = Plan!Earlier(end, boundary - step)
  BY DEF Plan!PartEnd
<1> HIDE DEF boundary, last, step
<1>6. /\ step <= boundary
      /\ \A b \in Nat : b % step = 0 /\ b < boundary => b + step <= boundary
  <2>1. CASE timeframe = "1m"
    BY <1>2, <1>3, <1>4, <2>1
  <2>2. CASE timeframe = "1h"
    <3>1. boundary % step = 0
      BY <1>3, <1>4, <2>2
    <3>2. \A b \in Nat : b % step = 0 /\ b < boundary => b + step <= boundary
      BY <1>3, <1>4, <3>1, BarsApart
    <3>3. 0 % step = 0
      BY <1>4
    <3> QED
      BY <1>2, <1>3, <1>4, <3>2, <3>3
  <2> QED
    BY <1>1, <2>1, <2>2
<1>7. /\ last \in Nat /\ last <= end /\ last < boundary
       /\ \A b \in Nat : b % step = 0 /\ b < boundary /\ b <= end => b <= last
  <2>1. /\ last \in Nat /\ last <= end /\ last < boundary
        /\ last = end \/ (last = boundary - step)
    BY <1>2, <1>3, <1>4, <1>5, <1>6 DEF Plan!Earlier
  <2>2. ASSUME NEW b \in Nat, b % step = 0, b < boundary, b <= end
        PROVE  b <= last
    <3>1. b + step <= boundary
      BY <1>6, <2>2
    <3> QED
      BY <1>2, <1>3, <1>4, <2>1, <2>2, <3>1
  <2> QED
    BY <2>1, <2>2
<1>8. PlanTyped'
  <2>1. ranges' \in Seq(Nat \X Nat)
    BY <1>1, <1>2, <1>7
  <2> QED
    BY <1>1, <1>3, <2>1 DEF PlanInv, PlanTyped, Plan!Moments
<1>9. \A i \in DOMAIN ranges : ranges[i] \in Nat \X Nat
  BY <1>2
<1>10. \A i \in DOMAIN ranges :
        /\ start <= ranges[i][1] /\ ranges[i][1] <= ranges[i][2] /\ ranges[i][2] <= end
        /\ ranges[i][2] < cursor
  BY <1>1 DEF PlanInv, PlanCut
<1>11. \A b \in start..end : b % step = 0 /\ b < cursor =>
         \E i \in DOMAIN ranges : ranges[i][1] <= b /\ b <= ranges[i][2]
  <2> SUFFICES ASSUME NEW b \in start..end, b % step = 0, b < cursor
               PROVE  \E i \in DOMAIN ranges : ranges[i][1] <= b /\ b <= ranges[i][2]
    OBVIOUS
  <2>1. PlanDone(b)
    BY DEF PlanDone
  <2> QED
    BY <2>1 DEF PlanInv, PlanCut, step
<1>12. \A i, j \in DOMAIN ranges : i < j => ranges[i][2] < ranges[j][1]
  BY DEF PlanInv, PlanCut
<1>13. \A b \in start..end : b % step = 0 /\ b < boundary => b < cursor \/ (cursor <= b /\ b <= last)
  <2> SUFFICES ASSUME NEW b \in start..end, b % step = 0, b < boundary
               PROVE  b < cursor \/ (cursor <= b /\ b <= last)
    OBVIOUS
  <2>1. b \in Nat /\ b <= end
    BY <1>2
  <2>2. b <= last
    BY <1>7, <2>1
  <2> QED
    BY <1>2, <2>1, <2>2
<1>14. step' = step
  BY <1>4 DEF step
<1>15. PlanCut'
  <2>1. CASE ~ (cursor <= last)
    <3>1. ranges' = ranges
      BY <1>1, <2>1
    <3>2. \A b \in start..end : b % step = 0 /\ b < boundary =>
            \E i \in DOMAIN ranges : ranges[i][1] <= b /\ b <= ranges[i][2]
      <4> SUFFICES ASSUME NEW b \in start..end, b % step = 0, b < boundary
                   PROVE  \E i \in DOMAIN ranges : ranges[i][1] <= b /\ b <= ranges[i][2]
        OBVIOUS
      <4>1. b \in Nat /\ ~ (cursor <= b /\ b <= last)
        BY <1>2, <1>7, <2>1
      <4>2. b < cursor
        BY <1>13, <4>1
      <4> QED
        BY <1>11, <4>2
    <3> QED
      BY <1>1, <1>2, <1>3, <1>9, <1>10, <1>12, <1>14, <3>1, <3>2 DEF PlanCut, PlanDone, step
  <2>2. CASE cursor <= last
    <3>1. ranges' = Append(ranges, <<cursor, last>>)
      BY <1>1, <2>2
    <3>2. /\ DOMAIN ranges' = 1 .. Len(ranges) + 1 /\ Len(ranges) \in Nat
          /\ \A i \in DOMAIN ranges : i \in DOMAIN ranges' /\ ranges'[i] = ranges[i]
          /\ \A i \in DOMAIN ranges' : i \in DOMAIN ranges \/ i = Len(ranges) + 1
          /\ \A i \in DOMAIN ranges : i \in Nat /\ i <= Len(ranges)
          /\ ranges'[Len(ranges) + 1] = <<cursor, last>>
      <4>1. ranges \in Seq(Nat \X Nat) /\ <<cursor, last>> \in Nat \X Nat
        BY <1>2, <1>7
      <4>2. /\ Len(ranges) \in Nat /\ DOMAIN ranges = 1 .. Len(ranges)
            /\ DOMAIN ranges' = 1 .. Len(ranges) + 1
            /\ \A i \in 1 .. Len(ranges) : ranges'[i] = ranges[i]
            /\ ranges'[Len(ranges) + 1] = <<cursor, last>>
        BY <3>1, <4>1, AppendProperties
      <4> QED
        BY <4>2
    <3>3. ASSUME NEW i \in DOMAIN ranges'
          PROVE  /\ start <= ranges'[i][1] /\ ranges'[i][1] <= ranges'[i][2] /\ ranges'[i][2] <= end
                 /\ ranges'[i][2] < boundary
      <4>1. CASE i \in DOMAIN ranges
        BY <1>2, <1>3, <1>9, <1>10, <3>2, <4>1
      <4>2. CASE i = Len(ranges) + 1
        BY <1>2, <1>3, <1>7, <2>2, <3>2, <4>2
      <4> QED
        BY <3>2, <4>1, <4>2
    <3>4. ASSUME NEW i \in DOMAIN ranges', NEW j \in DOMAIN ranges', i < j
          PROVE  ranges'[i][2] < ranges'[j][1]
      <4>1. i \in DOMAIN ranges /\ ranges'[i] = ranges[i]
        BY <3>2, <3>4
      <4>2. CASE j \in DOMAIN ranges
        BY <1>12, <3>2, <3>4, <4>1, <4>2
      <4>3. CASE j = Len(ranges) + 1
        BY <1>10, <3>2, <4>1, <4>3
      <4> QED
        BY <3>2, <4>2, <4>3
    <3>5. ASSUME NEW b \in start..end, b % step = 0, b < boundary
          PROVE  \E i \in DOMAIN ranges' : ranges'[i][1] <= b /\ b <= ranges'[i][2]
      <4>1. CASE b < cursor
        <5>1. PICK i \in DOMAIN ranges : ranges[i][1] <= b /\ b <= ranges[i][2]
          BY <1>11, <3>5, <4>1
        <5> QED
          BY <3>2, <5>1
      <4>2. CASE cursor <= b /\ b <= last
        BY <3>2, <4>2
      <4> QED
        BY <1>13, <3>5, <4>1, <4>2
    <3>6. timeframe' # "1d" /\ ~ planned' /\ start <= boundary
      BY <1>1, <1>2, <1>3
    <3>7. ASSUME NEW b \in start'..end', b % Plan!Step' = 0, PlanDone(b)'
          PROVE  \E i \in DOMAIN ranges' : ranges'[i][1] <= b /\ b <= ranges'[i][2]
      BY <1>1, <1>4, <3>5, <3>6, <3>7 DEF PlanDone, step
    <3> QED
      BY <1>1, <1>3, <3>3, <3>4, <3>6, <3>7 DEF PlanCut
  <2> QED
    BY <2>1, <2>2
<1> QED
  BY <1>8, <1>15 DEF PlanInv

\* The plan of the days, and the end of the loop.
LEMMA PlanNext ==
  ASSUME PlanInv, [Plan!Next]_Plan!vars
  PROVE  PlanInv'
<1>1. CASE Plan!PlanDays
  <2>1. /\ timeframe = "1d" /\ start <= end /\ planned' = TRUE
        /\ ranges' = <<(<<start, end>>)>> /\ UNCHANGED <<timeframe, start, end, cursor>>
    BY <1>1 DEF Plan!PlanDays
  <2>2. start \in Nat /\ end \in Nat
    BY MomentsAre DEF PlanInv, PlanTyped
  <2>3. DOMAIN ranges' = {1} /\ ranges'[1] = <<start, end>> /\ ranges' \in Seq(Nat \X Nat)
    BY <2>1, <2>2
  <2>4. PlanTyped'
    BY <2>1, <2>3 DEF PlanInv, PlanTyped, Plan!Moments
  <2>5. PlanCut'
    BY <2>1, <2>2, <2>3 DEF PlanInv, PlanCut, PlanDone
  <2> QED
    BY <2>4, <2>5 DEF PlanInv
<1>2. CASE Plan!EndPlan
  <2>1. /\ end < cursor /\ planned' = TRUE
        /\ UNCHANGED <<timeframe, start, end, cursor, ranges>>
    BY <1>2 DEF Plan!EndPlan, PlanInv, PlanTyped
  <2>2. start \in Nat /\ end \in Nat /\ cursor \in Nat
    BY MomentsAre DEF PlanInv, PlanTyped
  <2>3. PlanTyped'
    BY <2>1 DEF PlanInv, PlanTyped, Plan!Moments
  <2>4. \A b \in start..end : PlanDone(b)
    BY <2>1, <2>2 DEF PlanDone
  <2>5. Plan!Step' = Plan!Step
    BY <2>1 DEF Plan!Step
  <2>6. PlanCut'
    BY <2>1, <2>2, <2>4, <2>5 DEF PlanInv, PlanCut
  <2> QED
    BY <2>3, <2>6 DEF PlanInv
<1>3. CASE UNCHANGED Plan!vars
  BY <1>3 DEF Plan!vars, PlanInv, PlanTyped, PlanCut, PlanDone, Plan!Step, Plan!Moments
<1> QED
  BY <1>1, <1>2, <1>3, PlanTurn DEF Plan!Next

\* Ranges that come one after the other do not share a bar.
LEMMA PlanCovered ==
  ASSUME PlanInv
  PROVE  Plan!PlanCovers
<1> SUFFICES ASSUME planned
             PROVE  /\ \A b \in {t \in Plan!Moments : t % Plan!Step = 0 /\ start <= t /\ t <= end} :
                         \E i \in DOMAIN ranges :
                           /\ ranges[i][1] <= b /\ b <= ranges[i][2]
                           /\ \A j \in DOMAIN ranges : ranges[j][1] <= b /\ b <= ranges[j][2] => i = j
                    /\ \A i \in DOMAIN ranges :
                         start <= ranges[i][1] /\ ranges[i][1] <= ranges[i][2] /\ ranges[i][2] <= end
  BY DEF Plan!PlanCovers
<1>1. /\ start \in Nat /\ end \in Nat /\ cursor \in Nat
      /\ \A i \in DOMAIN ranges : ranges[i] \in Nat \X Nat /\ i \in Nat
  BY MomentsAre DEF PlanInv, PlanTyped
<1>2. ASSUME NEW b \in Plan!Moments, b % Plan!Step = 0, start <= b, b <= end
      PROVE  \E i \in DOMAIN ranges :
               /\ ranges[i][1] <= b /\ b <= ranges[i][2]
               /\ \A j \in DOMAIN ranges : ranges[j][1] <= b /\ b <= ranges[j][2] => i = j
  <2>1. b \in start..end /\ b \in Nat
    BY <1>1, <1>2, MomentsAre
  <2>2. PlanDone(b)
    BY <1>1, <2>1 DEF PlanInv, PlanCut, PlanDone
  <2>3. PICK i \in DOMAIN ranges : ranges[i][1] <= b /\ b <= ranges[i][2]
    BY <1>2, <2>1, <2>2 DEF PlanInv, PlanCut
  <2>4. \A j \in DOMAIN ranges : i < j \/ j < i \/ i = j
    BY <1>1
  <2>5. \A j \in DOMAIN ranges : ranges[j][1] <= b /\ b <= ranges[j][2] => ~ (i < j) /\ ~ (j < i)
    BY <1>1, <2>1, <2>3 DEF PlanInv, PlanCut
  <2> QED
    BY <2>3, <2>4, <2>5
<1> QED
  BY <1>2 DEF PlanInv, PlanCut

\* full_history.py:101-102: for every calendar of whole years and days of whole hours,
\* and every window, a plan asks for each available bar once, and for nothing outside.
THEOREM PlanComplete == MCSpec => []PlanCovers
<1>1. MCInit => PlanInv
  BY PlanInit DEF MCInit
<1>2. PlanInv /\ [MCNext]_parts => PlanInv'
  <2>1. [MCNext]_parts => [Plan!Next]_Plan!vars
    BY DEF MCNext, parts, plan, Plan!vars
  <2> QED
    BY <2>1, PlanNext
<1>3. PlanInv => PlanCovers
  BY PlanCovered DEF PlanCovers
<1> QED
  BY <1>1, <1>2, <1>3, PTL DEF MCSpec

-----------------------------------------------------------------------------
(* Supervision *)

\* The instance of Supervision, with its theorems.
Workers == INSTANCE SupervisionProofs WITH Callers <- Requests

\* The steps of the instance in MCServices are steps of this one.
LEMMA WorkersNext == Supervisor!Next => Workers!Next
<1> USE DEF Supervisor!At, Workers!At, Supervisor!W, Workers!W, Supervisor!Moves,
            Workers!Moves, Supervisor!Moved, Workers!Moved
<1>1. ASSUME NEW c \in Requests
      PROVE  /\ \A kind : Supervisor!Request(c, kind) => Workers!Request(c, kind)
             /\ Supervisor!Get(c) => Workers!Get(c)
             /\ Supervisor!Pop(c) => Workers!Pop(c)
             /\ Supervisor!SetStop(c) => Workers!SetStop(c)
             /\ Supervisor!Join(c) => Workers!Join(c)
             /\ Supervisor!Create(c) => Workers!Create(c)
             /\ Supervisor!Check(c) => Workers!Check(c)
             /\ Supervisor!Launch(c) => Workers!Launch(c)
             /\ Supervisor!Unlock(c) => Workers!Unlock(c)
  <2>1. \A kind : Supervisor!Request(c, kind) => Workers!Request(c, kind)
    BY DEF Supervisor!Request, Workers!Request, Supervisor!Steps, Workers!Steps
  <2>2. Supervisor!Get(c) => Workers!Get(c)
    BY DEF Supervisor!Get, Workers!Get, Supervisor!Nobody, Workers!Nobody,
           Supervisor!NoCall, Workers!NoCall
  <2>3. /\ Supervisor!Pop(c) => Workers!Pop(c)
        /\ Supervisor!SetStop(c) => Workers!SetStop(c)
        /\ Supervisor!Join(c) => Workers!Join(c)
    BY DEF Supervisor!Pop, Workers!Pop, Supervisor!Nobody, Workers!Nobody,
           Supervisor!SetStop, Workers!SetStop, Supervisor!Join, Workers!Join
  <2>4. /\ Supervisor!Create(c) => Workers!Create(c)
        /\ Supervisor!Check(c) => Workers!Check(c)
    BY DEF Supervisor!Create, Workers!Create, Supervisor!Check, Workers!Check,
           Supervisor!Alive, Workers!Alive
  <2>5. /\ Supervisor!Launch(c) => Workers!Launch(c)
        /\ Supervisor!Unlock(c) => Workers!Unlock(c)
    BY DEF Supervisor!Launch, Workers!Launch, Supervisor!Unlock, Workers!Unlock,
           Supervisor!Nobody, Workers!Nobody
  <2> QED
    BY <2>1, <2>2, <2>3, <2>4, <2>5
<1>2. \A t : Supervisor!End(t) => Workers!End(t)
  BY DEF Supervisor!End, Workers!End
<1>3. DOMAIN Supervisor!Steps = DOMAIN Workers!Steps
  BY DEF Supervisor!Steps, Workers!Steps
<1> QED
  BY <1>1, <1>2, <1>3 DEF Supervisor!Next, Workers!Next

\* runtime.py:207-210: however many requests come, one after the other, and however
\* long a thread outlives its stop, the threads that would take the next tick are one
\* at most, and it is the registered worker's.
THEOREM OneWorker ==
  ASSUME Supervisor!Nobody \notin Requests
  PROVE  MCSpec => []OneWorkerRuns
<1>1. MCInit => Workers!Init
  BY DEF MCInit, Supervisor!Init, Workers!Init, Workers!NoCall, Supervisor!NoCall,
         Supervisor!Nobody, Workers!Nobody
<1>2. part = "super" /\ [MCNext]_parts => [Workers!Next]_Workers!vars
  BY WorkersNext DEF MCNext, parts, super, Workers!vars
<1>3. part = "super" /\ [MCNext]_parts => (part = "super")'
  BY DEF MCNext, parts
<1>4. ~ (part = "super") /\ [MCNext]_parts => (~ (part = "super"))'
  BY DEF MCNext, parts
<1>5. Workers!OneWorkerRuns => OneWorkerRuns
  BY DEF OneWorkerRuns, Supervisor!OneWorkerRuns, Workers!OneWorkerRuns,
         Supervisor!Running, Workers!Running, Supervisor!Nobody, Workers!Nobody
<1>6. ~ (part = "super") => OneWorkerRuns
  BY DEF OneWorkerRuns
<1>7. Workers!Spec => []Workers!OneWorkerRuns
  BY Workers!OneWorker DEF Supervisor!Nobody, Workers!Nobody
<1> QED
  BY <1>1, <1>2, <1>3, <1>4, <1>5, <1>6, <1>7, PTL DEF MCSpec, Workers!Spec

-----------------------------------------------------------------------------
(* TickQueue *)

Entries == Batches \cup {Ticks!Sentinel}

\* The queue holds what was accepted after the first n batches, in its order,
\* and the sentinel at p, or none where p is behind its end.
Fits(q, acc, n, p) ==
  /\ p \in 1 .. Len(q) + 1 /\ n \in 0 .. Len(acc)
  /\ p <= Len(q) => n + Len(q) = Len(acc) + 1
  /\ p = Len(q) + 1 => n + Len(q) = Len(acc)
  /\ \A i \in 1 .. Len(q) :
       /\ q[i] = Ticks!Sentinel <=> i = p
       /\ i < p => q[i] = acc[n + i]
       /\ i > p => q[i] = acc[n + i - 1]

LEMMA FitsIs ==
  ASSUME NEW q, NEW acc, NEW n, NEW p, Fits(q, acc, n, p), Len(q) \in Nat, Len(acc) \in Nat
  PROVE  /\ n \in Nat /\ n <= Len(acc) /\ p \in Nat \ {0} /\ p <= Len(q) + 1
         /\ p <= Len(q) => n + Len(q) = Len(acc) + 1
         /\ p = Len(q) + 1 => n + Len(q) = Len(acc)
BY DEF Fits

LEMMA FitsAt ==
  ASSUME NEW q, NEW acc, NEW n, NEW p, Fits(q, acc, n, p), NEW i \in 1 .. Len(q)
  PROVE  /\ q[i] = Ticks!Sentinel <=> i = p
         /\ i < p => q[i] = acc[n + i]
         /\ i > p => q[i] = acc[n + i - 1]
BY DEF Fits

LEMMA FitsAccept ==
  ASSUME NEW q \in Seq(Entries), NEW acc \in Seq(Batches), NEW n, NEW p, Fits(q, acc, n, p),
         NEW b \in Batches
  PROVE  \E p2 : Fits(Append(q, b), Append(acc, b), n, p2) /\ (p = Len(q) + 1 => p2 = Len(q) + 2)
<1> DEFINE p2 == IF p <= Len(q) THEN p ELSE Len(q) + 2
           q2 == Append(q, b)
           acc2 == Append(acc, b)
<1>1. /\ Len(q) \in Nat /\ Len(acc) \in Nat
      /\ Len(q2) = Len(q) + 1 /\ Len(acc2) = Len(acc) + 1
      /\ \A i \in 1 .. Len(q) : q2[i] = q[i]
      /\ \A i \in 1 .. Len(acc) : acc2[i] = acc[i]
      /\ q2[Len(q) + 1] = b /\ acc2[Len(acc) + 1] = b
  BY AppendProperties
<1>2. b # Ticks!Sentinel
  BY QueueAssumption DEF Ticks!Sentinel
<1>n. Len(q) \in Nat /\ Len(acc) \in Nat /\ Len(q2) = Len(q) + 1 /\ Len(acc2) = Len(acc) + 1
  BY <1>1
<1>3. /\ n \in Nat /\ n <= Len(acc) /\ p \in Nat \ {0} /\ p <= Len(q) + 1
      /\ p <= Len(q) => n + Len(q) = Len(acc) + 1
      /\ p = Len(q) + 1 => n + Len(q) = Len(acc)
  BY <1>1, FitsIs
<1> HIDE DEF q2, acc2
<1>4. ASSUME NEW i \in 1 .. Len(q2)
      PROVE  /\ q2[i] = Ticks!Sentinel <=> i = p2
             /\ i < p2 => q2[i] = acc2[n + i]
             /\ i > p2 => q2[i] = acc2[n + i - 1]
  <2>1. CASE i \in 1 .. Len(q)
    <3>1. i < p => n + i \in 1 .. Len(acc) BY <1>n, <1>3, <2>1
    <3>2. i > p => n + i - 1 \in 1 .. Len(acc) BY <1>n, <1>3, <2>1
    <3>3. /\ q2[i] = q[i]
          /\ i < p => acc2[n + i] = acc[n + i]
          /\ i > p => acc2[n + i - 1] = acc[n + i - 1]
      BY <1>1, <2>1, <3>1, <3>2
    <3>4. /\ i = p2 <=> i = p
          /\ i < p2 <=> i < p
          /\ i > p2 <=> i > p
      BY <1>n, <1>3, <2>1
    <3>5. /\ q[i] = Ticks!Sentinel <=> i = p
          /\ i < p => q[i] = acc[n + i]
          /\ i > p => q[i] = acc[n + i - 1]
      BY <2>1, FitsAt
    <3> QED BY <3>3, <3>4, <3>5
  <2>2. CASE i = Len(q) + 1
    <3>1. p <= Len(q) => n + i - 1 = Len(acc) + 1 BY <1>n, <1>3, <2>2
    <3>2. p = Len(q) + 1 => n + i = Len(acc) + 1 BY <1>n, <1>3, <2>2
    <3>3. i # p2 /\ (i < p2 => p = Len(q) + 1) /\ (i > p2 => p <= Len(q)) BY <1>n, <1>3, <2>2
    <3> QED BY <1>1, <1>2, <2>2, <3>1, <3>2, <3>3
  <2> QED BY <1>1, <2>1, <2>2
<1>5. /\ p2 \in 1 .. Len(q2) + 1 /\ n \in 0 .. Len(acc2)
      /\ p2 <= Len(q2) => n + Len(q2) = Len(acc2) + 1
      /\ p2 = Len(q2) + 1 => n + Len(q2) = Len(acc2)
      /\ p = Len(q) + 1 => p2 = Len(q) + 2
  <2>1. CASE p <= Len(q)
    <3>1. p2 = p /\ n + Len(q) = Len(acc) + 1
      BY <1>3, <2>1
    <3> QED
      BY <1>n, <1>3, <2>1, <3>1
  <2>2. CASE p = Len(q) + 1
    <3>1. p2 = Len(q) + 2 /\ n + Len(q) = Len(acc)
      BY <1>n, <1>3, <2>2
    <3> QED
      BY <1>n, <1>3, <2>2, <3>1
  <2> QED
    BY <1>n, <1>3, <2>1, <2>2
<1> HIDE DEF p2
<1>6. Fits(q2, acc2, n, p2)
  BY <1>4, <1>5 DEF Fits
<1> QED BY <1>5, <1>6 DEF q2, acc2

LEMMA FitsStop ==
  ASSUME NEW q \in Seq(Entries), NEW acc \in Seq(Batches), NEW n, Fits(q, acc, n, Len(q) + 1)
  PROVE  Fits(Append(q, Ticks!Sentinel), acc, n, Len(q) + 1)
<1> DEFINE q2 == Append(q, Ticks!Sentinel)
           p == Len(q) + 1
<1>1. /\ Len(q) \in Nat /\ Len(acc) \in Nat
      /\ Len(q2) = Len(q) + 1
      /\ \A i \in 1 .. Len(q) : q2[i] = q[i]
      /\ q2[Len(q) + 1] = Ticks!Sentinel
  BY AppendProperties DEF Entries
<1>2. n \in Nat /\ n <= Len(acc) /\ n + Len(q) = Len(acc)
  BY <1>1, FitsIs
<1> HIDE DEF q2
<1>3. ASSUME NEW i \in 1 .. Len(q2)
      PROVE  /\ q2[i] = Ticks!Sentinel <=> i = p
             /\ i < p => q2[i] = acc[n + i]
             /\ i > p => q2[i] = acc[n + i - 1]
  <2>1. CASE i \in 1 .. Len(q)
    <3>1. i # p /\ i < p /\ ~ (i > p) BY <1>1, <2>1
    <3>2. /\ q[i] = Ticks!Sentinel <=> i = p
          /\ i < p => q[i] = acc[n + i]
      BY <2>1, FitsAt
    <3> QED BY <1>1, <2>1, <3>1, <3>2
  <2>2. CASE i = Len(q) + 1
    BY <1>1, <2>2
  <2> QED BY <1>1, <2>1, <2>2
<1>4. /\ p \in 1 .. Len(q2) + 1 /\ n \in 0 .. Len(acc)
      /\ n + Len(q2) = Len(acc) + 1 /\ p # Len(q2) + 1
  BY <1>1, <1>2
<1> HIDE DEF p
<1>5. Fits(q2, acc, n, p)
  BY <1>3, <1>4 DEF Fits
<1> QED BY <1>5 DEF q2, p

\* Without its oldest entry; a batch that leaves is the first that waited.
LEMMA FitsTail ==
  ASSUME NEW q \in Seq(Entries), NEW acc \in Seq(Batches), NEW n, NEW p, Fits(q, acc, n, p),
         q # <<>>
  PROVE  IF Head(q) = Ticks!Sentinel
         THEN Fits(Tail(q), acc, n, Len(Tail(q)) + 1)
         ELSE /\ Fits(Tail(q), acc, n + 1, p - 1)
              /\ n + 1 \in DOMAIN acc /\ Head(q) = acc[n + 1]
              /\ p = Len(q) + 1 => p - 1 = Len(Tail(q)) + 1
<1> DEFINE q2 == Tail(q)
<1>1. /\ Len(q) \in Nat \ {0} /\ Len(acc) \in Nat
      /\ Len(q2) = Len(q) - 1 /\ Head(q) = q[1] /\ DOMAIN acc = 1 .. Len(acc)
      /\ \A i \in 1 .. Len(q2) : q2[i] = q[i + 1]
  <2>1. Len(q) # 0 BY EmptySeq
  <2> QED BY <2>1, HeadTailProperties
<1>2. /\ n \in Nat /\ n <= Len(acc) /\ p \in Nat \ {0} /\ p <= Len(q) + 1
      /\ p <= Len(q) => n + Len(q) = Len(acc) + 1
      /\ p = Len(q) + 1 => n + Len(q) = Len(acc)
  BY <1>1, FitsIs
<1>n. /\ Len(q) \in Nat \ {0} /\ Len(acc) \in Nat /\ Len(q2) = Len(q) - 1
  BY <1>1
<1>3. /\ q[1] = Ticks!Sentinel <=> 1 = p
      /\ 1 < p => q[1] = acc[n + 1]
  <2>1. 1 \in 1 .. Len(q) BY <1>1
  <2> QED BY <2>1, FitsAt
<1>4. ASSUME NEW i \in 1 .. Len(q2)
      PROVE  /\ q2[i] = Ticks!Sentinel <=> i + 1 = p
             /\ i + 1 < p => q2[i] = acc[n + (i + 1)]
             /\ i + 1 > p => q2[i] = acc[n + (i + 1) - 1]
  <2>1. i + 1 \in 1 .. Len(q) BY <1>1
  <2>2. /\ q[i + 1] = Ticks!Sentinel <=> i + 1 = p
        /\ i + 1 < p => q[i + 1] = acc[n + (i + 1)]
        /\ i + 1 > p => q[i + 1] = acc[n + (i + 1) - 1]
    BY <2>1, FitsAt
  <2> QED BY <1>1, <2>2
<1> HIDE DEF q2
<1>5. CASE Head(q) = Ticks!Sentinel
  <2>1. p = 1 BY <1>1, <1>3, <1>5
  <2> DEFINE p2 == Len(q2) + 1
  <2>2. ASSUME NEW i \in 1 .. Len(q2)
        PROVE  /\ q2[i] = Ticks!Sentinel <=> i = p2
               /\ i < p2 => q2[i] = acc[n + i]
               /\ ~ (i > p2)
    <3>1. i + 1 > p /\ i + 1 # p /\ n + (i + 1) - 1 = n + i /\ i # p2 /\ ~ (i > p2)
      BY <1>n, <1>2, <2>1
    <3> QED BY <1>4, <3>1
  <2>3. p2 \in 1 .. Len(q2) + 1 /\ n \in 0 .. Len(acc) /\ n + Len(q2) = Len(acc) /\ ~ (p2 <= Len(q2))
    BY <1>n, <1>2, <2>1
  <2> HIDE DEF p2
  <2>4. Fits(q2, acc, n, p2)
    BY <2>2, <2>3 DEF Fits
  <2> QED BY <1>5, <2>4 DEF q2, p2
<1>6. CASE Head(q) # Ticks!Sentinel
  <2>1. p # 1 BY <1>1, <1>3, <1>6
  <2> DEFINE p2 == p - 1
             n2 == n + 1
  <2>2. ASSUME NEW i \in 1 .. Len(q2)
        PROVE  /\ q2[i] = Ticks!Sentinel <=> i = p2
               /\ i < p2 => q2[i] = acc[n2 + i]
               /\ i > p2 => q2[i] = acc[n2 + i - 1]
    <3>1. /\ n + (i + 1) = n2 + i
          /\ n + (i + 1) - 1 = n2 + i - 1
          /\ i + 1 = p <=> i = p2
          /\ i + 1 < p <=> i < p2
          /\ i + 1 > p <=> i > p2
      BY <1>n, <1>2
    <3> QED BY <1>4, <3>1
  <2>3. /\ p2 \in 1 .. Len(q2) + 1 /\ n2 \in 0 .. Len(acc) /\ n2 \in 1 .. Len(acc)
        /\ p2 <= Len(q2) => n2 + Len(q2) = Len(acc) + 1
        /\ p2 = Len(q2) + 1 => n2 + Len(q2) = Len(acc)
        /\ p = Len(q) + 1 => p2 = Len(q2) + 1
    BY <1>n, <1>2, <2>1
  <2>4. 1 < p BY <1>2, <2>1
  <2>6. Head(q) = acc[n2] BY <1>1, <1>3, <2>4
  <2> HIDE DEF p2, n2
  <2>5. Fits(q2, acc, n2, p2)
    BY <2>2, <2>3 DEF Fits
  <2> QED BY <1>1, <1>6, <2>3, <2>5, <2>6 DEF q2, p2, n2
<1> QED BY <1>5, <1>6

-----------------------------------------------------------------------------

Before(acc, a, b) == \E k, l \in DOMAIN acc : k < l /\ acc[k] = a /\ acc[l] = b

\* What was taken out of the queue to be ingested was accepted in that order,
\* and before what still waits.
Taken(done, acc, n) ==
  /\ \A i \in DOMAIN done : \E k \in 1 .. n : acc[k] = done[i]
  /\ \A i, j \in DOMAIN done : i < j => Before(acc, done[i], done[j])

TicksType ==
  /\ tickQueue \in Seq(Entries) /\ Len(tickQueue) <= TickQueueSize
  /\ post \in [Batches -> {"new", "checked", "full", "retry", "accepted", "refused"}]
  /\ closing \in {"no", "put", "full", "again", "join", "returned"}
  /\ consumer \in {"idle", "busy", "ended"}
  /\ accepted \in Seq(Batches) /\ ingested \in Seq(Batches) /\ hand \in Seq(Batches)
  /\ consumer # "busy" => hand = <<>>

\* One request thread at a time makes room, which is then there for it unless
\* shutdown takes it.
LockInv ==
  /\ closing # "no" => stopping
  /\ \A b, c \in Batches : {post[b], post[c]} \subseteq {"full", "retry"} => b = c
  /\ stopping \/ Len(tickQueue) < TickQueueSize \/ \A b \in Batches : post[b] # "retry"

OrderInv ==
  \E n, p :
    /\ Fits(tickQueue, accepted, n, p)
    /\ Taken(ingested \o hand, accepted, n)
    /\ closing \in {"no", "put", "full", "again"} => p = Len(tickQueue) + 1

\* While the service runs the last batch is on its way.
LastInv ==
  \/ stopping \/ accepted = <<>> \/ \E b \in Batches : post[b] = "retry"
  \/ \E i \in DOMAIN tickQueue : tickQueue[i] = accepted[Len(accepted)]
  \/ \E i \in DOMAIN (ingested \o hand) : (ingested \o hand)[i] = accepted[Len(accepted)]

TicksInv == TicksType /\ LockInv /\ OrderInv /\ LastInv

LEMMA TakenAccept ==
  ASSUME NEW done, NEW acc \in Seq(Batches), NEW n \in 0 .. Len(acc), NEW b \in Batches,
         Taken(done, acc, n)
  PROVE  Taken(done, Append(acc, b), n)
<1> DEFINE acc2 == Append(acc, b)
<1>1. /\ Len(acc) \in Nat /\ DOMAIN acc = 1 .. Len(acc) /\ DOMAIN acc2 = 1 .. Len(acc) + 1
      /\ \A i \in 1 .. Len(acc) : acc2[i] = acc[i]
  BY AppendProperties
<1>2. 1 .. n \subseteq 1 .. Len(acc) /\ DOMAIN acc \subseteq DOMAIN acc2
  BY <1>1
<1> HIDE DEF acc2
<1>3. \A i \in DOMAIN done : \E k \in 1 .. n : acc2[k] = done[i]
  BY <1>1, <1>2 DEF Taken
<1>4. \A i, j \in DOMAIN done : i < j => Before(acc2, done[i], done[j])
  <2>1. \A x, y : Before(acc, x, y) => Before(acc2, x, y)
    BY <1>1, <1>2 DEF Before
  <2> QED BY <2>1 DEF Taken
<1>5. Taken(done, acc2, n)
  BY <1>3, <1>4 DEF Taken
<1> QED BY <1>5 DEF acc2

LEMMA TakenDropped ==
  ASSUME NEW done, NEW acc, NEW n \in Nat, Taken(done, acc, n)
  PROVE  Taken(done, acc, n + 1)
<1>1. 1 .. n \subseteq 1 .. n + 1
  OBVIOUS
<1> QED BY <1>1 DEF Taken

LEMMA TakenNext ==
  ASSUME NEW done \in Seq(Batches), NEW acc \in Seq(Batches), NEW n \in Nat,
         n + 1 \in DOMAIN acc, Taken(done, acc, n)
  PROVE  Taken(Append(done, acc[n + 1]), acc, n + 1)
<1> DEFINE b == acc[n + 1]
           done2 == Append(done, b)
<1>1. /\ Len(done) \in Nat /\ DOMAIN done = 1 .. Len(done)
      /\ DOMAIN done2 = 1 .. Len(done) + 1 /\ done2[Len(done) + 1] = b
      /\ \A i \in DOMAIN done : done2[i] = done[i]
  <2>1. b \in Batches BY ElementOfSeq
  <2> HIDE DEF b
  <2> QED BY <2>1, AppendProperties
<1>n. Len(done) \in Nat
  BY <1>1
<1>2. 1 .. n \subseteq DOMAIN acc
  <2>1. Len(acc) \in Nat /\ DOMAIN acc = 1 .. Len(acc) BY LenProperties
  <2> QED BY <2>1
<1> HIDE DEF done2
<1>3. ASSUME NEW i \in DOMAIN done2 PROVE i \in DOMAIN done \/ i = Len(done) + 1
  BY <1>1
<1>4. ASSUME NEW i \in DOMAIN done PROVE \E k \in 1 .. n : acc[k] = done2[i]
  BY <1>1, <1>4 DEF Taken
<1>5. ASSUME NEW i \in DOMAIN done2 PROVE \E k \in 1 .. n + 1 : acc[k] = done2[i]
  <2>1. CASE i \in DOMAIN done
    <3>1. 1 .. n \subseteq 1 .. n + 1 OBVIOUS
    <3> QED BY <2>1, <1>4, <3>1
  <2>2. CASE i = Len(done) + 1
    <3>1. n + 1 \in 1 .. n + 1 OBVIOUS
    <3>2. acc[n + 1] = done2[i] BY <1>1, <2>2
    <3> QED BY <3>1, <3>2
  <2> QED BY <1>3, <2>1, <2>2
<1>6. ASSUME NEW i \in DOMAIN done2, NEW j \in DOMAIN done2, i < j
      PROVE  Before(acc, done2[i], done2[j])
  <2>1. i \in DOMAIN done
    BY <1>1, <1>3, <1>6
  <2>2. CASE j \in DOMAIN done
    BY <1>1, <1>6, <2>1, <2>2 DEF Taken
  <2>3. CASE j = Len(done) + 1
    <3>1. PICK k \in 1 .. n : acc[k] = done2[i] BY <1>4, <2>1
    <3>2. k < n + 1 /\ k \in DOMAIN acc BY <1>2
    <3>3. acc[n + 1] = done2[j] BY <1>1, <2>3
    <3> QED BY <3>1, <3>2, <3>3 DEF Before
  <2> QED BY <1>3, <2>2, <2>3
<1>7. Taken(done2, acc, n + 1)
  BY <1>5, <1>6 DEF Taken
<1> QED BY <1>7 DEF done2

-----------------------------------------------------------------------------

LEMMA TicksInit == Ticks!Init => TicksInv
<1> SUFFICES ASSUME Ticks!Init PROVE TicksInv
  OBVIOUS
<1>1. tickQueue = <<>> /\ accepted = <<>> /\ ingested = <<>> /\ hand = <<>>
  BY DEF Ticks!Init
<1>2. <<>> \in Seq(Entries) /\ <<>> \in Seq(Batches) /\ Len(<<>>) = 0 /\ <<>> \o <<>> = <<>>
  BY EmptySeq, ConcatEmptySeq
<1>3. TicksType
  BY <1>1, <1>2, QueueAssumption DEF Ticks!Init, TicksType
<1>4. LockInv
  BY <1>1, <1>2 DEF Ticks!Init, LockInv
<1>5. Fits(<<>>, <<>>, 0, 1)
  BY <1>2 DEF Fits
<1>6. Taken(<<>>, <<>>, 0)
  BY EmptySeq DEF Taken
<1>7. OrderInv
  BY <1>1, <1>2, <1>5, <1>6 DEF OrderInv
<1> QED BY <1>1, <1>3, <1>4, <1>7 DEF TicksInv, LastInv

\* What the steps do to the queue.
Accepts ==
  /\ \E b \in Batches : tickQueue' = Append(tickQueue, b) /\ accepted' = Append(accepted, b)
  /\ UNCHANGED <<ingested, hand, stopping, closing, consumer>>
Drops ==
  /\ tickQueue' = IF tickQueue = <<>> THEN tickQueue ELSE Tail(tickQueue)
  /\ UNCHANGED <<accepted, ingested, hand, stopping, consumer>>
  /\ closing' \in {"no", "put", "full", "again"} => closing \in {"no", "put", "full", "again"}
Stays ==
  /\ UNCHANGED <<tickQueue, accepted, ingested, hand>>
  /\ closing' \in {"no", "put", "full", "again"} => closing \in {"no", "put", "full", "again"}
Ends ==
  /\ closing \in {"put", "again"} /\ closing' = "join"
  /\ tickQueue' = Append(tickQueue, Ticks!Sentinel)
  /\ UNCHANGED <<accepted, ingested, hand, stopping, consumer>>

LEMMA OrderNext ==
  ASSUME TicksInv, Accepts \/ Drops \/ Stays \/ Ends \/ Ticks!Take \/ Ticks!Ingest
  PROVE  OrderInv'
<1> USE DEF TicksInv
<1>0. /\ tickQueue \in Seq(Entries) /\ accepted \in Seq(Batches)
      /\ ingested \in Seq(Batches) /\ hand \in Seq(Batches)
  BY DEF TicksType
<1>1. PICK n, p :
        /\ Fits(tickQueue, accepted, n, p)
        /\ Taken(ingested \o hand, accepted, n)
        /\ closing \in {"no", "put", "full", "again"} => p = Len(tickQueue) + 1
  BY DEF OrderInv
<1>2. n \in 0 .. Len(accepted) /\ n \in Nat
  BY <1>0, <1>1, LenProperties DEF Fits
<1>3. CASE Stays
  BY <1>1, <1>3 DEF Stays, OrderInv
<1>4. CASE Accepts
  <2>1. PICK b \in Batches : tickQueue' = Append(tickQueue, b) /\ accepted' = Append(accepted, b)
    BY <1>4 DEF Accepts
  <2>2. PICK p2 : /\ Fits(tickQueue', accepted', n, p2)
                  /\ p = Len(tickQueue) + 1 => p2 = Len(tickQueue) + 2
    BY <1>0, <1>1, <2>1, FitsAccept
  <2>3. Taken(ingested' \o hand', accepted', n)
    BY <1>0, <1>1, <1>2, <1>4, <2>1, TakenAccept DEF Accepts
  <2>4. Len(tickQueue') = Len(tickQueue) + 1 /\ Len(tickQueue) \in Nat
    BY <1>0, <2>1, AppendProperties DEF Entries
  <2>5. closing' \in {"no", "put", "full", "again"} => p2 = Len(tickQueue') + 1
    BY <1>1, <1>4, <2>2, <2>4 DEF Accepts
  <2> QED BY <2>2, <2>3, <2>5 DEF OrderInv
<1>5. CASE Drops
  <2>1. CASE tickQueue = <<>>
    BY <1>1, <1>5, <2>1 DEF Drops, OrderInv
  <2>2. CASE tickQueue # <<>> /\ Head(tickQueue) = Ticks!Sentinel
    <3>1. Fits(tickQueue', accepted', n, Len(tickQueue') + 1)
      BY <1>0, <1>1, <1>5, <2>2, FitsTail DEF Drops
    <3> QED BY <1>1, <1>5, <3>1 DEF Drops, OrderInv
  <2>3. CASE tickQueue # <<>> /\ Head(tickQueue) # Ticks!Sentinel
    <3>1. /\ Fits(tickQueue', accepted', n + 1, p - 1)
          /\ p = Len(tickQueue) + 1 => p - 1 = Len(tickQueue') + 1
      BY <1>0, <1>1, <1>5, <2>3, FitsTail DEF Drops
    <3>2. Taken(ingested' \o hand', accepted', n + 1)
      BY <1>1, <1>2, <1>5, TakenDropped DEF Drops
    <3> QED BY <1>1, <1>5, <3>1, <3>2 DEF Drops, OrderInv
  <2> QED BY <2>1, <2>2, <2>3
<1>6. CASE Ends
  <2>1. p = Len(tickQueue) + 1 BY <1>1, <1>6 DEF Ends
  <2>2. Fits(tickQueue', accepted', n, p)
    BY <1>0, <1>1, <1>6, <2>1, FitsStop DEF Ends
  <2>3. closing' \notin {"no", "put", "full", "again"} /\ ingested' \o hand' = ingested \o hand
    BY <1>6 DEF Ends
  <2> QED BY <1>1, <1>6, <2>2, <2>3 DEF Ends, OrderInv
<1>7. CASE Ticks!Take
  <2>1. /\ tickQueue # <<>> /\ tickQueue' = Tail(tickQueue) /\ hand = <<>>
        /\ UNCHANGED <<accepted, ingested, closing>>
    BY <1>7 DEF Ticks!Take, TicksType
  <2>2. ingested \o hand = ingested BY <1>0, <2>1, ConcatEmptySeq
  <2>3. CASE Head(tickQueue) = Ticks!Sentinel
    <3>1. Fits(tickQueue', accepted', n, Len(tickQueue') + 1)
      BY <1>0, <1>1, <2>1, <2>3, FitsTail
    <3>2. hand' = hand BY <1>7, <2>3 DEF Ticks!Take
    <3> QED BY <1>1, <2>1, <3>1, <3>2 DEF OrderInv
  <2>4. CASE Head(tickQueue) # Ticks!Sentinel
    <3>1. /\ Fits(tickQueue', accepted', n + 1, p - 1)
          /\ n + 1 \in DOMAIN accepted /\ Head(tickQueue) = accepted[n + 1]
          /\ p = Len(tickQueue) + 1 => p - 1 = Len(tickQueue') + 1
      BY <1>0, <1>1, <2>1, <2>4, FitsTail
    <3>2. hand' = <<accepted[n + 1]>> BY <1>7, <2>4, <3>1 DEF Ticks!Take
    <3>3. ingested' \o hand' = Append(ingested, accepted[n + 1])
      <4>1. accepted[n + 1] \in Batches BY <1>0, <3>1, ElementOfSeq
      <4> QED BY <1>0, <2>1, <3>2, <4>1, AppendIsConcat
    <3>4. Taken(ingested' \o hand', accepted', n + 1)
      BY <1>0, <1>1, <1>2, <2>1, <2>2, <3>1, <3>3, TakenNext
    <3> QED BY <1>1, <2>1, <3>1, <3>4 DEF OrderInv
  <2> QED BY <2>3, <2>4
<1>8. CASE Ticks!Ingest
  <2>1. /\ ingested' = ingested \o hand /\ hand' = <<>>
        /\ UNCHANGED <<tickQueue, accepted, closing>>
    BY <1>8 DEF Ticks!Ingest
  <2>2. ingested \o hand \in Seq(Batches)
    BY <1>0, ConcatProperties
  <2>3. ingested' \o hand' = ingested \o hand
    BY <2>1, <2>2, ConcatEmptySeq
  <2> QED BY <1>1, <2>1, <2>3 DEF OrderInv
<1> QED BY <1>3, <1>4, <1>5, <1>6, <1>7, <1>8

\* Each action has one of these effects.
LEMMA EffectOf ==
  ASSUME Ticks!Next
  PROVE  Accepts \/ Drops \/ Stays \/ Ends \/ Ticks!Take \/ Ticks!Ingest
<1>1. ASSUME NEW b \in Batches, Ticks!Check(b) PROVE Stays
  BY <1>1 DEF Ticks!Check, Stays
<1>2. ASSUME NEW b \in Batches, Ticks!Put(b) PROVE Accepts \/ Stays
  BY <1>2 DEF Ticks!Put, Ticks!Accept, Accepts, Stays
<1>3. ASSUME NEW b \in Batches, Ticks!DropOldest(b) PROVE Drops
  BY <1>3 DEF Ticks!DropOldest, Drops
<1>4. ASSUME NEW b \in Batches, Ticks!PutAgain(b) PROVE Accepts \/ Stays
  BY <1>4 DEF Ticks!PutAgain, Ticks!Accept, Accepts, Stays
<1>5. CASE Ticks!Stop
  BY <1>5 DEF Ticks!Stop, Stays
<1>6. CASE Ticks!PutSentinel
  BY <1>6 DEF Ticks!PutSentinel, Ends, Stays
<1>7. CASE Ticks!MakeRoom
  BY <1>7 DEF Ticks!MakeRoom, Drops
<1>8. CASE Ticks!PutSentinelAgain
  BY <1>8 DEF Ticks!PutSentinelAgain, Ends, Stays
<1>9. CASE Ticks!Joined
  BY <1>9 DEF Ticks!Joined, Stays
<1> QED
  BY <1>1, <1>2, <1>3, <1>4, <1>5, <1>6, <1>7, <1>8, <1>9
     DEF Ticks!Next, Ticks!Request, Ticks!Putting, Ticks!Consume, Ticks!Shutdown

LEMMA TailTyped ==
  ASSUME NEW q \in Seq(Entries), q # <<>>
  PROVE  Tail(q) \in Seq(Entries) /\ Len(q) \in Nat /\ Len(Tail(q)) = Len(q) - 1 /\ Head(q) \in Entries
BY HeadTailProperties, LenProperties

LEMMA TypeNext ==
  ASSUME TicksType, LockInv, Ticks!Next
  PROVE  TicksType' /\ LockInv'
<1>0. /\ tickQueue \in Seq(Entries) /\ Len(tickQueue) \in Nat /\ Len(tickQueue) <= TickQueueSize
      /\ TickQueueSize \in Nat \ {0} /\ Len(<<>>) = 0
      /\ accepted \in Seq(Batches) /\ ingested \in Seq(Batches) /\ hand \in Seq(Batches)
  BY QueueAssumption, LenProperties, EmptySeq DEF TicksType
<1>a. \A x \in Entries : /\ Append(tickQueue, x) \in Seq(Entries)
                         /\ Len(Append(tickQueue, x)) = Len(tickQueue) + 1
  BY <1>0, AppendProperties
<1>b. \A b \in Batches : Append(accepted, b) \in Seq(Batches) /\ b \in Entries
  BY <1>0, AppendProperties DEF Entries
<1>c. Ticks!Sentinel \in Entries
  BY DEF Entries
<1>d. LET q == IF tickQueue = <<>> THEN tickQueue ELSE Tail(tickQueue) IN
      q \in Seq(Entries) /\ Len(q) \in Nat /\ Len(q) < TickQueueSize
  <2>1. CASE tickQueue = <<>> BY <1>0, <2>1
  <2>2. CASE tickQueue # <<>> BY <1>0, <2>2, TailTyped, LenProperties
  <2> QED BY <2>1, <2>2
<1>1. ASSUME NEW b \in Batches, Ticks!Check(b) PROVE TicksType' /\ LockInv'
  BY <1>1 DEF Ticks!Check, TicksType, LockInv
<1>2. ASSUME NEW b \in Batches, Ticks!Put(b) PROVE TicksType' /\ LockInv'
  <2>1. CASE Ticks!Room /\ Ticks!Accept(b)
    <3>1. /\ tickQueue' \in Seq(Entries) /\ Len(tickQueue') <= TickQueueSize
          /\ accepted' \in Seq(Batches)
      BY <1>0, <1>a, <1>b, <2>1 DEF Ticks!Room, Ticks!Accept
    <3>2. \A c \in Batches : post[c] \notin {"full", "retry"}
      BY <1>2 DEF Ticks!Put, Ticks!Locked
    <3> QED BY <1>2, <2>1, <3>1, <3>2 DEF Ticks!Put, Ticks!Accept, TicksType, LockInv
  <2>2. CASE post' = [post EXCEPT ![b] = "full"] /\ UNCHANGED <<tickQueue, accepted>>
    <3>2. \A c \in Batches : post[c] \notin {"full", "retry"}
      BY <1>2 DEF Ticks!Put, Ticks!Locked
    <3> QED BY <1>2, <2>2, <3>2 DEF Ticks!Put, TicksType, LockInv
  <2> QED BY <1>2, <2>1, <2>2 DEF Ticks!Put
<1>3. ASSUME NEW b \in Batches, Ticks!DropOldest(b) PROVE TicksType' /\ LockInv'
  <2>1. tickQueue' \in Seq(Entries) /\ Len(tickQueue') \in Nat /\ Len(tickQueue') < TickQueueSize
    BY <1>3, <1>d DEF Ticks!DropOldest
  <2>2. Len(tickQueue') <= TickQueueSize
    BY <1>0, <2>1
  <2> QED BY <1>3, <2>1, <2>2 DEF Ticks!DropOldest, TicksType, LockInv
<1>4. ASSUME NEW b \in Batches, Ticks!PutAgain(b) PROVE TicksType' /\ LockInv'
  <2>0. post[b] = "retry" /\ \A c \in Batches : post[c] \in {"full", "retry"} => c = b
    BY <1>4 DEF Ticks!PutAgain, LockInv
  <2>1. CASE Ticks!Room /\ Ticks!Accept(b)
    <3>1. /\ tickQueue' \in Seq(Entries) /\ Len(tickQueue') <= TickQueueSize
          /\ accepted' \in Seq(Batches)
      BY <1>0, <1>a, <1>b, <2>1 DEF Ticks!Room, Ticks!Accept
    <3> QED BY <1>4, <2>0, <2>1, <3>1 DEF Ticks!PutAgain, Ticks!Accept, TicksType, LockInv
  <2>2. CASE post' = [post EXCEPT ![b] = "refused"] /\ UNCHANGED <<tickQueue, accepted>>
    BY <1>4, <2>0, <2>2 DEF Ticks!PutAgain, TicksType, LockInv
  <2> QED BY <1>4, <2>1, <2>2 DEF Ticks!PutAgain
<1>5. CASE Ticks!Take
  <2>1. tickQueue # <<>> /\ tickQueue' = Tail(tickQueue) BY <1>5 DEF Ticks!Take
  <2>2. /\ tickQueue' \in Seq(Entries) /\ Len(tickQueue') = Len(tickQueue) - 1
        /\ Head(tickQueue) \in Entries
    BY <1>0, <2>1, TailTyped
  <2>3. Len(tickQueue') <= TickQueueSize /\ Len(tickQueue') < TickQueueSize
    BY <1>0, <2>2
  <2>4. hand' \in Seq(Batches) /\ (consumer' # "busy" => hand' = <<>>)
    <3>1. \A x \in Batches : <<x>> \in Seq(Batches) OBVIOUS
    <3> QED BY <1>5, <2>2, <3>1 DEF Ticks!Take, TicksType, Entries
  <2> QED BY <1>5, <2>2, <2>3, <2>4 DEF Ticks!Take, TicksType, LockInv
<1>6. CASE Ticks!Ingest
  <2>1. ingested' \in Seq(Batches) /\ hand' \in Seq(Batches)
    BY <1>0, <1>6, ConcatProperties, EmptySeq DEF Ticks!Ingest
  <2> QED BY <1>6, <2>1 DEF Ticks!Ingest, TicksType, LockInv
<1>7. CASE Ticks!Stop \/ Ticks!Joined
  BY <1>7 DEF Ticks!Stop, Ticks!Joined, TicksType, LockInv
<1>8. CASE Ticks!PutSentinel \/ Ticks!PutSentinelAgain
  <2>1. UNCHANGED <<post, stopping, consumer, hand, accepted, ingested>> /\ closing # "no"
    BY <1>8 DEF Ticks!PutSentinel, Ticks!PutSentinelAgain
  <2>2. closing' \in {"full", "join", "returned"}
    BY <1>8 DEF Ticks!PutSentinel, Ticks!PutSentinelAgain
  <2>3. \/ Len(tickQueue) < TickQueueSize /\ tickQueue' = Append(tickQueue, Ticks!Sentinel)
        \/ tickQueue' = tickQueue
    BY <1>8 DEF Ticks!PutSentinel, Ticks!PutSentinelAgain, Ticks!Room
  <2>4. tickQueue' \in Seq(Entries) /\ Len(tickQueue') <= TickQueueSize
    <3>1. CASE Len(tickQueue) < TickQueueSize /\ tickQueue' = Append(tickQueue, Ticks!Sentinel)
      <4>1. tickQueue' \in Seq(Entries) /\ Len(tickQueue') = Len(tickQueue) + 1
        BY <1>a, <1>c, <3>1
      <4> QED BY <1>0, <3>1, <4>1
    <3>2. CASE tickQueue' = tickQueue BY <1>0, <3>2
    <3> QED BY <2>3, <3>1, <3>2
  <2> QED BY <2>1, <2>2, <2>4 DEF TicksType, LockInv
<1>9. CASE Ticks!MakeRoom
  <2>1. tickQueue' \in Seq(Entries) /\ Len(tickQueue') <= TickQueueSize
    BY <1>0, <1>9, <1>d DEF Ticks!MakeRoom
  <2> QED BY <1>9, <2>1 DEF Ticks!MakeRoom, TicksType, LockInv
<1> QED
  BY <1>1, <1>2, <1>3, <1>4, <1>5, <1>6, <1>7, <1>8, <1>9
     DEF Ticks!Next, Ticks!Request, Ticks!Putting, Ticks!Consume, Ticks!Shutdown

\* Nothing but a newer batch takes the last one out of the queue unseen.
LEMMA LastNext ==
  ASSUME TicksInv, Ticks!Next
  PROVE  LastInv'
<1> USE DEF TicksInv
<1>0. /\ tickQueue \in Seq(Entries) /\ Len(tickQueue) \in Nat
      /\ accepted \in Seq(Batches) /\ ingested \in Seq(Batches) /\ hand \in Seq(Batches)
  BY LenProperties DEF TicksType
<1> DEFINE last == accepted[Len(accepted)]
           OnItsWay == \/ \E i \in DOMAIN tickQueue : tickQueue[i] = last
                       \/ \E i \in DOMAIN (ingested \o hand) : (ingested \o hand)[i] = last
<1>1. LastInv <=> stopping \/ accepted = <<>> \/ (\E b \in Batches : post[b] = "retry") \/ OnItsWay
  BY DEF LastInv
<1>2. ASSUME NEW b \in Batches, Ticks!Accept(b) PROVE LastInv'
  <2>1. tickQueue' = Append(tickQueue, b) /\ accepted' = Append(accepted, b)
    BY <1>2 DEF Ticks!Accept
  <2>2. accepted'[Len(accepted')] = b
    BY <1>0, <2>1, AppendProperties
  <2>3. /\ DOMAIN tickQueue' = 1 .. Len(tickQueue) + 1 /\ tickQueue'[Len(tickQueue) + 1] = b
    BY <1>0, <2>1, AppendProperties DEF Entries
  <2>4. Len(tickQueue) + 1 \in DOMAIN tickQueue'
    BY <1>0, <2>3
  <2> QED BY <2>2, <2>3, <2>4 DEF LastInv
<1>3. ASSUME NEW b \in Batches, Ticks!Check(b) PROVE LastInv'
  <2>1. \A c \in Batches : post[c] = "retry" => post'[c] = "retry"
    BY <1>3 DEF Ticks!Check, TicksType
  <2> QED BY <1>3, <2>1 DEF Ticks!Check, LastInv
<1>4. ASSUME NEW b \in Batches, Ticks!Put(b) PROVE LastInv'
  <2>1. CASE Ticks!Accept(b) BY <1>2, <2>1
  <2>2. CASE post' = [post EXCEPT ![b] = "full"] /\ UNCHANGED <<tickQueue, accepted>>
    <3>1. \A c \in Batches : post[c] = "retry" => post'[c] = "retry"
      BY <1>4, <2>2 DEF Ticks!Put, TicksType
    <3> QED BY <1>4, <2>2, <3>1 DEF Ticks!Put, LastInv
  <2> QED BY <1>4, <2>1, <2>2 DEF Ticks!Put
<1>5. ASSUME NEW b \in Batches, Ticks!DropOldest(b) PROVE LastInv'
  <2>1. post'[b] = "retry" BY <1>5 DEF Ticks!DropOldest, TicksType
  <2> QED BY <2>1 DEF LastInv
<1>6. ASSUME NEW b \in Batches, Ticks!PutAgain(b) PROVE LastInv'
  <2>1. CASE Ticks!Accept(b) BY <1>2, <2>1
  <2>2. CASE ~ Ticks!Room
    <3>1. stopping BY <1>6, <2>2 DEF Ticks!PutAgain, Ticks!Room, LockInv
    <3>2. stopping' = stopping BY <1>6 DEF Ticks!PutAgain
    <3> QED BY <3>1, <3>2 DEF LastInv
  <2> QED BY <1>6, <2>1, <2>2 DEF Ticks!PutAgain
<1>7. CASE Ticks!Take
  <2>1. /\ tickQueue # <<>> /\ tickQueue' = Tail(tickQueue) /\ hand = <<>>
        /\ UNCHANGED <<post, stopping, accepted, ingested>>
    BY <1>7 DEF Ticks!Take, TicksType
  <2>2. ingested \o hand = ingested BY <1>0, <2>1, ConcatEmptySeq
  <2>3. /\ Len(tickQueue) # 0 /\ Head(tickQueue) = tickQueue[1]
        /\ Len(tickQueue') = Len(tickQueue) - 1 /\ DOMAIN tickQueue' = 1 .. Len(tickQueue')
        /\ DOMAIN tickQueue = 1 .. Len(tickQueue)
        /\ \A i \in 1 .. Len(tickQueue') : tickQueue'[i] = tickQueue[i + 1]
    BY <1>0, <2>1, HeadTailProperties, EmptySeq, LenProperties
  <2>4. ASSUME NEW i \in DOMAIN tickQueue, tickQueue[i] = last, i # 1 PROVE LastInv'
    <3>1. i - 1 \in 1 .. Len(tickQueue') /\ (i - 1) + 1 = i BY <1>0, <2>3, <2>4
    <3>2. tickQueue'[i - 1] = last /\ i - 1 \in DOMAIN tickQueue' BY <2>3, <2>4, <3>1
    <3> QED BY <2>1, <3>2 DEF LastInv
  <2>5. ASSUME tickQueue[1] = last, accepted # <<>> PROVE LastInv'
    <3>1. last \in Batches
      <4>1. Len(accepted) \in DOMAIN accepted BY <1>0, <2>5, LenProperties, EmptySeq
      <4> QED BY <1>0, <4>1, ElementOfSeq
    <3>2. hand' = <<last>>
      <4>1. last # Ticks!Sentinel BY <3>1, QueueAssumption DEF Ticks!Sentinel
      <4> QED BY <1>7, <2>3, <2>5, <4>1 DEF Ticks!Take
    <3>3. ingested' \o hand' = Append(ingested, last)
      BY <1>0, <2>1, <3>1, <3>2, AppendIsConcat
    <3>4. /\ DOMAIN Append(ingested, last) = 1 .. Len(ingested) + 1 /\ Len(ingested) \in Nat
          /\ Append(ingested, last)[Len(ingested) + 1] = last
      BY <1>0, <3>1, AppendProperties, LenProperties
    <3>5. Len(ingested) + 1 \in 1 .. Len(ingested) + 1 BY <3>4
    <3> QED BY <2>1, <3>3, <3>4, <3>5 DEF LastInv
  <2>6. ASSUME NEW i \in DOMAIN (ingested \o hand), (ingested \o hand)[i] = last PROVE LastInv'
    <3>1. hand' = hand \/ \E x \in Batches : hand' = <<x>>
      <4>1. Head(tickQueue) \in Entries BY <1>0, <2>1, TailTyped
      <4> QED BY <1>7, <4>1 DEF Ticks!Take, Entries
    <3>2. CASE hand' = hand BY <2>1, <2>6, <3>2 DEF LastInv
    <3>3. ASSUME NEW x \in Batches, hand' = <<x>> PROVE LastInv'
      <4>1. ingested' \o hand' = Append(ingested, x)
        BY <1>0, <2>1, <3>3, AppendIsConcat
      <4>2. /\ DOMAIN ingested = 1 .. Len(ingested) /\ Len(ingested) \in Nat
            /\ DOMAIN Append(ingested, x) = 1 .. Len(ingested) + 1
            /\ \A k \in 1 .. Len(ingested) : Append(ingested, x)[k] = ingested[k]
        BY <1>0, AppendProperties, LenProperties
      <4>3. i \in 1 .. Len(ingested) + 1 /\ Append(ingested, x)[i] = last
        BY <2>2, <2>6, <4>2
      <4> QED BY <2>1, <4>1, <4>2, <4>3 DEF LastInv
    <3> QED BY <3>1, <3>2, <3>3
  <2>7. ASSUME stopping \/ accepted = <<>> \/ \E b \in Batches : post[b] = "retry" PROVE LastInv'
    BY <2>1, <2>7 DEF LastInv
  <2> QED BY <1>1, <2>4, <2>5, <2>6, <2>7
<1>8. CASE Ticks!Ingest
  <2>1. ingested \o hand \in Seq(Batches)
    BY <1>0, ConcatProperties
  <2>2. ingested' \o hand' = ingested \o hand
    BY <1>8, <2>1, ConcatEmptySeq DEF Ticks!Ingest
  <2> QED BY <1>8, <2>2 DEF Ticks!Ingest, LastInv
<1>9. CASE Ticks!Stop \/ Ticks!Shutdown
  BY <1>9 DEF Ticks!Stop, Ticks!Shutdown, Ticks!PutSentinel, Ticks!MakeRoom,
              Ticks!PutSentinelAgain, Ticks!Joined, LastInv, LockInv
<1> QED
  BY <1>3, <1>4, <1>5, <1>6, <1>7, <1>8, <1>9
     DEF Ticks!Next, Ticks!Request, Ticks!Putting, Ticks!Consume

LEMMA TicksNext == TicksInv /\ [Ticks!Next]_Ticks!vars => TicksInv'
<1>1. ASSUME TicksInv, Ticks!Next PROVE TicksInv'
  BY <1>1, TypeNext, LastNext, OrderNext, EffectOf DEF TicksInv
<1>2. ASSUME TicksInv, UNCHANGED Ticks!vars PROVE TicksInv'
  BY <1>2 DEF Ticks!vars, TicksInv, TicksType, LockInv, OrderInv, LastInv
<1> QED BY <1>1, <1>2

-----------------------------------------------------------------------------

\* How many batches are behind one, in a queue with at most one sentinel.
LEMMA BehindIs ==
  ASSUME TicksType, NEW n, NEW p, Fits(tickQueue, accepted, n, p), NEW i \in Ticks!Waiting
  PROVE  /\ Ticks!Behind(i) \in 0 .. Len(accepted) - 1
         /\ Len(accepted) - Ticks!Behind(i) = IF i < p THEN n + i ELSE n + i - 1
<1>0. /\ Len(tickQueue) \in Nat /\ Len(accepted) \in Nat /\ DOMAIN tickQueue = 1 .. Len(tickQueue)
  BY LenProperties DEF TicksType
<1>n. Len(tickQueue) \in Nat /\ Len(accepted) \in Nat
  BY <1>0
<1>1. /\ n \in Nat /\ n <= Len(accepted) /\ p \in Nat \ {0} /\ p <= Len(tickQueue) + 1
      /\ p <= Len(tickQueue) => n + Len(tickQueue) = Len(accepted) + 1
      /\ p = Len(tickQueue) + 1 => n + Len(tickQueue) = Len(accepted)
  BY <1>0, FitsIs
<1>2. Ticks!Waiting = (1 .. Len(tickQueue)) \ {p}
  BY <1>0, FitsAt DEF Ticks!Waiting
<1>3. i \in Nat /\ 1 <= i /\ i <= Len(tickQueue) /\ i # p
  BY <1>0, <1>2
<1>4. IsFiniteSet(i + 1 .. Len(tickQueue)) /\ Cardinality(i + 1 .. Len(tickQueue)) = Len(tickQueue) - i
  BY <1>0, <1>3, FS_Interval
<1>5. {j \in Ticks!Waiting : j > i} = (i + 1 .. Len(tickQueue)) \ {p}
  BY <1>0, <1>2, <1>3
<1>6. Ticks!Behind(i) = Len(tickQueue) - i - (IF p \in i + 1 .. Len(tickQueue) THEN 1 ELSE 0)
  <2>1. Ticks!Behind(i) = Cardinality((i + 1 .. Len(tickQueue)) \ {p})
    BY <1>5 DEF Ticks!Behind, Ticks!Cardinality, Cardinality
  <2>2. CASE p \in i + 1 .. Len(tickQueue)
    BY <1>4, <2>1, <2>2, FS_RemoveElement
  <2>3. CASE p \notin i + 1 .. Len(tickQueue)
    <3>1. (i + 1 .. Len(tickQueue)) \ {p} = i + 1 .. Len(tickQueue) BY <2>3
    <3>2. Ticks!Behind(i) = Len(tickQueue) - i BY <1>4, <2>1, <3>1
    <3>3. (Len(tickQueue) - i) - 0 = Len(tickQueue) - i BY <1>n, <1>3
    <3> QED BY <2>3, <3>2, <3>3
  <2> QED BY <2>2, <2>3
<1>7. CASE i < p /\ p <= Len(tickQueue)
  <2>1. p \in i + 1 .. Len(tickQueue) BY <1>n, <1>1, <1>3, <1>7
  <2>2. Ticks!Behind(i) = Len(tickQueue) - i - 1 BY <1>6, <2>1
  <2> QED BY <1>n, <1>1, <1>3, <1>7, <2>2
<1>8. CASE i < p /\ p = Len(tickQueue) + 1
  <2>1. p \notin i + 1 .. Len(tickQueue) BY <1>n, <1>1, <1>3, <1>8
  <2>2. Ticks!Behind(i) = (Len(tickQueue) - i) - 0 BY <1>6, <2>1
  <2> QED BY <1>n, <1>1, <1>3, <1>8, <2>2
<1>9. CASE i > p
  <2>1. p \notin i + 1 .. Len(tickQueue) BY <1>n, <1>1, <1>3, <1>9
  <2>2. Ticks!Behind(i) = (Len(tickQueue) - i) - 0 BY <1>6, <2>1
  <2> QED BY <1>n, <1>1, <1>3, <1>9, <2>2
<1> QED BY <1>n, <1>1, <1>3, <1>7, <1>8, <1>9

LEMMA NewestOf == TicksInv => Ticks!NewestKept
<1> SUFFICES ASSUME TicksInv PROVE Ticks!NewestKept
  OBVIOUS
<1> USE DEF TicksInv
<1> DEFINE done == ingested \o hand
           line == done \o tickQueue
<1>0. /\ tickQueue \in Seq(Entries) /\ accepted \in Seq(Batches) /\ done \in Seq(Batches)
      /\ Len(tickQueue) \in Nat /\ Len(accepted) \in Nat /\ Len(done) \in Nat
      /\ DOMAIN tickQueue = 1 .. Len(tickQueue) /\ DOMAIN accepted = 1 .. Len(accepted)
      /\ DOMAIN done = 1 .. Len(done)
  BY LenProperties, ConcatProperties DEF TicksType
<1>1. PICK n, p : Fits(tickQueue, accepted, n, p) /\ Taken(done, accepted, n)
  BY DEF OrderInv
<1>n. Len(tickQueue) \in Nat /\ Len(accepted) \in Nat /\ Len(done) \in Nat
  BY <1>0
<1>2. /\ n \in Nat /\ n <= Len(accepted) /\ p \in Nat \ {0} /\ p <= Len(tickQueue) + 1
      /\ p <= Len(tickQueue) => n + Len(tickQueue) = Len(accepted) + 1
      /\ p = Len(tickQueue) + 1 => n + Len(tickQueue) = Len(accepted)
  BY <1>0, <1>1, FitsIs
<1> DEFINE place(i) == IF i < p THEN n + i ELSE n + i - 1
<1>3. ASSUME NEW i \in Ticks!Waiting
      PROVE  /\ i \in 1 .. Len(tickQueue) /\ i # p
             /\ tickQueue[i] = accepted[place(i)] /\ place(i) \in n + 1 .. Len(accepted)
             /\ Ticks!Behind(i) < Len(accepted) /\ place(i) = Len(accepted) - Ticks!Behind(i)
  <2>1. i \in 1 .. Len(tickQueue) /\ tickQueue[i] # Ticks!Sentinel BY <1>0 DEF Ticks!Waiting
  <2>2. /\ i # p
        /\ i < p => tickQueue[i] = accepted[n + i]
        /\ i > p => tickQueue[i] = accepted[n + i - 1]
    BY <1>1, <2>1, FitsAt
  <2>3. /\ Ticks!Behind(i) \in 0 .. Len(accepted) - 1
        /\ Len(accepted) - Ticks!Behind(i) = place(i)
    BY <1>1, BehindIs
  <2>4. tickQueue[i] = accepted[place(i)]
    BY <1>2, <2>1, <2>2
  <2>5. place(i) \in n + 1 .. Len(accepted)
    <3>1. i < p => n + i \in n + 1 .. Len(accepted) BY <1>n, <1>2, <2>1
    <3>2. i > p => n + i - 1 \in n + 1 .. Len(accepted) BY <1>n, <1>2, <2>1
    <3>3. i < p \/ i > p BY <1>n, <1>2, <2>1, <2>2
    <3>4. i > p => ~ (i < p) BY <1>n, <1>2, <2>1
    <3> QED BY <3>1, <3>2, <3>3, <3>4
  <2> HIDE DEF place
  <2> QED BY <1>0, <2>1, <2>2, <2>3, <2>4, <2>5
<1>4. \A i \in Ticks!Waiting :
        Ticks!Behind(i) < Len(accepted) /\ tickQueue[i] = accepted[Len(accepted) - Ticks!Behind(i)]
  <2> HIDE DEF place
  <2> QED BY <1>3
<1>5. /\ DOMAIN line = 1 .. Len(done) + Len(tickQueue)
      /\ \A i \in 1 .. Len(done) : line[i] = done[i]
      /\ \A i \in 1 .. Len(tickQueue) : line[Len(done) + i] = tickQueue[i]
  <2>1. \A x \in Seq(Batches) : x \in Seq(Entries)
    BY SeqMonotonic DEF Entries
  <2>2. done \in Seq(Entries) BY <1>0, <2>1
  <2>3. /\ line \in Seq(Entries) /\ Len(line) = Len(done) + Len(tickQueue)
        /\ \A i \in 1 .. Len(done) + Len(tickQueue) :
             line[i] = IF i <= Len(done) THEN done[i] ELSE tickQueue[i - Len(done)]
    <3> HIDE DEF done
    <3> QED BY <1>0, <2>2, ConcatProperties
  <2>4. DOMAIN line = 1 .. Len(line) BY <2>3, LenProperties
  <2> HIDE DEF line, done
  <2>5. ASSUME NEW i \in 1 .. Len(done) PROVE line[i] = done[i]
    <3>1. i \in 1 .. Len(done) + Len(tickQueue) /\ i <= Len(done) BY <1>0
    <3> QED BY <2>3, <3>1
  <2>6. ASSUME NEW i \in 1 .. Len(tickQueue) PROVE line[Len(done) + i] = tickQueue[i]
    <3>1. /\ Len(done) + i \in 1 .. Len(done) + Len(tickQueue) /\ ~ (Len(done) + i <= Len(done))
          /\ (Len(done) + i) - Len(done) = i
      BY <1>0
    <3> QED BY <2>3, <3>1
  <2> QED BY <2>3, <2>4, <2>5, <2>6
<1> HIDE DEF line, done, place
<1>6. ASSUME NEW i \in DOMAIN line, i \notin 1 .. Len(done), line[i] # Ticks!Sentinel
      PROVE  i - Len(done) \in Ticks!Waiting /\ line[i] = tickQueue[i - Len(done)]
  <2>1. i - Len(done) \in 1 .. Len(tickQueue) /\ Len(done) + (i - Len(done)) = i
    BY <1>0, <1>5, <1>6
  <2>2. line[i] = tickQueue[i - Len(done)] BY <1>5, <2>1
  <2> QED BY <1>0, <1>6, <2>1, <2>2 DEF Ticks!Waiting
<1>7. ASSUME NEW i \in DOMAIN line, NEW j \in DOMAIN line, i < j,
             line[i] # Ticks!Sentinel, line[j] # Ticks!Sentinel
      PROVE  Ticks!Earlier(line[i], line[j])
  <2>0. i \in Int /\ j \in Int BY <1>0, <1>5
  <2>1. CASE j \in 1 .. Len(done)
    <3>1. i \in 1 .. Len(done) BY <1>0, <1>5, <1>7, <2>1
    <3>2. Before(accepted, done[i], done[j]) BY <1>0, <1>1, <1>7, <2>1, <3>1 DEF Taken
    <3> QED BY <1>5, <2>1, <3>1, <3>2 DEF Before, Ticks!Earlier
  <2>2. CASE j \notin 1 .. Len(done)
    <3> DEFINE y == j - Len(done)
    <3>1. y \in Ticks!Waiting /\ line[j] = tickQueue[y] BY <1>6, <1>7, <2>2
    <3>2. tickQueue[y] = accepted[place(y)] /\ place(y) \in n + 1 .. Len(accepted)
          /\ y \in 1 .. Len(tickQueue) /\ y # p
      BY <1>3, <3>1
    <3>3. CASE i \in 1 .. Len(done)
      <4>1. PICK k \in 1 .. n : accepted[k] = done[i] BY <1>0, <1>1, <3>3 DEF Taken
      <4> DEFINE m == place(y)
      <4>4. m \in n + 1 .. Len(accepted) BY <3>2
      <4> HIDE DEF m
      <4>5. k \in 1 .. Len(accepted) /\ m \in 1 .. Len(accepted) /\ k < m
        BY <1>n, <1>2, <4>1, <4>4
      <4>2. k \in DOMAIN accepted /\ place(y) \in DOMAIN accepted /\ k < place(y)
        BY <1>0, <4>5 DEF m
      <4>3. accepted[k] = line[i] /\ accepted[place(y)] = line[j] BY <1>5, <3>1, <3>2, <3>3, <4>1
      <4> QED BY <4>2, <4>3 DEF Ticks!Earlier
    <3>4. CASE i \notin 1 .. Len(done)
      <4> DEFINE x == i - Len(done)
      <4>1. x \in Ticks!Waiting /\ line[i] = tickQueue[x] BY <1>6, <1>7, <3>4
      <4>2. tickQueue[x] = accepted[place(x)] /\ place(x) \in n + 1 .. Len(accepted)
            /\ x \in 1 .. Len(tickQueue) /\ x # p
        BY <1>3, <4>1
      <4>3. x < y BY <1>0, <1>7, <2>0
      <4>4. place(x) < place(y)
        <5>1. x \in Nat /\ y \in Nat BY <1>n, <3>2, <4>2
        <5> HIDE DEF x, y
        <5>2. x < p /\ ~ (y < p) => y > p BY <1>2, <3>2, <5>1
        <5> QED BY <1>2, <3>2, <4>2, <4>3, <5>1, <5>2 DEF place
      <4>5. place(x) \in DOMAIN accepted /\ place(y) \in DOMAIN accepted
        <5>1. n + 1 .. Len(accepted) \subseteq 1 .. Len(accepted) BY <1>n, <1>2
        <5> QED BY <1>0, <3>2, <4>2, <5>1
      <4> HIDE DEF x, y
      <4> QED BY <3>1, <3>2, <4>1, <4>2, <4>4, <4>5 DEF Ticks!Earlier
    <3> QED BY <3>3, <3>4
  <2> QED BY <2>1, <2>2
<1>8. \/ stopping \/ accepted = <<>> \/ \E b \in Batches : post[b] = "retry"
      \/ Ticks!Last(accepted) \in Ticks!ToSet(line)
  <2>1. CASE \E i \in DOMAIN tickQueue : tickQueue[i] = accepted[Len(accepted)]
    <3>1. PICK i \in 1 .. Len(tickQueue) : tickQueue[i] = accepted[Len(accepted)] BY <1>0, <2>1
    <3>2. Len(done) + i \in DOMAIN line BY <1>0, <1>5
    <3>3. line[Len(done) + i] = accepted[Len(accepted)] BY <1>5, <3>1
    <3> QED BY <3>2, <3>3 DEF Ticks!Last, Ticks!ToSet
  <2>2. CASE \E i \in DOMAIN done : done[i] = accepted[Len(accepted)]
    <3>1. PICK i \in 1 .. Len(done) : done[i] = accepted[Len(accepted)] BY <1>0, <2>2
    <3>2. i \in DOMAIN line BY <1>0, <1>5
    <3>3. line[i] = accepted[Len(accepted)] BY <1>5, <3>1
    <3> QED BY <3>2, <3>3 DEF Ticks!Last, Ticks!ToSet
  <2> QED BY <2>1, <2>2 DEF LastInv, done
<1>9. line = ingested \o hand \o tickQueue
  BY DEF line, done
<1> QED BY <1>4, <1>7, <1>8, <1>9 DEF Ticks!NewestKept

\* README.md:234: for any number of request threads and any size of the queue, a
\* full queue drops its oldest batch and keeps the newest, batches are ingested in
\* the order they were accepted in, and while the service runs the last one is not
\* lost.
THEOREM NewestBatches == MCSpec => []NewestKept
<1>1. MCInit => TicksInv
  BY TicksInit DEF MCInit
<1>2. TicksInv /\ [MCNext]_parts => TicksInv'
  <2>1. [MCNext]_parts => [Ticks!Next]_Ticks!vars
    BY DEF MCNext, parts, ticks, Ticks!vars
  <2> QED
    BY <2>1, TicksNext
<1>3. TicksInv => NewestKept
  BY NewestOf DEF NewestKept
<1> QED
  BY <1>1, <1>2, <1>3, PTL DEF MCSpec

-----------------------------------------------------------------------------
(* HierarchicalRepair *)

Steps  == 1 .. 5
Src(k) == Repair!STAGES[k].from
Dst(k) == Repair!STAGES[k].to
Weight(k) == Repair!STAGES[k].rank

\* Five stages; none writes what it or an earlier one read or wrote.
LEMMA StageTables ==
  /\ DOMAIN Repair!STAGES = Steps /\ Len(Repair!STAGES) = 5
  /\ \A k \in Steps : /\ Src(k) \in Repair!Timeframes /\ Dst(k) \in Repair!Timeframes
                      /\ Weight(k) \in {400, 450, 500, 520}
                      /\ SourceChunks[Src(k)] \in Nat
  /\ \A k \in Steps : \A i \in 1 .. k : Dst(k) # Src(i)
  /\ \A k \in Steps : \A i \in 1 .. k - 1 : Dst(k) # Dst(i)
<1>1. Steps = {1, 2, 3, 4, 5}
  BY DEF Steps
<1>2. /\ Src(1) = "1m" /\ Src(2) = "1m" /\ Src(3) = "1h" /\ Src(4) = "1d" /\ Src(5) = "1d"
      /\ Dst(1) = "15m" /\ Dst(2) = "1h" /\ Dst(3) = "1d" /\ Dst(4) = "1w" /\ Dst(5) = "1mo"
      /\ Weight(1) = 520 /\ Weight(2) = 500 /\ Weight(3) = 450 /\ Weight(4) = 400
      /\ Weight(5) = 400
  BY DEF Repair!STAGES, Src, Dst, Weight
<1>3. DOMAIN Repair!STAGES = Steps /\ Len(Repair!STAGES) = 5
  BY DEF Repair!STAGES, Steps
<1>4. \A k \in Steps : /\ Src(k) \in Repair!Timeframes /\ Dst(k) \in Repair!Timeframes
                       /\ Weight(k) \in {400, 450, 500, 520}
                       /\ SourceChunks[Src(k)] \in Nat
  <2>1. \A k \in Steps : Src(k) \in Repair!Timeframes /\ Dst(k) \in Repair!Timeframes
    BY <1>1, <1>2 DEF Repair!Timeframes
  <2>2. \A k \in Steps : Weight(k) \in {400, 450, 500, 520}
    BY <1>1, <1>2
  <2>3. \A tf \in {"1m", "1h", "1d"} : SourceChunks[tf] \in Nat
    BY RepairAssumption
  <2>4. \A k \in Steps : Src(k) \in {"1m", "1h", "1d"}
    BY <1>1, <1>2
  <2> QED
    BY <2>1, <2>2, <2>3, <2>4
<1>5. \A i \in 1 .. 1 : i = 1
  OBVIOUS
<1>6. \A i \in 1 .. 2 : i = 1 \/ i = 2
  OBVIOUS
<1>7. \A i \in 1 .. 3 : i = 1 \/ i = 2 \/ i = 3
  OBVIOUS
<1>8. \A i \in 1 .. 4 : i = 1 \/ i = 2 \/ i = 3 \/ i = 4
  OBVIOUS
<1>9. \A k \in Steps : \A i \in 1 .. k : i \in Steps /\ (i = k \/ i \in 1 .. k - 1)
  BY DEF Steps
<1>10. \A k \in Steps : \A i \in Steps : i <= k => Dst(k) # Src(i)
  BY <1>1, <1>2
<1>11. \A k \in Steps : \A i \in Steps : i < k => Dst(k) # Dst(i)
  BY <1>1, <1>2
<1>12. \A k \in Steps : /\ \A i \in 1 .. k : i \in Steps /\ i <= k
                        /\ \A i \in 1 .. k - 1 : i \in Steps /\ i < k
  BY DEF Steps
<1> QED
  BY <1>3, <1>4, <1>10, <1>11, <1>12

LEMMA RepairConstants ==
  /\ MaxMinute \in Nat /\ Repair!Minutes = 1 .. MaxMinute
  /\ Repair!Minutes \in SUBSET Nat
  /\ \A tf \in Repair!Timeframes : Widths[tf] \in Nat \ {0}
BY RepairAssumption DEF Repair!Minutes

\* A bucket begins with a minute of the table.
LEMMA OpensInTable ==
  ASSUME NEW m \in Repair!Minutes, NEW tf \in Repair!Timeframes
  PROVE  Repair!OpenTime(m, tf) \in Repair!Minutes
<1> DEFINE w == Widths[tf]
           q == (m - 1) \div w
<1>1. w \in Nat \ {0} /\ MaxMinute \in Nat /\ m \in 1 .. MaxMinute /\ m - 1 \in Nat
  BY RepairConstants
<1>2. q \in Nat /\ q * w <= m - 1
  <2> HIDE DEF w
  <2>1. \A a \in Nat : a \div w \in Nat /\ (a \div w) * w <= a
    BY <1>1, SMTT(60)
  <2> QED
    BY <1>1, <2>1
<1> HIDE DEF w, q
<1>3. q * w \in Nat
  BY <1>1, <1>2
<1>4. q * w + 1 \in 1 .. MaxMinute
  BY <1>1, <1>2, <1>3
<1> QED
  BY <1>4, RepairConstants DEF Repair!OpenTime, q, w

LEMMA RepairMin ==
  ASSUME NEW S \in SUBSET Repair!Minutes, S # {}
  PROVE  Repair!Min(S) \in S /\ \A m \in S : Repair!Min(S) <= m
<1>1. S \in SUBSET Nat
  BY RepairConstants
<1> QED
  BY <1>1, LeastOf DEF Repair!Min

LEMMA RepairMax ==
  ASSUME NEW S \in SUBSET Repair!Minutes, S # {}
  PROVE  Repair!Max(S) \in S /\ \A m \in S : m <= Repair!Max(S)
<1> DEFINE T == {n \in Nat : \A m \in S : m <= n}
<1>1. /\ S \in SUBSET Nat /\ MaxMinute \in Nat
      /\ \A m \in S : m <= MaxMinute
  BY RepairConstants
<1>2. MaxMinute \in T /\ T \in SUBSET Nat
  BY <1>1
<1>3. PICK n \in T : \A x \in T : n <= x
  <2> HIDE DEF T
  <2> QED
    BY <1>2, LeastOf
<1>4. n \in Nat /\ \A m \in S : m <= n
  BY <1>3
<1>5. n \in S
  <2>1. SUFFICES ASSUME n \notin S PROVE FALSE
    OBVIOUS
  <2>2. \A m \in S : m < n /\ m \in Nat
    BY <1>1, <1>4, <2>1
  <2>3. n # 0 /\ n - 1 \in Nat
    BY <1>4, <2>2
  <2>4. \A m \in S : m <= n - 1
    BY <1>4, <2>2
  <2>5. n - 1 \in T
    BY <2>3, <2>4
  <2>6. n <= n - 1
    <3> HIDE DEF T
    <3> QED
      BY <1>3, <2>5
  <2> QED
    BY <1>4, <2>6
<1> QED
  BY <1>4, <1>5 DEF Repair!Max

\* The candle of stage k that opens at b is the aggregate of those below it, or has
\* the rank of the stage.
Sources(k, b) == Repair!Source(levels[Src(k)], Dst(k), b)
Settled(k, b) ==
  Sources(k, b) # {} /\ (\A u \in Sources(k, b) : levels[Src(k)][u].complete) =>
    \/ levels[Dst(k)][b] = Repair!Build(levels[Src(k)], Sources(k, b))
    \/ Repair!RankOf(Dst(k), b) >= Weight(k)

LEMMA SettledStays ==
  ASSUME NEW k, NEW b, levels'[Src(k)] = levels[Src(k)],
         levels'[Dst(k)][b] = levels[Dst(k)][b], rank'[Dst(k)][b] = rank[Dst(k)][b],
         Settled(k, b)
  PROVE  Settled(k, b)'
<1>1. Sources(k, b)' = Sources(k, b)
  BY DEF Sources, Repair!Source
<1>2. Repair!RankOf(Dst(k), b)' = Repair!RankOf(Dst(k), b)
  BY DEF Repair!RankOf
<1>3. Repair!Build(levels'[Src(k)], Sources(k, b)') = Repair!Build(levels[Src(k)], Sources(k, b))
  BY <1>1
<1> QED
  BY <1>1, <1>2, <1>3 DEF Settled

RunFields == {"phase", "stage", "cursor", "stop", "todo", "done", "candidate"}
AtRow     == {"look", "write", "stamp"}
Ranks     == {0, 400, 450, 500, 520, 700}

RepairType ==
  /\ DOMAIN levels = Repair!Timeframes
  /\ \A tf \in Repair!Timeframes : DOMAIN levels[tf] = Repair!Minutes
  /\ rank \in [Repair!Timeframes -> [Repair!Minutes -> Ranks]]
  /\ DOMAIN run = RunFields
  /\ run.phase \in {"idle", "stage", "chunk"} \cup AtRow
  /\ run.phase # "idle" => run.stage \in Steps
  /\ run.todo \subseteq Repair!Minutes /\ run.done \subseteq Repair!Minutes
  /\ run.cursor \in Nat /\ run.stop \in Nat
  /\ run.phase \in AtRow => run.todo # {} /\ Repair!Bucket \in run.done
  /\ run.phase \in {"idle", "stage"} => run.todo = {} /\ run.done = {}
  /\ imports \in Nat

\* What the stages before have settled, or all of them.
Passed ==
  \A i \in Steps : run.phase = "idle" \/ i < run.stage =>
    \A m \in Repair!Minutes : Settled(i, Repair!OpenTime(m, Dst(i)))

\* What the stage under way has: the buckets of the source rows before the cursor
\* are settled or about to be; the one at hand is decided on its sources.
InStage ==
  run.phase \in {"chunk"} \cup AtRow =>
    /\ \A m \in Repair!Minutes : levels[Src(run.stage)][m] # Repair!Missing =>
         /\ m < run.stop
         /\ m < run.cursor => Repair!OpenTime(m, Dst(run.stage)) \in run.done \cup run.todo
    /\ \A b \in run.done : Settled(run.stage, b) \/ (run.phase \in AtRow /\ b = Repair!Bucket)
    /\ run.phase \in {"look", "write"} =>
         run.candidate = Repair!Build(levels[Src(run.stage)], Sources(run.stage, Repair!Bucket))
    /\ run.phase = "stamp" => levels[Dst(run.stage)][Repair!Bucket]
                              = Repair!Build(levels[Src(run.stage)],
                                             Sources(run.stage, Repair!Bucket))

\* What the provider said stays as long as nothing is imported.
Official ==
  imports = 0 =>
    /\ \A tf \in Repair!Timeframes, b \in Repair!Minutes :
         rank[tf][b] = Repair!Official => levels[tf][b] = Repair!Row(9)
    /\ run.phase = "write" => rank[Dst(run.stage)][Repair!Bucket] # Repair!Official

RepairInv == RepairType /\ (clean => Passed /\ InStage) /\ Official

LEMMA IdleIs ==
  /\ DOMAIN Repair!Idle = RunFields /\ Repair!Idle.phase = "idle"
  /\ Repair!Idle.todo = {} /\ Repair!Idle.done = {} /\ Repair!Idle.cursor = 0 /\ Repair!Idle.stop = 0
  /\ \A k : LET r == [Repair!Idle EXCEPT !.phase = "stage", !.stage = k] IN
       DOMAIN r = RunFields /\ r.phase = "stage" /\ r.stage = k /\ r.todo = {} /\ r.done = {}
       /\ r.cursor = 0 /\ r.stop = 0
BY DEF Repair!Idle, RunFields

LEMMA RepairInit == Repair!Init => RepairInv
<1> SUFFICES ASSUME Repair!Init PROVE RepairInv
  OBVIOUS
<1>1. PICK t \in InitialTables : levels = t.table /\ rank = t.rank
  BY DEF Repair!Init
<1>2. run = Repair!Idle /\ clean = FALSE /\ imports = 0
  BY DEF Repair!Init
<1>3. /\ DOMAIN levels = Repair!Timeframes
      /\ \A tf \in Repair!Timeframes : DOMAIN levels[tf] = Repair!Minutes
      /\ rank \in [Repair!Timeframes -> [Repair!Minutes -> Ranks]]
  BY <1>1, RepairAssumption DEF Repair!Minutes, Ranks, Repair!Official
<1>4. RepairType
  BY <1>2, <1>3, IdleIs DEF RepairType, AtRow
<1>5. Official
  BY <1>1, <1>2, IdleIs, RepairAssumption DEF Official, Repair!Minutes
<1> QED
  BY <1>2, <1>4, <1>5 DEF RepairInv

\* A run that goes on to the next stage or ends has settled the one it was at.
LEMMA NextStageKeeps ==
  ASSUME RepairInv, run.phase # "idle", run' = Repair!NextStage,
         UNCHANGED <<levels, rank, imports>>,
         clean' => clean /\ \A m \in Repair!Minutes :
                     Settled(run.stage, Repair!OpenTime(m, Dst(run.stage)))
  PROVE  RepairInv'
<1>1. run.stage \in Steps /\ Len(Repair!STAGES) = 5
  BY StageTables DEF RepairInv, RepairType
<1>2. \/ run.stage = 5 /\ run' = Repair!Idle
      \/ run.stage # 5 /\ run' = [Repair!Idle EXCEPT !.phase = "stage", !.stage = run.stage + 1]
  BY <1>1 DEF Repair!NextStage
<1>3. /\ DOMAIN run' = RunFields /\ run'.phase \in {"idle", "stage"}
      /\ run'.phase # "idle" => run'.stage = run.stage + 1 /\ run'.stage \in Steps
      /\ run'.phase = "idle" => run.stage = 5
      /\ run'.todo = {} /\ run'.done = {} /\ run'.cursor = 0 /\ run'.stop = 0
  <2>1. run.stage # 5 => run.stage + 1 \in Steps
    BY <1>1 DEF Steps
  <2>2. CASE run.stage = 5
    <3>1. run' = Repair!Idle
      BY <1>2, <2>2
    <3> QED
      BY <2>2, <3>1, IdleIs
  <2>3. CASE run.stage # 5
    <3>1. PICK k : k = run.stage + 1
      OBVIOUS
    <3>2. run' = [Repair!Idle EXCEPT !.phase = "stage", !.stage = k]
      BY <1>2, <2>3, <3>1
    <3>3. /\ DOMAIN run' = RunFields /\ run'.phase = "stage" /\ run'.stage = k
          /\ run'.todo = {} /\ run'.done = {} /\ run'.cursor = 0 /\ run'.stop = 0
      BY <3>2, IdleIs
    <3> QED
      BY <2>1, <2>3, <3>1, <3>3
  <2> QED
    BY <2>2, <2>3
<1>4. RepairType'
  BY <1>3 DEF RepairInv, RepairType, AtRow
<1>5. ASSUME clean' PROVE Passed' /\ InStage'
  <2>1. \A i \in Steps : run'.phase = "idle" \/ i < run'.stage => i < run.stage \/ i = run.stage
    BY <1>1, <1>3 DEF Steps
  <2>2. \A i, b : Settled(i, b) => Settled(i, b)'
    BY SettledStays
  <2>3. Passed'
    BY <1>5, <2>1, <2>2 DEF RepairInv, Passed
  <2> QED
    BY <1>3, <2>3 DEF InStage, AtRow
<1>6. Official'
  BY <1>3 DEF RepairInv, Official
<1> QED
  BY <1>4, <1>5, <1>6 DEF RepairInv

LEMMA StartStageKeeps ==
  ASSUME RepairInv, Repair!StartStage
  PROVE  RepairInv'
<1> DEFINE k == run.stage
           S == {m \in Repair!Minutes : levels[Repair!Stage.from][m] # Repair!Missing}
<1>1. /\ run.phase = "stage" /\ UNCHANGED <<levels, rank, clean, imports>>
      /\ run' = IF S = {} THEN Repair!NextStage
                ELSE [run EXCEPT !.phase = "chunk", !.cursor = Repair!Min(S),
                                 !.stop = Repair!Max(S) + Widths[Repair!Stage.from]]
  BY DEF Repair!StartStage
<1>2. k \in Steps /\ Repair!Stage = Repair!STAGES[k] /\ Repair!Stage.from = Src(k)
  BY <1>1 DEF RepairInv, RepairType, Repair!Stage, Src
<1> HIDE DEF S
<1>3. CASE S = {}
  <2>1. \A m \in Repair!Minutes : Settled(k, Repair!OpenTime(m, Dst(k)))
    BY <1>2, <1>3 DEF Settled, Sources, Repair!Source, S
  <2> QED
    BY <1>1, <1>3, <2>1, NextStageKeeps
<1>4. CASE S # {}
  <2>1. /\ DOMAIN run = RunFields /\ DOMAIN run' = RunFields /\ run'.phase = "chunk" /\ run'.stage = k
        /\ run'.todo = run.todo /\ run'.done = run.done
        /\ run'.cursor = Repair!Min(S) /\ run'.stop = Repair!Max(S) + Widths[Src(k)]
    BY <1>1, <1>2, <1>4 DEF RepairInv, RepairType, RunFields
  <2>2. S \in SUBSET Repair!Minutes
    BY DEF S
  <2>6. run'.cursor \in Nat /\ run'.stop \in Nat
    <3>1. Repair!Min(S) \in S /\ Repair!Max(S) \in S /\ S \in SUBSET Nat
      BY <1>4, <2>2, RepairConstants, RepairMin, RepairMax
    <3>2. Widths[Src(k)] \in Nat
      BY <1>2, StageTables, RepairConstants
    <3>3. Repair!Min(S) \in Nat /\ Repair!Max(S) \in Nat
      BY <3>1
    <3> QED
      BY <2>1, <3>2, <3>3
  <2>3. RepairType'
    BY <1>1, <1>2, <2>1, <2>6 DEF RepairInv, RepairType, AtRow
  <2>4. ASSUME clean' PROVE Passed' /\ InStage'
    <3>1. \A i, b : Settled(i, b) => Settled(i, b)'
      BY <1>1, SettledStays
    <3>2. Passed'
      BY <1>1, <2>1, <2>4, <3>1 DEF RepairInv, Passed
    <3>3. \A m \in Repair!Minutes : levels'[Src(k)][m] # Repair!Missing => m \in S
      BY <1>1, <1>2 DEF S
    <3>4. \A m \in S : m < run'.stop /\ ~ (m < run'.cursor)
      <4>1. /\ Repair!Max(S) \in S /\ Repair!Min(S) \in S
            /\ \A m \in S : m <= Repair!Max(S) /\ Repair!Min(S) <= m
        BY <1>4, <2>2, RepairMin, RepairMax
      <4>2. Widths[Src(k)] \in Nat \ {0} /\ S \in SUBSET Nat
        BY <1>2, <2>2, StageTables, RepairConstants
      <4>3. SUFFICES ASSUME NEW m \in S
                     PROVE m < Repair!Max(S) + Widths[Src(k)] /\ ~ (m < Repair!Min(S))
        BY <2>1
      <4>4. /\ m \in Nat /\ Repair!Max(S) \in Nat /\ Repair!Min(S) \in Nat
            /\ m <= Repair!Max(S) /\ Repair!Min(S) <= m /\ Widths[Src(k)] \in Nat \ {0}
        BY <4>1, <4>2
      <4> QED
        BY <4>4
    <3>5. run'.done = {}
      BY <1>1, <2>1 DEF RepairInv, RepairType
    <3> QED
      BY <2>1, <3>2, <3>3, <3>4, <3>5 DEF InStage, AtRow
  <2>5. Official'
    BY <1>1, <2>1 DEF RepairInv, Official
  <2> QED
    BY <2>3, <2>4, <2>5 DEF RepairInv
<1> QED
  BY <1>3, <1>4

\* The bucket at hand is one of the table.
LEMMA AtHand ==
  ASSUME RepairInv, run.todo # {}
  PROVE  /\ Repair!Bucket \in run.todo /\ Repair!Bucket \in Repair!Minutes
         /\ run.phase # "idle" /\ run.stage \in Steps
         /\ Repair!Stage = Repair!STAGES[run.stage]
         /\ Repair!Stage.from = Src(run.stage) /\ Repair!Stage.to = Dst(run.stage)
         /\ Repair!Stage.rank = Weight(run.stage)
BY RepairMin DEF RepairInv, RepairType, Repair!Bucket, Repair!Stage, Src, Dst, Weight

LEMMA ReadChunkKeeps ==
  ASSUME RepairInv, Repair!ReadChunk
  PROVE  RepairInv'
<1> DEFINE k == run.stage
           border == Repair!Min({run.stop, run.cursor + SourceChunks[Repair!Stage.from]})
           S == {m \in Repair!Minutes : /\ run.cursor <= m /\ m < border
                                        /\ levels[Repair!Stage.from][m] # Repair!Missing}
           T == {Repair!OpenTime(m, Repair!Stage.to) : m \in S} \ run.done
<1>1. /\ run.phase = "chunk" /\ run.todo = {} /\ UNCHANGED <<levels, rank, clean, imports>>
      /\ IF run.cursor >= run.stop THEN run' = Repair!NextStage
         ELSE run' = [run EXCEPT !.todo = T, !.cursor = border]
  BY DEF Repair!ReadChunk
<1>2. /\ k \in Steps /\ Repair!Stage = Repair!STAGES[k]
      /\ Repair!Stage.from = Src(k) /\ Repair!Stage.to = Dst(k) /\ DOMAIN run = RunFields
  BY <1>1 DEF RepairInv, RepairType, Repair!Stage, Src, Dst
<1>3. CASE run.cursor >= run.stop
  <2>1. ASSUME clean', NEW m \in Repair!Minutes
        PROVE  Settled(k, Repair!OpenTime(m, Dst(k)))
    <3> DEFINE b == Repair!OpenTime(m, Dst(k))
    <3>1. CASE Sources(k, b) = {}
      BY <3>1 DEF Settled
    <3>2. CASE Sources(k, b) # {}
      <4>1. PICK u \in Repair!Minutes :
              Repair!OpenTime(u, Dst(k)) = b /\ levels[Src(k)][u] # Repair!Missing
        BY <3>2 DEF Sources, Repair!Source
      <4>2. u < run.stop /\ (u < run.cursor => b \in run.done \cup run.todo)
        BY <1>1, <2>1, <4>1 DEF RepairInv, InStage
      <4>3. u < run.cursor
        <5>1. u \in Nat /\ run.cursor \in Nat /\ run.stop \in Nat
          BY RepairConstants DEF RepairInv, RepairType
        <5> QED
          BY <1>3, <4>2, <5>1
      <4>4. b \in run.done
        BY <1>1, <4>2, <4>3
      <4> QED
        BY <1>1, <2>1, <4>4 DEF RepairInv, InStage, AtRow
    <3> QED
      BY <3>1, <3>2
  <2> QED
    BY <1>1, <1>3, <2>1, NextStageKeeps
<1>4. CASE ~ (run.cursor >= run.stop)
  <2> HIDE DEF border
  <2>1. /\ DOMAIN run' = RunFields /\ run'.phase = "chunk" /\ run'.stage = k
        /\ run'.todo = T /\ run'.done = run.done /\ run'.cursor = border /\ run'.stop = run.stop
    <3> HIDE DEF T
    <3> QED
      BY <1>1, <1>2, <1>4 DEF RunFields
  <2>2. T \subseteq Repair!Minutes
    BY <1>2, OpensInTable, StageTables
  <2>6. border \in Nat
    <3> DEFINE two == {run.stop, run.cursor + SourceChunks[Src(k)]}
    <3>1. two \in SUBSET Nat /\ two # {}
      BY <1>2, StageTables DEF RepairInv, RepairType
    <3>2. border = Repair!Min(two)
      BY <1>2 DEF border
    <3> HIDE DEF two
    <3>3. Repair!Min(two) \in two
      BY <3>1, LeastOf DEF Repair!Min
    <3> QED
      BY <3>1, <3>2, <3>3
  <2>3. RepairType'
    <3> HIDE DEF T
    <3> QED
      BY <1>1, <1>2, <2>1, <2>2, <2>6 DEF RepairInv, RepairType, AtRow
  <2>4. ASSUME clean' PROVE Passed' /\ InStage'
    <3>1. \A i, b : Settled(i, b) => Settled(i, b)'
      BY <1>1, SettledStays
    <3>2. Passed'
      BY <1>1, <2>1, <2>4, <3>1 DEF RepairInv, Passed
    <3>3. ASSUME NEW m \in Repair!Minutes, levels'[Src(k)][m] # Repair!Missing
          PROVE  /\ m < run'.stop
                 /\ m < run'.cursor => Repair!OpenTime(m, Dst(k)) \in run'.done \cup run'.todo
      <4>1. m < run.stop /\ (m < run.cursor => Repair!OpenTime(m, Dst(k)) \in run.done)
        BY <1>1, <2>4, <3>3 DEF RepairInv, InStage
      <4>2. ASSUME m < border, ~ (m < run.cursor) PROVE m \in S
        <5>1. m \in Nat /\ run.cursor \in Nat
          BY RepairConstants DEF RepairInv, RepairType
        <5>2. run.cursor <= m
          BY <4>2, <5>1
        <5> QED
          BY <1>1, <1>2, <3>3, <4>2, <5>2
      <4>3. m \in S => Repair!OpenTime(m, Dst(k)) \in run.done \cup T
        BY <1>2
      <4> HIDE DEF S, T
      <4> QED
        BY <2>1, <4>1, <4>2, <4>3
    <3>4. \A b \in run'.done : Settled(k, b)'
      BY <1>1, <2>1, <2>4, <3>1 DEF RepairInv, InStage, AtRow
    <3> QED
      BY <2>1, <3>2, <3>3, <3>4 DEF InStage, AtRow
  <2>5. Official'
    BY <1>1, <2>1 DEF RepairInv, Official
  <2> QED
    BY <2>3, <2>4, <2>5 DEF RepairInv
<1> QED
  BY <1>3, <1>4

\* A bucket is left when it is settled.
LEMMA LeaveKeeps ==
  ASSUME RepairInv, NEW k, k = run.stage, NEW e, e = Repair!Bucket, run.todo # {},
         run.phase \in {"chunk"} \cup AtRow,
         UNCHANGED <<levels, clean, imports>>,
         rank' \in [Repair!Timeframes -> [Repair!Minutes -> Ranks]],
         \A tf \in Repair!Timeframes, b \in Repair!Minutes :
           rank'[tf][b] = rank[tf][b] \/ (rank'[tf][b] # Repair!Official /\ tf = Dst(k) /\ b = e),
         clean => Settled(k, e)',
         DOMAIN run' = RunFields, run'.phase = "chunk", run'.stage = k,
         run'.cursor = run.cursor, run'.stop = run.stop,
         run'.todo = run.todo \ {e},
         run'.done = run.done \cup {e}
  PROVE  RepairInv'
<1>1. k \in Steps /\ e \in Repair!Minutes /\ Dst(k) \in Repair!Timeframes
  BY AtHand, StageTables
<1>2. RepairType'
  BY <1>1 DEF RepairInv, RepairType, AtRow
<1>3. ASSUME clean PROVE Passed' /\ InStage'
  <2>1. ASSUME NEW i \in Steps, i < k, NEW m \in Repair!Minutes
        PROVE  Settled(i, Repair!OpenTime(m, Dst(i)))'
    <3>1. Settled(i, Repair!OpenTime(m, Dst(i)))
      BY <1>3, <2>1 DEF RepairInv, Passed
    <3>2. Dst(i) \in Repair!Timeframes /\ Dst(i) # Dst(k)
      <4>1. i \in 1 .. k - 1
        BY <1>1, <2>1 DEF Steps
      <4> QED
        BY <1>1, <4>1, StageTables
    <3>3. Repair!OpenTime(m, Dst(i)) \in Repair!Minutes
      BY <3>2, OpensInTable
    <3>4. rank'[Dst(i)][Repair!OpenTime(m, Dst(i))] = rank[Dst(i)][Repair!OpenTime(m, Dst(i))]
      BY <3>2, <3>3
    <3> QED
      BY <3>1, <3>4, SettledStays
  <2>2. Passed'
    BY <2>1 DEF Passed
  <2>3. ASSUME NEW b \in run.done, b # e PROVE Settled(k, b)'
    <3>1. Settled(k, b) /\ b \in Repair!Minutes
      BY <1>3, <2>3 DEF RepairInv, RepairType, InStage
    <3>2. rank'[Dst(k)][b] = rank[Dst(k)][b]
      BY <1>1, <2>3, <3>1
    <3> QED
      BY <3>1, <3>2, SettledStays
  <2>4. \A m \in Repair!Minutes : levels'[Src(k)][m] # Repair!Missing =>
          /\ m < run'.stop
          /\ m < run'.cursor => Repair!OpenTime(m, Dst(k)) \in run'.done \cup run'.todo
    BY <1>3 DEF RepairInv, InStage
  <2>5. \A b \in run'.done : Settled(k, b)'
    BY <1>3, <2>3
  <2> QED
    BY <2>2, <2>4, <2>5 DEF InStage, AtRow
<1>4. Official'
  BY DEF RepairInv, Official
<1> QED
  BY <1>2, <1>3, <1>4 DEF RepairInv

LEMMA ReadBucketKeeps ==
  ASSUME RepairInv, Repair!ReadBucket
  PROVE  RepairInv'
<1>6. PICK k, b : k = run.stage /\ b = Repair!Bucket
  OBVIOUS
<1> DEFINE S == Sources(k, b)
           from == levels[Src(k)]
           seen == [run EXCEPT !.done = @ \cup {b}]
<1>1. run.phase = "chunk" /\ run.todo # {} /\ UNCHANGED <<levels, rank, clean, imports>>
  BY DEF Repair!ReadBucket
<1>2. /\ k \in Steps /\ b \in run.todo /\ b \in Repair!Minutes /\ DOMAIN run = RunFields
      /\ Repair!Stage.from = Src(k) /\ Repair!Stage.to = Dst(k)
  BY <1>1, <1>6, AtHand DEF RepairInv, RepairType
<1>3. run' = IF S = {} \/ \E m \in S : ~ from[m].complete
             THEN [seen EXCEPT !.todo = @ \ {b}]
             ELSE [seen EXCEPT !.phase = "look", !.candidate = Repair!Build(from, S)]
  BY <1>2, <1>6 DEF Repair!ReadBucket, Sources
<1>4. CASE S = {} \/ \E m \in S : ~ from[m].complete
  <2>1. Settled(k, b)
    BY <1>4 DEF Settled
  <2>2. Settled(k, b)'
    BY <1>1, <2>1, SettledStays
  <2>3. /\ DOMAIN run' = RunFields /\ run'.phase = "chunk" /\ run'.stage = k
        /\ run'.cursor = run.cursor /\ run'.stop = run.stop
        /\ run'.todo = run.todo \ {b} /\ run'.done = run.done \cup {b}
    <3> HIDE DEF S, from
    <3> QED
      BY <1>1, <1>2, <1>3, <1>4, <1>6 DEF RunFields
  <2>4. rank \in [Repair!Timeframes -> [Repair!Minutes -> Ranks]]
    BY DEF RepairInv, RepairType
  <2> HIDE DEF S, from, seen
  <2> QED
    BY <1>1, <1>6, <2>2, <2>3, <2>4, LeaveKeeps
<1>5. CASE ~ (S = {} \/ \E m \in S : ~ from[m].complete)
  <2>1. /\ DOMAIN run' = RunFields /\ run'.phase = "look" /\ run'.stage = k
        /\ run'.cursor = run.cursor /\ run'.stop = run.stop
        /\ run'.todo = run.todo /\ run'.done = run.done \cup {b}
        /\ run'.candidate = Repair!Build(from, S)
    <3> DEFINE c == Repair!Build(from, S)
    <3>1. run' = [seen EXCEPT !.phase = "look", !.candidate = c]
      BY <1>3, <1>5
    <3> HIDE DEF c
    <3>2. run'.candidate = c /\ DOMAIN run' = RunFields /\ run'.phase = "look" /\ run'.stage = k
          /\ run'.cursor = run.cursor /\ run'.stop = run.stop
          /\ run'.todo = run.todo /\ run'.done = run.done \cup {b}
      BY <1>2, <1>6, <3>1 DEF RunFields
    <3> QED
      BY <3>2 DEF c
  <2>2. Repair!Bucket' = b
    BY <1>6, <2>1 DEF Repair!Bucket
  <2> HIDE DEF seen
  <2>3. RepairType'
    BY <1>1, <1>2, <1>6, <2>1, <2>2 DEF RepairInv, RepairType, AtRow
  <2>4. ASSUME clean' PROVE Passed' /\ InStage'
    <3>1. \A i, c : Settled(i, c) => Settled(i, c)'
      BY <1>1, SettledStays
    <3>2. Passed'
      BY <1>1, <1>6, <2>1, <2>4, <3>1 DEF RepairInv, Passed
    <3>3. \A c \in run'.done : Settled(k, c)' \/ c = Repair!Bucket'
      BY <1>1, <1>6, <2>1, <2>2, <2>4, <3>1 DEF RepairInv, InStage, AtRow
    <3>4. \A m \in Repair!Minutes : levels'[Src(k)][m] # Repair!Missing =>
            /\ m < run'.stop
            /\ m < run'.cursor => Repair!OpenTime(m, Dst(k)) \in run'.done \cup run'.todo
      BY <1>1, <1>6, <2>1, <2>4 DEF RepairInv, InStage
    <3>5. run'.candidate = Repair!Build(levels'[Src(k)], Sources(k, Repair!Bucket)')
      <4>1. Sources(k, Repair!Bucket)' = S
        BY <1>1, <2>2 DEF Sources
      <4> QED
        BY <1>1, <2>1, <4>1
    <3> QED
      BY <2>1, <3>2, <3>3, <3>4, <3>5 DEF InStage, AtRow
  <2>5. Official'
    BY <1>1, <2>1 DEF RepairInv, Official
  <2> QED
    BY <1>1, <2>3, <2>4, <2>5 DEF RepairInv
<1> QED
  BY <1>4, <1>5

\* One field of a run changes.
LEMMA PhaseIs ==
  ASSUME DOMAIN run = RunFields, NEW p, run' = [run EXCEPT !.phase = p]
  PROVE  /\ DOMAIN run' = RunFields /\ run'.phase = p /\ run'.stage = run.stage
         /\ run'.cursor = run.cursor /\ run'.stop = run.stop
         /\ run'.todo = run.todo /\ run'.done = run.done /\ run'.candidate = run.candidate
BY DEF RunFields

\* The bucket at hand is done with: what Next1 leaves.
LEMMA Next1Is ==
  ASSUME RepairInv, run.phase \in AtRow, run' = Repair!Next1, NEW e, e = Repair!Bucket
  PROVE  /\ DOMAIN run' = RunFields /\ run'.phase = "chunk" /\ run'.stage = run.stage
         /\ run'.cursor = run.cursor /\ run'.stop = run.stop
         /\ run'.todo = run.todo \ {e} /\ run'.done = run.done \cup {e}
<1>1. DOMAIN run = RunFields /\ e \in run.done
  BY DEF RepairInv, RepairType
<1>2. run' = [run EXCEPT !.phase = "chunk", !.todo = @ \ {e}]
  BY DEF Repair!Next1
<1> QED
  BY <1>1, <1>2 DEF RunFields

\* What the run knows at a row, for the next step of the same bucket.
LEMMA RowStepKeeps ==
  ASSUME RepairInv, run.phase \in AtRow, NEW k, k = run.stage, NEW e, e = Repair!Bucket,
         NEW p \in AtRow, run' = [run EXCEPT !.phase = p], UNCHANGED <<clean, imports, rank>>,
         DOMAIN levels' = Repair!Timeframes,
         \A tf \in Repair!Timeframes : DOMAIN levels'[tf] = Repair!Minutes,
         \A tf \in Repair!Timeframes : tf # Dst(k) => levels'[tf] = levels[tf],
         \A b \in Repair!Minutes : b # e => levels'[Dst(k)][b] = levels[Dst(k)][b],
         clean /\ p = "write" => run.candidate = Repair!Build(levels[Src(k)], Sources(k, e)),
         clean /\ p = "stamp" => levels'[Dst(k)][e] = Repair!Build(levels[Src(k)], Sources(k, e)),
         imports = 0 => rank[Dst(k)][e] # Repair!Official, p # "look"
  PROVE  RepairInv'
<1>1. /\ DOMAIN run' = RunFields /\ run'.phase = p /\ run'.stage = k
      /\ run'.cursor = run.cursor /\ run'.stop = run.stop
      /\ run'.todo = run.todo /\ run'.done = run.done /\ run'.candidate = run.candidate
  BY PhaseIs DEF RepairInv, RepairType
<1>2. /\ k \in Steps /\ e \in run.todo /\ e \in Repair!Minutes /\ e \in run.done
      /\ run.todo # {}
  BY AtHand DEF RepairInv, RepairType
<1>3. Repair!Bucket' = e
  BY <1>1 DEF Repair!Bucket
<1>4. RepairType'
  BY <1>1, <1>2, <1>3 DEF RepairInv, RepairType, AtRow
<1>5. /\ Dst(k) \in Repair!Timeframes /\ Src(k) \in Repair!Timeframes /\ Src(k) # Dst(k)
      /\ \A i \in Steps : i < k => /\ Src(i) \in Repair!Timeframes /\ Src(i) # Dst(k)
                                   /\ Dst(i) \in Repair!Timeframes /\ Dst(i) # Dst(k)
  <2>1. \A i \in Steps : i < k => i \in 1 .. k /\ i \in 1 .. k - 1
    BY <1>2 DEF Steps
  <2>2. k \in 1 .. k
    BY <1>2 DEF Steps
  <2> QED
    BY <1>2, <2>1, <2>2, StageTables
<1>6. levels'[Src(k)] = levels[Src(k)]
  BY <1>5
<1>7. Sources(k, e)' = Sources(k, e)
  BY <1>6 DEF Sources, Repair!Source
<1>8. ASSUME clean PROVE Passed' /\ InStage'
  <2>1. ASSUME NEW i \in Steps, i < k, NEW m \in Repair!Minutes
        PROVE  Settled(i, Repair!OpenTime(m, Dst(i)))'
    <3>1. Settled(i, Repair!OpenTime(m, Dst(i)))
      BY <1>8, <2>1 DEF RepairInv, Passed
    <3>2. levels'[Src(i)] = levels[Src(i)] /\ levels'[Dst(i)] = levels[Dst(i)]
      BY <1>5, <2>1
    <3> QED
      BY <3>1, <3>2, SettledStays
  <2>2. Passed'
    BY <1>1, <2>1 DEF Passed, AtRow
  <2>3. ASSUME NEW b \in run.done, b # e PROVE Settled(k, b)'
    <3>1. Settled(k, b) /\ b \in Repair!Minutes
      BY <1>8, <2>3 DEF RepairInv, RepairType, InStage
    <3> QED
      BY <1>6, <2>3, <3>1, SettledStays
  <2>4. \A m \in Repair!Minutes : levels'[Src(k)][m] # Repair!Missing =>
          /\ m < run'.stop
          /\ m < run'.cursor => Repair!OpenTime(m, Dst(k)) \in run'.done \cup run'.todo
    BY <1>1, <1>6, <1>8 DEF RepairInv, InStage
  <2>5. \A b \in run'.done : Settled(k, b)' \/ b = Repair!Bucket'
    BY <1>1, <1>3, <2>3
  <2>6. p = "write" => run'.candidate = Repair!Build(levels'[Src(k)], Sources(k, e)')
    BY <1>1, <1>6, <1>7, <1>8
  <2>7. p = "stamp" => levels'[Dst(k)][e] = Repair!Build(levels'[Src(k)], Sources(k, e)')
    BY <1>6, <1>7, <1>8
  <2>8. Sources(k, Repair!Bucket)' = Sources(k, e)'
    BY <1>3 DEF Sources
  <2> QED
    BY <1>1, <1>3, <2>2, <2>4, <2>5, <2>6, <2>7, <2>8 DEF InStage, AtRow
<1>9. Official'
  <2>1. SUFFICES ASSUME imports = 0 PROVE Official'
    BY DEF Official
  <2>2. ASSUME NEW tf \in Repair!Timeframes, NEW b \in Repair!Minutes, rank[tf][b] = Repair!Official
        PROVE  levels'[tf][b] = Repair!Row(9)
    <3>1. tf # Dst(k) \/ b # e
      BY <2>1, <2>2
    <3> QED
      BY <1>5, <2>1, <2>2, <3>1 DEF RepairInv, Official
  <2> QED
    BY <1>1, <1>3, <2>1, <2>2 DEF Official
<1> QED
  BY <1>4, <1>8, <1>9 DEF RepairInv

LEMMA LookKeeps ==
  ASSUME RepairInv, Repair!Look
  PROVE  RepairInv'
<1>0. PICK k, e : k = run.stage /\ e = Repair!Bucket
  OBVIOUS
<1> DEFINE row == levels[Dst(k)][e]
<1>1. run.phase = "look" /\ run.todo # {} /\ UNCHANGED <<levels, rank, clean, imports>>
  BY DEF Repair!Look, RepairInv, RepairType, AtRow
<1>2. /\ k \in Steps /\ e \in run.todo /\ e \in Repair!Minutes /\ DOMAIN run = RunFields
      /\ Repair!Stage.to = Dst(k) /\ Repair!Stage.rank = Weight(k)
  BY <1>0, <1>1, AtHand DEF RepairInv, RepairType
<1>3. run' = IF row = Repair!Missing \/ (row # run.candidate /\ Weight(k) > Repair!RankOf(Dst(k), e))
             THEN [run EXCEPT !.phase = "write"] ELSE Repair!Next1
  BY <1>0, <1>2 DEF Repair!Look
<1>4. /\ rank \in [Repair!Timeframes -> [Repair!Minutes -> Ranks]]
      /\ Dst(k) \in Repair!Timeframes /\ Weight(k) \in {400, 450, 500, 520}
      /\ DOMAIN levels = Repair!Timeframes
      /\ \A tf \in Repair!Timeframes : DOMAIN levels[tf] = Repair!Minutes
  BY <1>2, StageTables DEF RepairInv, RepairType
<1>5. clean => run.candidate = Repair!Build(levels[Src(k)], Sources(k, e))
  BY <1>0, <1>1 DEF RepairInv, InStage, AtRow
<1>6. CASE row = Repair!Missing \/ (row # run.candidate /\ Weight(k) > Repair!RankOf(Dst(k), e))
  <2>1. run' = [run EXCEPT !.phase = "write"]
    BY <1>3, <1>6
  <2>2. imports = 0 => rank[Dst(k)][e] # Repair!Official
    <3>1. SUFFICES ASSUME imports = 0, rank[Dst(k)][e] = Repair!Official PROVE FALSE
      OBVIOUS
    <3>2. row = Repair!Row(9)
      BY <1>2, <1>4, <3>1 DEF RepairInv, Official
    <3>3. row # Repair!Missing
      BY <3>2 DEF Repair!Row, Repair!Missing
    <3>4. Repair!RankOf(Dst(k), e) = 700
      BY <3>1 DEF Repair!RankOf, Repair!Official
    <3> QED
      BY <1>4, <1>6, <3>3, <3>4
  <2>3. "write" \in AtRow /\ run.phase \in AtRow
    BY <1>1 DEF AtRow
  <2> QED
    BY <1>0, <1>1, <1>4, <1>5, <2>1, <2>2, <2>3, RowStepKeeps
<1>7. CASE ~ (row = Repair!Missing \/ (row # run.candidate /\ Weight(k) > Repair!RankOf(Dst(k), e)))
  <2>1. run' = Repair!Next1 /\ run.phase \in AtRow
    BY <1>1, <1>3, <1>7 DEF AtRow
  <2>2. Repair!RankOf(Dst(k), e) \in Nat
    BY <1>2, <1>4 DEF Repair!RankOf, Ranks
  <2>3. clean => Settled(k, e)
    BY <1>4, <1>5, <1>7, <2>2 DEF Settled
  <2>4. clean => Settled(k, e)'
    BY <1>1, <2>3, SettledStays
  <2>5. /\ DOMAIN run' = RunFields /\ run'.phase = "chunk" /\ run'.stage = k
        /\ run'.cursor = run.cursor /\ run'.stop = run.stop
        /\ run'.todo = run.todo \ {e} /\ run'.done = run.done \cup {e}
    BY <1>0, <2>1, Next1Is
  <2> QED
    BY <1>0, <1>1, <1>4, <2>1, <2>4, <2>5, LeaveKeeps
<1> QED
  BY <1>6, <1>7

LEMMA WriteKeeps ==
  ASSUME RepairInv, Repair!Write
  PROVE  RepairInv'
<1>0. PICK k, e : k = run.stage /\ e = Repair!Bucket
  OBVIOUS
<1>1. run.phase = "write" /\ run.todo # {} /\ UNCHANGED <<rank, clean, imports>>
  BY DEF Repair!Write, RepairInv, RepairType, AtRow
<1>2. k \in Steps /\ e \in Repair!Minutes /\ Repair!Stage.to = Dst(k) /\ Dst(k) \in Repair!Timeframes
  BY <1>0, <1>1, AtHand, StageTables
<1>3. /\ levels' = [levels EXCEPT ![Dst(k)][e] = run.candidate]
      /\ run' = [run EXCEPT !.phase = "stamp"]
  BY <1>0, <1>2 DEF Repair!Write
<1>4. /\ DOMAIN levels = Repair!Timeframes
      /\ \A tf \in Repair!Timeframes : DOMAIN levels[tf] = Repair!Minutes
  BY DEF RepairInv, RepairType
<1>5. /\ DOMAIN levels' = Repair!Timeframes
      /\ \A tf \in Repair!Timeframes : tf # Dst(k) => levels'[tf] = levels[tf]
      /\ levels'[Dst(k)] = [levels[Dst(k)] EXCEPT ![e] = run.candidate]
  BY <1>2, <1>3, <1>4
<1>6. /\ \A tf \in Repair!Timeframes : DOMAIN levels'[tf] = Repair!Minutes
      /\ \A b \in Repair!Minutes : b # e => levels'[Dst(k)][b] = levels[Dst(k)][b]
      /\ levels'[Dst(k)][e] = run.candidate
  BY <1>2, <1>4, <1>5
<1>7. clean => run.candidate = Repair!Build(levels[Src(k)], Sources(k, e))
  BY <1>0, <1>1 DEF RepairInv, InStage, AtRow
<1>8. imports = 0 => rank[Dst(k)][e] # Repair!Official
  BY <1>0, <1>1 DEF RepairInv, Official
<1>9. "stamp" \in AtRow /\ run.phase \in AtRow
  BY <1>1 DEF AtRow
<1> QED
  BY <1>0, <1>1, <1>3, <1>5, <1>6, <1>7, <1>8, <1>9, RowStepKeeps

LEMMA StampKeeps ==
  ASSUME RepairInv, Repair!Stamp
  PROVE  RepairInv'
<1>0. PICK k, e : k = run.stage /\ e = Repair!Bucket
  OBVIOUS
<1>1. /\ run.phase = "stamp" /\ run.todo # {} /\ UNCHANGED <<levels, clean, imports>>
      /\ run' = Repair!Next1
  BY DEF Repair!Stamp, RepairInv, RepairType, AtRow
<1>2. /\ k \in Steps /\ e \in Repair!Minutes
      /\ Repair!Stage.to = Dst(k) /\ Repair!Stage.rank = Weight(k)
      /\ Dst(k) \in Repair!Timeframes /\ Weight(k) \in {400, 450, 500, 520}
  BY <1>0, <1>1, AtHand, StageTables
<1>3. rank' = [rank EXCEPT ![Dst(k)][e] = Weight(k)]
  BY <1>0, <1>2 DEF Repair!Stamp
<1>4. /\ rank' \in [Repair!Timeframes -> [Repair!Minutes -> Ranks]]
      /\ \A tf \in Repair!Timeframes, b \in Repair!Minutes :
           rank'[tf][b] = rank[tf][b] \/ (rank'[tf][b] = Weight(k) /\ tf = Dst(k) /\ b = e)
  <2>1. rank \in [Repair!Timeframes -> [Repair!Minutes -> Ranks]]
    BY DEF RepairInv, RepairType
  <2>2. Weight(k) \in Ranks
    BY <1>2 DEF Ranks
  <2> QED
    BY <1>2, <1>3, <2>1, <2>2
<1>5. Weight(k) # Repair!Official
  BY <1>2 DEF Repair!Official
<1>6. run.phase \in AtRow
  BY <1>1 DEF AtRow
<1>7. clean => Settled(k, e)'
  <2>1. clean => levels[Dst(k)][e] = Repair!Build(levels[Src(k)], Sources(k, e))
    BY <1>0, <1>1 DEF RepairInv, InStage, AtRow
  <2>2. Sources(k, e)' = Sources(k, e)
    BY <1>1 DEF Sources
  <2>3. clean => levels'[Dst(k)][e] = Repair!Build(levels'[Src(k)], Sources(k, e)')
    BY <1>1, <2>1, <2>2
  <2> QED
    BY <2>3 DEF Settled
<1>8. /\ DOMAIN run' = RunFields /\ run'.phase = "chunk" /\ run'.stage = k
      /\ run'.cursor = run.cursor /\ run'.stop = run.stop
      /\ run'.todo = run.todo \ {e} /\ run'.done = run.done \cup {e}
  BY <1>0, <1>1, <1>6, Next1Is
<1>9. \A tf \in Repair!Timeframes, b \in Repair!Minutes :
        rank'[tf][b] = rank[tf][b] \/ (rank'[tf][b] # Repair!Official /\ tf = Dst(k) /\ b = e)
  BY <1>4, <1>5
<1> QED
  BY <1>0, <1>1, <1>4, <1>6, <1>7, <1>8, <1>9, LeaveKeeps

\* A run that begins; one that is over, by failure or with its process.
LEMMA TurnKeeps ==
  ASSUME RepairInv, UNCHANGED <<levels, rank, imports>>,
         \/ run.phase = "idle" /\ run' = [Repair!Idle EXCEPT !.phase = "stage", !.stage = 1]
         \/ run' = Repair!Idle /\ clean' = FALSE
  PROVE  RepairInv'
<1>1. /\ DOMAIN run' = RunFields /\ run'.phase \in {"idle", "stage"}
      /\ run'.todo = {} /\ run'.done = {} /\ run'.cursor = 0 /\ run'.stop = 0
      /\ run'.phase # "idle" => run'.stage = 1
      /\ clean' => run'.phase = "stage"
  BY IdleIs
<1>2. 1 \in Steps /\ \A i \in Steps : ~ (i < 1)
  BY DEF Steps
<1>3. RepairType'
  BY <1>1, <1>2 DEF RepairInv, RepairType, AtRow
<1>4. clean' => Passed' /\ InStage'
  BY <1>1, <1>2 DEF Passed, InStage, AtRow
<1>5. Official'
  BY <1>1 DEF RepairInv, Official
<1> QED
  BY <1>3, <1>4, <1>5 DEF RepairInv

LEMMA FailKeeps ==
  ASSUME RepairInv, Repair!StageFails
  PROVE  RepairInv'
BY NextStageKeeps DEF Repair!StageFails

LEMMA ImportKeeps ==
  ASSUME RepairInv, Repair!Import(MaxMinute)
  PROVE  RepairInv'
<1>1. /\ imports' = imports + 1 /\ clean' = FALSE /\ UNCHANGED <<rank, run>>
      /\ DOMAIN levels' = Repair!Timeframes
      /\ \A tf \in Repair!Timeframes : DOMAIN levels'[tf] = Repair!Minutes
  BY Zenon DEF Repair!Import
<1>2. imports' \in Nat /\ imports' # 0
  BY <1>1 DEF RepairInv, RepairType
<1>3. Repair!Bucket' = Repair!Bucket
  BY <1>1 DEF Repair!Bucket
<1>4. RepairType'
  BY <1>1, <1>2, <1>3 DEF RepairInv, RepairType
<1> QED
  BY <1>1, <1>2, <1>4 DEF RepairInv, Official

LEMMA RepairNext == RepairInv /\ [Repair!Next]_Repair!vars => RepairInv'
<1> SUFFICES ASSUME RepairInv, [Repair!Next]_Repair!vars PROVE RepairInv'
  OBVIOUS
<1>1. ASSUME UNCHANGED Repair!repairVars PROVE RepairInv'
  <2>1. UNCHANGED <<levels, rank, run, clean, imports>>
    BY <1>1 DEF Repair!repairVars
  <2>2. Repair!Bucket' = Repair!Bucket
    BY <2>1 DEF Repair!Bucket
  <2>3. RepairType' /\ Official'
    BY <2>1, <2>2 DEF RepairInv, RepairType, Official
  <2>4. \A i, b : Settled(i, b) => Settled(i, b)'
    BY <2>1, SettledStays
  <2>5. Passed => Passed'
    BY <2>1, <2>4 DEF Passed
  <2>6. \A i, b : Sources(i, b)' = Sources(i, b)
    BY <2>1 DEF Sources
  <2>7. InStage => InStage'
    BY <2>1, <2>2, <2>4, <2>6 DEF InStage
  <2> QED
    BY <2>1, <2>3, <2>5, <2>7 DEF RepairInv
<1>2. CASE Repair!Repair
  BY <1>2, StartStageKeeps, ReadChunkKeeps, ReadBucketKeeps, LookKeeps, WriteKeeps,
     StampKeeps
     DEF Repair!Repair
<1>3. CASE Repair!StageFails
  BY <1>3, FailKeeps
<1>4. CASE Repair!TakeJob
  <2>1. run.phase = "idle"
    BY <1>4, IdleIs DEF Repair!TakeJob
  <2> QED
    BY <1>4, <2>1, TurnKeeps DEF Repair!TakeJob
<1>5. CASE Repair!Dies \/ Repair!Stopped
  BY <1>5, TurnKeeps DEF Repair!Dies, Repair!Stopped
<1>6. CASE Repair!Import(MaxMinute)
  BY <1>6, ImportKeeps
<1>7. CASE \/ \E id \in Repairs : \/ Repair!Unused(id) /\ (Repair!Submitted(id) \/ Repair!Refused(id))
                                  \/ Repair!TimesOut(id)
           \/ Repair!Answered \/ Repair!Listens \/ Repair!Stops
  BY <1>1, <1>7 DEF Repair!Submitted, Repair!Refused, Repair!TimesOut, Repair!Answered,
     Repair!Listens, Repair!Stops
<1>8. CASE UNCHANGED Repair!vars
  BY <1>1, <1>8 DEF Repair!vars
<1> QED
  BY <1>2, <1>3, <1>4, <1>5, <1>6, <1>7, <1>8 DEF Repair!Next

\* hierarchical_repair.py:37-39: for tables of any length, candles of any width and
\* sources read in pieces of any size, a run that nothing interfered with leaves each
\* candle above complete finer ones their aggregate, or one of at least the stage's
\* rank; and what the provider said stays, until an import refreshes it.
THEOREM RepairSettles == MCSpec => []RepairConverges
<1>1. MCInit => RepairInv
  BY RepairInit DEF MCInit
<1>2. RepairInv /\ [MCNext]_parts => RepairInv'
  <2>1. [MCNext]_parts => [Repair!Next]_Repair!vars
    BY DEF MCNext, parts, repair, Repair!vars, Repair!rpcVars, Repair!repairVars
  <2> QED
    BY <2>1, RepairNext
<1>3. RepairInv => RepairConverges
  <2> SUFFICES ASSUME RepairInv PROVE Repair!RepairConverges
    BY DEF RepairConverges
  <2>1. ASSUME clean, run = Repair!Idle, NEW i \in Steps, NEW m \in Repair!Minutes
        PROVE  Settled(i, Repair!OpenTime(m, Dst(i)))
    BY <2>1, IdleIs DEF RepairInv, Passed
  <2>2. ASSUME imports = 0
        PROVE  \A tf \in Repair!Timeframes, b \in Repair!Minutes :
                 rank[tf][b] = Repair!Official => levels[tf][b] = Repair!Row(9)
    BY <2>2 DEF RepairInv, Official
  <2> QED
    BY <2>1, <2>2, StageTables DEF Repair!RepairConverges, Settled, Sources, Src, Dst,
                                   Weight
<1> QED
  BY <1>1, <1>2, <1>3, PTL DEF MCSpec

-----------------------------------------------------------------------------
(* Scheduler: the types *)

Stages  == {"none", "task", "completed", "failed"}
Results == {"never", "completed", "failed"}
Jobs    == [stage : Stages, name : Schedules \cup {""}, started : 0 .. MaxClock]

\* The loop has schedules to run, and who runs one has one to run.
ScheduleTyped ==
  /\ clock \in 0 .. MaxClock
  /\ schedules \in [Schedules -> [enabled : BOOLEAN, next : 0 .. (MaxClock + Interval),
                                  last : Results]]
  /\ loop \in {"look", "run", "asleep", "clear", "ended", "dead"}
  /\ dueSchedules \in Seq(Schedules)
  /\ job \in [Maintenance!Actors -> Jobs]
  /\ \A a \in Maintenance!Actors : job[a].stage # "none" => job[a].name \in Schedules

\* A step of one run that leaves the others alone.
LEMMA JobTyped ==
  ASSUME ScheduleTyped, NEW a \in Maintenance!Actors, NEW j \in Jobs,
         j.stage # "none" => j.name \in Schedules, job' = [job EXCEPT ![a] = j]
  PROVE  /\ job' \in [Maintenance!Actors -> Jobs]
         /\ \A b \in Maintenance!Actors : job'[b].stage # "none" => job'[b].name \in Schedules
<1>1. job \in [Maintenance!Actors -> Jobs]
  BY DEF ScheduleTyped
<1>2. job'[a] = j /\ \A b \in Maintenance!Actors \ {a} : job'[b] = job[b]
  BY <1>1
<1>3. job' \in [Maintenance!Actors -> Jobs]
  BY <1>1
<1> QED
  BY <1>2, <1>3 DEF ScheduleTyped

LEMMA JobFacts ==
  ASSUME ScheduleTyped, NEW a \in Maintenance!Actors
  PROVE  /\ job[a] \in Jobs /\ DOMAIN job = Maintenance!Actors
         /\ job[a].started \in 0 .. MaxClock /\ Maintenance!NoJob \in Jobs
         /\ \A s \in Stages : /\ [job[a] EXCEPT !.stage = s] \in Jobs
                              /\ [job[a] EXCEPT !.stage = s].stage = s
                              /\ [job[a] EXCEPT !.stage = s].name = job[a].name
         /\ Maintenance!NoJob.stage = "none"
<1>1. job \in [Maintenance!Actors -> Jobs]
  BY DEF ScheduleTyped
<1>2. job[a] \in Jobs /\ DOMAIN job = Maintenance!Actors
  BY <1>1
<1>3. 0 \in 0 .. MaxClock
  BY ScheduleAssumption
<1>4. Maintenance!NoJob \in Jobs /\ Maintenance!NoJob.stage = "none"
  BY <1>3 DEF Maintenance!NoJob, Jobs, Stages
<1>5. job[a] \in [stage : Stages, name : Schedules \cup {""}, started : 0 .. MaxClock]
  BY <1>2 DEF Jobs
<1>6. job[a].started \in 0 .. MaxClock
  BY <1>5
<1>7. \A s \in Stages : /\ [job[a] EXCEPT !.stage = s] \in Jobs
                        /\ [job[a] EXCEPT !.stage = s].stage = s
                        /\ [job[a] EXCEPT !.stage = s].name = job[a].name
  BY <1>5 DEF Jobs
<1> QED
  BY <1>2, <1>4, <1>6, <1>7

\* What is raised ends the run, and the loop if it is the loop's.
LEMMA RaisedTyped ==
  ASSUME ScheduleTyped, NEW a \in Maintenance!Actors, Maintenance!Raised(a),
         clock' = clock,
         schedules' \in [Schedules -> [enabled : BOOLEAN, next : 0 .. (MaxClock + Interval),
                                      last : Results]]
  PROVE  ScheduleTyped'
<1>1. job' = [job EXCEPT ![a] = Maintenance!NoJob]
  BY DEF Maintenance!Raised
<1>2. loop' \in {loop, "dead"} /\ dueSchedules' \in Seq(Schedules)
  BY DEF Maintenance!Raised, ScheduleTyped
<1>3. Maintenance!NoJob \in Jobs /\ Maintenance!NoJob.stage = "none"
  BY JobFacts
<1>4. /\ job' \in [Maintenance!Actors -> Jobs]
      /\ \A b \in Maintenance!Actors : job'[b].stage # "none" => job'[b].name \in Schedules
  BY <1>1, <1>3, JobTyped
<1>5. loop' \in {"look", "run", "asleep", "clear", "ended", "dead"}
  BY <1>2 DEF ScheduleTyped
<1> QED
  BY <1>2, <1>4, <1>5 DEF ScheduleTyped

\* The instances count as this module does.
LEMMA CountsAlike ==
  ASSUME NEW S
  PROVE  Maintenance!Cardinality(S) = Cardinality(S) /\ Repair!Cardinality(S) = Cardinality(S)
BY DEF Maintenance!Cardinality, Repair!Cardinality, Cardinality

\* Schedules that are due come in a sequence.
LEMMA DueTyped ==
  ASSUME NEW s \in Maintenance!DueOrders
  PROVE  s \in Seq(Schedules)
<1> DEFINE S == {n \in Schedules : Maintenance!IsDue(n)}
           k == Cardinality(S)
<1>1. S \in SUBSET Schedules
  OBVIOUS
<1>2. k \in Nat
  BY <1>1, ScheduleAssumption, FS_Subset, FS_CardinalityType
<1>3. s \in Maintenance!SetToSeqs(S)
  BY DEF Maintenance!DueOrders
<1>4. s \in [1 .. k -> S]
  BY <1>3, CountsAlike DEF Maintenance!SetToSeqs
<1> HIDE DEF k
<1>5. s \in [1 .. k -> Schedules]
  BY <1>4
<1> QED
  BY <1>2, <1>5, SeqDef

LEMMA LookTyped ==
  ASSUME ScheduleTyped, Maintenance!Look
  PROVE  ScheduleTyped'
<1>1. Maintenance!Loop \in Maintenance!Actors
  BY DEF Maintenance!Actors
<1> DEFINE j == [job[Maintenance!Loop] EXCEPT !.started = clock]
<1>2. clock \in 0 .. MaxClock /\ clock' = clock /\ schedules' = schedules
  BY DEF Maintenance!Look, ScheduleTyped
<1>3. job[Maintenance!Loop] \in Jobs
      /\ (job[Maintenance!Loop].stage # "none" => job[Maintenance!Loop].name \in Schedules)
  BY <1>1, JobFacts DEF ScheduleTyped
<1>4. j \in Jobs /\ j.stage = job[Maintenance!Loop].stage /\ j.name = job[Maintenance!Loop].name
  BY <1>2, <1>3 DEF Jobs
<1>5. CASE job' = [job EXCEPT ![Maintenance!Loop].started = clock]
           /\ dueSchedules' \in Maintenance!DueOrders /\ loop' = "run"
  <2>1. job' = [job EXCEPT ![Maintenance!Loop] = j]
    BY <1>5
  <2> HIDE DEF j
  <2>2. /\ job' \in [Maintenance!Actors -> Jobs]
        /\ \A b \in Maintenance!Actors : job'[b].stage # "none" => job'[b].name \in Schedules
    BY <1>1, <1>3, <1>4, <2>1, JobTyped
  <2>3. dueSchedules' \in Seq(Schedules)
    BY <1>5, DueTyped
  <2> QED
    BY <1>2, <1>5, <2>2, <2>3 DEF ScheduleTyped
<1>6. CASE UNCHANGED <<job, dueSchedules>> /\ loop' \in {"ended", "dead"}
  BY <1>2, <1>6 DEF ScheduleTyped
<1> QED
  BY <1>5, <1>6 DEF Maintenance!Look

LEMMA BeginTyped ==
  ASSUME ScheduleTyped, Maintenance!Begin
  PROVE  ScheduleTyped'
<1>1. Maintenance!Loop \in Maintenance!Actors
  BY DEF Maintenance!Actors
<1>2. clock' = clock /\ schedules' = schedules /\ dueSchedules # <<>>
      /\ dueSchedules \in Seq(Schedules)
  BY DEF Maintenance!Begin, ScheduleTyped
<1>3. Head(dueSchedules) \in Schedules /\ Tail(dueSchedules) \in Seq(Schedules)
  BY <1>2, HeadTailProperties
<1> DEFINE j == [job[Maintenance!Loop] EXCEPT !.stage = "task", !.name = Head(dueSchedules)]
<1>4. CASE /\ job' = [job EXCEPT ![Maintenance!Loop].stage = "task",
                                ![Maintenance!Loop].name = Head(dueSchedules)]
           /\ dueSchedules' = Tail(dueSchedules) /\ loop' = loop
  <2>1. job[Maintenance!Loop] \in Jobs /\ job \in [Maintenance!Actors -> Jobs]
    BY <1>1, JobFacts DEF ScheduleTyped
  <2>2. j \in Jobs /\ j.name \in Schedules
    BY <1>3, <2>1 DEF Jobs, Stages
  <2>3. job' = [job EXCEPT ![Maintenance!Loop] = j]
    BY <1>1, <1>4, <2>1
  <2> HIDE DEF j
  <2>4. /\ job' \in [Maintenance!Actors -> Jobs]
        /\ \A b \in Maintenance!Actors : job'[b].stage # "none" => job'[b].name \in Schedules
    BY <1>1, <2>2, <2>3, JobTyped
  <2> QED
    BY <1>2, <1>3, <1>4, <2>4 DEF ScheduleTyped
<1>5. CASE Maintenance!Raised(Maintenance!Loop)
  BY <1>1, <1>2, <1>5, RaisedTyped DEF ScheduleTyped
<1> QED
  BY <1>4, <1>5 DEF Maintenance!Begin

LEMMA TaskTyped ==
  ASSUME ScheduleTyped, NEW a \in Maintenance!Actors, Maintenance!Task(a)
  PROVE  ScheduleTyped'
<1>1. /\ job[a].stage = "task" /\ UNCHANGED <<clock, schedules, loop, dueSchedules>>
      /\ \E s \in {"completed", "failed"} : job' = [job EXCEPT ![a].stage = s]
  BY DEF Maintenance!Task, Maintenance!Stage
<1>2. PICK s \in {"completed", "failed"} : job' = [job EXCEPT ![a] = [job[a] EXCEPT !.stage = s]]
  BY <1>1
<1>3. s \in Stages /\ job[a].name \in Schedules
  BY <1>1 DEF Stages, ScheduleTyped
<1> DEFINE j == [job[a] EXCEPT !.stage = s]
<1>4. j \in Jobs /\ j.name \in Schedules
  BY <1>3, JobFacts
<1> HIDE DEF j
<1>5. /\ job' \in [Maintenance!Actors -> Jobs]
      /\ \A b \in Maintenance!Actors : job'[b].stage # "none" => job'[b].name \in Schedules
  BY <1>2, <1>4, JobTyped DEF j
<1> QED
  BY <1>1, <1>5 DEF ScheduleTyped

LEMMA CompleteTyped ==
  ASSUME ScheduleTyped, NEW a \in Maintenance!Actors, Maintenance!Complete(a)
  PROVE  ScheduleTyped'
<1> DEFINE Table == [Schedules -> [enabled : BOOLEAN, next : 0 .. (MaxClock + Interval),
                                   last : Results]]
           n == job[a].name
           next == job[a].started + Interval
           last == job[a].stage
<1>1. /\ last \in {"completed", "failed"} /\ clock' = clock
      /\ \/ schedules' = schedules
         \/ schedules' = [schedules EXCEPT ![n].next = next, ![n].last = last]
      /\ \/ /\ UNCHANGED <<loop, dueSchedules>>
            /\ \/ Maintenance!Stage(a, "failed")
               \/ \E t \in {0, job[a].started} :
                    job' = [job EXCEPT ![a] = [Maintenance!NoJob EXCEPT !.started = t]]
         \/ Maintenance!Raised(a)
  BY Zenon DEF Maintenance!Complete
<1>2. n \in Schedules /\ schedules \in Table
  BY <1>1 DEF ScheduleTyped
<1>3. next \in 0 .. (MaxClock + Interval)
  <2>1. job[a].started \in 0 .. MaxClock
    BY JobFacts
  <2> QED
    BY <2>1, ScheduleAssumption
<1> HIDE DEF n, next
<1>4. schedules' \in Table
  <2>1. CASE schedules' = [schedules EXCEPT ![n].next = next, ![n].last = last]
    <3> DEFINE row == [schedules[n] EXCEPT !.next = next, !.last = last]
    <3>1. last \in Results
      BY <1>1 DEF Results
    <3>2. schedules[n] \in [enabled : BOOLEAN, next : 0 .. (MaxClock + Interval), last : Results]
      BY <1>2
    <3> HIDE DEF last
    <3>3. row \in [enabled : BOOLEAN, next : 0 .. (MaxClock + Interval), last : Results]
      BY <1>3, <3>1, <3>2
    <3>4. schedules' = [schedules EXCEPT ![n] = row]
      BY <1>2, <2>1
    <3> HIDE DEF row
    <3> QED
      BY <1>2, <3>3, <3>4
  <2> QED
    BY <1>1, <1>2, <2>1
<1>5. CASE Maintenance!Raised(a)
  BY <1>1, <1>4, <1>5, RaisedTyped
<1>6. CASE UNCHANGED <<loop, dueSchedules>> /\ Maintenance!Stage(a, "failed")
  <2> DEFINE j == [job[a] EXCEPT !.stage = "failed"]
  <2>1. job' = [job EXCEPT ![a] = j]
    BY <1>6 DEF Maintenance!Stage
  <2>2. j \in Jobs /\ j.name \in Schedules
    BY <1>2, JobFacts DEF Stages, n
  <2> HIDE DEF j
  <2>3. /\ job' \in [Maintenance!Actors -> Jobs]
        /\ \A b \in Maintenance!Actors : job'[b].stage # "none" => job'[b].name \in Schedules
    BY <2>1, <2>2, JobTyped
  <2> QED
    BY <1>1, <1>4, <1>6, <2>3 DEF ScheduleTyped
<1>7. ASSUME UNCHANGED <<loop, dueSchedules>>, NEW t \in {0, job[a].started},
             job' = [job EXCEPT ![a] = [Maintenance!NoJob EXCEPT !.started = t]]
      PROVE  ScheduleTyped'
  <2> DEFINE j == [Maintenance!NoJob EXCEPT !.started = t]
  <2>1. t \in 0 .. MaxClock
    BY JobFacts, ScheduleAssumption
  <2>2. j \in Jobs /\ j.stage = "none"
    BY <2>1 DEF Maintenance!NoJob, Jobs, Stages
  <2>3. job' = [job EXCEPT ![a] = j]
    BY <1>7
  <2> HIDE DEF j
  <2>4. /\ job' \in [Maintenance!Actors -> Jobs]
        /\ \A b \in Maintenance!Actors : job'[b].stage # "none" => job'[b].name \in Schedules
    BY <2>2, <2>3, JobTyped
  <2> QED
    BY <1>1, <1>4, <1>7, <2>4 DEF ScheduleTyped
<1> QED
  BY <1>1, <1>5, <1>6, <1>7

\* A request: a run in its own thread, or another time for a schedule.
LEMMA RequestTyped ==
  ASSUME ScheduleTyped, NEW n \in Schedules,
         \/ \E c \in Runners : Maintenance!RunNow(c, n)
         \/ \E enabled, immediately \in BOOLEAN : Maintenance!Upsert(n, enabled, immediately)
  PROVE  ScheduleTyped'
<1>1. clock \in 0 .. MaxClock /\ schedules \in [Schedules ->
        [enabled : BOOLEAN, next : 0 .. (MaxClock + Interval), last : Results]]
  BY DEF ScheduleTyped
<1>2. ASSUME NEW c \in Runners, Maintenance!RunNow(c, n) PROVE ScheduleTyped'
  <2> DEFINE j == [stage |-> "task", name |-> n, started |-> clock]
  <2>1. job' = [job EXCEPT ![c] = j] /\ UNCHANGED <<clock, schedules, loop, dueSchedules>>
        /\ c \in Maintenance!Actors
    BY <1>2 DEF Maintenance!RunNow, Maintenance!Actors
  <2>2. j \in Jobs /\ j.name \in Schedules
    BY <1>1 DEF Jobs, Stages
  <2> HIDE DEF j
  <2>3. /\ job' \in [Maintenance!Actors -> Jobs]
        /\ \A b \in Maintenance!Actors : job'[b].stage # "none" => job'[b].name \in Schedules
    BY <2>1, <2>2, JobTyped
  <2> QED
    BY <2>1, <2>3 DEF ScheduleTyped
<1>3. ASSUME NEW enabled \in BOOLEAN, NEW immediately \in BOOLEAN,
             Maintenance!Upsert(n, enabled, immediately)
      PROVE  ScheduleTyped'
  <2> DEFINE next == clock + (IF immediately THEN 0 ELSE Interval)
             row == [schedules[n] EXCEPT !.enabled = enabled, !.next = next]
  <2>1. UNCHANGED <<clock, loop, dueSchedules, job>>
    BY <1>3 DEF Maintenance!Upsert
  <2>2. next \in 0 .. (MaxClock + Interval)
    BY <1>1, ScheduleAssumption
  <2>3. schedules' = [schedules EXCEPT ![n].enabled = enabled, ![n].next = next]
    BY <1>3 DEF Maintenance!Upsert
  <2> HIDE DEF next
  <2>4. row \in [enabled : BOOLEAN, next : 0 .. (MaxClock + Interval), last : Results]
    <3>1. schedules[n] \in [enabled : BOOLEAN, next : 0 .. (MaxClock + Interval), last : Results]
      BY <1>1
    <3> QED
      BY <2>2, <3>1
  <2>5. schedules' = [schedules EXCEPT ![n] = row]
    BY <1>1, <2>3
  <2> HIDE DEF row
  <2>6. schedules' \in [Schedules -> [enabled : BOOLEAN, next : 0 .. (MaxClock + Interval),
                                     last : Results]]
    BY <1>1, <2>4, <2>5
  <2> QED
    BY <2>1, <2>6 DEF ScheduleTyped
<1> QED
  BY <1>2, <1>3

LEMMA ScheduleNext ==
  ASSUME ScheduleTyped, [Maintenance!Next]_Maintenance!vars
  PROVE  ScheduleTyped'
<1>1. CASE Maintenance!Sleep \/ Maintenance!Awake \/ Maintenance!Clear
  BY <1>1 DEF Maintenance!Sleep, Maintenance!Awake, Maintenance!Clear, ScheduleTyped
<1>2. CASE Maintenance!Wake \/ Maintenance!Stop
  BY <1>2 DEF Maintenance!Wake, Maintenance!Stop, ScheduleTyped
<1>3. CASE Maintenance!Tick
  <2>1. clock' \in 0 .. MaxClock
    BY <1>3, ScheduleAssumption DEF Maintenance!Tick, ScheduleTyped
  <2> QED
    BY <1>3, <2>1 DEF Maintenance!Tick, ScheduleTyped
<1>4. CASE UNCHANGED Maintenance!vars
  BY <1>4 DEF Maintenance!vars, ScheduleTyped
<1>5. Maintenance!Loop \in Maintenance!Actors /\ Runners \subseteq Maintenance!Actors
  BY DEF Maintenance!Actors
<1> QED
  BY <1>1, <1>2, <1>3, <1>4, <1>5, LookTyped, BeginTyped, TaskTyped, CompleteTyped, RequestTyped
     DEF Maintenance!Next, Maintenance!Polling

LEMMA ScheduleInit == Maintenance!Init => ScheduleTyped
<1> SUFFICES ASSUME Maintenance!Init PROVE ScheduleTyped
  OBVIOUS
<1>1. 0 \in 0 .. MaxClock /\ 1 \in 0 .. (MaxClock + Interval)
  BY ScheduleAssumption
<1>2. Maintenance!NoJob \in Jobs /\ Maintenance!NoJob.stage = "none"
  BY <1>1 DEF Maintenance!NoJob, Jobs, Stages
<1>3. <<>> \in Seq(Schedules)
  OBVIOUS
<1> QED
  BY <1>1, <1>2, <1>3 DEF Maintenance!Init, ScheduleTyped, Results

-----------------------------------------------------------------------------
(* HierarchicalRepair: the types *)

RowType == [count : Nat, complete : BOOLEAN]
Table   == [Repair!Minutes -> RowType]

\* Rows are counts of ticks, and what a run is about to write is one.
RowsTyped ==
  /\ levels \in [Repair!Timeframes -> Table]
  /\ run.candidate \in RowType
  /\ waiting \subseteq Repairs /\ clean \in BOOLEAN

\* The ticks of some minutes are counted: there are finitely many.
LEMMA BuildTyped ==
  ASSUME NEW rows \in Table, NEW S \in SUBSET Repair!Minutes
  PROVE  Repair!Build(rows, S) \in RowType
<1> DEFINE of == [m \in S |-> {m} \X (1 .. rows[m].count)]
           T == {of[m] : m \in S}
<1>1. IsFiniteSet(S)
  <2>1. IsFiniteSet(1 .. MaxMinute)
    BY RepairConstants, FS_Interval
  <2> QED
    BY <2>1, FS_Subset DEF Repair!Minutes
<1>2. \A m \in S : IsFiniteSet(of[m])
  <2>1. SUFFICES ASSUME NEW m \in S PROVE IsFiniteSet({m} \X (1 .. rows[m].count))
    OBVIOUS
  <2>2. rows[m] \in RowType
    BY DEF Table
  <2>3. rows[m].count \in Int
    BY <2>2 DEF RowType
  <2>4. IsFiniteSet(1 .. rows[m].count)
    BY <2>3, FS_Interval
  <2>5. IsFiniteSet({m})
    BY FS_Singleton
  <2> QED
    BY <2>4, <2>5, FS_Product
<1>3. of \in Surjection(S, T)
  BY DEF Surjection
<1>4. IsFiniteSet(T) /\ \A t \in T : IsFiniteSet(t)
  <2>1. \A t \in T : IsFiniteSet(t)
    BY <1>2
  <2> HIDE DEF of, T
  <2> QED
    BY <1>1, <1>3, <2>1, FS_Surjection
<1>5. Repair!TicksOf(rows, S) = UNION T
  BY DEF Repair!TicksOf
<1> HIDE DEF T
<1>6. IsFiniteSet(Repair!TicksOf(rows, S))
  BY <1>4, <1>5, FS_UNION
<1>7. Repair!Cardinality(Repair!TicksOf(rows, S)) \in Nat
  BY <1>6, CountsAlike, FS_CardinalityType
<1> QED
  BY <1>7 DEF Repair!Build, RowType

LEMMA RunTyped ==
  ASSUME RepairInv, RowsTyped, Repair!Repair \/ Repair!StageFails
  PROVE  RowsTyped'
<1>1. /\ DOMAIN run = RunFields /\ run.candidate \in RowType
      /\ Repair!Missing \in RowType /\ levels \in [Repair!Timeframes -> Table]
  BY DEF RepairInv, RepairType, RowsTyped, Repair!Missing, RowType
<1>2. Repair!NextStage.candidate \in RowType
  BY <1>1 DEF Repair!NextStage, Repair!Idle
<1>3. Repair!Next1.candidate = run.candidate
  BY <1>1 DEF Repair!Next1, RunFields
<1>4. UNCHANGED waiting /\ clean' \in {clean, FALSE}
  BY DEF Repair!Repair, Repair!StageFails, Repair!StartStage, Repair!ReadChunk,
     Repair!ReadBucket, Repair!Look, Repair!Write, Repair!Stamp, Repair!rpcVars
<1>5. ASSUME levels' = levels, run'.candidate \in RowType PROVE RowsTyped'
  BY <1>4, <1>5 DEF RowsTyped
<1>6. CASE Repair!StartStage
  <2>1. levels' = levels
    BY <1>6 DEF Repair!StartStage
  <2>2. run' = Repair!NextStage \/ \E c, e : run' = [run EXCEPT !.phase = "chunk", !.cursor = c, !.stop = e]
    BY <1>6, Zenon DEF Repair!StartStage
  <2>3. \A c, e : [run EXCEPT !.phase = "chunk", !.cursor = c, !.stop = e].candidate = run.candidate
    BY <1>1 DEF RunFields
  <2> QED
    BY <1>1, <1>2, <1>5, <2>1, <2>2, <2>3
<1>7. CASE Repair!ReadChunk
  <2>1. levels' = levels
    BY <1>7 DEF Repair!ReadChunk
  <2>2. run' = Repair!NextStage \/ \E t, e : run' = [run EXCEPT !.todo = t, !.cursor = e]
    BY <1>7, Zenon DEF Repair!ReadChunk
  <2>3. \A t, e : [run EXCEPT !.todo = t, !.cursor = e].candidate = run.candidate
    BY <1>1 DEF RunFields
  <2> QED
    BY <1>1, <1>2, <1>5, <2>1, <2>2, <2>3
<1>8. CASE Repair!ReadBucket
  <2> DEFINE rows == levels[Repair!Stage.from]
             S == Repair!Source(rows, Repair!Stage.to, Repair!Bucket)
             seen == [run EXCEPT !.done = @ \cup {Repair!Bucket}]
  <2>1. levels' = levels
    BY <1>8 DEF Repair!ReadBucket
  <2>2. \/ run' = [seen EXCEPT !.todo = @ \ {Repair!Bucket}]
        \/ run' = [seen EXCEPT !.phase = "look", !.candidate = Repair!Build(rows, S)]
    BY <1>8, Zenon DEF Repair!ReadBucket
  <2>3. Repair!Build(rows, S) \in RowType
    <3>1. run.phase # "idle" /\ Repair!Stage.from \in Repair!Timeframes
      BY <1>8, StageTables DEF Repair!ReadBucket, RepairInv, RepairType, Repair!Stage, Src
    <3>2. rows \in Table /\ S \in SUBSET Repair!Minutes
      BY <1>1, <3>1 DEF Repair!Source
    <3> HIDE DEF rows, S
    <3> QED
      BY <3>2, BuildTyped
  <2>4. DOMAIN seen = RunFields /\ seen.candidate = run.candidate
    BY <1>1 DEF RunFields
  <2> HIDE DEF seen, rows, S
  <2>5. run'.candidate \in {run.candidate, Repair!Build(rows, S)}
    BY <2>2, <2>4 DEF RunFields
  <2> QED
    BY <1>1, <1>5, <2>1, <2>3, <2>5
<1>9. CASE Repair!Look
  <2>1. levels' = levels
    BY <1>9 DEF Repair!Look
  <2>2. run' = Repair!Next1 \/ run' = [run EXCEPT !.phase = "write"]
    BY <1>9, Zenon DEF Repair!Look
  <2>3. [run EXCEPT !.phase = "write"].candidate = run.candidate
    BY <1>1 DEF RunFields
  <2> QED
    BY <1>1, <1>3, <1>5, <2>1, <2>2, <2>3
<1>10. CASE Repair!Write
  <2>1. /\ levels' = [levels EXCEPT ![Repair!Stage.to][Repair!Bucket] = run.candidate]
        /\ run' = [run EXCEPT !.phase = "stamp"]
    BY <1>10 DEF Repair!Write
  <2>2. levels' \in [Repair!Timeframes -> Table]
    BY <1>1, <2>1 DEF Table
  <2>3. run'.candidate = run.candidate
    BY <1>1, <2>1 DEF RunFields
  <2> QED
    BY <1>1, <1>4, <2>2, <2>3 DEF RowsTyped
<1>11. CASE Repair!Stamp
  BY <1>1, <1>3, <1>5, <1>11 DEF Repair!Stamp
<1>12. CASE Repair!StageFails
  BY <1>2, <1>5, <1>12 DEF Repair!StageFails
<1> QED
  BY <1>6, <1>7, <1>8, <1>9, <1>10, <1>11, <1>12 DEF Repair!Repair

\* The server's side: the jobs it waits for, and the minutes it imports.
LEMMA ServerTyped ==
  ASSUME RepairInv, RowsTyped,
         \/ \E id \in Repairs : \/ Repair!Unused(id) /\ (Repair!Submitted(id) \/ Repair!Refused(id))
                               \/ Repair!TimesOut(id)
         \/ Repair!TakeJob \/ Repair!Answered \/ Repair!Dies \/ Repair!Listens \/ Repair!Stops
         \/ Repair!Stopped \/ Repair!Import(MaxMinute)
  PROVE  RowsTyped'
<1>1. /\ levels \in [Repair!Timeframes -> Table] /\ run.candidate \in RowType
      /\ waiting \subseteq Repairs /\ clean \in BOOLEAN
  BY DEF RowsTyped
<1>2. Repair!Missing \in RowType /\ Repair!Idle.candidate = Repair!Missing
      /\ [Repair!Idle EXCEPT !.phase = "stage", !.stage = 1].candidate = Repair!Missing
  BY DEF Repair!Missing, RowType, Repair!Idle
<1>3. CASE Repair!Import(MaxMinute)
  <2> DEFINE minutes == [levels EXCEPT !["1m"][MaxMinute] = Repair!Row(2)]
  <2>1. minutes \in [Repair!Timeframes -> Table]
    <3>1. Repair!Row(2) \in RowType
      BY DEF Repair!Row, RowType
    <3> QED
      BY <1>1, <3>1 DEF Table
  <2>2. UNCHANGED <<run, waiting>> /\ clean' = FALSE
    BY <1>3 DEF Repair!Import, Repair!rpcVars
  <2>3. levels' = [tf \in Repair!Timeframes |-> [b \in Repair!Minutes |->
           IF tf # "1m" /\ Repair!OpenTime(MaxMinute, tf) = b
           THEN Repair!Build(minutes["1m"], Repair!Source(minutes["1m"], tf, b))
           ELSE minutes[tf][b]]]
    BY <1>3, Zenon DEF Repair!Import
  <2> HIDE DEF minutes
  <2>4. minutes["1m"] \in Table
    BY <2>1 DEF Repair!Timeframes
  <2>5. \A tf, b : Repair!Build(minutes["1m"], Repair!Source(minutes["1m"], tf, b)) \in RowType
    <3> TAKE tf, b
    <3>1. Repair!Source(minutes["1m"], tf, b) \in SUBSET Repair!Minutes
      BY DEF Repair!Source
    <3> QED
      BY <2>4, <3>1, BuildTyped
  <2>6. \A tf \in Repair!Timeframes, b \in Repair!Minutes : minutes[tf][b] \in RowType
    BY <2>1 DEF Table
  <2>7. levels' \in [Repair!Timeframes -> Table]
    BY <2>3, <2>5, <2>6 DEF Table
  <2> QED
    BY <1>1, <2>2, <2>7 DEF RowsTyped
<1>4. CASE Repair!TakeJob
  BY <1>1, <1>2, <1>4 DEF Repair!TakeJob, Repair!Execute, RowsTyped
<1>5. CASE Repair!Dies
  BY <1>1, <1>2, <1>5 DEF Repair!Dies, Repair!Crash, RowsTyped
<1>6. CASE Repair!Stopped
  BY <1>1, <1>2, <1>6 DEF Repair!Stopped, Repair!Finish, RowsTyped
<1>7. ASSUME NEW id \in Repairs,
             Repair!Submitted(id) \/ Repair!Refused(id) \/ Repair!TimesOut(id)
      PROVE  RowsTyped'
  BY <1>1, <1>7 DEF Repair!Submitted, Repair!Submit, Repair!Refused, Repair!Refuse,
     Repair!TimesOut, Repair!Expire, Repair!repairVars, RowsTyped
<1>8. CASE Repair!Answered \/ Repair!Stops
  BY <1>1, <1>8 DEF Repair!Answered, Repair!Reply, Repair!Stops, Repair!ShutDown,
     Repair!repairVars, RowsTyped
<1>9. CASE Repair!Listens
  <2>1. waiting' \subseteq waiting
    BY <1>9 DEF Repair!Listens, Repair!Collect
  <2> QED
    BY <1>1, <1>9, <2>1 DEF Repair!Listens, Repair!repairVars, RowsTyped
<1> QED
  BY <1>3, <1>4, <1>5, <1>6, <1>7, <1>8, <1>9

LEMMA RowsNext ==
  ASSUME RepairInv, RowsTyped, [Repair!Next]_Repair!vars
  PROVE  RowsTyped'
<1>1. CASE UNCHANGED Repair!vars
  BY <1>1 DEF Repair!vars, Repair!rpcVars, Repair!repairVars, RowsTyped
<1> QED
  BY <1>1, RunTyped, ServerTyped DEF Repair!Next

LEMMA RowsInit == Repair!Init => RowsTyped
<1> SUFFICES ASSUME Repair!Init PROVE RowsTyped
  OBVIOUS
<1>1. PICK t \in InitialTables : levels = t.table
  BY DEF Repair!Init
<1>2. levels \in [Repair!Timeframes -> Table]
  BY <1>1, RepairAssumption DEF Table, RowType, Repair!Minutes
<1>3. run = Repair!Idle /\ clean = FALSE /\ waiting = {}
  BY DEF Repair!Init, Repair!RpcInit
<1>4. run.candidate \in RowType
  BY <1>3 DEF Repair!Idle, Repair!Missing, RowType
<1> QED
  BY <1>2, <1>3, <1>4 DEF RowsTyped

-----------------------------------------------------------------------------
(* All of them *)

\* An invariant of a service holds in the behaviours of the others too.
AllInv ==
  /\ TicksInv /\ IInv /\ Bounded /\ Workers!Typed
  /\ ScheduleTyped /\ PlanInv /\ RepairInv /\ RowsTyped

LEMMA AllNext ==
  ASSUME MaxEvents \in Nat, QueueSize \in Nat \ {0}, AllInv, [MCNext]_parts
  PROVE  AllInv'
<1>1. [Ticks!Next]_Ticks!vars
  BY DEF MCNext, parts, ticks, Ticks!vars
<1>2. [Next]_vars
  BY DEF MCNext, parts, stream
<1>3. [Workers!Next]_Workers!vars
  BY WorkersNext DEF MCNext, parts, super, Workers!vars
<1>4. [Maintenance!Next]_Maintenance!vars
  BY DEF MCNext, parts, schedule, Maintenance!vars
<1>5. [Plan!Next]_Plan!vars
  BY DEF MCNext, parts, plan, Plan!vars
<1>6. [Repair!Next]_Repair!vars
  BY DEF MCNext, parts, repair, Repair!vars, Repair!rpcVars, Repair!repairVars
<1>7. TicksInv' /\ IInv' /\ Bounded'
  BY <1>1, <1>2, TicksNext, HubNext, BoundedNext DEF AllInv
<1>8. Workers!Typed'
  BY <1>3, Workers!TypedNext DEF AllInv
<1>9. ScheduleTyped' /\ PlanInv'
  BY <1>4, <1>5, ScheduleNext, PlanNext DEF AllInv
<1>10. RepairInv' /\ RowsTyped'
  BY <1>6, RepairNext, RowsNext DEF AllInv
<1> QED
  BY <1>7, <1>8, <1>9, <1>10 DEF AllInv

LEMMA AllTyped ==
  ASSUME AllInv
  PROVE  AllTypes
<1>1. Ticks!TypeOK
  BY DEF AllInv, TicksInv, TicksType, Entries, Ticks!TypeOK
<1>2. TypeOK
  BY DEF AllInv, IInv, Types, Bounded, TypeOK, Deliveries
<1>3. Supervisor!TypeOK
  <2>1. Workers!TypeOK
    BY Workers!TypedGivesTypes DEF AllInv
  <2> QED
    BY <2>1 DEF Workers!TypeOK, Supervisor!TypeOK, Workers!Nobody, Supervisor!Nobody
<1>4. Maintenance!TypeOK
  <2>1. \A a \in Maintenance!Actors : job[a].stage \in Stages
    BY DEF AllInv, ScheduleTyped, Jobs
  <2> QED
    BY <2>1 DEF AllInv, ScheduleTyped, Stages, Results, Maintenance!TypeOK
<1>5. Plan!TypeOK
  BY DEF AllInv, PlanInv, PlanTyped, Plan!TypeOK
<1>6. Repair!TypeOK
  <2>1. \A tf \in Repair!Timeframes, m \in Repair!Minutes :
          levels[tf][m] \in RowType /\ rank[tf][m] \in Ranks
    BY DEF AllInv, RepairInv, RepairType, RowsTyped, Table
  <2>2. \A tf \in Repair!Timeframes, m \in Repair!Minutes :
          /\ levels[tf][m].count \in Nat /\ levels[tf][m].complete \in BOOLEAN
          /\ rank[tf][m] \in {0, 400, 450, 500, 520, Repair!Official}
    BY <2>1 DEF RowType, Ranks, Repair!Official
  <2> QED
    BY <2>2 DEF AllInv, RepairInv, RepairType, RowsTyped, AtRow, Repair!TypeOK
<1> QED
  BY <1>1, <1>2, <1>3, <1>4, <1>5, <1>6 DEF AllTypes

\* Whatever the services go through, each keeps its variables of their types: the queues
\* within their size (bridge.py:199-217, streaming.py:88-98), the threads of worker objects
\* that exist (runtime.py), the times of the schedules (storage.py:1072-1082) and
\* the rows of the candle tables (hierarchical_repair.py).
THEOREM ServicesTyped ==
  ASSUME MaxEvents \in Nat, QueueSize \in Nat \ {0}
  PROVE  MCSpec => []AllTypes
<1>1. MCInit => AllInv
  <2>1. MCInit => Workers!Init
    BY DEF MCInit, Supervisor!Init, Workers!Init, Workers!NoCall, Supervisor!NoCall,
           Supervisor!Nobody, Workers!Nobody
  <2>2. Init => Bounded
    BY DEF Init, Bounded
  <2> QED
    BY <2>1, <2>2, TicksInit, InitIInv, Workers!TypedInit, ScheduleInit, PlanInit, RepairInit,
       RowsInit DEF MCInit, AllInv
<1>2. AllInv /\ [MCNext]_parts => AllInv'
  BY AllNext
<1>3. AllInv => AllTypes
  BY AllTyped
<1> QED
  BY <1>1, <1>2, <1>3, PTL DEF MCSpec
==============================================================================
