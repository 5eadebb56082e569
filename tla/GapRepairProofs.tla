--------------------------- MODULE GapRepairProofs ---------------------------
(***************************************************************************)
(* What a scan has covered stays accounted for, for every number of        *)
(* threads, times and operations.  A time is accounted for while it has a  *)
(* candle, or an open gap, or waits to be recorded by a scan that has      *)
(* cleared it; and no resolved gap hides it.                               *)
(***************************************************************************)
EXTENDS GapRepair, WellFoundedInduction, TLAPS

GapRecord == [id : Nat, from : Times, resolved : BOOLEAN]
Kinds  == {"none", "scan", "repair", "rebuild"}
Phases == {"none", "fetch", "read", "clear", "record", "check", "write"}
Tasks  == [kind : Kinds, phase : Phases, window : SUBSET Times, first : Nat,
           seen : SUBSET (Times \cup GapRecord), todo : SUBSET (Times \cup GapRecord),
           counts : SUBSET Times]

TaskTyped(r) ==
  /\ r \in Tasks /\ r.counts \subseteq r.window
  /\ r.kind = "scan" => IF r.phase = "record" THEN r.todo \subseteq Times ELSE r.first \in Times
  /\ r.kind = "rebuild" => r.seen \subseteq Times
  /\ r.kind = "repair" => r.seen \subseteq GapRecord /\ r.todo \subseteq GapRecord

Typed ==
  /\ candles \subseteq Times /\ scanned \subseteq Times
  /\ ids \in Nat /\ gaps \subseteq GapRecord
  /\ task \in [Threads -> Tasks] /\ \A a \in Threads : TaskTyped(task[a])

\* A repair knows its gaps by ids that are not given to others.
Identifies(r) ==
  r.kind = "repair" => \A g \in r.todo \cup r.seen :
    g.id \in 1..ids /\ \A h \in gaps : h.id = g.id => h.from = g.from

Identified ==
  /\ \A g \in gaps : g.id \in 1..ids
  /\ \A g, h \in gaps : g.from = h.from \/ g.id = h.id => g = h
  /\ \A a \in Threads : Identifies(task[a])

\* A time is accounted for.
Recording(a) == Phase(a, "scan", "record")
OpenGap(t) == \E g \in gaps : g.from = t /\ ~g.resolved
NoStale(t) == \A g \in gaps : g.from = t => ~g.resolved
Waiting(t) == \E a \in Threads : Recording(a) /\ t \in task[a].window /\ t \in task[a].todo
Covered(t) ==
  \/ t \in candles
  \/ NoStale(t) /\ (t \in Open => OpenGap(t) \/ Waiting(t))

\* What was covered is accounted for, also by the scan that still records; what a scan
\* that is about to clear has seen is there, unless it no longer counts.
Coverage ==
  /\ \A t \in scanned : Covered(t)
  /\ \A a \in Threads : Recording(a) => \A t \in task[a].counts : Covered(t)
  /\ \A a \in Threads : Phase(a, "scan", "clear") => task[a].seen \cap task[a].counts \subseteq candles

IInv == Typed /\ Identified /\ Coverage
-----------------------------------------------------------------------------

\* A set of naturals has a least element.
LEMMA LeastOf ==
  ASSUME NEW S \in SUBSET Nat, S # {}
  PROVE  \E m \in S : \A n \in S : m <= n
<1> DEFINE R == OpToRel(<, Nat)
<1>1. PICK m \in S : \A n \in S : ~ (<<n, m>> \in R)
  <2>1. IsWellFoundedOn(R, Nat)
    BY NatLessThanWellFounded
  <2> HIDE DEF R
  <2> QED
    BY <2>1, WFMin
<1>2. ASSUME NEW n \in S
      PROVE  m <= n
  <2>1. ~ (<<n, m>> \in R)
    BY <1>1
  <2>2. <<n, m>> \in Nat \X Nat /\ n \in Nat /\ m \in Nat
    OBVIOUS
  <2>3. ~ (n < m)
    BY <2>1, <2>2 DEF OpToRel
  <2> QED
    BY <2>2, <2>3
<1> QED
  BY <1>2

\* The time a scan records next is one it has left.
LEMMA MinOf ==
  ASSUME NEW S \in SUBSET Nat, S # {}
  PROVE  Min(S) \in S
BY LeastOf DEF Min

\* The gap a repair looks at is one of those it has left.
LEMMA EarliestOf ==
  ASSUME MaxTime \in Nat, NEW S \in SUBSET GapRecord, S # {}
  PROVE  (CHOOSE h \in S : \A k \in S : h.from <= k.from) \in S
<1> DEFINE F == {h.from : h \in S}
<1>1. F \in SUBSET Nat /\ F # {}
  BY DEF GapRecord, Times
<1>2. PICK m \in F : \A n \in F : m <= n
  <2> HIDE DEF F
  <2> QED
    BY <1>1, LeastOf
<1>3. \E h \in S : \A k \in S : h.from <= k.from
  BY <1>2
<1> QED
  BY <1>3

-----------------------------------------------------------------------------

\* Nothing is covered.
LEMMA InitInv ==
  ASSUME MaxTime \in Nat
  PROVE  Init => IInv
BY DEF Init, IInv, Typed, TaskTyped, Identified, Identifies, Coverage, NoTask, Tasks, Kinds,
       Phases, Recording, Phase, GapRecord

\* What a thread's new task is, and that the others have theirs.
LEMMA SetTask ==
  ASSUME Typed, NEW a \in Threads, NEW r \in Tasks, Do(a, r)
  PROVE  /\ task' \in [Threads -> Tasks]
         /\ task'[a] = r
         /\ \A b \in Threads \ {a} : task'[b] = task[b]
BY DEF Do, Typed

\* ... or theirs but for what no longer counts.
LEMMA SetTaskTaking ==
  ASSUME Typed, NEW a \in Threads, NEW r \in Tasks, NEW S, DoTaking(a, r, S)
  PROVE  /\ task' \in [Threads -> Tasks]
         /\ task'[a] = r
         /\ \A b \in Threads \ {a} : task'[b] = Uncounted(task[b], S)
BY DEF DoTaking, Uncounted, Typed, Tasks

\* A task of which some times no longer count.
LEMMA UncountedTask ==
  ASSUME NEW r, TaskTyped(r), NEW S
  PROVE  /\ Uncounted(r, S) \in Tasks /\ TaskTyped(Uncounted(r, S))
         /\ Uncounted(r, S).kind = r.kind /\ Uncounted(r, S).phase = r.phase
         /\ Uncounted(r, S).window = r.window /\ Uncounted(r, S).first = r.first
         /\ Uncounted(r, S).seen = r.seen /\ Uncounted(r, S).todo = r.todo
         /\ Uncounted(r, S).counts = r.counts \ S
BY DEF Uncounted, TaskTyped, Tasks

\* A thread that neither begins nor ends recording, while no gap changes and no
\* candle goes.
LEMMA QuietStep ==
  ASSUME IInv, NEW a \in Threads, NEW r \in Tasks, Do(a, r), TaskTyped(r), Identifies(r),
         ~ Recording(a), ~ (r.kind = "scan" /\ r.phase = "record"),
         r.kind = "scan" /\ r.phase = "clear" => r.seen \cap r.counts \subseteq candles,
         candles \subseteq candles', candles' \subseteq Times,
         UNCHANGED <<gaps, ids, scanned>>
  PROVE  IInv'
<1>1. /\ task' \in [Threads -> Tasks] /\ task'[a] = r
      /\ \A b \in Threads \ {a} : task'[b] = task[b]
  BY SetTask DEF IInv
<1>2. Typed'
  BY <1>1 DEF IInv, Typed, TaskTyped
<1>3. Identified'
  BY <1>1 DEF IInv, Identified, Identifies
<1>4. \A b \in Threads : Recording(b)' <=> Recording(b) /\ b # a
  BY <1>1 DEF Recording, Phase
<1>5. \A t : Covered(t) => Covered(t)'
  BY <1>1, <1>4 DEF Covered, NoStale, OpenGap, Waiting
<1>6. Coverage'
  BY <1>1, <1>4, <1>5 DEF IInv, Coverage, Phase
<1> QED
  BY <1>2, <1>3, <1>6 DEF IInv

\* An operation begins.
LEMMA CallStep ==
  ASSUME IInv, NEW a \in Threads, NEW r \in Tasks, Call(a, r), TaskTyped(r), Identifies(r),
         r.phase \in {"fetch", "read"}
  PROVE  IInv'
<1>1. ~ Recording(a)
  BY DEF Call, NoTask, Recording, Phase
<1> QED
  BY <1>1, QuietStep DEF Call, IInv, Typed

\* Nothing under way.
LEMMA NoTaskTyped ==
  /\ NoTask \in Tasks /\ TaskTyped(NoTask) /\ Identifies(NoTask)
  /\ NoTask.kind = "none" /\ NoTask.todo = {} /\ NoTask.seen = {} /\ NoTask.counts = {}
BY DEF NoTask, Tasks, Kinds, Phases, TaskTyped, Identifies

LEMMA BackfillStep ==
  ASSUME IInv, NEW a \in Threads, NEW lo \in Times, NEW hi \in lo..MaxTime,
         MaxTime \in Nat, Backfill(a, lo, hi)
  PROVE  IInv'
<1> DEFINE r == [NoTask EXCEPT !.kind = "scan", !.phase = "fetch", !.window = lo..hi, !.first = lo]
<1>1. lo \in Nat /\ lo..hi \in SUBSET Times
  BY DEF Times
<1>2. r \in Tasks /\ r.kind = "scan" /\ r.phase = "fetch" /\ r.first = lo /\ r.counts = {}
  BY <1>1, NoTaskTyped DEF Tasks, Kinds, Phases
<1>3. Call(a, r)
  BY DEF Backfill
<1> HIDE DEF r
<1> QED
  BY <1>2, <1>3, CallStep DEF TaskTyped, Identifies

LEMMA RebuildStep ==
  ASSUME IInv, NEW a \in Threads, NEW lo \in Times, NEW hi \in lo..MaxTime,
         MaxTime \in Nat, Rebuild(a, lo, hi)
  PROVE  IInv'
<1> DEFINE r == [NoTask EXCEPT !.kind = "rebuild", !.phase = "fetch", !.window = lo..hi]
<1>1. lo..hi \in SUBSET Times
  BY DEF Times
<1>2. r \in Tasks /\ r.kind = "rebuild" /\ r.phase = "fetch" /\ r.seen = {} /\ r.counts = {}
  BY <1>1, NoTaskTyped DEF Tasks, Kinds, Phases
<1>3. Call(a, r)
  BY DEF Rebuild
<1> HIDE DEF r
<1> QED
  BY <1>2, <1>3, CallStep DEF TaskTyped, Identifies

LEMMA ScanStep ==
  ASSUME IInv, NEW a \in Threads, NEW lo \in Times, NEW aligned \in BOOLEAN,
         MaxTime \in Nat, Scan(a, lo, aligned)
  PROVE  IInv'
<1> DEFINE w == (IF aligned THEN lo ELSE lo + 1)..MaxTime
           r == [NoTask EXCEPT !.kind = "scan", !.phase = "read", !.first = lo, !.window = w]
<1>1. lo \in Nat /\ w \in SUBSET Times
  BY DEF Times
<1>2. r \in Tasks /\ r.kind = "scan" /\ r.phase = "read" /\ r.first = lo /\ r.counts = {}
  <2> HIDE DEF w
  <2> QED
    BY <1>1, NoTaskTyped DEF Tasks, Kinds, Phases
<1>3. Call(a, r)
  BY DEF Scan
<1> HIDE DEF r
<1> QED
  BY <1>2, <1>3, CallStep DEF TaskTyped, Identifies

LEMMA RepairGapsStep ==
  ASSUME IInv, NEW a \in Threads, RepairGaps(a)
  PROVE  IInv'
<1> DEFINE chosen == Earliest({g \in gaps : ~g.resolved})
           r == [NoTask EXCEPT !.kind = "repair", !.phase = "fetch", !.todo = chosen, !.seen = chosen]
<1>1. chosen \subseteq gaps
  BY DEF Earliest
<1> HIDE DEF chosen
<1>2. r \in Tasks /\ TaskTyped(r)
  BY <1>1 DEF IInv, Typed, TaskTyped, Tasks, Kinds, Phases, NoTask
<1>3. Identifies(r)
  BY <1>1 DEF IInv, Identified, Identifies, NoTask
<1>4. Call(a, r)
  BY DEF RepairGaps, chosen
<1> QED
  BY <1>2, <1>3, <1>4, CallStep DEF NoTask

\* The steps of a task that only move it on: it keeps its type and its gaps.
LEMMA MoveStep ==
  ASSUME IInv, NEW a \in Threads, NEW r \in Tasks, Do(a, r), ~ Recording(a),
         r.kind = task[a].kind, r.first = task[a].first, r.counts \subseteq r.window,
         r.todo \subseteq task[a].todo \cup task[a].seen,
         r.kind = "scan" => r.phase # "record",
         r.kind # "scan" => r.seen \subseteq task[a].seen,
         r.kind = "scan" /\ r.phase = "clear" => r.seen \cap r.counts \subseteq candles,
         candles \subseteq candles', candles' \subseteq Times,
         UNCHANGED <<gaps, ids, scanned>>
  PROVE  IInv'
<1>1. TaskTyped(task[a]) /\ Identifies(task[a])
  BY DEF IInv, Typed, Identified
<1>2. TaskTyped(r) /\ Identifies(r)
  BY <1>1 DEF TaskTyped, Identifies, Recording, Phase
<1> QED
  BY <1>2, QuietStep

\* Fetches and reads, rebuilds that write, repairs that end.
LEMMA QuietSteps ==
  ASSUME MaxTime \in Nat, IInv, NEW a \in Threads,
         \/ Upsert(a) \/ Read(a) \/ FetchWindow(a) \/ FetchedAll(a) \/ Repaired(a)
         \/ WriteAccepted(a)
  PROVE  IInv'
<1>1. task[a] \in Tasks /\ TaskTyped(task[a])
  BY DEF IInv, Typed
<1>2. NoTask \in Tasks /\ TaskTyped(NoTask) /\ Identifies(NoTask) /\ NoTask.kind = "none"
  BY NoTaskTyped
<1>3. candles \subseteq Times
  BY DEF IInv, Typed
<1>4. CASE Upsert(a)
  <2> DEFINE r == [task[a] EXCEPT !.phase = "read"]
  <2>1. r \in Tasks
    BY <1>1 DEF Tasks, Phases
  <2>2. ~ Recording(a)
    BY <1>4 DEF Upsert, Phase, Recording
  <2>3. candles \subseteq candles' /\ candles' \subseteq Times
    BY <1>1, <1>3, <1>4 DEF Upsert, Fetched, Tasks
  <2> QED
    BY <1>1, <1>4, <2>1, <2>2, <2>3, MoveStep DEF Upsert, TaskTyped, Tasks, Phase
<1>5. CASE Read(a)
  <2> DEFINE r == [task[a] EXCEPT !.phase = "clear", !.seen = candles \cap task[a].window,
                                 !.counts = task[a].window]
  <2>1. r \in Tasks
    BY <1>1, <1>3 DEF Tasks, Phases
  <2>2. ~ Recording(a)
    BY <1>5 DEF Read, Phase, Recording
  <2> QED
    BY <1>1, <1>3, <1>5, <2>1, <2>2, MoveStep DEF Read, Tasks, Phase
<1>6. CASE FetchWindow(a)
  <2> DEFINE window == Window(task[a].todo)
             r == [task[a] EXCEPT !.todo = @ \ window]
  <2>1. window \subseteq task[a].todo
    BY DEF Window
  <2>2. task[a].todo \subseteq GapRecord
    BY <1>1, <1>6 DEF FetchWindow, Phase, TaskTyped
  <2>3. {g.from : g \in window} \subseteq Times
    BY <2>1, <2>2 DEF GapRecord
  <2> HIDE DEF window
  <2>4. Do(a, r) /\ candles \subseteq candles' /\ candles' \subseteq Times
    BY <1>3, <1>6, <2>3 DEF FetchWindow, Fetched, window
  <2>5. r \in Tasks
    BY <1>1 DEF Tasks
  <2>6. ~ Recording(a)
    BY <1>6 DEF FetchWindow, Phase, Recording
  <2> QED
    BY <1>1, <1>6, <2>4, <2>5, <2>6, MoveStep DEF FetchWindow, TaskTyped, Tasks, Phase
<1>7. CASE FetchedAll(a)
  <2> DEFINE r == [task[a] EXCEPT !.phase = "check", !.todo = task[a].seen, !.seen = {}]
  <2>1. r \in Tasks
    BY <1>1 DEF Tasks, Phases
  <2>2. ~ Recording(a)
    BY <1>7 DEF FetchedAll, Phase, Recording
  <2> QED
    BY <1>1, <1>3, <1>7, <2>1, <2>2, MoveStep DEF FetchedAll, TaskTyped, Tasks, Phase
<1>8. CASE Repaired(a)
  BY <1>2, <1>3, <1>8, QuietStep DEF Repaired, Phase, Recording
<1>9. CASE WriteAccepted(a)
  <2>1. candles \subseteq candles' /\ candles' \subseteq Times
    BY <1>1, <1>3, <1>9 DEF WriteAccepted, Phase, TaskTyped
  <2> QED
    BY <1>2, <1>9, <2>1, QuietStep DEF WriteAccepted, Phase, Recording
<1> QED
  BY <1>4, <1>5, <1>6, <1>7, <1>8, <1>9

-----------------------------------------------------------------------------

\* clear_gaps: the times that still count are accounted for, the others are taken back.
LEMMA ClearStep ==
  ASSUME MaxTime \in Nat, IInv, NEW a \in Threads, Clear(a)
  PROVE  IInv'
<1> DEFINE w == task[a].window
           k == task[a].counts
           S == w \ k
           r == [task[a] EXCEPT !.phase = "record", !.seen = {}, !.first = 0,
                   !.todo = (Open \cap (w \cup {task[a].first})) \ task[a].seen]
<1>1. task[a] \in Tasks /\ TaskTyped(task[a]) /\ task[a].kind = "scan" /\ task[a].phase = "clear"
  BY DEF IInv, Typed, Clear, Phase
<1>2. /\ task[a].first \in Times /\ w \subseteq Times /\ k \subseteq w
      /\ task[a].seen \cap k \subseteq candles
  BY <1>1 DEF TaskTyped, Tasks, IInv, Coverage, Phase
<1>3. r \in Tasks /\ TaskTyped(r)
  BY <1>1, <1>2 DEF TaskTyped, Tasks, Phases
<1>4. /\ r.kind = "scan" /\ r.phase = "record" /\ r.window = w /\ r.counts = k
      /\ r.todo = (Open \cap (w \cup {task[a].first})) \ task[a].seen
  BY <1>1 DEF Tasks
<1>5. /\ DoTaking(a, r, S) /\ gaps' = {g \in gaps : g.from \notin w}
      /\ scanned' = scanned \ S /\ UNCHANGED <<candles, ids, calls>>
  BY DEF Clear, DoTaking
<1> HIDE DEF r, w, k, S
<1>6. /\ task' \in [Threads -> Tasks] /\ task'[a] = r
      /\ \A b \in Threads \ {a} : task'[b] = Uncounted(task[b], S)
  BY <1>3, <1>5, SetTaskTaking DEF IInv
<1>7. \A b \in Threads \ {a} :
        /\ TaskTyped(task'[b]) /\ task'[b].kind = task[b].kind /\ task'[b].phase = task[b].phase
        /\ task'[b].window = task[b].window /\ task'[b].seen = task[b].seen
        /\ task'[b].todo = task[b].todo /\ task'[b].counts = task[b].counts \ S
  BY <1>6, UncountedTask DEF IInv, Typed
<1>8. Typed'
  <2>1. \A b \in Threads : TaskTyped(task'[b])
    BY <1>3, <1>6, <1>7
  <2> QED
    BY <1>5, <1>6, <2>1 DEF IInv, Typed, TaskTyped
<1>9. Identified'
  <2>1. \A b \in Threads : Identifies(task[b])'
    BY <1>4, <1>5, <1>6, <1>7 DEF IInv, Identified, Identifies
  <2> QED
    BY <1>5, <2>1 DEF IInv, Identified
<1>10. \A b \in Threads : Recording(b)' <=> Recording(b) \/ b = a
  BY <1>4, <1>6, <1>7 DEF Recording, Phase
<1>11. \A t \in k : Covered(t)'
  <2> SUFFICES ASSUME NEW t \in k, t \notin candles, t \in Open
               PROVE  Waiting(t)'
    BY <1>2, <1>5 DEF Covered, NoStale
  <2>1. t \in w /\ t \notin task[a].seen
    BY <1>2
  <2> QED
    BY <1>4, <1>6, <1>10, <2>1 DEF Waiting
<1>12. \A t : t \notin S /\ Covered(t) => Covered(t)'
  <2> SUFFICES ASSUME NEW t, t \notin w, Covered(t)
               PROVE  Covered(t)'
    BY <1>11 DEF S
  <2>1. Waiting(t) => Waiting(t)'
    BY <1>1, <1>6, <1>7, <1>10 DEF Waiting, Recording, Phase
  <2> QED
    BY <1>5, <2>1 DEF Covered, NoStale, OpenGap
<1>13. Coverage'
  <2>1. \A t \in scanned' : Covered(t)'
    BY <1>5, <1>12 DEF IInv, Coverage
  <2>2. ASSUME NEW b \in Threads, Recording(b)', NEW t \in task'[b].counts
        PROVE  Covered(t)'
    <3>1. CASE b = a
      BY <1>4, <1>6, <1>11, <2>2, <3>1
    <3>2. CASE b # a
      BY <1>7, <1>10, <1>12, <2>2, <3>2 DEF IInv, Coverage
    <3> QED
      BY <3>1, <3>2
  <2>3. \A b \in Threads : Phase(b, "scan", "clear")' =>
          task'[b].seen \cap task'[b].counts \subseteq candles'
    BY <1>4, <1>5, <1>6, <1>7 DEF IInv, Coverage, Phase
  <2> QED
    BY <2>1, <2>2, <2>3 DEF Coverage
<1> QED
  BY <1>8, <1>9, <1>13 DEF IInv

\* Times that keep their candles, gaps and whoever records them stay accounted for.
LEMMA Unaffected ==
  ASSUME NEW S, NEW t, t \notin S, Covered(t),
         gaps' \subseteq gaps, \A g \in gaps \ gaps' : g.from \in S,
         candles \ candles' \subseteq S,
         Waiting(t) => Waiting(t)'
  PROVE  Covered(t)'
BY DEF Covered, NoStale, OpenGap

\* A thread that does not go on recording takes back the times S: all the times it
\* changes for the worse are among them.
LEMMA TakingStep ==
  ASSUME IInv, NEW a \in Threads, NEW r \in Tasks, NEW S, DoTaking(a, r, S),
         TaskTyped(r), Identifies(r), r.kind # "scan",
         Recording(a) => task[a].todo \subseteq S,
         gaps' \subseteq gaps, \A g \in gaps \ gaps' : g.from \in S, ids' = ids,
         candles' \subseteq Times, candles \ candles' \subseteq S
  PROVE  IInv'
<1>1. /\ task' \in [Threads -> Tasks] /\ task'[a] = r
      /\ \A b \in Threads \ {a} : task'[b] = Uncounted(task[b], S)
      /\ scanned' = scanned \ S
  BY SetTaskTaking DEF IInv, DoTaking
<1>2. \A b \in Threads \ {a} :
        /\ TaskTyped(task'[b]) /\ task'[b].kind = task[b].kind /\ task'[b].phase = task[b].phase
        /\ task'[b].window = task[b].window /\ task'[b].seen = task[b].seen
        /\ task'[b].todo = task[b].todo /\ task'[b].counts = task[b].counts \ S
  BY <1>1, UncountedTask DEF IInv, Typed
<1>3. Typed'
  <2>1. \A b \in Threads : TaskTyped(task'[b])
    BY <1>1, <1>2
  <2> QED
    BY <1>1, <2>1 DEF IInv, Typed, TaskTyped
<1>4. Identified'
  <2>1. \A b \in Threads : Identifies(task[b])'
    BY <1>1, <1>2 DEF IInv, Identified, Identifies
  <2> QED
    BY <2>1 DEF IInv, Identified
<1>5. \A b \in Threads : Recording(b)' <=> Recording(b) /\ b # a
  BY <1>1, <1>2 DEF Recording, Phase
<1>6. ASSUME NEW t, t \notin S, Covered(t)
      PROVE  Covered(t)'
  <2>1. Waiting(t) => Waiting(t)'
    BY <1>2, <1>5, <1>6 DEF Waiting
  <2> QED
    BY <1>6, <2>1, Unaffected
<1>7. Coverage'
  <2>1. \A t \in scanned' : Covered(t)'
    BY <1>1, <1>6 DEF IInv, Coverage
  <2>2. \A b \in Threads : Recording(b)' => \A t \in task'[b].counts : Covered(t)'
    BY <1>2, <1>5, <1>6 DEF IInv, Coverage
  <2>3. \A b \in Threads : Phase(b, "scan", "clear")' =>
          task'[b].seen \cap task'[b].counts \subseteq candles'
    BY <1>1, <1>2 DEF IInv, Coverage, Phase
  <2> QED
    BY <2>1, <2>2, <2>3 DEF Coverage
<1> QED
  BY <1>3, <1>4, <1>7 DEF IInv

\* The rebuild, and whatever fails.
LEMMA TakingSteps ==
  ASSUME MaxTime \in Nat, IInv, NEW a \in Threads, Delete(a) \/ ClearWindow(a) \/ Fail(a)
  PROVE  IInv'
<1>1. task[a] \in Tasks /\ TaskTyped(task[a]) /\ candles \subseteq Times
  BY DEF IInv, Typed
<1>2. CASE Delete(a)
  <2> PICK accepted \in Fetched(task[a].window) :
        DoTaking(a, [task[a] EXCEPT !.phase = "clear", !.seen = accepted], Times)
    BY <1>2 DEF Delete
  <2> DEFINE r == [task[a] EXCEPT !.phase = "clear", !.seen = accepted]
  <2>1. task[a].kind = "rebuild" /\ ~ Recording(a)
    BY <1>2 DEF Delete, Phase, Recording
  <2>2. accepted \subseteq Times
    BY <1>1 DEF Fetched, Tasks
  <2>3. r \in Tasks /\ TaskTyped(r) /\ r.kind = "rebuild"
    BY <1>1, <2>1, <2>2 DEF TaskTyped, Tasks, Phases
  <2>4. candles' = {} /\ gaps' = gaps /\ ids' = ids
    BY <1>2 DEF Delete
  <2> HIDE DEF r
  <2>5. DoTaking(a, r, Times)
    BY DEF r
  <2> QED
    BY <1>1, <2>1, <2>3, <2>4, <2>5, TakingStep DEF Identifies
<1>3. CASE ClearWindow(a)
  <2> DEFINE r == [task[a] EXCEPT !.phase = "write"]
  <2>1. task[a].kind = "rebuild" /\ ~ Recording(a)
    BY <1>3 DEF ClearWindow, Phase, Recording
  <2>2. r \in Tasks /\ TaskTyped(r) /\ r.kind = "rebuild"
    BY <1>1, <2>1 DEF TaskTyped, Tasks, Phases
  <2>3. /\ DoTaking(a, r, task[a].window) /\ gaps' = {g \in gaps : g.from \notin task[a].window}
        /\ candles' = candles /\ ids' = ids
    BY <1>3 DEF ClearWindow
  <2> HIDE DEF r
  <2> QED
    BY <1>1, <2>1, <2>2, <2>3, TakingStep DEF Identifies
<1>4. CASE Fail(a)
  <2> DEFINE S == IF Phase(a, "scan", "record") THEN task[a].todo ELSE {}
  <2>1. DoTaking(a, NoTask, S) /\ candles' = candles /\ gaps' = gaps /\ ids' = ids
    BY <1>4 DEF Fail
  <2>2. Recording(a) => task[a].todo \subseteq S
    BY DEF Recording
  <2> HIDE DEF S
  <2> QED
    BY <1>1, <2>1, <2>2, NoTaskTyped, TakingStep
<1> QED
  BY <1>2, <1>3, <1>4

\* A gap is recorded for the time, unless it has one; that one is open.
LEMMA RecordStep ==
  ASSUME MaxTime \in Nat, IInv, NEW a \in Threads, Record(a)
  PROVE  IInv'
<1> DEFINE t == Min(task[a].todo)
           known == \E g \in gaps : g.from = t
           r == [task[a] EXCEPT !.todo = @ \ {t}]
<1>1. /\ task[a] \in Tasks /\ TaskTyped(task[a])
      /\ task[a].kind = "scan" /\ task[a].phase = "record" /\ task[a].todo # {}
  BY DEF IInv, Typed, Record, Phase
<1>2. t \in task[a].todo /\ t \in Times
  <2>1. task[a].todo \in SUBSET Nat /\ task[a].todo \subseteq Times
    BY <1>1 DEF TaskTyped, Times
  <2> QED
    BY <1>1, <2>1, MinOf
<1>3. /\ gaps' = IF known THEN gaps ELSE gaps \cup {Gap(ids + 1, t)}
      /\ ids' = IF known THEN ids ELSE ids + 1
      /\ Do(a, r) /\ UNCHANGED <<candles, scanned>>
  BY DEF Record
<1> HIDE DEF t, known
<1>4. r \in Tasks /\ TaskTyped(r) /\ r.kind = "scan" /\ r.phase = "record"
  BY <1>1 DEF TaskTyped, Tasks
<1>5. /\ r.window = task[a].window /\ r.counts = task[a].counts
      /\ r.todo = task[a].todo \ {t}
  BY <1>1 DEF Tasks
<1> HIDE DEF r
<1>6. /\ task' \in [Threads -> Tasks] /\ task'[a] = r
      /\ \A b \in Threads \ {a} : task'[b] = task[b]
  BY <1>3, <1>4, SetTask DEF IInv
<1>7. Gap(ids + 1, t) \in GapRecord
  BY <1>2 DEF Gap, GapRecord, IInv, Typed
<1>8. Typed'
  BY <1>3, <1>4, <1>6, <1>7 DEF IInv, Typed, TaskTyped
<1>9. Identified'
  <2>1. ids \in Nat /\ ids' \in Nat /\ ids <= ids'
    BY <1>3 DEF IInv, Typed
  <2>2. \A g \in gaps : g.id \in 1..ids
    BY DEF IInv, Identified
  <2>3. \A g \in gaps' : g.id \in 1..ids'
    BY <1>3, <2>1, <2>2 DEF Gap
  <2>4. \A g, h \in gaps' : g.from = h.from \/ g.id = h.id => g = h
    <3>1. CASE known
      BY <1>3, <3>1 DEF IInv, Identified
    <3>2. CASE ~ known
      <4> DEFINE new == Gap(ids + 1, t)
      <4>1. gaps' = gaps \cup {new}
        BY <1>3, <3>2
      <4>2. new.id = ids + 1 /\ new.from = t
        BY DEF Gap
      <4> HIDE DEF new
      <4>3. \A g \in gaps : g.from # new.from /\ g.id # new.id
        BY <2>1, <2>2, <3>2, <4>2 DEF known
      <4>4. \A g, h \in gaps : g.from = h.from \/ g.id = h.id => g = h
        BY DEF IInv, Identified
      <4> QED
        BY <4>1, <4>3, <4>4
    <3> QED
      BY <3>1, <3>2
  <2>5. ASSUME NEW b \in Threads
        PROVE  Identifies(task[b])'
    <3>1. Identifies(task[b])
      BY DEF IInv, Identified
    <3>2. b = a \/ task'[b] = task[b]
      BY <1>6
    <3> QED
      BY <1>3, <1>4, <1>6, <2>1, <2>2, <3>1, <3>2 DEF Identifies, Gap
  <2> QED
    BY <2>3, <2>4, <2>5 DEF Identified
<1>10. \A b \in Threads : Recording(b)' <=> Recording(b)
  BY <1>1, <1>4, <1>6 DEF Recording, Phase
<1>11. \A b \in Threads : task'[b].window = task[b].window /\ task'[b].counts = task[b].counts
  BY <1>5, <1>6
<1>12. ASSUME NEW u, Covered(u)
       PROVE  Covered(u)'
  <2>1. CASE u = t
    <3>1. CASE u \in candles
      BY <1>3, <3>1 DEF Covered
    <3>2. CASE NoStale(u) /\ known
      BY <1>3, <2>1, <3>2 DEF Covered, NoStale, OpenGap, known
    <3>3. CASE NoStale(u) /\ ~ known
      <4> DEFINE new == Gap(ids + 1, t)
      <4>1. new \in gaps' /\ \A g \in gaps' : g.from = t => g = new
        BY <1>3, <3>3 DEF known
      <4>2. new.from = t /\ ~ new.resolved
        BY DEF Gap
      <4> HIDE DEF new
      <4> QED
        BY <2>1, <4>1, <4>2 DEF Covered, NoStale, OpenGap
    <3> QED
      BY <1>12, <3>1, <3>2, <3>3 DEF Covered
  <2>2. CASE u # t
    <3>1. Waiting(u) => Waiting(u)'
      BY <1>5, <1>6, <1>10, <2>2 DEF Waiting
    <3>2. \A g : g.from = u => (g \in gaps' <=> g \in gaps)
      BY <1>3, <2>2 DEF Gap
    <3> QED
      BY <1>3, <1>12, <3>1, <3>2 DEF Covered, NoStale, OpenGap
  <2> QED
    BY <2>1, <2>2
<1>13. Coverage'
  BY <1>3, <1>4, <1>6, <1>10, <1>11, <1>12 DEF IInv, Coverage, Phase
<1> QED
  BY <1>8, <1>9, <1>13 DEF IInv

\* A scan ends: the times of its window that count are covered.
LEMMA ScannedStep ==
  ASSUME MaxTime \in Nat, IInv, NEW a \in Threads, Scanned(a)
  PROVE  IInv'
<1>1. /\ task[a] \in Tasks /\ Recording(a) /\ task[a].todo = {}
      /\ task[a].counts \subseteq Times
  BY DEF IInv, Typed, Tasks, Scanned, Phase, Recording
<1>2. /\ scanned' = scanned \cup task[a].counts
      /\ Do(a, NoTask) /\ UNCHANGED <<candles, gaps, ids>>
  BY DEF Scanned
<1>3. /\ task' \in [Threads -> Tasks] /\ task'[a] = NoTask
      /\ \A b \in Threads \ {a} : task'[b] = task[b]
  BY <1>2, NoTaskTyped, SetTask DEF IInv
<1>4. Typed'
  BY <1>1, <1>2, <1>3, NoTaskTyped DEF IInv, Typed, TaskTyped
<1>5. Identified'
  BY <1>2, <1>3, NoTaskTyped DEF IInv, Identified, Identifies
<1>6. \A b \in Threads : Recording(b)' <=> Recording(b) /\ b # a
  BY <1>3, NoTaskTyped DEF Recording, Phase
<1>7. \A t : Covered(t) => Covered(t)'
  BY <1>1, <1>2, <1>3, <1>6 DEF Covered, NoStale, OpenGap, Waiting
<1>8. Coverage'
  BY <1>1, <1>2, <1>3, <1>6, <1>7, NoTaskTyped DEF IInv, Coverage, Phase
<1> QED
  BY <1>4, <1>5, <1>8 DEF IInv

\* mark_gap_resolved: the gap with that id, of a time that has its candle.
LEMMA ResolveStep ==
  ASSUME MaxTime \in Nat, IInv, NEW a \in Threads, Resolve(a)
  PROVE  IInv'
<1> DEFINE g == CHOOSE h \in task[a].todo : \A k \in task[a].todo : h.from <= k.from
           r == [task[a] EXCEPT !.todo = @ \ {g}]
           marked(h) == IF h.id = g.id /\ g.from \in candles THEN [h EXCEPT !.resolved = TRUE] ELSE h
<1>1. /\ task[a] \in Tasks /\ TaskTyped(task[a]) /\ Identifies(task[a])
      /\ task[a].kind = "repair" /\ task[a].todo # {} /\ task[a].todo \subseteq GapRecord
  BY DEF IInv, Typed, Identified, Resolve, Phase, TaskTyped
<1>2. g \in task[a].todo
  BY <1>1, EarliestOf
<1>3. /\ gaps' = {marked(h) : h \in gaps} /\ Do(a, r)
      /\ UNCHANGED <<candles, ids, scanned>>
  BY DEF Resolve
<1> HIDE DEF g
<1>4. r \in Tasks /\ TaskTyped(r) /\ r.kind = "repair" /\ r.todo \subseteq task[a].todo
      /\ r.seen = task[a].seen
  BY <1>1 DEF TaskTyped, Tasks
<1> HIDE DEF r
<1>5. /\ task' \in [Threads -> Tasks] /\ task'[a] = r
      /\ \A b \in Threads \ {a} : task'[b] = task[b]
  BY <1>3, <1>4, SetTask DEF IInv
<1>6. ASSUME NEW h \in gaps
      PROVE  /\ marked(h) \in GapRecord /\ marked(h).id = h.id /\ marked(h).from = h.from
             /\ h.from \notin candles => marked(h) = h
  <2>1. h \in GapRecord
    BY DEF IInv, Typed
  <2>2. h.id = g.id => h.from = g.from
    BY <1>1, <1>2 DEF Identifies
  <2> QED
    BY <2>1, <2>2 DEF GapRecord
<1>7. \A k \in gaps' : \E h \in gaps : k = marked(h)
  BY <1>3
<1>8. \A h \in gaps : marked(h) \in gaps'
  BY <1>3
<1> HIDE DEF marked
<1>9. Typed'
  BY <1>3, <1>4, <1>5, <1>6, <1>7 DEF IInv, Typed, TaskTyped
<1>10. Identified'
  <2>1. ASSUME NEW b \in Threads
        PROVE  Identifies(task[b])'
    <3>1. Identifies(task[b])
      BY DEF IInv, Identified
    <3>2. CASE b = a
      BY <1>1, <1>3, <1>4, <1>5, <1>6, <1>7, <3>2 DEF Identifies
    <3>3. CASE b # a
      BY <1>3, <1>5, <1>6, <1>7, <3>1, <3>3 DEF Identifies
    <3> QED
      BY <3>2, <3>3
  <2>2. \A k \in gaps' : k.id \in 1..ids'
    BY <1>3, <1>6, <1>7 DEF IInv, Identified
  <2>3. \A k, l \in gaps' : k.from = l.from \/ k.id = l.id => k = l
    <3> SUFFICES ASSUME NEW k \in gaps', NEW l \in gaps', k.from = l.from \/ k.id = l.id
                 PROVE  k = l
      OBVIOUS
    <3>1. PICK h \in gaps : k = marked(h)
      BY <1>7
    <3>2. PICK i \in gaps : l = marked(i)
      BY <1>7
    <3>3. h = i
      BY <1>6, <3>1, <3>2 DEF IInv, Identified
    <3> QED
      BY <3>1, <3>2, <3>3
  <2> QED
    BY <2>1, <2>2, <2>3 DEF Identified
<1>11. \A b \in Threads : Recording(b)' <=> Recording(b) /\ b # a
  BY <1>1, <1>4, <1>5 DEF Recording, Phase
<1>12. ~ Recording(a)
  BY <1>1 DEF Recording, Phase
<1>13. ASSUME NEW t, Covered(t)
       PROVE  Covered(t)'
  <2>1. CASE t \in candles
    BY <1>3, <2>1 DEF Covered
  <2>2. CASE t \notin candles
    <3>1. \A k : k.from = t => (k \in gaps' <=> k \in gaps)
      BY <1>6, <1>7, <1>8, <2>2
    <3>2. Waiting(t) => Waiting(t)'
      BY <1>5, <1>11, <1>12 DEF Waiting
    <3> QED
      BY <1>3, <1>13, <3>1, <3>2 DEF Covered, NoStale, OpenGap
  <2> QED
    BY <2>1, <2>2
<1>14. Coverage'
  BY <1>3, <1>4, <1>5, <1>11, <1>12, <1>13 DEF IInv, Coverage, Phase
<1> QED
  BY <1>9, <1>10, <1>14 DEF IInv

\* Another path's candles only help, and what it takes away is taken back.
LEMMA ImportStep ==
  ASSUME IInv, NEW new \in SUBSET (Times \ candles), NEW gone \in SUBSET candles, Import(new, gone)
  PROVE  IInv'
<1>1. /\ candles' = (candles \ gone) \cup new /\ scanned' = scanned \ gone
      /\ task' = [c \in Threads |-> Uncounted(task[c], gone)] /\ UNCHANGED <<gaps, ids>>
  BY DEF Import
<1>2. \A b \in Threads :
        /\ task'[b] \in Tasks /\ TaskTyped(task'[b])
        /\ task'[b].kind = task[b].kind /\ task'[b].phase = task[b].phase
        /\ task'[b].window = task[b].window /\ task'[b].seen = task[b].seen
        /\ task'[b].todo = task[b].todo /\ task'[b].counts = task[b].counts \ gone
  BY <1>1, UncountedTask DEF IInv, Typed
<1>3. Typed'
  <2>1. task' \in [Threads -> Tasks]
    BY <1>1, <1>2
  <2> QED
    BY <1>1, <1>2, <2>1 DEF IInv, Typed, TaskTyped
<1>4. Identified'
  BY <1>1, <1>2 DEF IInv, Identified, Identifies
<1>5. \A b \in Threads : Recording(b)' <=> Recording(b)
  BY <1>2 DEF Recording, Phase
<1>6. ASSUME NEW t, t \notin gone, Covered(t)
      PROVE  Covered(t)'
  <2>1. Waiting(t) => Waiting(t)'
    BY <1>2, <1>5 DEF Waiting
  <2> QED
    BY <1>1, <1>6, <2>1, Unaffected
<1>7. Coverage'
  BY <1>1, <1>2, <1>5, <1>6 DEF IInv, Coverage, Phase
<1> QED
  BY <1>3, <1>4, <1>7 DEF IInv

\* Every step keeps the invariant.
LEMMA NextInv ==
  ASSUME MaxTime \in Nat
  PROVE  IInv /\ [Next]_vars => IInv'
<1> SUFFICES ASSUME IInv, [Next]_vars
             PROVE  IInv'
  OBVIOUS
<1>1. ASSUME NEW a \in Threads, Step(a)
      PROVE  IInv'
  BY <1>1, QuietSteps, ClearStep, RecordStep, ScannedStep, ResolveStep, TakingSteps DEF Step
<1>2. CASE UNCHANGED vars
  BY <1>2 DEF vars, IInv, Typed, Identified, Identifies, Coverage, Covered, NoStale, OpenGap,
              Waiting, Recording, Phase
<1> QED
  BY <1>1, <1>2, RepairGapsStep, BackfillStep, RebuildStep, ScanStep, ImportStep DEF Next

\* The invariant has the types, and nobody waits when nothing is under way.
LEMMA InvGivesTypes ==
  ASSUME IInv
  PROVE  TypeOK
BY DEF IInv, Typed, TaskTyped, Identified, TypeOK, Tasks, GapRecord

LEMMA InvGivesScans ==
  ASSUME IInv
  PROVE  ScanComplete
<1> SUFFICES ASSUME \A a \in Threads : task[a] = NoTask,
                    NEW t \in (scanned \cap Open) \ candles
             PROVE  \E g \in gaps : g.from = t /\ ~g.resolved
  BY DEF ScanComplete
<1>1. ~ Waiting(t)
  BY NoTaskTyped DEF Waiting, Recording, Phase
<1> QED
  BY <1>1 DEF IInv, Coverage, Covered, OpenGap

\* The invariant is kept.
THEOREM Invariance ==
  ASSUME MaxTime \in Nat
  PROVE  Spec => []IInv
<1>1. Init => IInv
  BY InitInv
<1>2. IInv /\ [Next]_vars => IInv'
  BY NextInv
<1> QED
  BY <1>1, <1>2, PTL DEF Spec

\* history.py:152-178: once nothing is under way, a time a scan has covered that is
\* expected to be open has a candle or an open gap, unless its candle went since,
\* or a scan that knew of that candle, or that did not record it, cleared its gap.
THEOREM ScansHold ==
  ASSUME MaxTime \in Nat
  PROVE  Spec => [](TypeOK /\ ScanComplete)
BY Invariance, InvGivesTypes, InvGivesScans, PTL
==============================================================================
