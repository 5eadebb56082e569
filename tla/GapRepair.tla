------------------------------ MODULE GapRepair ------------------------------
(***************************************************************************)
(* HistoricalBackfillService and AuthoritativeHistoryRebuildService        *)
(* (history.py) on the candles and the recorded gaps (data_gaps) of one    *)
(* provider, instrument and timeframe: backfills, gap scans, gap repairs   *)
(* and rebuilds, asked for by requests and by the maintenance worker       *)
(* (maintenance.py), each in a thread of its own and none locking another  *)
(* out.  A step here is a transaction or a fetch.                          *)
(***************************************************************************)
EXTENDS Naturals, FiniteSets, FiniteSetsExt

CONSTANTS
  Threads,
  MaxTime,    \* bound: the open times are 1..MaxTime
  Open,       \* times the calendar expects to be open
  Limit,      \* gaps taken by one repair
  MaxCalls    \* bound: operations asked for

Times == 1 .. MaxTime

VARIABLES
  candles,    \* times that have a candle
  gaps,       \* [id, from, resolved]: data_gaps
  ids,        \* the last id given out
  task,       \* [Threads -> what the thread is doing]
  calls,
  scanned     \* history: times a scan covered, with nothing taken away since

vars == <<candles, gaps, ids, task, calls, scanned>>

\* counts is history: the times of its window for which what a scan read still holds.
NoTask == [kind |-> "none", phase |-> "none", window |-> {}, first |-> 0, seen |-> {},
           todo |-> {}, counts |-> {}]

Init ==
  /\ candles = {} /\ gaps = {} /\ ids = 0
  /\ task = [a \in Threads |-> NoTask] /\ calls = 0 /\ scanned = {}

Gap(id, t)   == [id |-> id, from |-> t, resolved |-> FALSE]
Do(a, r)     == task' = [task EXCEPT ![a] = r]
Uncounted(r, S) == [r EXCEPT !.counts = @ \ S]
\* ... and what scans have found out of the times S, now or before, no longer counts.
DoTaking(a, r, S) ==
  /\ task' = [c \in Threads |-> IF c = a THEN r ELSE Uncounted(task[c], S)]
  /\ scanned' = scanned \ S
Phase(a, k, p) == task[a].kind = k /\ task[a].phase = p

\* What a fetch brings of a window: the provider need not have all of it, and what
\* _normalize finds invalid is left out.
Fetched(window) == SUBSET window

Call(a, r) ==
  /\ task[a] = NoTask /\ calls < MaxCalls /\ calls' = calls + 1
  /\ Do(a, r) /\ UNCHANGED <<candles, gaps, ids, scanned>>

-----------------------------------------------------------------------------
(* run and detect_gaps *)

\* A backfill of the window lo..hi, and then a scan of it.
Backfill(a, lo, hi) ==
  Call(a, [NoTask EXCEPT !.kind = "scan", !.phase = "fetch", !.window = lo..hi, !.first = lo])

\* A scan goes up to now.  One that starts inside a bar begins with that bar, but
\* neither reads its candle nor clears its gap.
Scan(a, lo, aligned) ==
  Call(a, [NoTask EXCEPT !.kind = "scan", !.phase = "read", !.first = lo,
                         !.window = (IF aligned THEN lo ELSE lo + 1)..MaxTime])

Upsert(a) ==
  /\ Phase(a, "scan", "fetch")
  /\ \E new \in Fetched(task[a].window) : candles' = candles \cup new
  /\ Do(a, [task[a] EXCEPT !.phase = "read"])
  /\ UNCHANGED <<gaps, ids, calls, scanned>>

Read(a) ==
  /\ Phase(a, "scan", "read")
  /\ Do(a, [task[a] EXCEPT !.phase = "clear", !.seen = candles \cap task[a].window,
                          !.counts = task[a].window])
  /\ UNCHANGED <<candles, gaps, ids, calls, scanned>>

\* clear_gaps, and the times still to record: the ones expected and not read.  A time
\* whose candle went since it was read loses its gap, which takes back what other
\* scans made of it.
Clear(a) ==
  /\ Phase(a, "scan", "clear")
  /\ gaps' = {g \in gaps : g.from \notin task[a].window}
  /\ LET r == task[a] IN
       DoTaking(a, [r EXCEPT !.phase = "record", !.seen = {}, !.first = 0,
                      !.todo = (Open \cap (r.window \cup {r.first})) \ r.seen],
                r.window \ r.counts)
  /\ UNCHANGED <<candles, ids, calls>>

\* record_gap: INSERT OR IGNORE of an unresolved gap.
Record(a) ==
  /\ Phase(a, "scan", "record") /\ task[a].todo # {}
  /\ LET t == Min(task[a].todo)  known == \E g \in gaps : g.from = t IN
       /\ gaps' = IF known THEN gaps ELSE gaps \cup {Gap(ids + 1, t)}
       /\ ids'  = IF known THEN ids ELSE ids + 1
       /\ Do(a, [task[a] EXCEPT !.todo = @ \ {t}])
  /\ UNCHANGED <<candles, calls, scanned>>

Scanned(a) ==
  /\ Phase(a, "scan", "record") /\ task[a].todo = {}
  /\ scanned' = scanned \cup task[a].counts
  /\ Do(a, NoTask)
  /\ UNCHANGED <<candles, gaps, ids, calls>>

-----------------------------------------------------------------------------
(* repair_gaps *)

Earliest(S) == {g \in S : Cardinality({h \in S : h.from < g.from}) < Limit}

RepairGaps(a) ==
  LET chosen == Earliest({g \in gaps : ~g.resolved}) IN
  /\ chosen # {}
  /\ Call(a, [NoTask EXCEPT !.kind = "repair", !.phase = "fetch", !.todo = chosen, !.seen = chosen])

\* _group_gaps: the first run of adjacent gaps.
Window(S) ==
  LET first == CHOOSE g \in S : \A h \in S : g.from <= h.from
  IN {g \in S : \A t \in first.from .. g.from : \E h \in S : h.from = t}

FetchWindow(a) ==
  /\ Phase(a, "repair", "fetch") /\ task[a].todo # {}
  /\ LET window == Window(task[a].todo) IN
       /\ \E new \in Fetched({g.from : g \in window}) : candles' = candles \cup new
       /\ Do(a, [task[a] EXCEPT !.todo = @ \ window])
  /\ UNCHANGED <<gaps, ids, calls, scanned>>

FetchedAll(a) ==
  /\ Phase(a, "repair", "fetch") /\ task[a].todo = {}
  /\ Do(a, [task[a] EXCEPT !.phase = "check", !.todo = task[a].seen, !.seen = {}])
  /\ UNCHANGED <<candles, gaps, ids, calls, scanned>>

\* Mutant: what was fetched counts as filled.
ResolveAll(a) ==
  /\ Phase(a, "repair", "check") /\ task[a].todo # {}
  /\ LET g == CHOOSE h \in task[a].todo : TRUE IN
       /\ gaps' = {IF h.id = g.id THEN [h EXCEPT !.resolved = TRUE] ELSE h : h \in gaps}
       /\ Do(a, [task[a] EXCEPT !.todo = @ \ {g}])
  /\ UNCHANGED <<candles, ids, calls, scanned>>

\* candle_exists and mark_gap_resolved, gap by gap; a gap that was cleared and
\* recorded again has another id and stays open.
Resolve(a) ==
  /\ Phase(a, "repair", "check") /\ task[a].todo # {}
  /\ LET g == CHOOSE h \in task[a].todo : \A k \in task[a].todo : h.from <= k.from IN
       /\ gaps' = {IF h.id = g.id /\ g.from \in candles THEN [h EXCEPT !.resolved = TRUE] ELSE h : h \in gaps}
       /\ Do(a, [task[a] EXCEPT !.todo = @ \ {g}])
  /\ UNCHANGED <<candles, ids, calls, scanned>>

Repaired(a) ==
  /\ Phase(a, "repair", "check") /\ task[a].todo = {}
  /\ Do(a, NoTask)
  /\ UNCHANGED <<candles, gaps, ids, calls, scanned>>

-----------------------------------------------------------------------------
(* AuthoritativeHistoryRebuildService.run *)

Rebuild(a, lo, hi) ==
  Call(a, [NoTask EXCEPT !.kind = "rebuild", !.phase = "fetch", !.window = lo..hi])

\* fetch_candles, _sanitize, and then every candle of the instrument is deleted:
\* what scans have found out is no longer worth anything.
Delete(a) ==
  /\ Phase(a, "rebuild", "fetch")
  /\ \E accepted \in Fetched(task[a].window) :
       DoTaking(a, [task[a] EXCEPT !.phase = "clear", !.seen = accepted], Times)
  /\ candles' = {}
  /\ UNCHANGED <<gaps, ids, calls>>

\* The gaps of the window go without a scan that finds them again.
ClearWindow(a) ==
  /\ Phase(a, "rebuild", "clear")
  /\ gaps' = {g \in gaps : g.from \notin task[a].window}
  /\ DoTaking(a, [task[a] EXCEPT !.phase = "write"], task[a].window)
  /\ UNCHANGED <<candles, ids, calls>>

WriteAccepted(a) ==
  /\ Phase(a, "rebuild", "write")
  /\ candles' = candles \cup task[a].seen
  /\ Do(a, NoTask)
  /\ UNCHANGED <<gaps, ids, calls, scanned>>

-----------------------------------------------------------------------------

\* Anything can raise, or the server ends, between two transactions.  A scan that
\* had cleared its window leaves the times it has not recorded without a gap.
Fail(a) ==
  /\ task[a] # NoTask
  /\ DoTaking(a, NoTask, IF Phase(a, "scan", "record") THEN task[a].todo ELSE {})
  /\ UNCHANGED <<candles, gaps, ids, calls>>

\* A transaction of another path adds candles and takes candles away: an import, the
\* builder's minute that turned out unchanged, the window a refresh replaces.
Import(new, gone) ==
  /\ new # {} \/ gone # {}
  /\ candles' = (candles \ gone) \cup new
  /\ task' = [c \in Threads |-> Uncounted(task[c], gone)]
  /\ scanned' = scanned \ gone
  /\ UNCHANGED <<gaps, ids, calls>>

Step(a) ==
  \/ Upsert(a) \/ Read(a) \/ Clear(a) \/ Record(a) \/ Scanned(a)
  \/ FetchWindow(a) \/ FetchedAll(a) \/ Resolve(a) \/ Repaired(a)
  \/ Delete(a) \/ ClearWindow(a) \/ WriteAccepted(a)
  \/ Fail(a)

Next ==
  \/ \E a \in Threads : Step(a) \/ RepairGaps(a)
  \/ \E a \in Threads, lo \in Times :
       \/ \E hi \in lo..MaxTime : Backfill(a, lo, hi) \/ Rebuild(a, lo, hi)
       \/ \E aligned \in BOOLEAN : Scan(a, lo, aligned)
  \/ \E new \in SUBSET (Times \ candles), gone \in SUBSET candles : Import(new, gone)

Spec == Init /\ [][Next]_vars

-----------------------------------------------------------------------------

\* Every variable has its type.
TypeOK ==
  /\ candles \subseteq Times /\ scanned \subseteq Times
  /\ gaps \subseteq [id : 1..ids, from : Times, resolved : BOOLEAN]
  /\ \A g, h \in gaps : g.from = h.from => g = h
  /\ \A a \in Threads : task[a].window \subseteq Times /\ task[a].counts \subseteq task[a].window

\* history.py:152-178: when nothing is under way, each time a scan has covered that
\* the calendar expects to be open and that has no candle is an open gap, whatever
\* scans, repairs and imports ran beside it.  What takes back what was covered, of
\* the times it is about and of no other: a candle that goes after a scan read it
\* (an unchanged minute, a replaced window, a rebuild), a scan that read it before
\* and clears its gap after, and a scan that raises before it recorded the time.
ScanComplete ==
  (\A a \in Threads : task[a] = NoTask) =>
    \A t \in (scanned \cap Open) \ candles : \E g \in gaps : g.from = t /\ ~g.resolved
==============================================================================
