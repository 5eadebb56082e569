---------------------------- MODULE ProviderStream ----------------------------
(***************************************************************************)
(* One provider and instrument live: the worker thread of runtime.py takes *)
(* ticks from the provider, lets the feed engine (feed.py) judge them, asks*)
(* the authority registry (routing.py) whether this provider is the one to *)
(* use, recovers a gap from the provider's history and hands the tick to   *)
(* the candle builder; MarketDataService refreshes the aggregates.         *)
(*                                                                         *)
(* With a live MT5 bridge the worker opens no session: ticks only move the *)
(* feed (and the minute shown, which is not modelled), and rows come from  *)
(* imported responses (Mt5BridgeService.candles).                          *)
(***************************************************************************)
EXTENDS CandleBuilder

CONSTANTS
  QuietAge, StalledAge, InactiveAge,   \* FeedThresholds, in minutes
  Fallback,                            \* fallback_after_seconds, in minutes
  MaxRestarts                          \* bound: times the worker is restarted

VARIABLES
  now,        \* the minute it is
  managed,    \* whether the MT5 bridge manages the provider
  feed,       \* FeedObservation: state, time and price of the last change
  rival,      \* _last_ticks of a provider of higher priority, 0 when there is none
  ticked,     \* the latest row of the ticks table
  rows, agg,  \* one-minute and aggregate candles
  active,     \* the minute being built
  restarts,
  seen,       \* history: prices built into each minute by this worker
  unreported, \* history: minutes changed outside the builder's report, whose
              \* aggregates wait for the next refresh of their bucket
  abandoned   \* history: minutes flushed incomplete by a stopped worker

vars  == <<now, managed, feed, rival, ticked, rows, agg, active, restarts,
           seen, unreported, abandoned>>

Never == [changed |-> 0, price |-> 0]

\* ProviderWorker.__init__ seeds the feed as inactive, with the last tick if any.
Seeded(last) == [state |-> "INACTIVE", changed |-> last.changed, price |-> last.price]

Init ==
  /\ now = 1 /\ managed \in BOOLEAN
  /\ ticked = Never /\ feed = Seeded(Never)
  /\ rival = 0
  /\ rows = [m \in Minutes |-> Missing] /\ agg = [b \in Buckets |-> Missing]
  /\ active = NoActive
  /\ restarts = 0
  /\ seen = [m \in Minutes |-> {}] /\ unreported = {} /\ abandoned = {}

-----------------------------------------------------------------------------
(* The feed engine *)

\* _state_at.  A feed seeded without a tick changed an inactive age ago.
StateAt(item) ==
  LET age == now - item.changed IN
  IF item.changed = 0 THEN "INACTIVE"
  ELSE CHOOSE s \in {"LIVE", "QUIET", "STALLED", "INACTIVE"} :
    /\ (s = "INACTIVE") = (age >= InactiveAge)
    /\ (s = "STALLED") = (age >= StalledAge /\ age < InactiveAge)
    /\ (s = "QUIET") = (age >= QuietAge /\ age < StalledAge)

Recovering(item) == StateAt(item) \in {"STALLED", "INACTIVE"}

\* observe: the observation after a tick.
Observed(p) ==
  IF p = feed.price THEN [feed EXCEPT !.state = StateAt(feed)]
  ELSE [state |-> IF Recovering(feed) THEN "RECOVERING" ELSE "LIVE", changed |-> now, price |-> p]

\* complete_recovery
CompleteRecovery(item) == [item EXCEPT !.state = "LIVE"]

-----------------------------------------------------------------------------
(* The authority *)

Fresh(last) == last # 0 /\ now - last <= Fallback

\* decision, asked about a tick of now: the provider of higher priority while it
\* is fresh, else this one.
Authoritative == ~ Fresh(rival)

RivalTicks ==
  /\ ~ managed /\ rival' = now
  /\ UNCHANGED <<now, managed, feed, ticked, rows, agg, active, restarts,
                 seen, unreported, abandoned>>

-----------------------------------------------------------------------------
(* The stream *)

\* What the provider's history may answer for the minutes from u to m.
History(u, m) ==
  LET gap == {k \in Minutes : u < k /\ k < m} IN
  {[k \in S |-> Quiet(p, "provider")] : S \in {{}, gap} \cup {{k} : k \in gap}, p \in Prices}

\* What it may answer a recovery: copy_rates_range includes the end of the range,
\* so the bar of the minute just begun may be there, marked complete.
WithNow(f, p) == [k \in DOMAIN f \cup {now} |-> IF k = now THEN Quiet(p, "early") ELSE f[k]]
Recovered == {WithNow(f, p) : f \in History(0, now), p \in Prices}

\* What it is asked for at a tick: a recovery, or the gap before a new minute.
Answers ==
  IF Recovering(feed) THEN History(0, now) \cup Recovered
  ELSE IF active.minute # now THEN History(0, now) ELSE History(0, 1)

\* _meaningful_history of flat candles: they differ from the reference price, or
\* from each other when there is none.
Meaningful(fetched, last) ==
  \E k \in DOMAIN fetched :
    \/ last # 0 /\ fetched[k].close # last
    \/ last = 0 /\ \E j \in DOMAIN fetched : fetched[j].close # fetched[k].close

\* _recover: the active minute is closed; when minutes are missing the history
\* from the first of them to now is asked for, and if it moved, all that is
\* returned is written.
Recover(fetched, fails) ==
  LET done  == Finalize(rows, active)
      gap   == {k \in Minutes : feed.changed < k /\ k < now}
      asked == IF gap = {} THEN {} ELSE gap \cup {now}
      got   == [k \in DOMAIN fetched \cap asked |-> fetched[k]]
      moved == ~ fails /\ Meaningful(got, CloseAt(done, active.minute))
  IN [rows |-> IF moved THEN Upsert(done, got) ELSE done,
      connected |-> gap = {} \/ moved]

Changed(before, after) == {m \in Minutes : after[m] # before[m]}

\* Mutant: the candles the builder reports are not refreshed.
RefreshTickOnly(b) == {now}

\* What MarketDataService refreshes: the bucket of every candle the builder
\* reports as written, and the tick's.
RefreshTimes(b) == {now} \cup b.written

\* What a tick may lead to, by what the history answers: the rows _recover left,
\* and what the builder made of them.
Outcomes(p, fails) ==
  {IF Recovering(feed)
   THEN LET r == Recover(fetched, fails) IN
        [left |-> r.rows, built |-> Ingest(r.rows, NoActive, now, p, r.connected, fetched)]
   ELSE [left |-> rows, built |-> Ingest(rows, active, now, p, TRUE, fetched)] :
   fetched \in Answers}

\* MarketDataService.run
Serve(p, left, b) ==
  LET removed == {m \in Changed(left, b.rows) : b.rows[m] = Missing}
      refreshed == Touched(b.rows, {now} \cup b.written)
  IN
  /\ rows' = b.rows /\ active' = b.active
  /\ agg' = Refresh(agg, b.rows, RefreshTimes(b))
  /\ unreported' = {m \in unreported \cup Changed(rows, left) \cup removed :
                      BucketStart(m) \notin refreshed}
  /\ seen' = [seen EXCEPT ![now] = @ \cup {p}]
  /\ ticked' = [changed |-> now, price |-> p]

\* A tick of _run: only a changed price of the authoritative provider is built.
Tick(p, fails) ==
  /\ ~ managed
  /\ IF p = feed.price \/ ~ Authoritative
     THEN feed' = Observed(p) /\ UNCHANGED <<ticked, rows, agg, active, seen, unreported>>
     ELSE /\ feed' = IF Recovering(feed) THEN CompleteRecovery(Observed(p)) ELSE Observed(p)
          /\ \E o \in Outcomes(p, fails) : Serve(p, o.left, o.built)
  /\ UNCHANGED <<now, managed, rival, restarts, abandoned>>

\* The worker is stopped and started again: the builder flushes what it has, the
\* new one knows the rows and the last tick only.
Restart ==
  /\ ~ managed /\ restarts < MaxRestarts
  /\ restarts' = restarts + 1
  /\ rows' = Flush(rows, active) /\ active' = NoActive
  /\ feed' = Seeded(ticked)
  /\ abandoned' = abandoned \cup (IF active.stored THEN {active.minute} ELSE {})
  /\ seen' = [seen EXCEPT ![now] = {}]
  /\ UNCHANGED <<now, managed, rival, ticked, agg, unreported>>

Advance ==
  /\ now < MaxMinute /\ now' = now + 1
  /\ UNCHANGED <<managed, feed, rival, ticked, rows, agg, active, restarts,
                 seen, unreported, abandoned>>

-----------------------------------------------------------------------------
(* The bridge *)

\* _ingest_observation: the tick moves the feed, and the minute shown.
BridgeTick(p) ==
  /\ managed /\ feed' = Observed(p)
  /\ UNCHANGED <<now, managed, rival, ticked, rows, agg, active, restarts,
                 seen, unreported, abandoned>>

\* Mt5BridgeService.candles: bars of closed minutes are written, then the
\* aggregates of the buckets that are closed.
Import(bars) ==
  /\ managed /\ DOMAIN bars # {}
  /\ rows' = Upsert(rows, bars)
  /\ agg' = FinalizeClosed(agg, rows', DOMAIN bars, now)
  /\ UNCHANGED <<now, managed, feed, rival, ticked, active, restarts,
                 seen, unreported, abandoned>>

Next ==
  \/ Advance \/ RivalTicks \/ Restart
  \/ \E p \in Prices : Tick(p, TRUE) \/ Tick(p, FALSE) \/ BridgeTick(p)
  \/ \E bars \in History(0, now) : Import(bars)

Spec == Init /\ [][Next]_vars

-----------------------------------------------------------------------------

\* Every variable has its type.
TypeOK ==
  /\ now \in Minutes
  /\ \A m \in Minutes : rows[m] \in Candles \cup {Missing}
  /\ active.minute \in 0 .. now /\ feed.changed \in 0 .. now
  /\ feed.state \in {"LIVE", "QUIET", "STALLED", "INACTIVE", "RECOVERING"}

\* candle_builder.py:74: minutes are synthesized only where at most ShortGap
\* minutes passed between the candles around them, so a closed market leaves no
\* line of flat candles, whatever was verified, recovered or filled before.
ShortGapsOnly ==
  \A m \in Minutes : rows[m].by = "fill" =>
    \E u, v \in Minutes :
      /\ u < m /\ m < v /\ v - u <= ShortGap
      /\ rows[u] # Missing /\ rows[u].by # "fill"
      /\ rows[v] # Missing /\ rows[v].by # "fill"

\* No tick the worker built is missing from its minute: the candle spans it, or
\* the provider's own candle replaced it, or the minute never moved and was taken
\* for a quiet one, or a worker was replaced within it.
TicksCovered ==
  \A m \in Minutes :
    \/ rows[m].by = "provider" \/ m \in abandoned
    \/ rows[m].by \in {"none", "fill"} /\ Cardinality(seen[m]) <= 1
    \/ \A p \in seen[m] : rows[m].low <= p /\ p <= rows[m].high

\* A candle of a minute that is over is complete, in name and in fact: the only
\* ones marked incomplete are the minute being built and those a stopped worker
\* left behind, and a bar that a recovery read before its minute was over, and
\* stored as complete, stays only while no tick built since differs from it.
\* (Nothing replaces it in a minute without another built tick, as when a
\* provider of higher priority took over: that candle stays half-built.)
NoHalfCandles ==
  \A m \in Minutes :
    /\ rows[m] # Missing /\ ~ rows[m].complete => m = active.minute \/ m \in abandoned
    /\ rows[m].by = "early" => seen[m] \subseteq {rows[m].close}

\* An aggregate row is the aggregate of the rows under it, unless one of them was
\* written by _recover or removed as unchanged since its last refresh.
AggregatesFollow ==
  \A b \in Buckets :
    \/ \E m \in unreported : BucketStart(m) = b
    \/ agg[b] = Missing \/ agg[b] = Build(rows, Source(rows, b))
==============================================================================
