---------------------------- MODULE CandleBuilder ----------------------------
(***************************************************************************)
(* CandleBuilder (candle_builder.py) and CandleAggregator (aggregation.py) *)
(* for one provider and instrument, as functions of the candle table: what *)
(* one tick does to the one-minute rows and to the aggregate rows above    *)
(* them.  Prices are small numbers, 0 where there is none.                 *)
(***************************************************************************)
EXTENDS Naturals, FiniteSets, FiniteSetsExt

CONSTANTS
  MaxMinute,   \* bound: minutes of a behaviour
  MaxPrice,    \* bound: distinct prices
  ShortGap,    \* short_gap_minutes
  BucketSize   \* minutes of an aggregate bucket

Minutes == 1 .. MaxMinute
Prices  == 1 .. MaxPrice
Sources == {"ticks", "fill", "provider", "early"}   \* "early": a bar read before its minute was over

Candles == [open : Prices, high : Prices, low : Prices, close : Prices,
            complete : BOOLEAN, by : Sources]
Missing == [open |-> 0, high |-> 0, low |-> 0, close |-> 0, complete |-> FALSE, by |-> "none"]
Quiet(p, by) == [open |-> p, high |-> p, low |-> p, close |-> p, complete |-> TRUE, by |-> by]

Hi(a, b) == IF a > b THEN a ELSE b
Lo(a, b) == IF a < b THEN a ELSE b

-----------------------------------------------------------------------------
(* One minute *)

\* _MutableCandle: the minute being built; minute 0 when there is none.
NoActive == [minute |-> 0, candle |-> Missing, stored |-> FALSE]

\* from_tick
FromTick(m, p, open) ==
  [minute |-> m, stored |-> FALSE,
   candle |-> [open |-> open, high |-> Hi(open, p), low |-> Lo(open, p), close |-> p,
               complete |-> FALSE, by |-> "ticks"]]

\* Mutant: only the close follows the price.
ApplyClose(active, p) == [active EXCEPT !.candle.close = p]

\* apply
Apply(active, p) ==
  LET c == active.candle IN
  [active EXCEPT !.candle = [c EXCEPT !.high = Hi(c.high, p), !.low = Lo(c.low, p), !.close = p]]

\* _latest_completed and _previous_completed_before (of the last ten rows).
CompleteBefore(rows, m) == {u \in Minutes : u < m /\ rows[u].complete}
Previous(rows, m) ==
  LET S == CompleteBefore(rows, m) IN IF S = {} THEN 0 ELSE Max(S)
CloseAt(rows, u) == IF u = 0 THEN 0 ELSE rows[u].close

IsUnchangedFlat(active, close) ==
  LET c == active.candle IN
  c.open = c.high /\ c.high = c.low /\ c.low = c.close /\ c.close = close

Put(rows, m, candle) == [rows EXCEPT ![m] = candle]

\* upsert_candle, for every candle of a batch
Upsert(rows, batch) == [m \in Minutes |-> IF m \in DOMAIN batch THEN batch[m] ELSE rows[m]]

\* _persist_active
Persist(rows, active) == Put(rows, active.minute, active.candle)

\* Mutant: a minute that ends is left as it is.
LeaveOpen(rows, active) == rows

\* _finalize_active: a minute that turns out unchanged leaves no row.
Finalize(rows, active) ==
  IF active.minute = 0 THEN rows
  ELSE IF IsUnchangedFlat(active, CloseAt(rows, Previous(rows, active.minute)))
  THEN IF active.stored THEN Put(rows, active.minute, Missing) ELSE rows
  ELSE Put(rows, active.minute, [active.candle EXCEPT !.complete = TRUE])

\* flush(complete = FALSE)
Flush(rows, active) == IF active.stored THEN Persist(rows, active) ELSE rows

\* _verify_gap: what the provider has in the gap overwrites the rows there.
VerifyGap(rows, u, m, fetched) ==
  Upsert(rows, [k \in {j \in DOMAIN fetched : u < j /\ j < m} |-> fetched[k]])

\* _fill_short_gap
FillShortGap(rows, u, m) ==
  LET gap == {j \in Minutes : u < j /\ j < m /\ rows[j] = Missing} IN
  Upsert(rows, [k \in gap |-> Quiet(rows[u].close, "fill")])

-----------------------------------------------------------------------------
(* ingest: the rows and the active minute after a tick of price p in minute *)
(* m, and the minutes it reports as written                                *)

Opening(rows, u, m, p, connected) == IF connected /\ u # 0 /\ u + 1 = m THEN rows[u].close ELSE p

SameMinute(rows, active, p) ==
  LET a == Apply(active, p)
      write == a.stored \/ ~ IsUnchangedFlat(a, CloseAt(rows, Previous(rows, a.minute)))
  IN [rows |-> IF write THEN Persist(rows, a) ELSE rows,
      active |-> [a EXCEPT !.stored = write],
      written |-> IF write THEN {a.minute} ELSE {}]

\* Mutant: the gap is measured once its verified minutes are there.
FillsAnyGap(rows, u, m, connected) ==
  IF u # 0 /\ connected THEN FillShortGap(rows, u, m) ELSE rows

\* Only a short gap is filled, and only when the feed stayed connected.
Filled(rows, u, m, connected) ==
  IF u # 0 /\ connected /\ m - u <= ShortGap THEN FillShortGap(rows, u, m) ELSE rows

NewMinute(rows, active, m, p, connected, fetched) ==
  LET done  == Finalize(rows, active)
      ended == {active.minute} \cap {k \in Minutes : done[k] # Missing}
      u     == Previous(done, MaxMinute + 1)
      first == FromTick(m, p, Opening(done, u, m, p, connected))
  IN IF IsUnchangedFlat(first, CloseAt(done, u))
     THEN [rows |-> done, active |-> first, written |-> ended]
     ELSE LET checked == IF u = 0 THEN done ELSE VerifyGap(done, u, m, fetched)
              filled  == Filled(checked, u, m, connected)
              v       == Previous(filled, MaxMinute + 1)
              a       == FromTick(m, p, Opening(filled, v, m, p, connected))
              between == {k \in Minutes : 0 < u /\ u < k /\ k < m /\ filled[k] # Missing}
          IN [rows |-> Persist(filled, a), active |-> [a EXCEPT !.stored = TRUE],
              written |-> ended \cup between \cup {m}]

Ingest(rows, active, m, p, connected, fetched) ==
  IF active.minute = m THEN SameMinute(rows, active, p)
  ELSE NewMinute(rows, active, m, p, connected, fetched)

-----------------------------------------------------------------------------
(* Aggregates *)

Buckets == 0 .. (MaxMinute - 1) \div BucketSize
BucketStart(m) == (m - 1) \div BucketSize
Source(rows, b) == {m \in Minutes : BucketStart(m) = b /\ rows[m] # Missing}

\* CandleAggregator._build
Build(rows, S) ==
  IF S = {} THEN Missing
  ELSE [open |-> rows[Min(S)].open, close |-> rows[Max(S)].close,
        high |-> Max({rows[m].high : m \in S}), low |-> Min({rows[m].low : m \in S}),
        complete |-> \A m \in S : rows[m].complete, by |-> "aggregate"]

\* The buckets of some minutes that hold candles: an empty one stays as it was.
Touched(rows, times) ==
  {b \in Buckets : (\E m \in times : BucketStart(m) = b) /\ Source(rows, b) # {}}

\* refresh_bucket
Refresh(agg, rows, times) ==
  LET touched == Touched(rows, times) IN
  [b \in Buckets |-> IF b \in touched THEN Build(rows, Source(rows, b)) ELSE agg[b]]

\* finalize_closed_buckets: only buckets that ended by now.
FinalizeClosed(agg, rows, times, now) ==
  Refresh(agg, rows, {m \in times : (BucketStart(m) + 1) * BucketSize < now})
==============================================================================
