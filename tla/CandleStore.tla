----------------------------- MODULE CandleStore -----------------------------
(***************************************************************************)
(* The transactions of MarketDataStore (storage.py) on the candles of one  *)
(* provider, instrument and timeframe.  A table gives each open time its   *)
(* row, or Missing; a batch is a function from some of the times to rows   *)
(* (a time repeated in one batch keeps the last row).  Each operator is    *)
(* one transaction.                                                        *)
(***************************************************************************)
EXTENDS FiniteSets

CONSTANTS
  Times,         \* open times
  Missing        \* no row

\* upsert_candle, and force_replace_candles for every row of the batch
Overwrite(table, batch) ==
  [t \in Times |-> IF t \in DOMAIN batch THEN batch[t] ELSE table[t]]

\* insert_candles_missing: INSERT OR IGNORE
InsertMissing(table, batch) ==
  [t \in Times |-> IF t \in DOMAIN batch /\ table[t] = Missing THEN batch[t] ELSE table[t]]

\* replace_candle_window: an empty batch leaves the window alone, a row outside
\* of it undoes the transaction.
ReplaceWindow(table, batch, window) ==
  IF DOMAIN batch = {} \/ ~ (DOMAIN batch \subseteq window) THEN table
  ELSE [t \in Times |-> IF t \in DOMAIN batch THEN batch[t]
                        ELSE IF t \in window THEN Missing ELSE table[t]]

\* What insert_candles_missing counts.
Changed(before, after) == Cardinality({t \in Times : before[t] # after[t]})

\* The times of a window that have a row (read_candles).
Present(table, window) == {t \in window : table[t] # Missing}
==============================================================================
