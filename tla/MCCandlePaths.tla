---------------------------- MODULE MCCandlePaths ----------------------------
(***************************************************************************)
(* What writes the candle table, side by side in one run: downloaded       *)
(* responses (Ingestion), live ticks (ProviderStream), and gap scans and   *)
(* repairs beside rebuilds.  A behaviour is one of the three, the others   *)
(* stand still.                                                            *)
(***************************************************************************)
EXTENDS MCIngestion

CONSTANTS
  SessionMinutes, MaxPrice, ShortGap, BucketSize,
  QuietAge, StalledAge, InactiveAge, Fallback, MaxRestarts,
  Threads, MaxTime, ExpectedOpen, GapLimit, MaxScans

ASSUME SessionAssumption ==
  /\ {SessionMinutes, MaxPrice, ShortGap, BucketSize} \subseteq Nat \ {0}
  /\ {QuietAge, StalledAge, InactiveAge, Fallback, MaxRestarts} \subseteq Nat
  /\ 0 < QuietAge /\ QuietAge < StalledAge /\ StalledAge < InactiveAge

VARIABLES
  path,   \* which of the three
  now, managed, feed, rival, ticked, table, agg, active, restarts, seen,
  unreported, abandoned,
  candles, gaps, ids, task, asked, scanned

session == <<now, managed, feed, rival, ticked, table, agg, active, restarts,
             seen, unreported, abandoned>>

scans == <<candles, gaps, ids, task, asked, scanned>>

Session == INSTANCE ProviderStream WITH MaxMinute <- SessionMinutes, rows <- table

Gaps == INSTANCE GapRepair WITH
  Open <- ExpectedOpen, Limit <- GapLimit, MaxCalls <- MaxScans, calls <- asked

MCInit ==
  /\ path \in {"history", "live", "gaps"}
  /\ Init         /\ (path = "history" \/ bars = CHOOSE r \in Responses : TRUE)
  /\ Session!Init /\ (path = "live" \/ ~ managed)
  /\ Gaps!Init

\* Job ids are alike: they are used in their order.
InIdOrder == \A i, j \in Jobs : i < j /\ ~ New(j)' => ~ New(i)'

MCNext ==
  /\ UNCHANGED path
  /\ \/ path = "history" /\ Next         /\ UNCHANGED <<session, scans>>
     \/ path = "live"    /\ Session!Next /\ UNCHANGED <<vars, scans>>
     \/ path = "gaps"    /\ Gaps!Next    /\ UNCHANGED <<vars, session>>
  /\ InIdOrder

paths == <<path, vars, session, scans>>

MCSpec == MCInit /\ [][MCNext]_paths

\* Every variable of what moves has its type.
AllTypes ==
  /\ path = "history" => TypeOK
  /\ path = "live" => Session!TypeOK
  /\ path = "gaps" => Gaps!TypeOK

\* candle_builder.py:74: minutes are synthesized only between candles at most
\* ShortGap minutes apart (see ProviderStream).
ShortGapsOnly == path = "live" => Session!ShortGapsOnly

\* No tick the worker of runtime.py built is missing from its minute.
TicksCovered == path = "live" => Session!TicksCovered

\* Rows of minutes that are over are complete, in name and in fact (see
\* ProviderStream for the bar a recovery reads early).
NoHalfCandles == path = "live" => Session!NoHalfCandles

\* Aggregate rows are the aggregates of the rows below them.
AggregatesFollow == path = "live" => Session!AggregatesFollow

\* history.py:152-178: what a gap scan establishes.
ScanComplete == path = "gaps" => Gaps!ScanComplete
==============================================================================
