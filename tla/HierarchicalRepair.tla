------------------------- MODULE HierarchicalRepair -------------------------
(***************************************************************************)
(* HierarchicalCandleRepair (hierarchical_repair.py), run by the child of  *)
(* CandleRepairProcess (repair_worker.py), for one provider and instrument.*)
(* A run goes through five stages; each rebuilds the candles of one        *)
(* timeframe from the finer ones below and writes a candidate where there  *)
(* is no row, or a different one of lower rank.                            *)
(*                                                                         *)
(* Every read and write is a transaction of its own, while the server goes *)
(* on importing minutes and refreshing the aggregates above them.  The job *)
(* queue between the two processes is WorkerProcess.                       *)
(***************************************************************************)
EXTENDS WorkerProcess, FiniteSetsExt

CONSTANTS
  MaxMinute,
  Width,        \* [Timeframes -> minutes of a candle]
  SourceChunk,  \* [source timeframes -> minutes read at a time]
  Tables,       \* candle tables and ranks a behaviour may begin with
  MaxFaults     \* bound: imports, stages that fail and deaths of the child

Timeframes == {"1m", "15m", "1h", "1d", "1w", "1mo"}
Minutes    == 1 .. MaxMinute

VARIABLES
  table,     \* [Timeframes -> [Minutes -> row]], by open time
  rank,      \* [Timeframes -> [Minutes -> quality_rank]]: candle_provenance, 0 for no row
  run,       \* where the child is in run()
  clean,     \* history: nothing was imported, failed or died since the run began
  imports, errors

repairVars == <<table, rank, run, clean, imports, errors>>
vars == <<rpcVars, repairVars>>

\* A row is told apart by its tick count, which is added up when it is built: what is
\* built has all the ticks of its sources.
Missing == [count |-> 0, complete |-> FALSE]
Row(n)  == [count |-> n, complete |-> TRUE]
Official == 700

\* Mutant: the days are rebuilt before the hours they are built from.
DaysFirst == <<
  [from |-> "1m", to |-> "15m", rank |-> 520], [from |-> "1h", to |-> "1d", rank |-> 450],
  [from |-> "1m", to |-> "1h", rank |-> 500],  [from |-> "1d", to |-> "1w", rank |-> 400],
  [from |-> "1d", to |-> "1mo", rank |-> 400] >>

STAGES == <<
  [from |-> "1m", to |-> "15m", rank |-> 520], [from |-> "1m", to |-> "1h", rank |-> 500],
  [from |-> "1h", to |-> "1d", rank |-> 450],  [from |-> "1d", to |-> "1w", rank |-> 400],
  [from |-> "1d", to |-> "1mo", rank |-> 400] >>

\* bucket_start, and the source rows from there to bucket_end
OpenTime(m, tf) == ((m - 1) \div Width[tf]) * Width[tf] + 1
Source(rows, to, b) == {m \in Minutes : OpenTime(m, to) = b /\ rows[m] # Missing}

\* _build
TicksOf(rows, S) == UNION {{m} \X (1 .. rows[m].count) : m \in S}
Build(rows, S) ==
  [count |-> Cardinality(TicksOf(rows, S)),
   complete |-> \A m \in S : rows[m].complete]

\* The rank an existing row has when nothing recorded where it is from.
RankOf(tf, b) ==
  IF rank[tf][b] # 0 THEN rank[tf][b] ELSE IF table[tf][b].complete THEN 300 ELSE 100

-----------------------------------------------------------------------------
(* run *)

Idle == [phase |-> "idle", stage |-> 0, cursor |-> 0, stop |-> 0, todo |-> {}, done |-> {},
         candidate |-> Missing]
Stage == STAGES[run.stage]
Disturbed == imports + errors + crashes
Bucket == Min(run.todo)

\* The bucket at hand is done with.
Next1 == [run EXCEPT !.phase = "chunk", !.todo = @ \ {Bucket}]

\* The next stage, or the end.
NextStage == IF run.stage = Len(STAGES) THEN Idle
             ELSE [Idle EXCEPT !.phase = "stage", !.stage = run.stage + 1]

\* _repair_candles: the bounds of the source ...
StartStage ==
  /\ run.phase = "stage"
  /\ LET S == {m \in Minutes : table[Stage.from][m] # Missing} IN
       run' = IF S = {} THEN NextStage
              ELSE [run EXCEPT !.phase = "chunk", !.cursor = Min(S), !.stop = Max(S) + Width[Stage.from]]
  /\ UNCHANGED <<rpcVars, table, rank, clean, imports, errors>>

\* ... chunk by chunk, the buckets that begin or go on in the chunk; one that
\* crosses its end is not done again ...
ReadChunk ==
  /\ run.phase = "chunk" /\ run.todo = {}
  /\ IF run.cursor >= run.stop THEN run' = NextStage
     ELSE LET end == Min({run.stop, run.cursor + SourceChunk[Stage.from]})
              S == {m \in Minutes : run.cursor <= m /\ m < end /\ table[Stage.from][m] # Missing}
          IN run' = [run EXCEPT !.todo = {OpenTime(m, Stage.to) : m \in S} \ run.done, !.cursor = end]
  /\ UNCHANGED <<rpcVars, table, rank, clean, imports, errors>>

\* ... and each bucket is read in full: built when all it has is complete.
ReadBucket ==
  /\ run.phase = "chunk" /\ run.todo # {}
  /\ LET S == Source(table[Stage.from], Stage.to, Bucket)
         seen == [run EXCEPT !.done = @ \cup {Bucket}]
     IN run' = IF S = {} \/ \E m \in S : ~table[Stage.from][m].complete
               THEN [seen EXCEPT !.todo = @ \ {Bucket}]
               ELSE [seen EXCEPT !.phase = "look", !.candidate = Build(table[Stage.from], S)]
  /\ UNCHANGED <<rpcVars, table, rank, clean, imports, errors>>

\* _apply_candidate: the decision on the row and the rank that are there now ...
Look ==
  /\ run.phase = "look"
  /\ LET row == table[Stage.to][Bucket] IN
       run' = IF \/ row = Missing
                 \/ row # run.candidate /\ Stage.rank > RankOf(Stage.to, Bucket)
              THEN [run EXCEPT !.phase = "write"] ELSE Next1
  /\ UNCHANGED <<rpcVars, table, rank, clean, imports, errors>>

\* ... the row ...
Write ==
  /\ run.phase = "write"
  /\ table' = [table EXCEPT ![Stage.to][Bucket] = run.candidate]
  /\ run' = [run EXCEPT !.phase = "stamp"]
  /\ UNCHANGED <<rpcVars, rank, clean, imports, errors>>

\* ... and _record_provenance.
Stamp ==
  /\ run.phase = "stamp"
  /\ rank' = [rank EXCEPT ![Stage.to][Bucket] = Stage.rank]
  /\ run' = Next1
  /\ UNCHANGED <<rpcVars, table, clean, imports, errors>>

\* A stage that raises is counted; the run goes on with the next one and is
\* answered like any other.
StageFails ==
  /\ run.phase \notin {"idle"} /\ Disturbed < MaxFaults
  /\ errors' = errors + 1 /\ clean' = FALSE
  /\ run' = NextStage
  /\ UNCHANGED <<rpcVars, table, rank, imports>>

Repair == StartStage \/ ReadChunk \/ ReadBucket \/ Look \/ Write \/ Stamp

-----------------------------------------------------------------------------
(* The process around it *)

Submitted(id) == Submit(id) /\ UNCHANGED repairVars
Refused(id)   == Refuse(id) /\ UNCHANGED repairVars

\* _repair_worker_main: the next job, ...
TakeJob ==
  /\ run = Idle /\ Execute(TRUE, 0)
  /\ run' = [Idle EXCEPT !.phase = "stage", !.stage = 1] /\ clean' = TRUE
  /\ UNCHANGED <<table, rank, imports, errors>>

\* ... and its answer.
Answered == run = Idle /\ Reply /\ UNCHANGED repairVars

Dies ==
  /\ Disturbed < MaxFaults
  /\ Crash /\ run' = Idle /\ clean' = FALSE
  /\ UNCHANGED <<table, rank, imports, errors>>

\* CandleRepairProcess.run gives up after 1800 seconds; the child does not.
TimesOut(id) == Expire(id) /\ UNCHANGED repairVars

Listens == Collect /\ UNCHANGED repairVars
Stops   == ShutDown /\ UNCHANGED repairVars

Stopped ==
  /\ Finish /\ run' = Idle /\ clean' = FALSE
  /\ UNCHANGED <<table, rank, imports, errors>>

\* The server imports a minute and refreshes the aggregates above it from the
\* minutes (Mt5BridgeService.candles), whatever rank they have.
Import(m) ==
  /\ Disturbed < MaxFaults /\ imports' = imports + 1 /\ clean' = FALSE
  /\ LET minutes == [table EXCEPT !["1m"][m] = Row(2)] IN
       table' = [tf \in Timeframes |-> [b \in Minutes |->
         IF tf # "1m" /\ OpenTime(m, tf) = b
         THEN Build(minutes["1m"], Source(minutes["1m"], tf, b)) ELSE minutes[tf][b]]]
  /\ UNCHANGED <<rpcVars, rank, run, errors>>

Init ==
  /\ RpcInit /\ run = Idle /\ clean = FALSE /\ imports = 0 /\ errors = 0
  /\ \E t \in Tables : table = t.table /\ rank = t.rank

Unused(id) == id \notin waiting /\ outcome[id] = Open

Next ==
  \/ Repair \/ StageFails
  \/ \E id \in Jobs : \/ Unused(id) /\ (Submitted(id) \/ Refused(id))
                      \/ TimesOut(id)
  \/ TakeJob \/ Answered \/ Dies \/ Listens \/ Stops \/ Stopped
  \/ Import(MaxMinute)

-----------------------------------------------------------------------------

\* Every variable has its type.
TypeOK ==
  /\ \A tf \in Timeframes, m \in Minutes :
       /\ table[tf][m].count \in Nat /\ table[tf][m].complete \in BOOLEAN
       /\ rank[tf][m] \in {0, 400, 450, 500, 520, Official}
  /\ run.phase \in {"idle", "stage", "chunk", "look", "write", "stamp"}
  /\ run.todo \subseteq Minutes /\ run.done \subseteq Minutes
  /\ waiting \subseteq Jobs /\ clean \in BOOLEAN

\* hierarchical_repair.py:37-39: after a run nothing interfered with, every candle
\* above complete finer candles is the aggregate of these as they are now, or has
\* at least the rank of the stage; and a candle recorded as official is the
\* provider's, before, during and after a run, unless an import has refreshed it.
RepairConverges ==
  /\ clean /\ run = Idle =>
       \A i \in DOMAIN STAGES, m \in Minutes :
         LET s == STAGES[i]  b == OpenTime(m, s.to)  S == Source(table[s.from], s.to, b) IN
         S # {} /\ (\A u \in S : table[s.from][u].complete) =>
           \/ table[s.to][b] = Build(table[s.from], S)
           \/ RankOf(s.to, b) >= s.rank
  /\ imports = 0 =>
       \A tf \in Timeframes, b \in Minutes : rank[tf][b] = Official => table[tf][b] = Row(9)
==============================================================================
