------------------------------ MODULE Ingestion ------------------------------
(***************************************************************************)
(* The path of a downloaded M1 response from the terminal to the candle    *)
(* table: UploadCandles of the bridge posts it chunk by chunk, the handler *)
(* bridge_candles (web.py) buffers or cleans a chunk and waits for the     *)
(* history process (WorkerProcess), which compresses and writes it.        *)
(*                                                                         *)
(* The bridge does one call at a time but gives a call up long before the  *)
(* handler does, so handlers of an earlier execution are still at work     *)
(* when a request is executed again.                                       *)
(*                                                                         *)
(* A request is of one of three kinds: "refresh" is buffered until whole   *)
(* and replaces its window, "live" overwrites, "plain" inserts what is     *)
(* missing.                                                                *)
(***************************************************************************)
EXTENDS WorkerProcess, SequencesExt, FiniteSetsExt

CONSTANTS
  MaxMinute, ChunkSize,   \* bound: minutes of the window; bars per chunk
  Responses,              \* what the terminal may answer, see Bars
  MaxQuiet,               \* minutes a flat run may last to be kept
  Kinds,                  \* kinds of requests
  MaxRuns,                \* bound: executions of requests
  MaxAged                 \* bound: times a buffer reaches its TTL

Minutes == 1 .. MaxMinute
Chunks  == 1 .. MaxMinute \div ChunkSize

\* A bar is flat at some price, or moves and closes there.  Missing and
\* Stale rows are no bars of the terminal.
Bars    == [flat : BOOLEAN, close : 1 .. 3]
Missing == [flat |-> FALSE, close |-> 0]
Stale   == [flat |-> FALSE, close |-> 4]

ASSUME IngestionAssumption ==
  /\ ChunkSize \in Nat \ {0} /\ MaxMinute \in Nat \ {0} /\ MaxMinute % ChunkSize = 0
  /\ Responses \subseteq [Minutes -> Bars]
  /\ MaxQuiet \in Nat /\ MaxRuns \in Nat /\ MaxAged \in Nat
  /\ Kinds \subseteq {"refresh", "live", "plain"}

Table == INSTANCE CandleStore WITH Times <- Minutes

VARIABLES
  bars,      \* what the terminal answers
  rows,      \* the candle table
  stamped,   \* times with provenance rank 700
  held,      \* _compress_flat_m1's pending bar, 0 for none
  stamping,  \* rows the child has written and not yet stamped
  body,      \* what each job carries
  handling,  \* calls whose handler has not answered
  buffer,    \* AuthoritativeRefreshBuffer: the chunks of each request
  aged,      \* buffers expired so far
  request,   \* number of the request (its id) under execution
  kind,
  ea,        \* UploadCandles
  runs,
  committed, \* history: jobs whose transaction was committed
  undone     \* history: some transaction failed

plane == <<bars, request, kind, runs>>
data  == <<rows, stamped, held, stamping, committed, undone>>
vars  == <<rpcVars, plane, data, body, handling, buffer, aged, ea>>

Chunk(c) == (c - 1) * ChunkSize + 1 .. c * ChunkSize
Batch(S) == [t \in S |-> bars[t]]
Idle == [stage |-> "idle", chunk |-> 0, call |-> Nothing]

Init ==
  /\ RpcInit
  /\ bars \in Responses
  /\ rows = [t \in Minutes |-> IF t = 1 THEN Stale ELSE Missing]
  /\ stamped = {} /\ held = 0 /\ stamping = {}
  /\ committed = {} /\ undone = FALSE
  /\ body = [id \in Jobs |-> [kind |-> "plain", run |-> 0, minutes |-> {}]]
  /\ handling = {} /\ buffer = [r \in 0 .. MaxRuns |-> {}] /\ aged = 0
  /\ request = 0 /\ kind = "plain" /\ ea = Idle /\ runs = 0

-----------------------------------------------------------------------------
(* Cleaning a response *)

\* _is_flat_at_previous_close
Unchanged(bar, last) == bar = last \/ (bar.flat /\ bar.close = last.close)

\* The last bar before one of the chunk S: the last of the bars E of the chunk
\* taken before it, or at first the latest row stored before the chunk.  A row at
\* its first minute hides the earlier ones.
LastRow(S) ==
  LET before == Table!Present(rows, 1 .. Min(S)) IN
  IF before = {} \/ Max(before) = Min(S) THEN 0 ELSE Max(before)
LastBar(S, E) == IF E = {} THEN LastRow(S) ELSE Max(E)

Changed(S, E, t) ==
  \/ LastBar(S, E) = 0
  \/ ~ Unchanged(bars[t], IF E = {} THEN rows[LastBar(S, E)] ELSE bars[LastBar(S, E)])

\* The bars of the chunk that are not what the last one was.
Before(C, t) == {u \in C : u < t}
Changes(S) == CHOOSE C \in SUBSET S : \A t \in S : t \in C <=> Changed(S, Before(C, t), t)

\* _sanitize_historical_minutes: they are kept, and with each the run of unchanged
\* bars before it if it comes within MaxQuiet minutes.
Sanitized(S) ==
  LET C == Changes(S) IN
  C \cup {t \in S : \E u \in C : LET last == LastBar(S, Before(C, u)) IN
                                 last < t /\ t < u /\ u - last <= MaxQuiet}

\* _compress_flat_m1: a flat bar is written when a later bar of the job differs
\* from it; the last one is held, for the first of the next job to differ.
Kept(S) ==
  {t \in S : LET later == {u \in S : u > t} IN
             ~ bars[t].flat \/ (later # {} /\ bars[Min(later)] # bars[t])}

Released(S) == IF held # 0 /\ bars[held] # bars[Min(S)] THEN {held} ELSE {}

-----------------------------------------------------------------------------
(* The bridge *)

\* A command to fetch the window; a live request asks for its latest minutes,
\* which are one chunk.
Fetch ==
  /\ ea.stage \in {"idle", "complete", "failed"} /\ runs < MaxRuns
  /\ \E k \in Kinds, c \in Chunks :
       /\ k # "live" => c = 1
       /\ kind' = k
       /\ ea' = [stage |-> "posting", chunk |-> c, call |-> Nothing]
  /\ request' = request + 1 /\ runs' = runs + 1
  /\ UNCHANGED <<rpcVars, bars, data, body, handling, buffer, aged>>

LastChunk == kind = "live" \/ ea.chunk = Max(Chunks)

\* The chunk is acknowledged with counts that add up, or it is not.
Accepted == [ea EXCEPT !.call = Nothing,
                       !.stage = IF LastChunk THEN "complete" ELSE "posting",
                       !.chunk = IF LastChunk THEN @ ELSE @ + 1]
Rejected == [ea EXCEPT !.stage = "failed", !.call = Nothing]

\* The result was reported.  After a failure the server asks again, with a new
\* id or, when the report was lost and the lease ran out, with the same one.
Repeat ==
  /\ ea.stage \in {"complete", "failed"} /\ runs < MaxRuns
  /\ request' \in {request, request + 1} /\ runs' = runs + 1
  /\ ea' = [stage |-> "posting", chunk |-> IF kind = "live" THEN ea.chunk ELSE 1, call |-> Nothing]
  /\ UNCHANGED <<rpcVars, bars, kind, data, body, handling, buffer, aged>>

\* A post fails on its way, or the terminal gives it up while it is handled.
GiveUp ==
  /\ ea.stage \in {"posting", "waiting"}
  /\ ea' = Rejected
  /\ UNCHANGED <<rpcVars, plane, data, body, handling, buffer, aged>>

-----------------------------------------------------------------------------
(* The handler of a chunk *)

\* Its job is queued, or refused at once.
Enqueue(id, S) ==
  /\ Submit(id) \/ Refuse(id)
  /\ body' = [body EXCEPT ![id] = [kind |-> kind, run |-> request, minutes |-> S]]
  /\ handling' = handling \cup {id}
  /\ ea' = [ea EXCEPT !.stage = "waiting", !.call = <<id>>]

New(id) == body[id].minutes = {}

\* A chunk none of whose bars is left is acknowledged as skipped.
PostPlain(id) ==
  /\ ea.stage = "posting" /\ kind # "refresh" /\ New(id)
  /\ LET S == IF kind = "live" THEN Chunk(ea.chunk) ELSE Sanitized(Chunk(ea.chunk)) IN
       \/ S # {} /\ Enqueue(id, S)
       \/ S = {} /\ ea' = Accepted /\ UNCHANGED <<rpcVars, body, handling>>
  /\ UNCHANGED <<plane, data, buffer, aged>>

\* The chunks buffered for the request once the one being posted is added;
\* a buffer older than its TTL is dropped before.
Buffered(old) == {ea.chunk} \cup (IF old THEN {} ELSE buffer[request])

\* Mutant: the last chunk completes the response.
AssembleOnLast(id) ==
  /\ ea.stage = "posting" /\ kind = "refresh" /\ New(id)
  /\ \E old \in {FALSE} \cup {aged < MaxAged} :
       LET got == Buffered(old) IN
       /\ aged' = aged + IF old THEN 1 ELSE 0
       /\ \/ /\ LastChunk
             /\ buffer' = [buffer EXCEPT ![request] = {}]
             /\ Enqueue(id, UNION {Chunk(c) : c \in got})
          \/ /\ ~ LastChunk
             /\ buffer' = [buffer EXCEPT ![request] = got]
             /\ ea' = Accepted /\ UNCHANGED <<rpcVars, body, handling>>
  /\ UNCHANGED <<plane, data>>

\* AuthoritativeRefreshBuffer.add: nothing is stored before every chunk is there.
PostRefresh(id) ==
  /\ ea.stage = "posting" /\ kind = "refresh" /\ New(id)
  /\ \E old \in {FALSE} \cup {aged < MaxAged} :
       LET got == Buffered(old) IN
       /\ aged' = aged + IF old THEN 1 ELSE 0
       /\ \/ /\ got = Chunks
             /\ buffer' = [buffer EXCEPT ![request] = {}]
             /\ Enqueue(id, UNION {Chunk(c) : c \in got})
          \/ /\ got # Chunks
             /\ buffer' = [buffer EXCEPT ![request] = got]
             /\ ea' = Accepted /\ UNCHANGED <<rpcVars, body, handling>>
  /\ UNCHANGED <<plane, data>>

\* What the bridge counts: stored + skipped, with skipped = max(0, received - stored).
Counted(id) ==
  \/ body[id].kind = "refresh"
  \/ outcome[id].rows <= ChunkSize

\* Mutant: a chunk is acknowledged whatever became of its job.
ReturnStored(id) ==
  /\ id \in handling /\ outcome[id].state # "open"
  /\ handling' = handling \ {id}
  /\ ea' = IF ea.call = <<id>> THEN Accepted ELSE ea
  /\ UNCHANGED <<rpcVars, plane, data, body, buffer, aged>>

\* The handler returns; a failed replacement discards the buffer of its request.
Return(id) ==
  /\ id \in handling /\ outcome[id].state # "open"
  /\ handling' = handling \ {id}
  /\ ea' = IF ea.call # <<id>> THEN ea
           ELSE IF outcome[id].state = "ok" /\ Counted(id) THEN Accepted ELSE Rejected
  /\ buffer' = IF body[id].kind = "refresh" /\ outcome[id].state = "failed"
               THEN [buffer EXCEPT ![body[id].run] = {}] ELSE buffer
  /\ UNCHANGED <<rpcVars, plane, data, body, aged>>

-----------------------------------------------------------------------------
(* The history process *)

\* Mutant: provenance does not depend on the write having succeeded.
StampAnyway(job, fails, S) == IF job.kind = "plain" THEN {} ELSE S

\* The rows to be stamped after a job.
Stamping(job, fails, S) == IF job.kind = "plain" \/ fails THEN {} ELSE S

\* One job: compressed and written; with `fails` the transaction is undone, the
\* compression is not.
Work(fails) ==
  /\ queue # <<>>
  /\ LET job     == body[Head(queue)]
         late    == IF job.kind = "refresh" THEN {} ELSE Released(job.minutes)
         kept    == IF job.kind = "refresh" THEN job.minutes ELSE Kept(job.minutes)
         batch   == Batch(late \cup kept)
         written == CASE job.kind = "refresh" -> Table!ReplaceWindow(rows, batch, Minutes)
                      [] job.kind = "live"    -> Table!Overwrite(rows, batch)
                      [] job.kind = "plain"   -> Table!InsertMissing(rows, batch)
     IN /\ rows' = IF fails THEN rows ELSE written
        /\ stamped' = IF job.kind = "refresh" /\ ~ fails THEN {} ELSE stamped
        /\ stamping' = Stamping(job, fails, late \cup kept)
        /\ held' = IF job.kind = "refresh" THEN held
                   ELSE IF bars[Max(job.minutes)].flat THEN Max(job.minutes) ELSE 0
        /\ Execute(~ fails, IF job.kind = "plain" THEN Table!Changed(rows, written)
                            ELSE Cardinality(late) + Cardinality(kept))
        /\ committed' = IF fails THEN committed ELSE committed \cup {Head(queue)}
  /\ undone' = (undone \/ fails)
  /\ UNCHANGED <<plane, body, handling, buffer, aged, ea>>

\* Provenance is stamped row by row in transactions of its own, then the
\* answer put.
Acknowledge ==
  /\ Reply
  /\ stamped' = stamped \cup stamping /\ stamping' = {}
  /\ UNCHANGED <<plane, rows, held, committed, undone, body, handling, buffer, aged, ea>>

\* What is held lives in the memory of the child; some rows were stamped.
ChildDies ==
  /\ Crash /\ held' = 0
  /\ \E S \in SUBSET stamping : stamped' = stamped \cup S
  /\ stamping' = {}
  /\ UNCHANGED <<plane, rows, committed, undone, body, handling, buffer, aged, ea>>

Listen ==
  /\ Collect
  /\ UNCHANGED <<plane, data, body, handling, buffer, aged, ea>>

WaitEnds(id) ==
  /\ Expire(id)
  /\ UNCHANGED <<plane, data, body, handling, buffer, aged, ea>>

Stop ==
  /\ ShutDown \/ Finish
  /\ UNCHANGED <<plane, data, body, handling, buffer, aged, ea>>

Next ==
  \/ Fetch \/ Repeat \/ GiveUp
  \/ \E id \in Jobs : PostPlain(id) \/ PostRefresh(id) \/ Return(id) \/ WaitEnds(id)
  \/ Work(FALSE) \/ Work(TRUE) \/ Acknowledge \/ ChildDies \/ Listen \/ Stop

Spec == Init /\ [][Next]_vars

-----------------------------------------------------------------------------

\* Every variable has its type.
TypeOK ==
  /\ queue \in Seq(Jobs) /\ waiting \subseteq handling /\ handling \subseteq Jobs
  /\ child \in {"none", "up", "dead"}
  /\ \A id \in Jobs : outcome[id].state \in {"open", "ok", "failed"}
  /\ rows \in [Minutes -> Bars \cup {Missing, Stale}]
  /\ stamped \subseteq Minutes /\ stamping \subseteq Minutes /\ held \in {0} \cup Minutes
  /\ \A id \in Jobs : body[id].minutes \subseteq Minutes
  /\ buffer \in [0 .. MaxRuns -> SUBSET Chunks]
  /\ ea.stage \in {"idle", "posting", "waiting", "complete", "failed"}
  /\ request \in 0 .. MaxRuns

\* A handler is told that its job was stored only if that very job was
\* committed: late answers, dead children and timeouts do not get it another's.
AckMeansWritten == \A id \in Jobs : outcome[id].state = "ok" => id \in committed

\* A refreshed window is replaced by all of the terminal's bars or not at all,
\* whatever chunks were lost, repeated, or dropped with an expired buffer.
WindowWhole ==
  [][\A id \in committed' \ committed : body[id].kind = "refresh" => rows' = bars]_vars

\* Once the terminal reports an upload complete, every bar that moved is in the
\* table.  A plain upload leaves out bars it takes for a repetition; it may do so
\* only with a bar whose price was there before.
MovesStored ==
  ea.stage = "complete" =>
    \A t \in IF kind = "live" THEN Chunk(ea.chunk) ELSE Minutes :
      \/ kind = "refresh" \/ bars[t].flat
      \/ rows[t] # Missing
      \/ kind = "plain" /\ \E u \in 1 .. t - 1 : bars[u].close = bars[t].close

\* A row with the provenance of the provider is a row of the provider: the two
\* are written in different transactions, and the window may be replaced between.
StampedOfficial == \A t \in stamped : rows[t] = bars[t]

\* The handlers and the process are a service of jobs: nothing is done twice or out
\* of order, and no caller is told what became of another's job, whatever deaths,
\* timeouts, refused calls and late answers came between.
Service == INSTANCE JobService WITH
  asked <- {id \in Jobs : ~ New(id)}, pending <- queue, done <- committed,
  told <- [id \in Jobs |-> outcome[id].state], open <- ~ (stopped /\ child = "none")
ImplementsJobs == Service!Spec

\* README.md:258: the counts of every acknowledgement match the chunk.
CountsMatch == \A id \in Jobs : outcome[id].state = "ok" => Counted(id)
==============================================================================
