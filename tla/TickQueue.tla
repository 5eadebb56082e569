------------------------------ MODULE TickQueue ------------------------------
(***************************************************************************)
(* The live queue of Mt5BridgeService (bridge.py): request threads put     *)
(* snapshots of ticks into a bounded queue that drops its oldest entry     *)
(* when it is full, one thread ingests them, and shutdown ends it with a   *)
(* sentinel that goes through the same queue.                              *)
(*                                                                         *)
(* enqueue_ticks serialises the request threads with _queue_lock; shutdown *)
(* and the consumer do not take that lock.                                 *)
(***************************************************************************)
EXTENDS Naturals, FiniteSets, Sequences, SequencesExt

CONSTANTS
  Batches,   \* request threads, each with one batch
  MaxQueue   \* max_queue_batches

Sentinel == "stop"

VARIABLES
  queue,
  post,      \* [Batches -> stage of enqueue_ticks]
  stopping,  \* _stopping
  closing,   \* stage of shutdown
  consumer,  \* stage of _consume
  hand,      \* the batch being ingested
  accepted,  \* history: batches acknowledged to the bridge, in order
  ingested,  \* history: batches ingested, in order
  raced      \* history: the sentinel was dropped, or found no room

vars == <<queue, post, stopping, closing, consumer, hand, accepted, ingested, raced>>

Init ==
  /\ queue = <<>> /\ post = [b \in Batches |-> "new"]
  /\ stopping = FALSE /\ closing = "no"
  /\ consumer = "idle" /\ hand = <<>>
  /\ accepted = <<>> /\ ingested = <<>> /\ raced = FALSE

Room   == Len(queue) < MaxQueue
Locked == \E b \in Batches : post[b] \in {"full", "retry"}

-----------------------------------------------------------------------------
(* enqueue_ticks *)

\* Nothing is taken once the service stops; what passed this test may still be
\* put behind the sentinel.
Check(b) ==
  /\ post[b] = "new"
  /\ post' = [post EXCEPT ![b] = IF stopping THEN "refused" ELSE "checked"]
  /\ UNCHANGED <<queue, stopping, closing, consumer, hand, accepted, ingested, raced>>

Accept(b) ==
  /\ queue' = Append(queue, b) /\ accepted' = Append(accepted, b)
  /\ post' = [post EXCEPT ![b] = "accepted"]

Put(b) ==
  /\ post[b] = "checked" /\ ~ Locked
  /\ \/ Room /\ Accept(b)
     \/ ~ Room /\ post' = [post EXCEPT ![b] = "full"] /\ UNCHANGED <<queue, accepted>>
  /\ UNCHANGED <<stopping, closing, consumer, hand, ingested, raced>>

\* Mutant: the newest entry makes room.
DropNewest(b) ==
  /\ post[b] = "full"
  /\ queue' = IF queue = <<>> THEN queue ELSE Front(queue)
  /\ raced' = (raced \/ (queue # <<>> /\ Last(queue) = Sentinel))
  /\ post' = [post EXCEPT ![b] = "retry"]
  /\ UNCHANGED <<stopping, closing, consumer, hand, accepted, ingested>>

\* The oldest entry makes room, be it the sentinel; the consumer may have made
\* some already.
DropOldest(b) ==
  /\ post[b] = "full"
  /\ queue' = IF queue = <<>> THEN queue ELSE Tail(queue)
  /\ raced' = (raced \/ (queue # <<>> /\ Head(queue) = Sentinel))
  /\ post' = [post EXCEPT ![b] = "retry"]
  /\ UNCHANGED <<stopping, closing, consumer, hand, accepted, ingested>>

\* Only shutdown can have taken the room: the bridge is told to come back.
PutAgain(b) ==
  /\ post[b] = "retry"
  /\ \/ Room /\ Accept(b)
     \/ ~ Room /\ post' = [post EXCEPT ![b] = "refused"] /\ UNCHANGED <<queue, accepted>>
  /\ UNCHANGED <<stopping, closing, consumer, hand, ingested, raced>>

-----------------------------------------------------------------------------
(* _consume *)

Take ==
  /\ consumer = "idle" /\ queue # <<>>
  /\ queue' = Tail(queue)
  /\ IF Head(queue) = Sentinel
     THEN consumer' = "ended" /\ UNCHANGED hand
     ELSE consumer' = "busy" /\ hand' = <<Head(queue)>>
  /\ UNCHANGED <<post, stopping, closing, accepted, ingested, raced>>

\* A batch that raises is done with like any other.
Ingest ==
  /\ consumer = "busy"
  /\ ingested' = ingested \o hand /\ hand' = <<>>
  /\ consumer' = "idle"
  /\ UNCHANGED <<queue, post, stopping, closing, accepted, raced>>

-----------------------------------------------------------------------------
(* shutdown *)

Stop ==
  /\ closing = "no" /\ stopping' = TRUE /\ closing' = "put"
  /\ UNCHANGED <<queue, post, consumer, hand, accepted, ingested, raced>>

\* Mutant: a full queue is left alone.
GivesUpWhenFull ==
  /\ closing = "put"
  /\ \/ Room /\ queue' = Append(queue, Sentinel) /\ closing' = "join"
     \/ ~ Room /\ closing' = "returned" /\ UNCHANGED queue
  /\ UNCHANGED <<post, stopping, consumer, hand, accepted, ingested, raced>>

PutSentinel ==
  /\ closing = "put"
  /\ \/ Room /\ queue' = Append(queue, Sentinel) /\ closing' = "join"
     \/ ~ Room /\ closing' = "full" /\ UNCHANGED queue
  /\ UNCHANGED <<post, stopping, consumer, hand, accepted, ingested, raced>>

MakeRoom ==
  /\ closing = "full"
  /\ queue' = IF queue = <<>> THEN queue ELSE Tail(queue)
  /\ closing' = "again"
  /\ UNCHANGED <<post, stopping, consumer, hand, accepted, ingested, raced>>

\* A request thread may have taken the room: shutdown returns without a sentinel.
PutSentinelAgain ==
  /\ closing = "again"
  /\ \/ Room /\ queue' = Append(queue, Sentinel) /\ closing' = "join" /\ UNCHANGED raced
     \/ ~ Room /\ closing' = "returned" /\ raced' = TRUE /\ UNCHANGED queue
  /\ UNCHANGED <<post, stopping, consumer, hand, accepted, ingested>>

\* The consumer has ended, or five seconds are over.
Joined ==
  /\ closing = "join" /\ closing' = "returned"
  /\ UNCHANGED <<queue, post, stopping, consumer, hand, accepted, ingested, raced>>

Putting(b) == Put(b) \/ DropOldest(b) \/ PutAgain(b)
Request(b) == Check(b) \/ Putting(b)
Consume    == Take \/ Ingest
Shutdown   == PutSentinel \/ MakeRoom \/ PutSentinelAgain \/ Joined

Next == (\E b \in Batches : Request(b)) \/ Consume \/ Stop \/ Shutdown

\* The threads run; nobody has to stop the service.
Fairness ==
  /\ \A b \in Batches : WF_vars(Putting(b))
  /\ WF_vars(Consume) /\ WF_vars(Shutdown)

Spec == Init /\ [][Next]_vars /\ Fairness

-----------------------------------------------------------------------------

\* Every variable has its type.
TypeOK ==
  /\ queue \in Seq(Batches \cup {Sentinel}) /\ Len(queue) <= MaxQueue
  /\ post \in [Batches -> {"new", "checked", "full", "retry", "accepted", "refused"}]
  /\ closing \in {"no", "put", "full", "again", "join", "returned"}
  /\ consumer \in {"idle", "busy", "ended"}

\* Places of the queue with a batch, and how many batches were put after one.
Waiting   == {i \in DOMAIN queue : queue[i] # Sentinel}
Behind(i) == Cardinality({j \in Waiting : j > i})

Earlier(a, b) ==
  \E k, l \in DOMAIN accepted : k < l /\ accepted[k] = a /\ accepted[l] = b

\* README.md:234: a full queue drops its oldest batch and keeps the newest.  What
\* waits is always the newest end of what was accepted, the batches are ingested
\* in that order, and while the service runs the last one accepted is ingested or
\* waits to be; a request thread may have dropped it only to put a newer one (the
\* consumer had taken the oldest).
NewestKept ==
  LET line == ingested \o hand \o queue IN
  /\ \A i \in Waiting :
       Behind(i) < Len(accepted) /\ queue[i] = accepted[Len(accepted) - Behind(i)]
  /\ \A i, j \in DOMAIN line :
       i < j /\ Sentinel \notin {line[i], line[j]} => Earlier(line[i], line[j])
  /\ \/ stopping \/ accepted = <<>> \/ \E b \in Batches : post[b] = "retry"
     \/ Last(accepted) \in ToSet(line)

\* A service that is shut down stops ingesting, however full its queue was and
\* whatever request threads were about to put a batch; unless one of these took
\* the sentinel for an old batch, or the room made for it.
ConsumerEnds == stopping ~> consumer = "ended" \/ raced
==============================================================================
