------------------------------ MODULE StreamHub ------------------------------
(***************************************************************************)
(* LiveStreamHub (streaming.py): provider threads publish events, each     *)
(* HTTP client of /api/stream/live reads its own bounded queue on the      *)
(* server's event loop.                                                    *)
(*                                                                         *)
(* A publisher numbers its event and reads the subscribers under the lock, *)
(* and hands the event to the loop after it has released the lock: two     *)
(* publishers may reach the loop in the other order than their numbers.    *)
(***************************************************************************)
EXTENDS Naturals, Sequences, SequencesExt

CONSTANTS
  Publishers,
  Clients,      \* one subscription each
  EventTypes,
  QueueSize,    \* queue_size
  MaxEvents     \* bound: events published

VARIABLES
  sequence,     \* _sequence
  handing,      \* [Publishers -> the event a publisher still hands over, and to whom]
  ready,        \* callbacks of the loop: <<client, event>>
  client,       \* [Clients -> "new" | "open" | "ended"]
  filter,       \* [Clients -> event types accepted]
  queue,
  received,
  due,          \* history: accepted events published while the client was subscribed
  lost          \* history: events dropped from a full queue

vars == <<sequence, handing, ready, client, filter, queue, received, due, lost>>

Nothing == [event |-> [number |-> 0, from |-> "nobody", type |-> "none"], to |-> {}]

Init ==
  /\ sequence = 0 /\ ready = <<>>
  /\ handing  = [p \in Publishers |-> Nothing]
  /\ client   = [c \in Clients |-> "new"]
  /\ filter   = [c \in Clients |-> {}]
  /\ queue    = [c \in Clients |-> <<>>]
  /\ received = [c \in Clients |-> <<>>]
  /\ due      = [c \in Clients |-> {}]
  /\ lost     = [c \in Clients |-> {}]

\* An event is its number, its type and its publisher.
Event(n, p, type) == [number |-> n, from |-> p, type |-> type]
Events == {Event(n, p, type) : n \in 1..MaxEvents, p \in Publishers, type \in EventTypes}

\* Mutant: the filter is not asked.
TargetsAll(event) == {c \in Clients : client[c] = "open"}

\* The subscribers the event is for.
Targets(event) == {c \in Clients : client[c] = "open" /\ event.type \in filter[c]}

-----------------------------------------------------------------------------

Publish(p, type) ==
  /\ handing[p].to = {} /\ sequence < MaxEvents
  /\ sequence' = sequence + 1
  /\ LET event == Event(sequence + 1, p, type) IN
       /\ handing' = [handing EXCEPT ![p] = [event |-> event, to |-> Targets(event)]]
       /\ due' = [c \in Clients |->
                    IF client[c] = "open" /\ type \in filter[c] THEN due[c] \cup {event} ELSE due[c]]
  /\ UNCHANGED <<ready, client, filter, queue, received, lost>>

\* call_soon_threadsafe, for one subscriber after the other.
HandOver(p, c) ==
  /\ c \in handing[p].to
  /\ ready' = Append(ready, <<c, handing[p].event>>)
  /\ handing' = [handing EXCEPT ![p].to = @ \ {c}]
  /\ UNCHANGED <<sequence, client, filter, queue, received, due, lost>>

\* Mutant: nothing is dropped.
EnqueueUnbounded ==
  /\ ready # <<>>
  /\ ready' = Tail(ready)
  /\ queue' = [queue EXCEPT ![Head(ready)[1]] = Append(@, Head(ready)[2])]
  /\ UNCHANGED <<sequence, handing, client, filter, received, due, lost>>

\* _enqueue, run by the loop: a full queue loses its oldest event.
Enqueue ==
  /\ ready # <<>>
  /\ ready' = Tail(ready)
  /\ LET c == Head(ready)[1]  full == Len(queue[c]) = QueueSize IN
       /\ queue' = [queue EXCEPT ![c] = Append(IF full THEN Tail(@) ELSE @, Head(ready)[2])]
       /\ lost'  = [lost EXCEPT ![c] = IF full THEN @ \cup {Head(queue[c])} ELSE @]
  /\ UNCHANGED <<sequence, handing, client, filter, received, due>>

-----------------------------------------------------------------------------

Subscribe(c, types) ==
  /\ client[c] = "new" /\ types # {}
  /\ client' = [client EXCEPT ![c] = "open"]
  /\ filter' = [filter EXCEPT ![c] = types]
  /\ UNCHANGED <<sequence, handing, ready, queue, received, due, lost>>

Receive(c) ==
  /\ client[c] = "open" /\ queue[c] # <<>>
  /\ received' = [received EXCEPT ![c] = Append(@, Head(queue[c]))]
  /\ queue' = [queue EXCEPT ![c] = Tail(@)]
  /\ UNCHANGED <<sequence, handing, ready, client, filter, due, lost>>

\* The client is gone, or nothing came for 15 seconds: wait_for cancels the pending
\* __anext__, the generator's finally unsubscribes, and the stream ends after one
\* heartbeat.  Callbacks on their way still fill the queue nobody reads any more.
End(c) ==
  /\ client[c] = "open"
  /\ client' = [client EXCEPT ![c] = "ended"]
  /\ UNCHANGED <<sequence, handing, ready, filter, queue, received, due, lost>>

Next ==
  \/ \E p \in Publishers : (\E type \in EventTypes : Publish(p, type)) \/ \E c \in Clients : HandOver(p, c)
  \/ Enqueue
  \/ \E c \in Clients : (\E types \in SUBSET EventTypes : Subscribe(c, types)) \/ Receive(c) \/ End(c)

Spec == Init /\ [][Next]_vars

-----------------------------------------------------------------------------

\* Every variable has its type.
TypeOK ==
  /\ sequence \in 0..MaxEvents
  /\ ready \in Seq(Clients \X Events)
  /\ client \in [Clients -> {"new", "open", "ended"}]
  /\ \A c \in Clients : queue[c] \in Seq(Events) /\ Len(queue[c]) <= QueueSize

Reading(c) == received[c] \o queue[c]
Underway(c) == {handing[p].event : p \in {q \in Publishers : c \in handing[q].to}}
               \cup {call[2] : call \in {e \in ToSet(ready) : e[1] = c}}

\* README.md:460-466: a client is sent the events of the types it asked for, published
\* while it is subscribed: each at most once, those of one publisher in the order
\* they were published in, and none missing but what a full queue dropped, which is
\* older than all that publisher's events still waiting.
StreamFaithful ==
  \A c \in Clients :
    LET reading == Reading(c) IN
    /\ \A i, j \in DOMAIN reading :
         i < j /\ reading[i].from = reading[j].from => reading[i].number < reading[j].number
    /\ \A e \in lost[c], i \in DOMAIN queue[c] :
         e.from = queue[c][i].from => e.number < queue[c][i].number
    /\ ToSet(reading) \cup lost[c] \cup Underway(c) = due[c]
    /\ ToSet(reading) \cap (lost[c] \cup Underway(c)) = {}
    /\ \A e \in ToSet(reading) : e.type \in filter[c]
==============================================================================
