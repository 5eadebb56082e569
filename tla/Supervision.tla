----------------------------- MODULE Supervision -----------------------------
(***************************************************************************)
(* ProviderSupervisor and the life of a ProviderWorker's thread            *)
(* (runtime.py), for one provider: requests start, stop, reconfigure and   *)
(* remove the worker; each worker object has a stop event and a thread.    *)
(*                                                                         *)
(* The thread looks at the event when a tick arrives.  In a quiet market   *)
(* it outlives the five seconds stop() waits for it, and start() leaves a  *)
(* thread that is alive alone.                                             *)
(***************************************************************************)
EXTENDS Naturals, Sequences

CONSTANTS
  Callers,     \* request threads
  MaxWorkers,  \* bound: worker objects, one per reconfiguration
  MaxThreads,  \* bound: threads started
  MaxCalls     \* bound: requests

VARIABLES
  registered,  \* _workers[provider]: the number of the worker object, 0 for none
  workers,     \* the worker objects: [stop, thread]
  threads,     \* the threads started: [of, alive]
  lock,        \* _lock: the caller that holds it
  call,        \* [Callers -> [steps to go, worker]]
  calls,
  overlapped   \* history: two requests were under way at a time

vars == <<registered, workers, threads, lock, call, calls, overlapped>>

Nobody == "nobody"
NoCall == [steps |-> <<>>, worker |-> 0]

\* load: one worker, started.
Init ==
  /\ registered = 1
  /\ workers = <<[stop |-> FALSE, thread |-> 1]>>
  /\ threads = <<[of |-> 1, alive |-> TRUE]>>
  /\ lock = Nobody /\ call = [c \in Callers |-> NoCall]
  /\ calls = 0 /\ overlapped = FALSE

\* What each request does, in steps; "get" and "pop" take the lock, for a moment
\* or until "unlock".
Steps == [
  restart |-> <<"get", "stop", "join", "check", "launch">>,
  start   |-> <<"get", "check", "launch">>,
  stop    |-> <<"get", "stop", "join">>,
  upsert  |-> <<"pop", "stop", "join", "create", "check", "launch", "unlock">>,
  remove  |-> <<"pop", "stop", "join", "unlock">> ]

Alive(w) == workers[w].thread # 0 /\ threads[workers[w].thread].alive

\* The request c is at step s of, and moves on.
At(c, s)  == call[c].steps # <<>> /\ Head(call[c].steps) = s
Moved(c)  == [call[c] EXCEPT !.steps = Tail(@)]
Moves(c, r) == call' = [call EXCEPT ![c] = r]
W(c) == call[c].worker

-----------------------------------------------------------------------------
(* requests: action, upsert, remove *)

Request(c, kind) ==
  /\ call[c].steps = <<>> /\ calls < MaxCalls
  /\ calls' = calls + 1
  /\ call' = [call EXCEPT ![c] = [steps |-> Steps[kind], worker |-> 0]]
  /\ overlapped' = (overlapped \/ \E d \in Callers : call[d].steps # <<>>)
  /\ UNCHANGED <<registered, workers, threads, lock>>

\* get: a provider that is not there is an error.
Get(c) ==
  /\ At(c, "get") /\ lock = Nobody
  /\ Moves(c, IF registered = 0 THEN NoCall ELSE [Moved(c) EXCEPT !.worker = registered])
  /\ UNCHANGED <<registered, workers, threads, lock, calls, overlapped>>

Pop(c) ==
  /\ At(c, "pop") /\ lock = Nobody /\ lock' = c
  /\ Moves(c, [Moved(c) EXCEPT !.worker = registered])
  /\ registered' = 0
  /\ UNCHANGED <<workers, threads, calls, overlapped>>

\* ProviderWorker.stop: the event ...
SetStop(c) ==
  /\ At(c, "stop") /\ Moves(c, Moved(c))
  /\ workers' = IF W(c) = 0 THEN workers ELSE [workers EXCEPT ![W(c)].stop = TRUE]
  /\ UNCHANGED <<registered, threads, lock, calls, overlapped>>

\* ... and the thread has ended, or five seconds are over.
Join(c) ==
  /\ At(c, "join") /\ Moves(c, Moved(c))
  /\ UNCHANGED <<registered, workers, threads, lock, calls, overlapped>>

Create(c) ==
  /\ At(c, "create") /\ Len(workers) < MaxWorkers
  /\ workers' = Append(workers, [stop |-> FALSE, thread |-> 0])
  /\ registered' = Len(workers) + 1
  /\ Moves(c, [Moved(c) EXCEPT !.worker = Len(workers) + 1])
  /\ UNCHANGED <<threads, lock, calls, overlapped>>

\* Mutant: a thread that is still alive is not looked at.
CheckNothing(c) ==
  /\ At(c, "check") /\ Moves(c, Moved(c))
  /\ UNCHANGED <<registered, workers, threads, lock, calls, overlapped>>

\* ProviderWorker.start: nothing to do when the thread is alive ...
Check(c) ==
  /\ At(c, "check")
  /\ Moves(c, IF Alive(W(c)) THEN [Moved(c) EXCEPT !.steps = Tail(@)] ELSE Moved(c))
  /\ UNCHANGED <<registered, workers, threads, lock, calls, overlapped>>

\* ... or else the event is cleared and a new thread started.
Launch(c) ==
  /\ At(c, "launch") /\ Len(threads) < MaxThreads
  /\ threads' = Append(threads, [of |-> W(c), alive |-> TRUE])
  /\ workers' = [workers EXCEPT ![W(c)] = [stop |-> FALSE, thread |-> Len(threads) + 1]]
  /\ Moves(c, Moved(c))
  /\ UNCHANGED <<registered, lock, calls, overlapped>>

Unlock(c) ==
  /\ At(c, "unlock") /\ lock' = Nobody /\ Moves(c, Moved(c))
  /\ UNCHANGED <<registered, workers, threads, calls, overlapped>>

-----------------------------------------------------------------------------

\* _run ends: a tick came and the event is set, or the provider failed.
End(t) ==
  /\ threads[t].alive
  /\ threads' = [threads EXCEPT ![t].alive = FALSE]
  /\ UNCHANGED <<registered, workers, lock, call, calls, overlapped>>

Next ==
  \/ \E c \in Callers :
       \/ \E kind \in DOMAIN Steps : Request(c, kind)
       \/ Get(c) \/ Pop(c) \/ SetStop(c) \/ Join(c)
       \/ Create(c) \/ Check(c) \/ Launch(c) \/ Unlock(c)
  \/ \E t \in DOMAIN threads : End(t)

Spec == Init /\ [][Next]_vars

-----------------------------------------------------------------------------

\* Every variable has its type.
TypeOK ==
  /\ registered \in 0..Len(workers)
  /\ \A w \in DOMAIN workers : workers[w].stop \in BOOLEAN /\ workers[w].thread \in 0..Len(threads)
  /\ \A t \in DOMAIN threads : threads[t].of \in DOMAIN workers /\ threads[t].alive \in BOOLEAN
  /\ lock \in Callers \cup {Nobody}

\* The threads that would take the next tick.
Running == {t \in DOMAIN threads : threads[t].alive /\ ~workers[threads[t].of].stop}

\* runtime.py:207-210: two workers of a provider never run side by side, and one
\* that was replaced or removed does not run on, even when its thread outlives the
\* stop; as long as no two requests overlap: action() does not hold the lock, so
\* two of them can start a thread each, or start a worker that was removed.
OneWorkerRuns ==
  ~overlapped =>
    /\ \A t, u \in Running : t = u
    /\ lock = Nobody => \A t \in Running : threads[t].of = registered
==============================================================================
