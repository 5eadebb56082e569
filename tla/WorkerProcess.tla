---------------------------- MODULE WorkerProcess ----------------------------
(***************************************************************************)
(* HistoryIngestionProcess (history_worker.py): a child process takes jobs *)
(* from a bounded queue and answers on another one; a listener thread in   *)
(* the server hands each answer to the thread that waits for it.           *)
(* CandleRepairProcess (repair_worker.py) is the same protocol; what a job *)
(* does is left to the modules that instantiate this one.                  *)
(***************************************************************************)
EXTENDS Naturals, Sequences, FiniteSets

CONSTANTS
  Jobs,       \* job ids (uuids): each is used at most once
  MaxQueue,   \* max_queue_jobs
  MaxCrashes  \* bound: times the child process dies

ASSUME WorkerAssumption == MaxQueue \in Nat \ {0} /\ MaxCrashes \in Nat

VARIABLES
  queue,      \* _commands: ids of the jobs the child has not taken
  results,    \* _results: answers the listener has not taken
  waiting,    \* ids registered in _waiters
  outcome,    \* the payload each caller sees once its event is set
  child,      \* the process: "none", "up" or "dead"
  current,    \* the job the child executes: its answer, not yet put
  stopped,    \* _stopping, and the queues closed
  crashes

rpcVars == <<queue, results, waiting, outcome, child, current, stopped, crashes>>

Open == [state |-> "open", rows |-> 0]
Payload(ok, n) == [state |-> IF ok THEN "ok" ELSE "failed", rows |-> n]
Answer(id, ok, n) == [id |-> id, payload |-> Payload(ok, n)]
Nothing == <<>>

RpcInit ==
  /\ queue = <<>> /\ results = <<>>
  /\ waiting = {} /\ outcome = [id \in Jobs |-> Open]
  /\ child = "none" /\ current = Nothing
  /\ stopped = FALSE /\ crashes = 0

\* insert_missing up to the wait: a process is started if none is alive, the
\* caller is registered, then the job queued.
Submit(id) ==
  /\ ~ stopped /\ Len(queue) < MaxQueue
  /\ child' = "up"
  /\ waiting' = waiting \cup {id}
  /\ queue' = Append(queue, id)
  /\ UNCHANGED <<results, outcome, current, stopped, crashes>>

\* The queue stays full for two seconds, or was closed: the caller gets an error.
Refuse(id) ==
  /\ \/ stopped /\ child = "none"
     \/ ~ stopped /\ Len(queue) = MaxQueue
  /\ child' = IF stopped THEN child ELSE "up"
  /\ outcome' = [outcome EXCEPT ![id] = Payload(FALSE, 0)]
  /\ UNCHANGED <<queue, results, waiting, current, stopped, crashes>>

\* The child takes the next job and executes it; n is what it will answer.
Execute(ok, n) ==
  /\ child = "up" /\ queue # <<>> /\ current = Nothing
  /\ current' = <<Answer(Head(queue), ok, n)>>
  /\ queue' = Tail(queue)
  /\ UNCHANGED <<results, waiting, outcome, child, stopped, crashes>>

Reply ==
  /\ child = "up" /\ current # Nothing
  /\ results' = results \o current
  /\ current' = Nothing
  /\ UNCHANGED <<queue, waiting, outcome, child, stopped, crashes>>

\* Mutant: the job a dead child was at is queued again.
CrashRetries ==
  /\ child = "up" /\ crashes < MaxCrashes
  /\ child' = "dead" /\ crashes' = crashes + 1
  /\ current' = Nothing
  /\ queue' = (IF current = Nothing THEN <<>> ELSE <<current[1].id>>) \o queue
  /\ UNCHANGED <<results, waiting, outcome, stopped>>

\* The child dies, before, during or after a job it has taken.
Crash ==
  /\ child = "up" /\ crashes < MaxCrashes
  /\ child' = "dead" /\ crashes' = crashes + 1
  /\ current' = Nothing
  /\ queue' \in {queue} \cup (IF queue # <<>> /\ current = Nothing THEN {Tail(queue)} ELSE {})
  /\ UNCHANGED <<results, waiting, outcome, stopped>>

\* Mutant: the answer goes to whoever waits.
CollectForAnyone ==
  /\ ~ stopped /\ results # <<>>
  /\ results' = Tail(results)
  /\ \/ \E id \in waiting : /\ waiting' = waiting \ {id}
                            /\ outcome' = [outcome EXCEPT ![id] = Head(results).payload]
     \/ waiting = {} /\ UNCHANGED <<waiting, outcome>>
  /\ UNCHANGED <<queue, child, current, stopped, crashes>>

\* _collect_results: an answer nobody waits for is dropped.
Collect ==
  /\ ~ stopped /\ results # <<>>
  /\ results' = Tail(results)
  /\ LET r == Head(results) IN
       IF r.id \in waiting
       THEN /\ waiting' = waiting \ {r.id}
            /\ outcome' = [outcome EXCEPT ![r.id] = r.payload]
       ELSE UNCHANGED <<waiting, outcome>>
  /\ UNCHANGED <<queue, child, current, stopped, crashes>>

\* Mutant: a caller that gives up stays registered.
ExpireLeaks(id) ==
  /\ id \in waiting /\ outcome[id] = Open
  /\ outcome' = [outcome EXCEPT ![id] = Payload(FALSE, 0)]
  /\ UNCHANGED <<queue, results, waiting, child, current, stopped, crashes>>

\* event.wait runs out: the caller leaves, its job stays where it is.
Expire(id) ==
  /\ id \in waiting
  /\ waiting' = waiting \ {id}
  /\ outcome' = [outcome EXCEPT ![id] = Payload(FALSE, 0)]
  /\ UNCHANGED <<queue, results, child, current, stopped, crashes>>

\* shutdown holds the lock all along.  Behind the jobs of the queue the child
\* finds the sentinel; the listener has nothing to hand out any more ...
ShutDown ==
  /\ ~ stopped /\ child # "none"
  /\ stopped' = TRUE
  /\ UNCHANGED <<queue, results, waiting, outcome, child, current, crashes>>

\* ... and once the child has ended, or was killed after five seconds, every
\* caller is told.
Finish ==
  /\ stopped /\ child # "none"
  /\ child' = "none"
  /\ current' = Nothing /\ queue' = <<>> /\ results' = <<>>
  /\ outcome' = [id \in Jobs |-> IF id \in waiting THEN Payload(FALSE, 0) ELSE outcome[id]]
  /\ waiting' = {}
  /\ UNCHANGED <<stopped, crashes>>
==============================================================================
