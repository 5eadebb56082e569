----------------------------- MODULE JobService -----------------------------
(***************************************************************************)
(* What a process behind a job queue promises the threads that call it: a  *)
(* job asked for is taken at most once, in the order of asking; every      *)
(* caller is told at most one thing, and that its job was done only if     *)
(* that very job was.  A job may be lost, may be done after its caller was *)
(* told that it failed, and is not touched once the service is closed.     *)
(***************************************************************************)
EXTENDS Naturals, Sequences

CONSTANT Jobs

VARIABLES
  asked,     \* jobs a thread has called for
  pending,   \* those not taken yet, in their order
  done,      \* those that took effect
  told,      \* what each caller was told: "ok", "failed", or "open" for nothing
  open       \* whether the service runs

jsVars == <<asked, pending, done, told, open>>

Init ==
  /\ asked = {} /\ pending = <<>> /\ done = {} /\ open = TRUE
  /\ told = [id \in Jobs |-> "open"]

\* A call queues its job, or fails at once.
Ask(id) ==
  /\ id \notin asked /\ told[id] = "open"
  /\ asked' = asked \cup {id}
  /\ \/ open /\ pending' = Append(pending, id) /\ UNCHANGED told
     \/ told' = [told EXCEPT ![id] = "failed"] /\ UNCHANGED pending
  /\ UNCHANGED <<done, open>>

\* The next job takes effect, or it fails or is lost.
Take ==
  /\ open /\ pending # <<>>
  /\ pending' = Tail(pending)
  /\ done' \in {done, done \cup {Head(pending)}}
  /\ UNCHANGED <<asked, told, open>>

\* A caller is answered, or gives up.
Tell(id) ==
  /\ id \in asked /\ told[id] = "open"
  /\ \/ id \in done /\ told' = [told EXCEPT ![id] = "ok"]
     \/ told' = [told EXCEPT ![id] = "failed"]
  /\ UNCHANGED <<asked, pending, done, open>>

\* Who still waits is told that nothing will come.
Close ==
  /\ open /\ open' = FALSE
  /\ pending' = <<>>
  /\ told' = [id \in Jobs |-> IF id \in asked /\ told[id] = "open" THEN "failed" ELSE told[id]]
  /\ UNCHANGED <<asked, done>>

Next == (\E id \in Jobs : Ask(id) \/ Tell(id)) \/ Take \/ Close

Spec == Init /\ [][Next]_jsVars

-----------------------------------------------------------------------------

\* A caller that is told its job was done can rely on it, and a job waits to be
\* taken only while it was not done: a repetition does nothing twice.
Kept ==
  /\ \A id \in Jobs : told[id] = "ok" => id \in done
  /\ \A i \in 1 .. Len(pending) : pending[i] \in asked \ done
  /\ \A i, j \in 1 .. Len(pending) : i # j => pending[i] # pending[j]
=============================================================================
