------------------------------ MODULE Scheduler ------------------------------
(***************************************************************************)
(* MaintenanceScheduler (scheduler.py) over the schedule tables of         *)
(* storage.py: one thread polls for due schedules and runs them, a request *)
(* can change a schedule and wake the thread (web.py:1073), or run one in  *)
(* its own thread (web.py:1088), the loop's runs and that one overlapping. *)
(*                                                                         *)
(* A run is three transactions: the row of the run, the clean-up, and the  *)
(* outcome with the next time.  Any of them can fail; a failed clean-up    *)
(* ends the run as failed, a failure outside it ends the thread.           *)
(***************************************************************************)
EXTENDS Integers, Sequences, SequencesExt

CONSTANTS
  Names,       \* schedules
  Callers,     \* request threads that run a schedule
  Interval,    \* interval_minutes
  MaxClock,    \* bound: minutes that pass
  MaxRequests, \* bound: changes of a schedule and runs asked for
  MaxFaults    \* bound: failures

Loop   == "loop"
Actors == {Loop} \cup Callers

VARIABLES
  clock,
  schedules,  \* [Names -> [enabled, next, last]]: maintenance_schedules
  loop,       \* stage of _run
  due,        \* schedules the loop still has to execute
  wake,       \* _wake
  stop,       \* _stop
  job,        \* [Actors -> what execute is doing]
  edit,       \* the schedule stored by a request that has not woken the thread yet
  requests, faults,
  unseen,     \* history: schedules changed since the loop last looked
  unwoken     \* history: the ones whose request raised before it woke the thread

vars == <<clock, schedules, loop, due, wake, stop, job, edit, requests, faults,
          unseen, unwoken>>

NoJob == [stage |-> "none", name |-> "", started |-> 0]
NoEdit == "none"

Init ==
  /\ clock = 0
  /\ schedules = [n \in Names |-> [enabled |-> TRUE, next |-> 1, last |-> "never"]]
  /\ loop = "look" /\ due = <<>> /\ wake = FALSE /\ stop = FALSE
  /\ job = [a \in Actors |-> NoJob]
  /\ edit = NoEdit /\ requests = 0 /\ faults = 0 /\ unseen = {} /\ unwoken = {}

\* due_maintenance_schedules: the earliest first, those of one minute in any order.
IsDue(n)  == schedules[n].enabled /\ schedules[n].next <= clock
DueOrders == {s \in SetToSeqs({n \in Names : IsDue(n)}) :
                \A i, j \in DOMAIN s : i < j => schedules[s[i]].next <= schedules[s[j]].next}

Fault   == faults < MaxFaults /\ faults' = faults + 1
Request == requests < MaxRequests /\ requests' = requests + 1

-----------------------------------------------------------------------------
(* _run *)

\* run_due begins: the current time, and the schedules that are due.
Look ==
  /\ loop = "look"
  /\ \/ stop /\ loop' = "ended" /\ UNCHANGED <<due, job, unseen, faults>>
     \/ /\ ~stop /\ loop' = "run" /\ due' \in DueOrders /\ unseen' = {} /\ UNCHANGED faults
        /\ job' = [job EXCEPT ![Loop].started = clock]
     \/ ~stop /\ Fault /\ loop' = "dead" /\ UNCHANGED <<due, job, unseen>>
  /\ UNCHANGED <<clock, schedules, wake, stop, edit, requests, unwoken>>

\* Mutant: the event is cleared when the thread goes to sleep.
SleepCleared ==
  /\ loop = "run" /\ job[Loop].stage = "none" /\ due = <<>>
  /\ loop' = "asleep" /\ wake' = FALSE
  /\ UNCHANGED <<clock, schedules, due, stop, job, edit, requests, faults, unseen, unwoken>>

Sleep ==
  /\ loop = "run" /\ job[Loop].stage = "none" /\ due = <<>>
  /\ loop' = "asleep"
  /\ UNCHANGED <<clock, schedules, due, wake, stop, job, edit, requests, faults, unseen, unwoken>>

\* _wake.wait returns because it is set, or because the poll interval is over.
Awake ==
  /\ loop = "asleep" /\ loop' = "clear"
  /\ UNCHANGED <<clock, schedules, due, wake, stop, job, edit, requests, faults, unseen, unwoken>>

Clear ==
  /\ loop = "clear" /\ wake' = FALSE /\ loop' = "look"
  /\ UNCHANGED <<clock, schedules, due, stop, job, edit, requests, faults, unseen, unwoken>>

-----------------------------------------------------------------------------
(* execute, by the loop or by a request *)

Stage(a, s) == job' = [job EXCEPT ![a].stage = s]

\* What is raised outside the try ends the thread, or the request with an error.
Raised(a) ==
  /\ job' = [job EXCEPT ![a] = NoJob]
  /\ loop' = IF a = Loop THEN "dead" ELSE loop
  /\ due'  = IF a = Loop THEN <<>> ELSE due

\* begin_maintenance_schedule_run, for the next due schedule as it was when the
\* loop looked.
Begin ==
  /\ loop = "run" /\ job[Loop].stage = "none" /\ due # <<>>
  /\ \/ /\ job' = [job EXCEPT ![Loop].stage = "task", ![Loop].name = Head(due)]
        /\ due' = Tail(due) /\ UNCHANGED <<loop, faults>>
     \/ Fault /\ Raised(Loop)
  /\ UNCHANGED <<clock, schedules, wake, stop, edit, requests, unseen, unwoken>>

\* execute_by_name
RunNow(c, n) ==
  /\ job[c] = NoJob /\ Request
  /\ job' = [job EXCEPT ![c] = [stage |-> "task", name |-> n, started |-> clock]]
  /\ UNCHANGED <<clock, schedules, loop, due, wake, stop, edit, faults, unseen, unwoken>>

\* Mutant: a clean-up that raises is not caught.
TaskUncaught(a) ==
  /\ job[a].stage = "task"
  /\ \/ Stage(a, "completed") /\ UNCHANGED <<loop, due>>
     \/ Raised(a)
  /\ UNCHANGED <<clock, schedules, wake, stop, edit, requests, faults, unseen, unwoken>>

\* HousekeepingService.run and run_retention: a VACUUM the backend refuses, a locked
\* file or an unknown task type fail as often as they are tried.
Task(a) ==
  /\ job[a].stage = "task"
  /\ Stage(a, "completed") \/ Stage(a, "failed")
  /\ UNCHANGED <<clock, schedules, loop, due, wake, stop, edit, requests, faults, unseen, unwoken>>

\* complete_maintenance_schedule_run: the outcome, and the next time counted from
\* when this run was started, whatever another run or a request has set since.  An
\* outcome that cannot be written is written again as failed, and when the event
\* that follows it cannot be recorded a completed run is turned into a failed one.
Complete(a) ==
  /\ job[a].stage \in {"completed", "failed"}
  /\ LET Written ==
           schedules' = [schedules EXCEPT ![job[a].name].next = job[a].started + Interval,
                                          ![job[a].name].last = job[a].stage]
         Fails ==
           /\ Fault
           /\ \/ job[a].stage = "completed" /\ Stage(a, "failed") /\ UNCHANGED <<loop, due>>
              \/ job[a].stage = "failed" /\ Raised(a)
         Done ==
           /\ job' = [job EXCEPT ![a] = [NoJob EXCEPT !.started = IF a = Loop THEN job[a].started ELSE 0]]
           /\ UNCHANGED <<loop, due, faults>>
     IN \/ Written /\ (Done \/ Fails)
        \/ Fails /\ UNCHANGED schedules
  /\ UNCHANGED <<clock, wake, stop, edit, requests, unseen, unwoken>>

-----------------------------------------------------------------------------
(* requests *)

\* maintenance_schedule_upsert: the row first ...
Upsert(n, enabled, immediately) ==
  /\ edit = NoEdit /\ Request
  /\ schedules' = [schedules EXCEPT ![n].enabled = enabled,
                     ![n].next = clock + (IF immediately THEN 0 ELSE Interval)]
  /\ edit' = n /\ unseen' = unseen \cup {n} /\ unwoken' = unwoken \ {n}
  /\ UNCHANGED <<clock, loop, due, wake, stop, job, faults>>

\* ... then its event, which may not be recorded, and only then scheduler.wake().
Wake ==
  /\ edit # NoEdit /\ edit' = NoEdit
  /\ \/ wake' = TRUE /\ unwoken' = {} /\ UNCHANGED faults
     \/ Fault /\ unwoken' = unwoken \cup {edit} /\ UNCHANGED wake
  /\ UNCHANGED <<clock, schedules, loop, due, stop, job, requests, unseen>>

Stop ==
  /\ ~stop /\ stop' = TRUE /\ wake' = TRUE
  /\ UNCHANGED <<clock, schedules, loop, due, job, edit, requests, faults, unseen, unwoken>>

Tick ==
  /\ clock < MaxClock /\ clock' = clock + 1
  /\ UNCHANGED <<schedules, loop, due, wake, stop, job, edit, requests, faults, unseen, unwoken>>

Polling == Look \/ Begin \/ Task(Loop) \/ Complete(Loop) \/ Sleep \/ Awake \/ Clear

Next ==
  \/ Polling \/ Wake \/ Stop \/ Tick
  \/ \E c \in Callers : Task(c) \/ Complete(c) \/ \E n \in Names : RunNow(c, n)
  \/ \E n \in Names, enabled, immediately \in BOOLEAN : Upsert(n, enabled, immediately)

\* The polling thread runs, and a request that stored a schedule goes on to wake it
\* or raises.
Fairness == WF_vars(Polling) /\ WF_vars(Wake)

Spec == Init /\ [][Next]_vars /\ Fairness

-----------------------------------------------------------------------------

\* Every variable has its type.
TypeOK ==
  /\ clock \in 0..MaxClock
  /\ schedules \in [Names -> [enabled : BOOLEAN, next : 0..(MaxClock + Interval),
                              last : {"never", "completed", "failed"}]]
  /\ loop \in {"look", "run", "asleep", "clear", "ended", "dead"}
  /\ \A a \in Actors : job[a].stage \in {"none", "task", "completed", "failed"}

\* scheduler.py:44-48: a change that a request has woken the thread for is never
\* slept on until the poll interval is over: the thread looks again before it waits.
\* What it may sleep on are changes whose requests raised at their event and never
\* woke it, and which no later wake has covered (web.py:1082).
WakeNotLost == loop = "asleep" /\ ~wake /\ edit = NoEdit => unseen \subseteq unwoken

\* README.md:479: a schedule that is due is run, whatever its clean-ups and those
\* of the others do, as long as the thread is not stopped and no write of its own
\* records failed.
DueServed ==
  \A n \in Names :
    IsDue(n) ~> \/ job[Loop].name = n
                \/ ~ IsDue(n)
                \/ stop
                \/ loop = "dead" /\ faults > 0
==============================================================================
