---------------------------- MODULE FullHistory ----------------------------
(***************************************************************************)
(* FullHistoryBackfillManager (full_history.py) for one provider, with the *)
(* two callbacks web.py installs on it (one verification thread per        *)
(* refreshed instrument, one repair thread per finished download pass) and *)
(* the MT5 bridge that executes its commands over a lossy HTTP channel.    *)
(*                                                                         *)
(* The manager walks the instruments of a job in order.  An instrument of  *)
(* a "full" job is first probed once per timeframe (discovery), then its   *)
(* planned ranges are downloaded one by one; "recent_m1" and "startup_m1"  *)
(* jobs start with a plan.  At most one request is outstanding, protected  *)
(* by a lease: when it expires the same request is handed out again.       *)
(*                                                                         *)
(* Every method runs under one RLock, so one method is one action.  Request*)
(* ids are uuids that are only compared for equality: a fresh one is any   *)
(* id of the pool Ids that nothing refers to any more.                     *)
(***************************************************************************)
EXTENDS Naturals, FiniteSets

CONSTANTS
  MaxItems,    \* bound: instruments configured for the provider
  MaxRanges,   \* bound: ranges in one instrument's download plan
  MaxPosts,    \* bound: bridge reports travelling to the server at once
  MaxFaults,   \* bound: failing writes of the operational-event journal
  Ids, NoId,   \* request ids (uuid4) and the absence of one
  Reports,     \* what a BACKFILL can end in, see BatchReports
  BadSymbols   \* items whose symbol the terminal may fail to select (4301)

BatchReports == {"bars", "nobars", "failed", "unavailable"}
DiscoverReports == {"history", "empty"}
Workflows == {"full", "recent_m1", "startup_m1"}
Timeframes == 3      \* _DISCOVERY_TIMEFRAMES = ("1m", "1h", "1d")
MaxRetries == 3

Items == 1 .. MaxItems

ASSUME ConstantsAssumption ==
  /\ MaxItems \in Nat \ {0}
  /\ MaxRanges \in Nat \ {0}
  /\ MaxPosts \in Nat \ {0}
  /\ MaxFaults \in Nat
  /\ NoId \notin Ids
  /\ Reports \subseteq BatchReports
  /\ BadSymbols \subseteq Items

VARIABLES
  jobStatus,   \* FullHistoryJob.status, "none" before the first job
  workflow,    \* FullHistoryJob.workflow
  size,        \* len(job.instruments)
  active,      \* job.active_index + 1
  pass,        \* job.repair_pass
  status,      \* item.status
  phase,       \* item.phase
  request,     \* item.current_request_id
  retry,       \* item.retry_count
  discovered,  \* item.discovery_index
  found,       \* some boundary of the discovery going on is not None
  planned,     \* len(item.missing_ranges)
  next,        \* item.download_index, saturated at MaxRanges
  anyBars,     \* some entry of item.received_by_timeframe is positive
  leased,      \* now - dispatched_at < request_lease for the active request
  verifier,    \* the item whose recent-m1-rebuild thread runs, 0 for none
  repairer,    \* where the history-repair thread is
  wire,        \* commands handed out by next_request, not yet executed
  posts,       \* reports of the bridge the server has not handled yet
  settled,     \* history: ranges of each plan that were stored or marked bad
  faults       \* journal writes that failed so far

job   == <<jobStatus, workflow, size, active, pass>>
work  == <<phase, discovered, found, planned, next, anyBars>>
net   == <<wire, posts>>
threads == <<verifier, repairer>>
vars  == <<job, status, request, retry, work, leased, threads, net, settled, faults>>

\* A command names its target: the instrument, and the range of its plan (0
\* while probing).  A report carries the target it was made for.
Targets  == [item : Items, range : 0 .. MaxRanges + 1]
Commands == [id : Ids, kind : {"DISCOVER", "BACKFILL"}, to : Targets]
Posts    == [id : Ids, report : BatchReports \cup DiscoverReports, to : Targets]

InUse == {request[i] : i \in Items} \cup {c.id : c \in wire} \cup {p.id : p \in posts}

Saturate(n) == IF n > MaxRanges THEN MaxRanges ELSE n

-----------------------------------------------------------------------------
(* Starting a job *)

Init ==
  /\ jobStatus = "none" /\ workflow = "full"
  /\ size = 0 /\ active = 1 /\ pass = 0
  /\ status = [i \in Items |-> "queued"]
  /\ phase = [i \in Items |-> "discovery"]
  /\ request = [i \in Items |-> NoId]
  /\ retry = [i \in Items |-> 0]
  /\ discovered = [i \in Items |-> 0]
  /\ found = FALSE
  /\ planned = [i \in Items |-> 0]
  /\ next = [i \in Items |-> 0]
  /\ anyBars = [i \in Items |-> FALSE]
  /\ leased = FALSE
  /\ verifier = 0 /\ repairer = "none"
  /\ wire = {} /\ posts = {}
  /\ settled = [i \in Items |-> {}]
  /\ faults = 0

Busy == jobStatus \in {"running", "repairing"}

\* A fresh job object: n items that all begin in phase ph with len ranges.
NewJob(st, n, wf, ph, len) ==
  /\ jobStatus' = st /\ workflow' = wf
  /\ size' = n /\ active' = 1 /\ pass' = 0
  /\ status' = [i \in Items |-> "queued"]
  /\ phase' = [i \in Items |-> ph]
  /\ request' = [i \in Items |-> NoId]
  /\ retry' = [i \in Items |-> 0]
  /\ discovered' = [i \in Items |-> 0]
  /\ found' = FALSE
  /\ planned' = [i \in Items |-> len]
  /\ next' = [i \in Items |-> 0]
  /\ anyBars' = [i \in Items |-> FALSE]
  /\ settled' = [i \in Items |-> {}]
  /\ leased' = FALSE

Start ==
  /\ ~ Busy
  /\ \E n \in 0 .. MaxItems : NewJob("running", n, "full", "discovery", 0)
  /\ UNCHANGED <<threads, net, faults>>

\* web.py plans exactly one merged M1 range per instrument and does not call
\* start_targeted without instruments.
StartTargeted ==
  /\ ~ Busy
  /\ \E n \in Items, wf \in {"recent_m1", "startup_m1"} : NewJob("running", n, wf, "download", 1)
  /\ UNCHANGED <<threads, net, faults>>

-----------------------------------------------------------------------------
(* next_request: _advance_completed, then redelivery or _prepare_next *)

\* Mutant: active_index runs past instruments that are not completed.
AdvancesPastUnfinished(st, i) ==
  /\ i \in active .. size + 1
  /\ i <= size => st[i] # "completed"

\* With item statuses st, _advance_completed leaves active_index at i.
AdvancesTo(st, i) ==
  /\ i \in active .. size + 1
  /\ \A j \in active .. i - 1 : st[j] = "completed"
  /\ i <= size => st[i] # "completed"

Range(i) == next[i] + 1

\* _format_request for the request id of item i.
Command(id, i) ==
  IF phase[i] = "discovery"
    THEN [id |-> id, kind |-> "DISCOVER", to |-> [item |-> i, range |-> 0]]
    ELSE [id |-> id, kind |-> "BACKFILL", to |-> [item |-> i, range |-> Range(i)]]

\* Mutant: the phase is not consulted before a download is dispatched.
HasWorkInAnyPhase(i) == phase[i] # "completed"

HasWork(i) == phase[i] = "discovery" \/ (phase[i] = "download" /\ next[i] < planned[i])

JournalFails == faults < MaxFaults /\ faults' = faults + 1

\* _new_request for item i, on top of the statuses st.
Issue(st, i) ==
  \E id \in Ids \ InUse :
    /\ request' = [request EXCEPT ![i] = id]
    /\ status' = [st EXCEPT ![i] = IF phase[i] = "discovery" THEN "probing" ELSE "importing"]
    /\ wire' = wire \cup {Command(id, i)}
    /\ leased' = TRUE
    /\ active' = i

\* The end of _advance_completed.  Two journal writes surround the turn to
\* "repairing": when the first fails the next poll tries again, when the
\* second fails the callback is lost.
FinishDownloads(st) ==
  /\ active' = size + 1
  /\ status' = st
  /\ \/ jobStatus' = "repairing" /\ repairer' = "entered" /\ UNCHANGED faults
     \/ JournalFails /\ jobStatus' = "repairing" /\ UNCHANGED repairer
     \/ JournalFails /\ UNCHANGED <<jobStatus, repairer>>

PollIssue ==
  /\ jobStatus = "running"
  /\ \E i \in Items :
       AdvancesTo(status, i) /\ i <= size /\ request[i] = NoId /\ HasWork(i) /\ Issue(status, i)
  /\ UNCHANGED <<jobStatus, workflow, size, pass, retry, work, threads, posts, settled, faults>>

PollRedeliver ==
  /\ jobStatus = "running"
  /\ ~ leased
  /\ \E i \in Items :
       /\ AdvancesTo(status, i) /\ i <= size /\ request[i] # NoId
       /\ wire' = wire \cup {Command(request[i], i)}
       /\ active' = i
  /\ leased' = TRUE
  /\ UNCHANGED <<jobStatus, workflow, size, pass, status, request, retry, work, threads,
                 posts, settled, faults>>

PollEnd ==
  /\ jobStatus = "running"
  /\ AdvancesTo(status, size + 1)
  /\ FinishDownloads(status)
  /\ UNCHANGED <<workflow, size, pass, request, retry, work, leased, verifier, net, settled>>

\* The plan of item i is used up.
Exhausted(i) ==
  /\ jobStatus = "running"
  /\ AdvancesTo(status, i) /\ i <= size
  /\ request[i] = NoId /\ phase[i] = "download" /\ next[i] >= planned[i]

AllEmpty(i) == workflow # "startup_m1" /\ ~ anyBars[i]
RefreshesRecent == workflow = "recent_m1" \/ pass > 0

\* Nothing to verify: no bars at all, or verify_recent_m1_instrument calls
\* instrument_verified at once.  next_request then looks for the next item.
PollFinishItem(i) ==
  /\ Exhausted(i)
  /\ AllEmpty(i) \/ ~ RefreshesRecent
  /\ phase' = [phase EXCEPT ![i] = "completed"]
  /\ LET st == [status EXCEPT ![i] = "completed"] IN
       \/ \E j \in Items :
            /\ AdvancesTo(st, j) /\ j <= size /\ HasWork(j)
            /\ Issue(st, j)
            /\ UNCHANGED <<jobStatus, repairer, faults>>
       \/ /\ AdvancesTo(st, size + 1)
          /\ FinishDownloads(st)
          /\ UNCHANGED <<request, wire, leased>>
       \/ /\ AllEmpty(i) /\ JournalFails     \* the instrument_failed event
          /\ active' = i /\ status' = st
          /\ UNCHANGED <<jobStatus, repairer, request, wire, leased>>
  /\ UNCHANGED <<workflow, size, pass, retry, discovered, found, planned, next, anyBars,
                 verifier, posts, settled>>

\* verify_recent_m1_instrument starts the recent-m1-rebuild thread, or the
\* journal write inside instrument_verified fails and the item keeps waiting.
PollVerify(i) ==
  /\ Exhausted(i) /\ ~ AllEmpty(i)
  /\ phase' = [phase EXCEPT ![i] = "verifying"]
  /\ status' = [status EXCEPT ![i] = "verifying"]
  /\ active' = i
  /\ \/ RefreshesRecent /\ verifier' = i /\ UNCHANGED faults
     \/ ~ RefreshesRecent /\ JournalFails /\ UNCHANGED verifier
  /\ UNCHANGED <<jobStatus, workflow, size, pass, request, retry, discovered, found, planned,
                 next, anyBars, leased, repairer, net, settled>>

Poll == PollIssue \/ PollRedeliver \/ PollEnd \/ \E i \in Items : PollFinishItem(i) \/ PollVerify(i)

\* Mutant: an outstanding request is never handed out again.
LeaseNeverExpires == FALSE

LeaseExpires == leased /\ leased' = FALSE
                /\ UNCHANGED <<job, status, request, retry, work, threads, net, settled, faults>>

-----------------------------------------------------------------------------
(* The bridge (AxetosMarketDataBridge.mq5): ExecuteCommand and its reports *)

Answers(c) ==
  IF c.kind = "DISCOVER"
    THEN DiscoverReports \cup (IF c.to.item \in BadSymbols THEN {"failed"} ELSE {})
    ELSE Reports

Execute(id) ==
  /\ Cardinality(posts) < MaxPosts
  /\ \E c \in wire : \E r \in Answers(c) :
       /\ c.id = id
       /\ wire' = wire \ {c}
       /\ posts' = posts \cup {[id |-> id, report |-> r, to |-> c.to]}
  /\ UNCHANGED <<job, status, request, retry, work, leased, threads, settled, faults>>

\* The response to the poll, or the bridge's report, is lost.
Lose ==
  /\ \/ \E c \in wire : wire' = wire \ {c} /\ UNCHANGED posts
     \/ \E p \in posts : posts' = posts \ {p} /\ UNCHANGED wire
  /\ UNCHANGED <<job, status, request, retry, work, leased, threads, settled, faults>>

-----------------------------------------------------------------------------
(* availability_result and batch_result *)

\* Mutant: the request id is not compared.
CurrentForAnyId(p, i) ==
  /\ jobStatus = "running" /\ i = active /\ i <= size
  /\ request[i] # NoId

\* _active_item: the report answers the request outstanding at item i.
Current(p, i) ==
  /\ jobStatus = "running" /\ i = active /\ i <= size
  /\ request[i] = p.id

\* Mutant: the answered request stays outstanding.
ClearsNothing(i) == UNCHANGED request

ClearRequest(i) == request' = [request EXCEPT ![i] = NoId]

Ignore(p) ==
  /\ \A i \in Items : ~ Current(p, i)
  /\ posts' = posts \ {p}
  /\ UNCHANGED <<job, status, request, retry, work, leased, threads, wire, settled, faults>>

\* The numbers of ranges _source_ranges_from_availability plans: none without
\* a boundary, else as many as the ten-year window is cut into.
PlanLengths(history) == {n \in 0 .. MaxRanges : n > 0 => history}

\* The next timeframe is probed, or the plan of the instrument is made.
HandleDiscovery(i, history) ==
  /\ discovered' = [discovered EXCEPT ![i] = @ + 1]
  /\ status' = [status EXCEPT ![i] = "queued"]
  /\ IF discovered[i] + 1 < Timeframes
       THEN found' = history /\ UNCHANGED <<phase, planned, settled>>
       ELSE /\ phase' = [phase EXCEPT ![i] = "download"]
            /\ \E n \in PlanLengths(history) : planned' = [planned EXCEPT ![i] = n]
            /\ found' = FALSE
            /\ settled' = [settled EXCEPT ![i] = {}]

AvailabilityResult(p, i) ==
  /\ p.report \in DiscoverReports
  /\ Current(p, i)
  /\ posts' = posts \ {p}
  /\ ClearRequest(i)
  /\ HandleDiscovery(i, found \/ p.report = "history")
  /\ UNCHANGED <<job, retry, next, anyBars, leased, threads, wire, faults>>

\* batch_result does not look at request_kind: a DISCOVER the bridge could not
\* execute is booked like a failed download.
AdvanceDownload(i) ==
  /\ ClearRequest(i)
  /\ next' = [next EXCEPT ![i] = Saturate(@ + 1)]
  /\ status' = [status EXCEPT ![i] = "queued"]
  /\ settled' = [settled EXCEPT ![i] = @ \cup {Range(i)}]

\* The outcome is written down first; when that raises, the request stays
\* outstanding.
RecordThenAdvance(i) ==
  \/ AdvanceDownload(i) /\ UNCHANGED faults
  \/ JournalFails /\ UNCHANGED <<request, next, status, settled>>

BatchUnavailable(p, i) ==
  /\ p.report = "unavailable"
  /\ Current(p, i)
  /\ posts' = posts \ {p}
  /\ RecordThenAdvance(i)
  /\ UNCHANGED <<job, retry, phase, discovered, found, planned, anyBars, leased, threads,
                 wire>>

BatchFailed(p, i) ==
  /\ p.report = "failed"
  /\ Current(p, i)
  /\ posts' = posts \ {p}
  /\ \/ /\ retry[i] + 1 < MaxRetries
        /\ retry' = [retry EXCEPT ![i] = @ + 1]
        /\ ClearRequest(i)
        /\ UNCHANGED <<next, status, settled, faults>>
     \/ /\ retry[i] + 1 >= MaxRetries
        /\ retry' = [retry EXCEPT ![i] = 0]
        /\ AdvanceDownload(i)
        /\ UNCHANGED faults
     \/ /\ retry[i] + 1 >= MaxRetries   \* the bad-range recorder raises
        /\ JournalFails
        /\ retry' = [retry EXCEPT ![i] = @ + 1]
        /\ ClearRequest(i)
        /\ UNCHANGED <<next, status, settled>>
  /\ UNCHANGED <<job, phase, discovered, found, planned, anyBars, leased, threads, wire>>

BatchCompleted(p, i) ==
  /\ p.report \in {"bars", "nobars"}
  /\ Current(p, i)
  /\ posts' = posts \ {p}
  /\ retry' = [retry EXCEPT ![i] = 0]
  /\ anyBars' = [anyBars EXCEPT ![i] = @ \/ p.report = "bars"]
  /\ RecordThenAdvance(i)
  /\ UNCHANGED <<job, phase, discovered, found, planned, leased, threads, wire>>

Deliver(id) ==
  \E p \in posts :
    /\ p.id = id
    /\ \/ Ignore(p)
       \/ \E i \in Items :
            \/ AvailabilityResult(p, i)
            \/ BatchUnavailable(p, i)
            \/ BatchFailed(p, i)
            \/ BatchCompleted(p, i)

-----------------------------------------------------------------------------
(* The callbacks of web.py *)

\* recent-m1-rebuild thread: the rebuild succeeds or fails, either way the
\* item is completed; unless the journal write fails and the thread dies.
Verified ==
  /\ verifier # 0
  /\ verifier' = 0
  /\ \/ /\ IF jobStatus = "running" /\ verifier = active /\ status[verifier] = "verifying"
             THEN /\ status' = [status EXCEPT ![verifier] = "completed"]
                  /\ phase' = [phase EXCEPT ![verifier] = "completed"]
             ELSE UNCHANGED <<status, phase>>
        /\ UNCHANGED faults
     \/ JournalFails /\ UNCHANGED <<status, phase>>
  /\ UNCHANGED <<job, request, retry, discovered, found, planned, next, anyBars, leased,
                 repairer, net, settled>>

\* Mutant: a full backfill refreshes once too often.
OnePassTooMany == IF workflow = "recent_m1" THEN 3 ELSE 5

\* Mutant: it skips the final safety pass.
NoSafetyPass == IF workflow = "recent_m1" THEN 2 ELSE 3

\* The passes after which repair_full_history asks for another refresh.
LastPass == IF workflow = "recent_m1" THEN 3 ELSE 4

\* Mutant: the position in the plan is not reset for the next pass.
ResumeKeepsPosition ==
  /\ jobStatus' = "running" /\ active' = 1 /\ pass' = pass + 1
  /\ phase' = [i \in Items |-> IF i <= size THEN "download" ELSE phase[i]]
  /\ status' = [i \in Items |-> IF i <= size THEN "queued" ELSE status[i]]
  /\ planned' = [i \in Items |-> IF i <= size THEN 1 ELSE planned[i]]
  /\ settled' = [i \in Items |-> {}]
  /\ repairer' = "none"
  /\ UNCHANGED <<workflow, size, request, retry, next, discovered, found, anyBars, leased,
                 verifier, net, faults>>

Resume ==
  /\ jobStatus' = "running" /\ active' = 1 /\ pass' = pass + 1
  /\ phase' = [i \in Items |-> IF i <= size THEN "download" ELSE phase[i]]
  /\ status' = [i \in Items |-> IF i <= size THEN "queued" ELSE status[i]]
  /\ planned' = [i \in Items |-> IF i <= size THEN 1 ELSE planned[i]]
  /\ next' = [i \in Items |-> IF i <= size THEN 0 ELSE next[i]]
  /\ request' = [i \in Items |-> IF i <= size THEN NoId ELSE request[i]]
  /\ retry' = [i \in Items |-> IF i <= size THEN 0 ELSE retry[i]]
  /\ settled' = [i \in Items |-> {}]
  /\ repairer' = "none"
  /\ UNCHANGED <<workflow, size, discovered, found, anyBars, leased, verifier, net, faults>>

\* Mutant: the failed repair returns without completing the job.
CompletesOnSuccess(result) ==
  /\ jobStatus' = IF result = "failed" THEN jobStatus ELSE result
  /\ repairer' = "none"
  /\ UNCHANGED <<workflow, size, active, pass, status, request, retry, work, leased, verifier,
                 net, settled, faults>>

CompleteRepair(result) ==
  /\ jobStatus' = result
  /\ repairer' = "none"
  /\ UNCHANGED <<workflow, size, active, pass, status, request, retry, work, leased, verifier,
                 net, settled, faults>>

\* history-repair thread.  It branches on the workflow before anything else.
RepairBranch ==
  /\ repairer = "entered" /\ jobStatus = "repairing"
  /\ IF RefreshesRecent
       THEN IF size > 0 /\ pass < LastPass THEN Resume ELSE CompleteRepair("completed")
       ELSE /\ repairer' = "hierarchy"
            /\ UNCHANGED <<job, status, request, retry, work, leased, verifier, net, settled, faults>>

\* CandleRepairProcess.run returned or raised.
RepairReturns ==
  /\ repairer = "hierarchy" /\ jobStatus = "repairing"
  /\ \/ CompleteRepair("failed")
     \/ IF workflow = "full" /\ size > 0 THEN Resume ELSE CompleteRepair("completed")

\* A journal write outside the thread's try block raises.
RepairDies ==
  /\ repairer # "none"
  /\ repairer' = "none"
  /\ JournalFails
  /\ UNCHANGED <<job, status, request, retry, work, leased, verifier, net, settled>>

\* The process stops; jobs live in memory and the threads are daemons.  What
\* the bridge holds or has sent survives.
Restart ==
  /\ jobStatus # "none"
  /\ NewJob("none", 0, "full", "discovery", 0)
  /\ verifier' = 0 /\ repairer' = "none"
  /\ UNCHANGED <<net, faults>>

Next ==
  \/ Start \/ StartTargeted
  \/ Poll \/ LeaseExpires
  \/ \E id \in Ids : Execute(id) \/ Deliver(id)
  \/ Lose
  \/ Verified \/ RepairBranch \/ RepairReturns \/ RepairDies
  \/ Restart

Spec == Init /\ [][Next]_vars

\* The bridge polls every second and the threads run; a command or report
\* that is repeated for ever is not lost for ever.
Fairness ==
  /\ WF_vars(Poll) /\ WF_vars(LeaseExpires)
  /\ WF_vars(Verified) /\ WF_vars(RepairBranch) /\ WF_vars(RepairReturns)
  /\ \A id \in Ids : SF_vars(Execute(id)) /\ SF_vars(Deliver(id))

FairSpec == Spec /\ Fairness

-----------------------------------------------------------------------------
(* Refinement *)

Outstanding == IF active \in Items THEN request[active] ELSE NoId
Sent == {c.id : c \in wire}
Returning == {p.id : p \in posts}

Requests == INSTANCE HistoryRequests
              WITH outstanding <- Outstanding, commands <- Sent, answers <- Returning,
                   taken <- {}

-----------------------------------------------------------------------------
(* Properties *)

JobType ==
  /\ jobStatus \in {"none", "running", "repairing", "completed", "failed"}
  /\ workflow \in Workflows
  /\ size \in 0 .. MaxItems /\ active \in 1 .. size + 1 /\ pass \in 0 .. 4
  /\ found \in BOOLEAN /\ leased \in BOOLEAN
  /\ verifier \in 0 .. MaxItems
  /\ repairer \in {"none", "entered", "hierarchy"}
  /\ faults \in 0 .. MaxFaults

ItemType ==
  /\ status \in [Items -> {"queued", "probing", "importing", "verifying", "completed"}]
  /\ phase \in [Items -> {"discovery", "download", "verifying", "completed"}]
  /\ request \in [Items -> Ids \cup {NoId}]
  /\ retry \in [Items -> Nat]
  /\ discovered \in [Items -> 0 .. Timeframes]
  /\ planned \in [Items -> 0 .. MaxRanges] /\ next \in [Items -> 0 .. MaxRanges]
  /\ anyBars \in [Items -> BOOLEAN]
  /\ settled \in [Items -> SUBSET (1 .. MaxRanges + 1)]

NetType == wire \subseteq Commands /\ posts \subseteq Posts

TypeOK == JobType /\ ItemType /\ NetType

\* "Exactly one provider history request remains in flight at a time": only
\* the active instrument of a running job has a request, whatever restarts,
\* redeliveries and late reports came before.
OneInFlight ==
  \A i \in Items : request[i] # NoId =>
    /\ jobStatus = "running" /\ i = active /\ i <= size
    /\ status[i] \in {"probing", "importing"}

\* Instruments are worked through in order: those before the active one are
\* done, those after it have not been touched in this pass.
InOrder ==
  jobStatus = "running" =>
    /\ \A i \in 1 .. active - 1 : status[i] = "completed"
    /\ \A i \in active + 1 .. size : status[i] = "queued" /\ next[i] = 0 /\ settled[i] = {}

\* No range is skipped: when an instrument leaves its download phase, every
\* range of its plan was stored or marked bad.
RangesAccounted ==
  \A i \in 1 .. size :
    phase[i] \in {"verifying", "completed"} => 1 .. planned[i] \subseteq settled[i]

\* A report settles the range it was made for: a late, repeated or foreign
\* report never moves the download of another range on.
SettledByItsReport ==
  [][\A i \in Items : next'[i] = next[i] + 1 =>
       \E p \in posts : p.to = [item |-> i, range |-> Range(i)] /\ p \notin posts']_vars

\* The coordinator is a HistoryRequests: a request is closed only by an answer
\* that is under way for it or by a restart, and ids do not come back.
ImplementsRequests == Requests!Spec

\* The background threads belong to the current state of the job: at most one
\* lives, and it is the one the job waits for.
ThreadsOwnTheJob ==
  /\ verifier # 0 => /\ jobStatus = "running" /\ verifier = active /\ verifier <= size
                     /\ status[verifier] = "verifying" /\ repairer = "none"
  /\ repairer # "none" => jobStatus = "repairing"

\* A job that waits for a thread has one: nothing else ends the wait.
WaitHasThread ==
  /\ jobStatus = "repairing" => repairer # "none"
  /\ \A i \in 1 .. size : status[i] = "verifying" => verifier = i

\* As long as the journal can be written, no wait is orphaned.
WaitHasThreadUnlessFault == faults = 0 => WaitHasThread

\* A job is reported completed only after all its refresh passes.
PassesDone ==
  jobStatus = "completed" /\ size > 0 =>
    /\ workflow = "full" => pass = 4
    /\ workflow = "recent_m1" => pass = 3
    /\ workflow = "startup_m1" => pass = 0

\* "Startup ... does not run hierarchy repair" (README, release 1.0.0).
StartupRunsNoHierarchy == ~ (workflow = "startup_m1" /\ repairer = "hierarchy")

\* Where the journal can be written (MaxFaults = 0), every operation ends, so
\* that the provider can be given another one.
JobEnds == Busy ~> ~ Busy

=============================================================================
