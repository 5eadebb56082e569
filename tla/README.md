# Formal model of the Axetos market data server

TLA+ modules, TLC configurations and TLAPS proofs for
`src/src/axetos_market_data` (the Python server) and
`src/bridges/mt5/Experts/AxetosMarketDataBridge.mq5` (the MT5 bridge it
drives). File names below without a directory are in
`src/src/axetos_market_data`.

Every definition is translated from the code; `PROJECT.json` ("map") names the
lines each one stands for. The modules keep all of the control of what they
model (guards, early returns, error paths, the order of effects) and reduce data
to what a property tells apart: "a range of the plan", "an offset in time", "the
n-th symbol", "a flat minute at price 2" appear, timestamps, decimals and names do
not.

    tlc -workers 2 -config FullHistory.cfg MCFullHistory.tla     # model-check
    tlc -workers 2 -config CandlePaths.cfg MCCandlePaths.tla
    tlc -workers 2 -config Services.cfg MCServices.tla
    tlapm FullHistoryProofs.tla                                  # prove, as the other *Proofs

## 1. Inventory

The server stores candles. MT5 terminals push ticks and are told, over HTTP
polls, which bars to copy and upload; other providers are polled in threads. A
process for ingestion and one for candle repair do the heavy writing.

| component | state | operations | interacts with | what is hard | correct means |
|---|---|---|---|---|---|
| full-history coordinator (`full_history.py`, callbacks in `web.py`) | per provider a job: instruments, active instrument, phase, plan, position, outstanding request, lease, retries, refresh pass | start, start_targeted, next_request, availability_result, batch_result, instrument_verified, resume_targeted_after_repair, complete_repair | bridge (poll, report), one verification and one repair thread, event journal, repair process | late, lost and repeated reports; threads that die; passes that start over; restart | one request in flight; no range skipped; a report settles only its own range; every job ends |
| terminal clock (`mt5_terminal_clock.py`) | per terminal a pending command with its handshake; offset per request id | prepare, record_terminal_time, normalize_returned_timestamp, complete | poll, time, upload and report handlers | handshake times out with its report under way; offsets forgotten too early or never | bars are translated back by the offset their request was translated with |
| routine M1 scheduler (`live_m1.py`) | per provider the active request, a cursor, the minute each symbol is completed for | next_command, accepts, context, complete | poll and report handlers | repetition without limit; wrap-around of the cursor | every symbol has its turn |
| MT5 bridge (`AxetosMarketDataBridge.mq5`) | none that outlives a timer call, but heartbeat and subscription times | OnTimer: heartbeat, symbols, ticks, poll, execute, upload, report | all `mt5` endpoints | gives up after 1.5 s or 5 s while the server goes on with the call | one report per executed command, or none |
| authoritative refresh buffer (`authoritative_refresh.py`) | per request the chunks so far and their age | add, discard, expiry | `bridge_candles`, window replacement | chunks of two executions of one request; expiry within an upload | a window is replaced by one complete response or not at all |
| ingestion and repair processes (`history_worker.py`, `repair_worker.py`) | job and result queues, waiters, worker process, held-back flat minutes | start, submit, run, restart, shutdown | upload handlers, repair thread | waiter times out while the job stays queued; worker dies; listener of the old worker | a caller gets its own result or an error; acknowledged bars are stored |
| MT5 bridge service (`bridge.py`) | bounded tick queue, temporary minute per symbol | ticks, candles, heartbeat, shutdown | tick endpoint, builders, ingestion | drop-oldest queue shared with the shutdown sentinel | the newest tick survives; shutdown ends the thread |
| candle builder and feed (`candle_builder.py`, `feed.py`, `service.py`) | open minute, last close, feed state | on_tick, finalise, gap fill | providers, store, stream hub | gap length at its limit; late ticks | one candle per minute, none reopened |
| aggregation, hierarchical repair (`aggregation.py`, `hierarchical_repair.py`, `timeframes.py`) | open buckets; quality rank of stored rows | add, close, rebuild | builder, repair process | incomplete buckets, rank order | no official candle overwritten by a derived one |
| supervision (`runtime.py`, `routing.py`, `maintenance.py`) | a worker and thread per provider, the last tick of each | load, action, upsert, remove | providers, builders | restart while the old thread runs | at most one live worker per provider |
| scheduler, housekeeping (`scheduler.py`, `housekeeping.py`) | due times, wake event | run, trigger, stop | store | wake lost between check and wait | a due job runs |
| stream hub (`streaming.py`) | sequence number, queue per subscriber | publish, subscribe, close | builders, HTTP stream | sequence under the lock, delivery outside | a subscriber sees numbers increase |
| storage, events, alerts (`storage.py`, `database.py`, `operational.py`, `alerts.py`) | database | transactions | all | writes that raise inside callbacks | enters the models as a write that may raise |
| HTTP application (`web.py`, `security.py`, `server.py`) | wiring, sessions | handlers | all | two locks one after the other in a handler | see the components |
| history rebuild and gap repair, quality, calendar (`history.py`, `quality.py`, `calendar.py`) | gaps and candles in the store | backfill, scan, repair_gaps, rebuild | store, providers, maintenance worker | each step is a transaction; several callers | a scanned time without a candle is an open gap |
| tools (`benchmarks.py`, `backups.py`, `diagnostics.py`, `endurance.py`, `config.py`, `cli.py`, ...) and provider adapters | none to interleave | file, process and network I/O | | | not modelled |

The hazards, each at its line and with the properties that would show it, are
listed in `PROJECT.json`.

## 2. Plan

| | modules | abstract specification | what for | state |
|---|---|---|---|---|
| 1 | `FullHistory`, `MCFullHistory`, `FullHistoryProofs` | `HistoryRequests` | coordinator, its threads, history commands | done |
| 2 | `TerminalClock`, `LiveM1`, `CommandPlane`, `MCCommandPlane`, `CommandPlaneProofs` | uses `HistoryRequests` in place of the coordinator | handshake, routine requests, blocking calls of the bridge | done |
| 3 | `WorkerProcess`, `CandleStore`, `Ingestion`, `MCIngestion` | `JobService`: a caller is answered once, by its own job | chunked uploads, refresh buffer, history process, flat minutes | done |
| 4 | `CandleBuilder`, `ProviderStream`, `MCCandlePaths` | | builder, feed states, recovery, aggregates, authority | done |
| 5 | `TickQueue`, `StreamHub`, `Scheduler`, `Supervision`, `HistoryPlan`, `MCServices` | | queues at their limit, wake event, threads, ranges of a plan | done |
| 6 | `HierarchicalRepair` (in `MCServices`), `GapRepair` (in `MCCandlePaths`) | | ranks and stages beside imports; scans beside rebuilds | done |
| 7 | `StreamHubProofs`, `SupervisionProofs`, `GapRepairProofs`, `ProviderStreamProofs` | | client queues, worker threads, scans and live candles without the bounds of the runs | done |
| 8 | `MCCandlePathsProofs`, `MCServicesProofs` | | the same results for behaviours of the composed runs; uploads, the wake event, plans, the tick queue, repair runs | done |
| 9 | `JobService`, and the proof that `Ingestion` implements it; the types of the services in one theorem | `JobService` | the process behind a job queue; `AllTypes` of `MCServices` | done |

The modules of rows 3 to 6 declare no `RECURSIVE` operator and name the assumptions
on their constants, which is what lets theorems stand in modules beside them.

## 3. The modules

### FullHistory

One provider's `FullHistoryBackfillManager` with the callbacks of `web.py`. A
method runs under one lock and is one action; `next_request` is the disjunction
`Poll`, because what it does depends on where the active instrument stands.

| TLA+ | code |
|---|---|
| `jobStatus`, `workflow`, `size`, `active`, `pass` | `FullHistoryJob` (`active` = `active_index + 1`) |
| `status`, `phase`, `request`, `retry`, `discovered`, `planned`, `next` | `InstrumentProgress` |
| `leased` | whether the 30 s lease of the outstanding request is running |
| `verifier`, `repairer` | the daemon threads `recent-m1-rebuild` and `history-repair` |
| `wire`, `posts` | commands handed out, reports under way |
| `settled` | history variable: ranges stored or marked bad in this pass |
| `faults` | writes of the event journal that raised |
| `Start`, `StartTargeted` | `start`, `start_targeted` |
| `PollIssue`, `PollRedeliver`, `PollEnd`, `PollFinishItem`, `PollVerify` | `next_request` with `_advance_completed` and `_prepare_next` |
| `Execute`, `Lose` | `ExecuteCommand` of the bridge; the channel |
| `Deliver` = `Ignore`, `AvailabilityResult`, `BatchUnavailable`, `BatchFailed`, `BatchCompleted` | `availability_result`, `batch_result` |
| `Verified` | the end of the verification thread, `instrument_verified` |
| `RepairBranch`, `RepairReturns`, `RepairDies` | `repair_full_history`, `resume_targeted_after_repair`, `complete_repair` |
| `Restart` | a new process: jobs and threads are gone, the bridge and the channel are not |

A journal write that raises is tried at each place where it separates two
effects (`JournalFails`). `_handle_planning`, the phase of releases before 0.62,
is entered by no path and left out. An instrument's plan is a number of ranges;
how the ten years are cut into ranges is the subject of `HistoryPlan`.

### HistoryRequests

The contract between the coordinator and whatever carries its commands: at most one
outstanding request, handed out again only while outstanding, closed by an answer under
way or in hand for it, or with the process, its id never reused while anything refers to
it. When the process ends, the answers under way stay (`Forget`), so an answer that
closes another request is not taken for the end of the process. `FullHistory` implements
it (`ImplementsRequests`, with the request of the active instrument, the ids in `wire`
and in `posts`), and `CommandPlane` uses it in place of the coordinator
(`UsesRequests`).

### TerminalClock and LiveM1

One operator per branch of each method of `Mt5TerminalClockCoordinator` and
`LiveM1CommandScheduler`; they have no process of their own and are composed by
`CommandPlane`. Offsets are reduced to whether one is kept for a request, and a
measurement to whether the reading it came from is younger than the timeout of
the handshake ("true") or may be older ("skewed"). The plausibility limit of 14
hours is not modelled: a reading it refuses is like one that is lost. `due` is
the set of symbols whose `_last_completed_minute` is not the last completed
minute, so that time needs no numbers.

### CommandPlane

The handlers of `web.py` the bridge calls, and the bridge's loop of one blocking call at
a time. `call` is the call the terminal waits for, `late` the calls it gave up on that
the server still handles. `Step(c, d)` is one step of the handler of `c`, leading to
`d`: a reply, or the second half of the same handler where it leaves one lock and takes
another (`prepare` after the command was chosen, `translate` after the context of an
upload was checked, `decide` after the bounds of an availability report were translated,
`complete` after a report was booked). `After(c, d)` is what the bridge does with a
reply. The reply to any call may be lost, the call may be lost before it is handled, or
be handled late: at the same time as later calls.

| action | code |
|---|---|
| `Take`, `Prepare` | `bridge_repair_request`: coordinator or routine scheduler, then the clock |
| `Time` | `bridge_terminal_time` |
| `Upload`, then `Translate` | `bridge_candles`, all chunks of a response as one call: the context, then the bars |
| `Report`, then `Complete` | `bridge_repair_result`, then `terminal_clock.complete` |
| `Availability`, `Decide`, then `Complete` | `bridge_history_availability`: the bounds translated, given to the coordinator, then `terminal_clock.complete` |
| `Closes`, `Leaves` | what the coordinator does with an answer: it closes the request, and may raise after it; it ignores it, or raises before |
| `raised` | history variable: ids of requests closed in a call that raised, so that the clock was not told |
| `Poll`, `Serve`, `ServeLate`, `GiveUp` | `OnTimer`, `HttpGet`, `HttpPost` and the channel |
| `LeaseExpires`, `MinutePasses`, `HandshakeExpires` | time |
| `Restart` | a new server process |

Simplifications: the coordinator and the routine scheduler are consulted in one
step; the bars of an upload are translated together, though the code takes the clock's
lock for each; a provider that is disabled between two polls is not modelled; one
terminal serves the provider.

### WorkerProcess

The protocol `history_worker.py` and `repair_worker.py` share: a job queue, an answer
queue, a table of waiters under a lock, a child process and a listener thread.

| TLA+ | code |
|---|---|
| `queue`, `results` | `_commands`, `_results` |
| `waiting`, `outcome` | `_waiters`, and the payload a caller finds when its event is set |
| `child`, `current` | the process, and the job whose answer it has not put yet |
| `Submit`, `Refuse` | `insert_missing` or `run` up to the wait; a queue that stays full, or is closed |
| `Expire` | the wait times out: the waiter is removed, the job stays queued |
| `Execute`, `Reply`, `Crash` | the child takes a job, puts its answer, dies |
| `Collect` | the listener |
| `ShutDown`, `Finish` | `shutdown` |

A dead child is replaced by the next `Submit`; its queues are kept, what it had
taken is lost. The module has no behaviours of its own: `Ingestion` and
`HierarchicalRepair` extend it and say what executing a job means.

### JobService

What such a process promises the threads that call it, without a child, a listener or
waiters: a job asked for is taken at most once, in the order of asking; a caller is told
one thing at most, and "ok" only if that very job took effect; nothing happens after
the close. A job may be lost, and may be done after its caller gave up. `Ingestion`
implements it (`ImplementsJobs`):

| `JobService` | `Ingestion` |
|---|---|
| `asked` | ids that are not new |
| `pending` | `queue` |
| `done` | `committed`, the jobs whose transaction was committed |
| `told` | the state of `outcome` |
| `open` | not both stopped and without a child |

### CandleStore and Ingestion

`CandleStore` has the writes of `storage.py` as operators on a table of candles:
overwrite, insert what is missing, replace a window. `Sanitized` is the cleaning of a
plain upload: the bars that are not what the last kept one was, the first compared with
the last row stored before the chunk (`Changes`, `LastRow`), and the short quiet runs
before them. `Ingestion` is the path of a
downloaded response: the bridge posts it in chunks (`ea`, the loop of
`UploadCandles`), a handler buffers, cleans or passes on a chunk (`PostRefresh`,
`PostPlain`, then `Return`), the history process compresses and writes it (`Work`)
and stamps provenance (`Acknowledge`). `kind` is the kind of request: "refresh"
replaces its window from a buffer, "live" overwrites, "plain" inserts what is
missing. `Repeat` is the next execution after a report, under a new id or, when the
report was lost, the same; `GiveUp` a post that fails while the handler may still
run. A bar is flat at a price or moves and closes there.

### CandleBuilder and ProviderStream

`CandleBuilder` has the operators: the minute being built, what becomes of it when a
tick of a later one comes, the gap before that tick (verified with the provider, then
filled if short), buckets and aggregates. `ProviderStream` is one provider and
instrument: either the worker of `runtime.py` reads its ticks (`Tick`, with the feed
state, the recovery from provider history and the authority over a rival provider, then
`MarketDataService.run`), or the MT5 bridge manages it (`BridgeTick`, `Import`). A
recovery asks for a range that ends with the present minute and writes all that is
returned, so the answer may hold the bar of the minute just begun, marked complete: a
row by "early" (`Recovered`). The open minute and the open buckets that are only shown
to clients are not part of the state. `Restart` stops the worker, whose builder flushes
the minute incomplete, and starts the next, which knows the rows and the last tick only.

### TickQueue, StreamHub, Scheduler, Supervision

* `TickQueue`: `enqueue_ticks`, `_consume` and `shutdown` of `bridge.py`, split where
  another thread can run in between. The lock serialises request threads only; the
  consumer and `shutdown` use the queue without it.
* `StreamHub`: `publish` up to the end of its lock (`Publish`), the hand-over to the
  event loop subscriber by subscriber (`HandOver`), the callbacks (`Enqueue`), the
  generator behind `/api/stream/live`.
* `Scheduler`: the loop look, run, wait, clear; `execute` in its transactions, by the
  loop and by `run now` requests; edits of schedules, which wake the loop in a second
  step, or never when the event between the two cannot be recorded (`Wake`; `unwoken`
  remembers those). Each transaction may raise, inside or outside the `try`. Due
  schedules come by their time; those of one time in any order, which the query leaves
  open.
* `Supervision`: the requests on one provider as sequences of steps (`Steps`), with
  the supervisor's lock where the code holds it: `upsert` and `remove` do to their
  end, `action` only to look the worker up. A thread ends when it pleases, since
  the stop event is looked at when a tick arrives; `join` may time out.

### HierarchicalRepair, GapRepair, HistoryPlan

* `HierarchicalRepair`: `run` with its stages, chunks and buckets; reading a bucket,
  looking at the target, writing it and recording its provenance are separate
  transactions, between which the server imports minutes and refreshes aggregates.
  A row is told apart by its tick count. The child is `WorkerProcess`. `Source` and
  `Build` read the rows of one timeframe only, as the queries of the stage do.
* `GapRepair`: backfills, scans, repairs and rebuilds of several threads on one table
  of candles and one of gaps, transaction by transaction, any of which may raise; other
  paths add candles and take candles away meanwhile (`Import`). `counts` says for which
  times what a running scan has read still holds, `scanned` for which times a finished
  one does.
* `HistoryPlan`: the loop of `_source_ranges_from_availability`, over a calendar given
  by the days its months and years start at (`MonthStarts`, `YearStarts`).

### MCCandlePaths and MCServices

Components that share no state are checked in one run: the first variable of the run
says which of them moves, and the others stand still in their initial state. The states
are the union, not the product, and nothing is claimed about them together. `MCServices`
leaves the calendar, the tick queue and the tables, widths and source pieces of a repair
open, under `CalendarAssumption`, `QueueAssumption`, `ScheduleAssumption` and
`RepairAssumption`; `FewMinutes`, `ShortChunks` and `SomeTables` are the instance that
is checked.

## 4. What TLC checks

Each run ends within five minutes on two workers of a small machine; the longest is
`candle_paths`, with 1.3 million states.

| run | instance | checks |
|---|---|---|
| `full_history` | 2 instruments, plans of up to 2 ranges, 2 ids, 1 report under way, 1 journal fault, all workflows | types, one request in flight, order, no range skipped, threads, passes, `SettledByItsReport`, implements `HistoryRequests` |
| `full_history_live` | 1 instrument, all reports, no fault | `JobEnds`, no range skipped |
| `command_plane` | 2 history, 1 routine and 2 clock ids, 1 symbol, 1 late call of any kind, restarts | types, `OffsetInTime`, `OutstandingTranslated`, `UsesRequests` |
| `command_plane_live` | 1 history and 1 routine id, 2 clock ids, 2 symbols, calls lost but not late | `TranslatedBack`, `OffsetsOwned`, `HistoryAnswered`, `SymbolsFetched` |
| `candle_paths` | `Ingestion`: 2 responses of 4 minutes in 2 chunks, all kinds, 2 executions, 3 jobs used in order, a queue of 2, 1 death, 1 expired buffer; `ProviderStream`: 4 minutes, 2 prices, gaps of up to 2 filled, buckets of 2, 1 restart; 3 history operations by 2 threads over 2 times, whose candles come and go | `AckMeansWritten`, `WindowWhole`, `MovesStored`, `StampedOfficial`, implements `JobService`; `ShortGapsOnly`, `TicksCovered`, `NoHalfCandles`, `AggregatesFollow`; `ScanComplete`; types |
| `services` | 3 batches in a queue of 2; 2 publishers, 3 events, a client queue of 1; 3 requests by 2 callers on one provider; 2 schedules, 1 request, 1 fault; plans over a calendar of 8 days of 4 minutes; a repair over 4 minutes with 3 initial tables and 1 disturbance | `NewestKept`, `ConsumerEnds`; `StreamFaithful`; `OneWorkerRuns`; `WakeNotLost`, `DueServed`; `PlanCovers`; `RepairConverges`; types |

Why the bounds are enough. Two instruments and two ranges give a predecessor, a
successor and a position in the plan that is not at an end; all four passes and
three probes run. Two ids make a stale report and a current one coexist; a third
only renames. One report under way meets commands on the wire, which are executed
later in any order. Two clock ids let a handshake be renewed with the report of
the one before it still under way. One late call of every kind runs against every
call that follows it. The theorems of section 5 remove these bounds for every safety
property of these runs.

In `candle_paths` two chunks are a first and a last one, two executions put chunks of
both into one buffer, three jobs leave one under work, one queued and one posted; the
responses are one that rests across the boundary of the chunks and moves again, and
one that rests, jumps and rests to the end. Job ids are alike, so they are used in
order. Four minutes hold a gap below, at and above `ShortGap`, a bucket that is closed
and one that is open, and every feed state. In `services` every queue is at its limit
with one more to come; each race is between two actors, and a third only repeats one
of them; the calendar has a month at the start and one at the end of a window cut off
and whole ones between. The disturbance of a repair (an import, a stage that raises or
a death) can fall between any two of its transactions; the tables it starts from are
whole with a wrong hour, have a hole and an open minute under an official day, or end
short and have no hours.

What the properties say about the code:

* `OneInFlight`: only the active instrument of a running job has a request, whatever
  restarts, leases and late reports came before.
* `InOrder`, `PassesDone`: instruments are worked through in order, in every pass,
  and a job is completed only after all its passes.
* `RangesAccounted`: an instrument that left its download has every range of its
  plan stored or marked bad. `SettledByItsReport`: and only by a report made for it.
* `ThreadsOwnTheJob`, `WaitHasThreadUnlessFault`: the background thread that lives is
  the one the job waits for, and while the journal can be written there is one.
  With a fault the wait can be orphaned: nothing else ends it (see the hazards).
* `OffsetInTime`: `prepare` never uses an offset measured from a reading older than
  the timeout, although `record_terminal_time` accepts one: the handshake is then
  overdue too, and begun again.
* `OutstandingTranslated`: as long as a request is outstanding, its bars and bounds find
  its offset at every stage of their handling, however late they and other calls
  are. Nothing is said of bars whose request is closed between two of these stages, or
  before them (see below, and `command_plane_restart`).
* `TranslatedBack`, `OffsetsOwned`: without late calls and restarts no bar is stored
  untranslated, and no offset outlives its request but those of requests the coordinator
  closed in a call that then raised (`raised`). A command whose release is
  handled late leaves an offset behind, so this is not claimed in general.
* `HistoryAnswered`: a history request is answered, although the command may be
  dropped when the clock already holds another, and is then found by its lease.
* `SymbolsFetched`: while no history is downloaded every symbol has its turn again
  and again. While history is downloaded routine requests wait, by design.
* `AckMeansWritten`: a handler is told its job was stored only if that very job was
  committed, over timeouts, answers of a dead child and refused jobs.
* `ImplementsJobs`: over deaths, restarts, refusals and late answers the history process
  and its callers are a `JobService`: a job taken by a child that dies is not done
  again, and one whose caller gave up still can be.
* `WindowWhole`: whatever chunks were lost, repeated or dropped with an expired buffer,
  a refreshed window becomes exactly what the terminal answered, in one step. The
  executions of one request answer the same bars here: a mix of two answers that differ
  would not be seen.
* `MovesStored`: when the bridge takes an upload for complete, every minute in which
  the price moved is in the table. `StampedOfficial`: a row with the provider's
  provenance is the provider's.
* `ShortGapsOnly`: minutes are made up only between real candles at most `ShortGap`
  apart, whatever was verified or recovered before. `TicksCovered`, `NoHalfCandles`: a
  minute spans every tick the worker built into it, and is complete once it is over;
  except a minute within which a worker was replaced, and a bar a recovery read early,
  which stays only while no tick built since differs from it. `AggregatesFollow`: stored
  aggregates are those of the rows below; except for rows the builder does not report.
* `NewestKept`: the tick queue loses the oldest batches only, and the ones it has
  taken are ingested in order. `ConsumerEnds`: a shut down service stops ingesting;
  except when a request thread takes the sentinel for an old batch, or its room.
* `StreamFaithful`: a client is sent the events it asked for, each once, those of one
  publisher in order, and misses only what its full queue dropped. Events of two
  publishers may swap: the sequence is taken under the lock and handed over outside.
* `OneWorkerRuns`: while requests do not overlap, at most one thread of a provider
  would take the next tick, and it belongs to the registered worker.
* `WakeNotLost`, `DueServed`: the loop does not sleep on a changed schedule, except one
  whose request raised before it could wake it, with no wake since; and a schedule that
  is due is run, whatever clean-ups do.
* `RepairConverges`: after a run that nothing disturbed each candle above complete
  finer ones is their aggregate or of higher rank; official rows are never touched.
* `ScanComplete`: what a scan covered and has no candle is an open gap once nothing is
  under way. Four things take back what was covered, each for its own times only: a candle
  that goes after a scan read it, a scan that read before such a removal and clears the
  gap after it, a rebuild, and a scan that raises before it has recorded its gaps.
* `PlanCovers`: the ranges of a plan cover the window once, in order.

### Fairness

`FullHistory` (`FairSpec`): the bridge polls every second, leases run out and
threads run (weak fairness); a command or report that is repeated for ever is not
lost for ever (strong fairness of executing and of delivering each id).

`CommandPlane` (`FairSpec`): weak fairness of the timer, of the handling or giving
up of a call and of the minutes; strong fairness of each useful exchange (a poll
is answered, a TIME command reaches the terminal, its report the server, ...)
because it is repeated until it succeeds. Two assumptions go further, and are
about speed: handshakes stop timing out (`<>[][~ HandshakeExpires]_vars`: from
some point on a terminal answers TIME within ten seconds), and a lease runs out
again and again at a moment when the clock holds no command and no call is under
way (the lease is thirty seconds, the routine requests between take less and are
given out at most once a minute and symbol). Without the second, a coordinator
whose lease only ever expires while the clock is busy would never have its
command released.

`TickQueue` and `Scheduler` (in `services`): weak fairness of threads that are running,
namely the request threads that passed the check, the consumer and `shutdown`; the
polling thread and the request that has stored a schedule, which goes on to wake it or
raises.
Nobody has to shut down, edit or ask. The other modules are checked for safety only.

### Disagreements between the code and its documentation

Each is a run whose single property TLC refutes; `PROJECT.json` quotes the lines.

| run | what it shows |
|---|---|
| `full_history_startup` | a `startup_m1` job ends in the hierarchy repair (`web.py:438`) |
| `full_history_skips` | a DISCOVER that fails three times moves the download position, and the first range of the plan made later is never requested (`full_history.py:413`) |
| `full_history_stalls` | a symbol the terminal cannot select is probed for ever: the job never ends and blocks the provider (`full_history.py:410`) |
| `command_plane_restart` | after a restart, bars read for a command of the process before are stored in the terminal's time (`mt5_terminal_clock.py:107`) |
| `command_plane_blocked` | a routine request that fails is repeated without limit, and keeps every other symbol from its turn (`live_m1.py:87`) |
| `ingestion_counts` | a flat minute held back from one chunk is written with the next, which then counts more candles than it received: the bridge fails an upload that was stored (`history_worker.py:83`) |

`BadSymbols` is what separates the second, third and fifth from the passing
runs: symbols the terminal cannot select, empty there.

### What the code does and no property forbids

The models contain the following behaviours; the properties above are stated so that
they leave room for them, as narrowly as we could.

* Offsets. A terminal that gives up an upload after 5 s and reports failure may have
  that report handled, and the offset forgotten, while the upload is between the check of
  its context and the translation (`web.py:753`, `bridge.py:437`): its bars are then
  stored in the terminal's time, and replace the authoritative window if they are those of a
  refresh. A coordinator that raises after it closed a request (`full_history.py:411`,
  `475`, `494`) leaves one offset behind for as long as the process lives, since the
  handler ends before `terminal_clock.complete` (`web.py:887`, `914`).
* Uploads. A buffer that expires between two chunks, or a replacement that fails after
  the terminal gave up, leaves a request reported complete with its window as it was
  (`authoritative_refresh.py:122`). The cleaning of a plain upload compares with the
  latest bar stored, not with the one the child holds back (`bridge.py:485`), and a held
  minute is gone when the child dies or the write it was put in front of fails
  (`history_worker.py:106`). A job whose wait timed out is executed all the same.
* Builder. A deleted unchanged minute (`candle_builder.py:174`) and minutes written by a
  recovery (`runtime.py:152`) are not reported for aggregation. A short gap is filled
  with the close known before it was verified (`candle_builder.py:140`), so it may be
  filled at another price than a verified candle inside it. After a restart within a
  minute the incomplete row hides what the next worker builds of it until it is over.
  The bar of the minute just begun that a recovery stores as complete (`runtime.py:145`)
  stays half built when no other tick of that minute is built, as when a provider of
  higher priority takes over. Where no bridge manages the provider every tick stores the
  open bucket (`service.py:31`), and the hierarchical repair stores a bucket without
  asking whether it is over; `README.md:6-7` of the repository says open buckets are not
  stored, which `finalize_closed_buckets` does for the bridge only.
* Shutdown. An enqueue that passed its check can take the sentinel for an old batch, or
  the room made for it; then the consumer thread is left to the process
  (`bridge.py:202`).
* Stream. `wait_for` cancels the generator when fifteen seconds pass without an event
  (`web.py:655`), so a quiet stream gets one heartbeat and ends at the next turn.
* Supervision. `action` does not hold the lock: two of them can start a thread each, or
  start a worker that was removed. A worker whose thread outlives the five seconds of
  `join` is not started again, and stops with its next tick (`runtime.py:86`).
* Scheduler. A run-now beside the loop's own run can set the next time back; an event
  that cannot be recorded turns a completed run into a failed one
  (`scheduler.py:70`); a database error outside the `try` ends the thread. An edit whose
  event cannot be recorded (`web.py:1082`) is stored but wakes nobody: it is seen when the
  poll interval is over.
* Repair. The refresh of aggregates overwrites official rows and leaves their rank
  (`aggregation.py:51`); a derived row of the rank of its stage is not corrected by a
  later run; a death between row and provenance leaves the row without; a stage that
  raised is answered like any other; a caller that timed out leaves the run going.
* Gaps. A scan that starts inside a bar, as the one of `web.py:1408` does, records a gap for
  that bar without reading it. A rebuild clears gaps it does not scan for again; a
  scan that read before a rebuild and clears after it, or fails after clearing, loses
  gaps. A candle removed after a scan read it, as an unchanged minute
  (`candle_builder.py:174`) or with a replaced window (`storage.py:626`), leaves no
  recorded gap until the next scan.

Code no caller reaches is left out: `_handle_planning` and its helpers
(`full_history.py`), `replace_candles`, `insert_missing_or_replace_flatline` and
`delete_off_minute_candles` (`storage.py`), `_repair_ticks_to_minutes`
(`hierarchical_repair.py`).

## 5. What is proved

Every safety property that a run checks, and the refinements of `HistoryRequests` and
`JobService`, for every value of the constants. The assumptions are those the modules
name: `ConstantsAssumption`, `PlaneAssumption`, `IngestionAssumption`,
`WorkerAssumption`, `SessionAssumption` (which the proofs of `ProviderStream` repeat as
`StreamAssumption`), `CalendarAssumption`, `QueueAssumption`, `ScheduleAssumption` and
`RepairAssumption`: positive bounds, disjoint pools of ids, windows of whole chunks,
ordered feed thresholds, days of whole hours, well-formed initial tables. TLC evaluates
them on the instances. A theorem states itself what else it assumes: `BadSymbols = {}`
where a symbol the terminal refuses makes the property false, `OneAtATime` where late
calls do.

`FullHistoryProofs`: `Invariance`, that `IInv` holds of every behaviour, and from
it `TypeCorrect`, `SingleRequest`, `Sequential`, `ThreadsCurrent`,
`WaitsAreBacked`, `AllPassesRun`, `NothingSkipped`, `ReportsSettleTheirRange` and
the refinement `RefinesRequests`. The properties are not inductive one by one.
That a late report cannot move another range rests on its carrying the target
the outstanding command was formatted for (`CommandsFit`, `ReportsFit`), which
rests on nobody touching an instrument that waits (`OneInFlight`, `InOrder`,
`ThreadsOwnTheJob`), which rests on where a waiting instrument may stand
(`Stages`, `PassBound`); `Progress` carries "everything before the position is
settled" through the plan. `IInv` is their conjunction; the induction has one
step per action. The refinement maps each action to a step of `HistoryRequests`
or a stutter, with `IInv` as its invariant.

`CommandPlaneProofs`: `PlaneTypeCorrect`, `OffsetsInTime`, `WindowsTranslated` and
`ContractUsed`. The invariant says of every call under way that it is in order
(`Sound`): it carries a request id if its kind does, the bars and bounds of the
outstanding request find their offset at every stage, and the clock is told to forget a
request only after the coordinator let it go, which is what makes `Complete` harmless.
`StepEffect` says what a handler's step may do to the parts of the server, `Followed`
what call the bridge makes next, `Undisturbed` that calls not handled stay in order.
`ContractUsed` maps every step to one of `HistoryRequests`. `RefinesRequests` proves the
same contract of the coordinator, which is what lets `CommandPlane` leave the
coordinator abstract. `BarsTranslated` and `OffsetsKept` are for a bridge with one call
at a time and a server that is not restarted (`OneAtATime`), as in `command_plane_live`.
`LoneInv` says that whatever is under way or held belongs to a request not answered yet,
and an offset to such a request or to one closed in a call that raised, and that the
clock holds no command while bars or results travel; it needs `IInv`, since a `complete`
that comes back must be of no outstanding request.

`GapRepairProofs`: `Invariance` and `ScansHold`, lifted to the run as `ScansComplete`. A
time that was covered has a candle, an open gap, or a scan that cleared its gap and is
about to record it (`Coverage`); the same holds of what a scan under way has read and
nobody took away since (`counts`), which is what it may claim when it ends; a resolved
gap hides no time; and a repair finds the gaps it read by ids that are never given to
others (`Identified`), without which its late "resolved" could close another's gap.

`ProviderStreamProofs`: `RowsComplete`, `GapsShort`, `TicksKept` and `AggregatesKept`.
The invariant describes the table around the minute being built: nothing is stored after
it, a stored one equals its row, one not stored is unchanged and flat (`Building`), and
a filled minute runs in a row of filled ones up to a real candle (`Fills`). A row is
removed when its minute turns out unchanged, so `Fills` is kept only because a filled
minute before it means that it is not (`FillHolds`). `Covered` and `Halves` say of each
minute what its row has of the ticks seen; an early bar stays only while no tick seen
differs from it (`Early`), and it alone may be complete in the present minute (`Past`);
`Aggregates` that each reported minute is in its stored bucket. A finalised table
(`Closed`) is the common case of a tick in the next minute, one after a gap, and a
flush.

`MCCandlePathsProofs`: the results above for behaviours of the run, and those of
`Ingestion`, for any number of jobs, chunks, minutes and executions: `UploadTypes`,
`OwnAnswers`, `WholeWindows`, `ProvenanceHolds`, `MovesKept`; and `PathsTyped`.
`Posting`: the bridge is at a chunk of the window, and buffers hold chunks of it; all of
them together are the window (`ChunksFit`). `Serving`: an answer on its way, or found by
its caller, is of a job that was committed, if it says so; that makes the late answer of
a dead child harmless. `Storing`: queued jobs carry minutes of the window, and one that
replaces it carries all of it (`Entire`); what is stamped, or written and about to be
stamped, equals the terminal's bars. `MovesKept` adds that a committed job left no
moving minute without a row (`Landed`; rows are replaced, never removed), that the job
of the chunk under way lacks only bars that repeat an earlier close (`Carried`, by
`LeftOut`), and that chunks are acknowledged in their order (`Advanced`). That a bar
left out repeats an earlier one rests on the rows before the chunk being the terminal's
or older than the window; hence the part of `Landed` that lists what a row can be.

`ServesJobs`, in the same module, maps every step of `Ingestion` to one of `JobService`
or a stutter. What it adds to the invariant above is `Unheard`: a caller that was told
nothing still waits, and every answer on its way says something. `JobsOnce` then follows
from `JobService` alone (`ServicePromises`): no job waits to be done a second time, and
a caller that is told "ok" can rely on it.

`StreamHubProofs`: `ClientsServed`, for any `QueueSize` that is positive. An event for
a client is past (read or dropped), queued, a callback of the loop, or with its
publisher; the events of one publisher are in their order along these places
(`InOrder`), and what is due is in one of them (`Somewhere`). That a publisher hands
over one event at a time is what keeps its events apart. `HubTyped` adds the types, among
them that no client queue outgrows `QueueSize`: a full one makes room first (`Bounded`).

`SupervisionProofs`: `OneWorker`, if `Nobody` is no caller. Requests come one after the
other, as in the property: the one that has steps left holds the lock exactly while
its steps say so; a thread that lives is the thread of its worker; a worker that would
take the next tick is the registered one, or the one the request is about to stop.
`ThreadsTyped` is for requests that overlap: all that is left then is that every thread
is of a worker object, and every worker's thread was started. It needs that a request
that is about to stop or to start a worker has one (`Armed`), whatever the others do.

`MCServicesProofs`: `OneWorker` for the run, and the theorems about the smaller services.

* `ServicesTyped`: `AllTypes` of the run, for any `MaxEvents` and a positive
  `QueueSize`. The invariants of the services are kept side by side (`AllInv`).
  `ScheduleTyped`: the loop that runs has a schedule to run, and who executes one has
  one that exists. `RowsTyped`: rows and the candidate at hand are counts of ticks. A
  built candle counts the ticks of its sources, and those of finitely many minutes are
  finitely many (`BuildTyped`).
* `ChangesSeen`, if `NoEdit` is no name of a schedule. The invariant follows a change
  from the transaction that stores it to the wake event or to the next look of the loop,
  and sets apart those whose request raised in between.
* `PlanComplete`, for every calendar, window and width of an hour and a day. Ranges lie in
  the window in their order, before the cursor, and hold every bar before it (`PlanCut`);
  a turn of the loop ends at the last bar before the next boundary, which exists
  because a boundary is a bar.
* `NewestBatches`, for every queue and any batches. The queue is the end of what was
  accepted, with the sentinel at one place (`Fits`); what was taken comes before it in
  the same order (`Taken`). Two request threads do not enqueue at once (`LockInv`), but
  the consumer and `shutdown` take no lock: hence the separate claim that the last
  batch accepted waits, was taken, or gave way to one about to be put (`LastInv`).
* `RepairSettles`, for tables of any length, all widths and source pieces, any number of
  jobs and disturbances. `Passed`: the stages before have settled each of their buckets.
  `InStage`: so has this one up to its cursor, and the candidate at hand is the
  aggregate of its sources as they are now. Stages stay settled because none writes what
  an earlier one read or wrote (`StageTables`). `Official`: the provider's rows are as
  they were as long as nothing was imported.

The services and paths are composed as a union, so a step of the run is a step of one
of them or leaves it alone; the lifted theorems are the component's induction over the
run's initial states and steps.

Only model-checked: the liveness properties (`JobEnds`, `HistoryAnswered`, `SymbolsFetched`,
`ConsumerEnds`, `DueServed`), which are temporal under fairness and out of the prover's
reach.

What a set of numbers has as its least or greatest element is proved by the
well-foundedness of the naturals (`LeastOf`), which the provers can use; that is enough
for the minima, maxima and `CHOOSE` of the models.

## 6. What is not modelled

Left out: SQL and the engine below a transaction, decimal arithmetic and quality
scores, the contents of calendars (a set of open times stands for them), heartbeats,
instrument lists and quotes of the bridge (rows stored as they come), the temporary
minute and aggregates shown to clients and never stored, the symbol
policies that decide which instrument may be written, alert delivery, formatting and
parsing, authentication and sessions, provider adapters, benchmarks, backups and
diagnostics. `PROJECT.json` ("components") gives the reason for each.
