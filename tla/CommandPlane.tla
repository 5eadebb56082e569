---------------------------- MODULE CommandPlane ----------------------------
(***************************************************************************)
(* How one MT5 terminal is given its commands: the handlers of web.py for  *)
(* the bridge, the terminal clock, the routine M1 scheduler, the history   *)
(* coordinator as far as HistoryRequests promises it, and the bridge       *)
(* (AxetosMarketDataBridge.mq5), which does one blocking call at a time.   *)
(*                                                                         *)
(* A call is a record.  The terminal waits for `call`; a call it gave up   *)
(* on may be lost, or be in `late` and handled at any time after, at the   *)
(* same time as later ones.  A handler that takes the locks of two parts   *)
(* one after the other takes two steps, with a call of its own kind for    *)
(* the second half; steps of other handlers run in between.                *)
(***************************************************************************)
EXTENDS Naturals, FiniteSets

CONSTANTS
  HistoryIds, LiveIds, NoId,   \* uuids, "live-" uuids, no id
  ClockIds, NoClock,           \* "clock-" uuids
  Symbols,                     \* bound: configured symbols
  BadSymbols,                  \* symbols the terminal cannot select
  Late,                        \* kinds of calls that may be handled late
  MaxLate,                     \* bound: late calls at a time
  Restarts                     \* whether the server may be restarted

ASSUME PlaneAssumption ==
  /\ HistoryIds \cap LiveIds = {} /\ NoId \notin HistoryIds \cup LiveIds
  /\ ClockIds \cap (HistoryIds \cup LiveIds \cup {NoId}) = {} /\ NoClock \notin ClockIds
  /\ Symbols \in Nat /\ BadSymbols \subseteq 1 .. Symbols
  /\ MaxLate \in Nat /\ Restarts \in BOOLEAN

VARIABLES
  outstanding, leased,                       \* of the history coordinator
  live, target, fresh, due, cursor,          \* of LiveM1
  held, clock, overdue, measured, offsets,   \* of TerminalClock
  call, late,                                \* calls of the terminal
  shifted,    \* history: a bar or bound in the terminal's time was stored
  raised      \* history: ids the coordinator closed in a call that then raised

AllIds == HistoryIds \cup LiveIds

Clock == INSTANCE TerminalClock WITH Ids <- AllIds
Routine == INSTANCE LiveM1 WITH NoLive <- NoId

histVars  == <<outstanding, leased>>
clockVars == <<held, clock, overdue, measured, offsets>>
liveVars  == <<live, target, fresh, due, cursor>>
server    == <<histVars, liveVars, clockVars, shifted, raised>>
vars      == <<server, call, late>>

Call(kind, id)   == [kind |-> kind, id |-> id, ok |-> TRUE]
Result(id, ok)   == [kind |-> "result", id |-> id, ok |-> ok]
Bounds(id, ok)   == [kind |-> "decide", id |-> id, ok |-> ok]   \* ok: translated
Idle   == Call("idle", NoId)
Failed == Call("error", NoId)
Done   == Call("done", NoId)

Halves == {"prepare", "translate", "decide", "complete"}
Uploading == {"upload", "translate"}
Kinds  == {"idle", "poll", "time", "upload", "result", "availability"} \cup Halves
Calls  == [kind : Kinds, id : AllIds \cup ClockIds \cup {NoId}, ok : BOOLEAN]

UnderWay  == {call} \cup late
InUse     == {outstanding, live, held, clock} \cup offsets \cup {c.id : c \in UnderWay}
Fresh(S)  == S \ InUse

Init ==
  /\ outstanding = NoId /\ leased = FALSE
  /\ Routine!Init /\ Clock!Init
  /\ call = Idle /\ late = {} /\ shifted = FALSE /\ raised = {}

-----------------------------------------------------------------------------
(* The handlers: each step of call c leads to d, another half or a reply.   *)

\* bridge_repair_request: the coordinator and, when it has nothing to hand out,
\* the routine scheduler, as one step ...
Take(c, d) ==
  /\ c.kind = "poll" /\ d.kind = "prepare"
  /\ \/ /\ outstanding = NoId /\ d.id \in Fresh(HistoryIds)
        /\ outstanding' = d.id /\ leased' = TRUE /\ UNCHANGED liveVars
     \/ /\ outstanding # NoId /\ ~ leased /\ d.id = outstanding
        /\ leased' = TRUE /\ UNCHANGED <<outstanding, liveVars>>
     \/ /\ outstanding = NoId \/ leased
        /\ \/ d.id \in Fresh(LiveIds) /\ Routine!IssueLive(d.id)
           \/ Routine!Reissue(d.id)
           \/ Routine!NothingDue /\ d.id = NoId
        /\ UNCHANGED histVars
  /\ UNCHANGED <<clockVars, shifted, raised>>

\* ... then the terminal clock, which may not have room for the command.
Prepare(c, d) ==
  /\ c.kind = "prepare"
  /\ \/ d.kind = "TIME" /\ d.id \in Fresh(ClockIds) /\ (Clock!Renew(d.id) \/ Clock!Hold(c.id, d.id))
     \/ d.kind = "TIME" /\ d.id = clock /\ Clock!Repeat
     \/ d.kind = "command" /\ Clock!Release(d.id)
     \/ d = Done /\ Clock!Pass(c.id)
  /\ UNCHANGED <<histVars, liveVars, shifted, raised>>

\* bridge_terminal_time
Time(c, d) ==
  /\ c.kind = "time"
  /\ \/ d = Done /\ Clock!RecordTime(c.id)
     \/ d = Failed /\ Clock!RejectTime(c.id)
  /\ UNCHANGED <<histVars, liveVars, shifted, raised>>

\* bridge_candles, for all chunks of a response: the context of the request is
\* taken under the coordinator's lock and the database is asked who may send ...
Upload(c, d) ==
  /\ c.kind = "upload" /\ d \in {Call("translate", c.id), Failed}
  /\ UNCHANGED server

\* ... then the bars are translated under the clock's lock and stored; a chunk
\* may fail after others were stored.
Translate(c, d) ==
  /\ c.kind = "translate" /\ d \in {Done, Failed}
  /\ shifted' = (shifted \/ ~ Clock!Translates(c.id))
  /\ UNCHANGED <<histVars, liveVars, clockVars, raised>>

\* Mutant: any report answers the outstanding request.
AnswersAny(id) ==
  id \in HistoryIds /\ outstanding # NoId /\ outstanding' = NoId /\ leased' = FALSE

\* availability_result or batch_result of the outstanding request.
Answers(id) == id # NoId /\ id = outstanding /\ outstanding' = NoId /\ leased' = FALSE

\* Mutant: the clock forgets the request even when the coordinator raises.
AlwaysCompletes(c, d) ==
  /\ d = Call("complete", c.id)
  /\ UNCHANGED <<histVars, raised>>

\* The coordinator closes the request.  It may raise after that, in a journal
\* write: the handler ends there, and the clock is not told.
Closes(c, d) ==
  /\ Answers(c.id) /\ d \in {Call("complete", c.id), Failed}
  /\ raised' = IF d = Failed THEN raised \cup {c.id} ELSE raised

\* It ignores the report of another request, or raises before it closes its own.
Leaves(c, d) ==
  /\ d = IF c.id = outstanding THEN Failed ELSE Call("complete", c.id)
  /\ UNCHANGED <<histVars, raised>>

\* bridge_repair_result
Report(c, d) ==
  /\ c.kind = "result"
  /\ \/ /\ d = Call("complete", c.id)
        /\ IF c.ok THEN Routine!Stored(c.id) ELSE Routine!Retry(c.id)
        /\ UNCHANGED <<histVars, raised>>
     \/ c.id # live /\ (Closes(c, d) \/ Leaves(c, d)) /\ UNCHANGED liveVars
  /\ UNCHANGED <<clockVars, shifted>>

\* bridge_history_availability: the bounds are translated under the clock's
\* lock ...
Availability(c, d) ==
  /\ c.kind = "availability" /\ d = Bounds(c.id, Clock!Translates(c.id))
  /\ UNCHANGED server

\* ... then the coordinator is given them.
Decide(c, d) ==
  /\ c.kind = "decide"
  /\ \/ Closes(c, d) /\ shifted' = (shifted \/ ~ c.ok)
     \/ Leaves(c, d) /\ UNCHANGED shifted
  /\ UNCHANGED <<liveVars, clockVars>>

\* The end of both.
Complete(c, d) ==
  /\ c.kind = "complete" /\ d = Done
  /\ Clock!Complete(c.id) /\ raised' = raised \ {c.id}
  /\ UNCHANGED <<histVars, liveVars, shifted>>

Step(c, d) ==
  \/ Take(c, d) \/ Prepare(c, d) \/ Time(c, d) \/ Upload(c, d) \/ Translate(c, d)
  \/ Report(c, d) \/ Availability(c, d) \/ Decide(c, d) \/ Complete(c, d)

\* What a step may lead to.
Replies(c) ==
  {Call(k, id) : k \in {"prepare", "command"}, id \in AllIds \cup {NoId}}
  \cup {Call("TIME", k) : k \in ClockIds} \cup {Bounds(c.id, ok) : ok \in BOOLEAN}
  \cup {Call("translate", c.id), Call("complete", c.id), Done, Failed}

-----------------------------------------------------------------------------
(* The bridge *)

\* ExecuteCommand: the calls that can follow the command of request id.  The
\* symbol of a routine request is the target while it is active.
Execution(id) ==
  IF id = live /\ target \in BadSymbols THEN {Result(id, FALSE)}
  ELSE {Call("upload", id), Result(id, TRUE), Result(id, FALSE)}
       \cup (IF id \in HistoryIds THEN {Call("availability", id)} ELSE {})

\* The calls that can follow call c answered with d.
After(c, d) ==
  IF d.kind = "TIME" THEN {Call("time", d.id)}
  ELSE IF d.kind = "command" THEN Execution(d.id)
  ELSE IF c.kind \in Uploading THEN {Result(c.id, d.kind = "done")}
  ELSE {Idle}

\* The same when the reply may be lost.
Follows(c, d) == IF d.kind \in Halves THEN {d} ELSE After(c, d) \cup After(c, Failed)

\* OnTimer
Poll == call = Idle /\ call' = Call("poll", NoId) /\ UNCHANGED <<server, late>>

\* The server handles the call the terminal waits for, the reply may be lost.
Serve ==
  \E d \in Replies(call) :
    /\ Step(call, d)
    /\ call' \in Follows(call, d)
    /\ UNCHANGED late

\* It handles a call the terminal no longer waits for.
ServeLate ==
  \E c \in late : \E d \in Replies(c) :
    /\ Step(c, d)
    /\ late' = (late \ {c}) \cup (IF d.kind \in Halves THEN {d} ELSE {})
    /\ UNCHANGED call

\* The terminal's timeout: the call is lost on its way, or will be late.
GiveUp ==
  /\ call.kind # "idle"
  /\ call' \in After(call, Failed)
  /\ \/ call.kind \notin Halves /\ UNCHANGED late
     \/ call.kind \in Late /\ Cardinality(late) < MaxLate /\ late' = late \cup {call}
  /\ UNCHANGED server

\* Mutant: an outstanding request is never handed out again.
LeaseNeverExpires == FALSE

LeaseExpires ==
  /\ leased /\ leased' = FALSE
  /\ UNCHANGED <<outstanding, liveVars, clockVars, shifted, raised, call, late>>

MinutePasses == Routine!Minute /\ UNCHANGED <<histVars, clockVars, shifted, raised, call, late>>

HandshakeExpires == Clock!Expire /\ UNCHANGED <<histVars, liveVars, shifted, raised, call, late>>

\* What the server is busy with dies with it; what the terminal sends or has
\* sent may reach the new process.
Restart ==
  /\ Restarts
  /\ outstanding' = NoId /\ leased' = FALSE
  /\ Routine!Reset /\ Clock!Reset /\ raised' = {}
  /\ late' = {c \in late : c.kind \notin Halves}
  /\ IF call.kind \in Halves THEN call' \in After(call, Failed) ELSE UNCHANGED call
  /\ UNCHANGED shifted

Next ==
  \/ Poll \/ Serve \/ ServeLate \/ GiveUp
  \/ LeaseExpires \/ MinutePasses \/ HandshakeExpires \/ Restart

Spec == Init /\ [][Next]_vars

-----------------------------------------------------------------------------
(* Fairness.  The terminal polls every second and time passes; a call that  *)
(* is repeated for ever is not lost for ever, and the terminal does not     *)
(* fail for ever to read bars.                                              *)

Good(d, e) ==
  /\ d \in Replies(call) /\ Step(call, d)
  /\ e \in Follows(call, d) /\ call' = e
  /\ UNCHANGED late

GetTime == call.kind = "prepare" /\ \E c \in ClockIds : Good(Call("TIME", c), Call("time", c))
PutTime == call.kind = "time" /\ Good(Done, Idle)
GetCommand(id) == call.kind = "prepare" /\ Good(Call("command", id), Call("upload", id))
PutBars(id) == call = Call("upload", id) /\ Good(Call("translate", id), Call("translate", id))
PutTranslated(id) == call = Call("translate", id) /\ Good(Done, Result(id, TRUE))
PutResult(id) ==
  /\ call \in {Result(id, TRUE), Bounds(id, TRUE)}
  /\ Good(Call("complete", id), Call("complete", id))

Fairness ==
  /\ WF_vars(Poll) /\ WF_vars(Serve \/ GiveUp) /\ WF_vars(MinutePasses)
  /\ SF_vars(Serve /\ call.kind = "poll")
  /\ SF_vars(GetTime) /\ SF_vars(PutTime)
  /\ \A id \in AllIds : /\ SF_vars(GetCommand(id)) /\ SF_vars(PutBars(id))
                         /\ SF_vars(PutTranslated(id)) /\ SF_vars(PutResult(id))
  /\ SF_vars(LeaseExpires /\ held = NoId /\ call = Idle)
  /\ <>[][~ HandshakeExpires]_vars

FairSpec == Spec /\ Fairness

-----------------------------------------------------------------------------
(* Properties *)

TypeOK ==
  /\ outstanding \in HistoryIds \cup {NoId} /\ leased \in BOOLEAN
  /\ Routine!LiveType /\ Clock!ClockType
  /\ call \in Calls /\ late \subseteq Calls
  /\ shifted \in BOOLEAN /\ raised \subseteq HistoryIds

Sent == HistoryIds \cap ({held} \cup {c.id : c \in {c \in UnderWay : c.kind = "prepare"}})
Returning == HistoryIds \cap
  {c.id : c \in {c \in UnderWay : c.kind \in {"upload", "result", "availability"}}}
InHand == HistoryIds \cap {c.id : c \in {c \in UnderWay : c.kind \in {"translate", "decide"}}}

Requests == INSTANCE HistoryRequests
              WITH Ids <- HistoryIds, commands <- Sent, answers <- Returning, taken <- InHand

\* The command plane uses the coordinator as HistoryRequests allows: an id is
\* not issued while anything refers to it, and only its answer closes it.
UsesRequests == Requests!Spec

\* No offset is used that was measured from a reading that may be too old.
OffsetInTime == Clock!OffsetInTime

\* As long as a history request is outstanding, its bars and bounds find its
\* offset in every stage of their handling, however late they and other calls
\* are handled: bridge_candles and normalize_returned_timestamp take different
\* locks, and repair-result lets the clock forget a request under a third.
\* Nothing is said of bars whose request is closed between these stages.
OutstandingTranslated ==
  \A c \in UnderWay : c.id = outstanding =>
    /\ c.kind \in {"upload", "translate", "availability"} => c.id \in offsets
    /\ c.kind = "decide" => c.ok

\* "Returned MT5 candle timestamps are translated back by the same per-request
\* offset before database persistence" (README, version 0.68.0).
TranslatedBack == ~ shifted

\* Offsets are kept for the requests under way, and for no others but those
\* the coordinator closed in a call that then raised: the clock forgets them
\* only with the process.
OffsetsOwned == offsets \subseteq {outstanding, live, call.id} \cup raised

\* Every history request is answered, though the clock may drop its command
\* and the terminal or the channel may fail.
HistoryAnswered ==
  \A id \in HistoryIds : outstanding = id ~> outstanding # id

\* "once per configured symbol and minute": while no history is downloaded,
\* every symbol is asked for again and again.
SymbolsFetched ==
  <>[](outstanding = NoId) =>
       \A s \in 1 .. Symbols : []<><<live # NoId /\ target = s /\ live' = NoId>>_vars
=============================================================================
