------------------------- MODULE CommandPlaneProofs -------------------------
(***************************************************************************)
(* Theorems about CommandPlane for every number of ids, symbols and late   *)
(* calls.                                                                  *)
(***************************************************************************)
EXTENDS CommandPlane, TLAPS

\* The terminal clock: while a command is held there is a handshake.
ClockInv ==
  /\ Clock!ClockType /\ Clock!OffsetInTime
  /\ held # NoId => clock \in ClockIds

ServerType ==
  /\ outstanding \in HistoryIds \cup {NoId} /\ leased \in BOOLEAN
  /\ Routine!LiveType /\ ClockInv
  /\ shifted \in BOOLEAN /\ raised \subseteq HistoryIds

Answering == {"upload", "translate", "result", "availability", "decide"}
Reporting == Answering \cup {"complete"}

\* Call x is in order while the outstanding request is `out` and the clock has
\* the offsets `offs`: it carries an id if its kind does, the bars and
\* bounds of the outstanding request are or can be translated, and the clock is told to forget a
\* request only after the coordinator let it go.
Sound(x, out, offs) ==
  /\ x \in Calls
  /\ x.kind \in Reporting => x.id \in AllIds
  /\ x.kind = "prepare" => x.id \in AllIds \cup {NoId}
  /\ x.kind \in {"upload", "translate", "availability"} /\ x.id = out => x.id \in offs
  /\ x.kind = "decide" /\ x.id = out => x.ok
  /\ x.kind = "complete" => x.id # out

IInv ==
  /\ ServerType
  /\ \A x \in UnderWay : Sound(x, outstanding, offsets)

\* Reply d to call c is in order.
Proper(d, out, offs) ==
  /\ d.kind = "prepare" => d \in Calls /\ d.id \in AllIds \cup {NoId}
  /\ d.kind = "TIME" => d.id \in ClockIds
  /\ d.kind = "command" => d.id \in AllIds \cap offs
  /\ d.kind = "translate" => d \in Calls /\ d.id \in AllIds /\ (d.id = out => d.id \in offs)
  /\ d.kind = "decide" => d \in Calls /\ d.id \in AllIds /\ (d.id = out => d.ok)
  /\ d.kind = "complete" => d \in Calls /\ d.id \in AllIds /\ d.id # out

-----------------------------------------------------------------------------

LEMMA Constants == NoId \notin AllIds /\ NoClock \notin ClockIds /\ HistoryIds \cap LiveIds = {}
BY PlaneAssumption DEF AllIds

LEMMA Replied ==
  ASSUME NEW c, NEW d \in Replies(c)
  PROVE  /\ d.kind \in {"prepare", "command"} => d.id \in AllIds \cup {NoId}
         /\ d.kind = "TIME" => d.id \in ClockIds
         /\ d.kind = "translate" => d = Call("translate", c.id)
         /\ d.kind = "complete" => d = Call("complete", c.id)
         /\ d.kind = "prepare" => d \in Calls
<1>1. ASSUME NEW k \in {"prepare", "command"}, NEW id \in AllIds \cup {NoId}, d = Call(k, id)
      PROVE  d.kind = k /\ d.id = id /\ (k = "prepare" => d \in Calls)
  BY <1>1 DEF Call, Calls, Kinds, Halves
<1>2. ASSUME NEW k \in ClockIds, d = Call("TIME", k)
      PROVE  d.kind = "TIME" /\ d.id = k
  BY <1>2 DEF Call
<1>3. Call("complete", c.id).kind = "complete" /\ Call("translate", c.id).kind = "translate"
      /\ (\A ok : Bounds(c.id, ok).kind = "decide") /\ Done.kind = "done" /\ Failed.kind = "error"
  BY DEF Call, Done, Failed, Bounds
<1>4. \/ \E k \in {"prepare", "command"}, id \in AllIds \cup {NoId} : d = Call(k, id)
      \/ \E k \in ClockIds : d = Call("TIME", k)
      \/ \E ok \in BOOLEAN : d = Bounds(c.id, ok)
      \/ d \in {Call("translate", c.id), Call("complete", c.id), Done, Failed}
  BY DEF Replies
<1> QED BY <1>1, <1>2, <1>3, <1>4

\* A call that is in order leads to a call that is.
LEMMA Followed ==
  ASSUME NEW c, NEW out, NEW offs, Sound(c, out, offs),
         NEW d \in Replies(c), NEW out2, NEW offs2, Proper(d, out2, offs2),
         NEW e \in Follows(c, d)
  PROVE  Sound(e, out2, offs2)
<1>1. Sound(Idle, out2, offs2)
  BY DEF Sound, Idle, Call, Calls, Kinds, Halves, Reporting, Answering
<1>2. \A ok \in BOOLEAN : c.kind \in Uploading => Sound(Result(c.id, ok), out2, offs2)
  BY DEF Sound, Result, Calls, Kinds, Halves, Reporting, Answering, Uploading
<1>3. ASSUME NEW x \in After(c, Failed) PROVE Sound(x, out2, offs2)
  BY <1>1, <1>2 DEF After, Failed, Call
<1>4. CASE d.kind \in Halves
  <2>1. e = d BY <1>4 DEF Follows
  <2> QED BY <2>1, <1>4 DEF Halves, Sound, Proper, Reporting, Answering
<1>5. ASSUME d.kind \notin Halves, NEW x \in After(c, d) PROVE Sound(x, out2, offs2)
  <2>1. CASE d.kind = "TIME"
    <3>1. x = Call("time", d.id) BY <2>1, <1>5 DEF After
    <3>2. d.id \in ClockIds BY <2>1 DEF Proper
    <3>3. x \in Calls /\ x.kind = "time" BY <3>1, <3>2 DEF Call, Calls, Kinds
    <3> QED BY <3>3 DEF Sound, Reporting, Answering
  <2>2. CASE d.kind = "command"
    <3>1. x \in Execution(d.id) BY <2>2, <1>5 DEF After
    <3>2. d.id \in AllIds /\ d.id \in offs2 BY <2>2 DEF Proper
    <3>3. \/ \E k \in {"upload", "availability"} : x = Call(k, d.id)
          \/ \E ok \in BOOLEAN : x = Result(d.id, ok)
      BY <3>1 DEF Execution
    <3>4. ASSUME NEW k \in {"upload", "availability"}, x = Call(k, d.id) PROVE Sound(x, out2, offs2)
      BY <3>2, <3>4 DEF Sound, Call, Calls, Kinds
    <3>5. ASSUME NEW ok \in BOOLEAN, x = Result(d.id, ok) PROVE Sound(x, out2, offs2)
      BY <3>2, <3>5 DEF Sound, Result, Calls, Kinds
    <3> QED BY <3>3, <3>4, <3>5
  <2>3. CASE d.kind \notin {"TIME", "command"}
    <3>1. x \in IF c.kind \in Uploading THEN {Result(c.id, d.kind = "done")} ELSE {Idle}
      BY <2>3, <1>5 DEF After
    <3> QED BY <3>1, <1>1, <1>2
  <2> QED BY <2>1, <2>2, <2>3
<1> QED BY <1>3, <1>4, <1>5 DEF Follows

-----------------------------------------------------------------------------

LEMMA InitEstablishes == Init => IInv
<1> SUFFICES ASSUME Init PROVE IInv
  OBVIOUS
<1>1. UnderWay = {Idle}
  BY DEF Init, UnderWay
<1>2. Sound(Idle, outstanding, offsets)
  BY DEF Sound, Idle, Call, Calls, Kinds, Halves, Reporting, Answering
<1>3. 0 \in 0 .. Symbols
  BY PlaneAssumption
<1>4. ServerType
  BY <1>3 DEF Init, ServerType, ClockInv, Clock!OffsetInTime, Routine!Init, Routine!LiveType,
            Clock!Init, Clock!ClockType
<1> QED
  BY <1>1, <1>2, <1>4 DEF IInv

\* The routine scheduler keeps its type.
LEMMA RoutineTyped ==
  ASSUME Routine!LiveType, NEW id,
         \/ id \in LiveIds /\ Routine!IssueLive(id)
         \/ Routine!Reissue(id) \/ Routine!NothingDue
         \/ Routine!Stored(id) \/ Routine!Retry(id)
         \/ Routine!Minute \/ Routine!Reset \/ UNCHANGED liveVars
  PROVE  Routine!LiveType'
<1> USE DEF Routine!LiveType
<1>1. CASE id \in LiveIds /\ Routine!IssueLive(id)
  <2>1. target' \in due /\ cursor' \in due
    BY <1>1 DEF Routine!IssueLive
  <2>2. due \subseteq 0 .. Symbols
    BY PlaneAssumption
  <2> QED BY <1>1, <2>1, <2>2 DEF Routine!IssueLive
<1>2. CASE Routine!Reissue(id) \/ Routine!NothingDue \/ Routine!Retry(id) \/ UNCHANGED liveVars
  BY <1>2 DEF Routine!Reissue, Routine!NothingDue, Routine!Retry, Routine!liveVars, liveVars
<1>3. CASE Routine!Stored(id) \/ Routine!Minute \/ Routine!Reset
  <2>1. 0 \in 0 .. Symbols BY PlaneAssumption
  <2>2. CASE Routine!Stored(id) BY <2>1, <2>2 DEF Routine!Stored
  <2>3. CASE Routine!Minute BY <2>3 DEF Routine!Minute
  <2>4. CASE Routine!Reset BY <2>1, <2>4 DEF Routine!Reset
  <2> QED BY <1>3, <2>2, <2>3, <2>4
<1> QED BY <1>1, <1>2, <1>3

\* So does the terminal clock, which also keeps its promise.
LEMMA ClockTyped ==
  ASSUME ClockInv, NEW id, NEW c,
         \/ c \in ClockIds /\ id \in AllIds \cup {NoId} /\ Clock!Hold(id, c)
         \/ Clock!Repeat \/ Clock!Release(id) \/ Clock!Pass(id)
         \/ Clock!RecordTime(c) \/ Clock!RejectTime(c)
         \/ Clock!Complete(id) \/ Clock!Expire \/ Clock!Reset \/ UNCHANGED clockVars
  PROVE  ClockInv'
<1> USE DEF ClockInv, Clock!ClockType, Clock!OffsetInTime
<1>1. CASE c \in ClockIds /\ id \in AllIds \cup {NoId} /\ Clock!Hold(id, c)
  BY <1>1 DEF Clock!Hold, Clock!Handshake
<1>2. CASE Clock!Repeat \/ Clock!Pass(id) \/ Clock!RejectTime(c) \/ UNCHANGED clockVars
  BY <1>2 DEF Clock!Repeat, Clock!Pass, Clock!RejectTime, Clock!clockVars, clockVars
<1>3. CASE Clock!Release(id)
  BY <1>3 DEF Clock!Release
<1>4. CASE Clock!RecordTime(c)
  BY <1>4 DEF Clock!RecordTime
<1>5. CASE Clock!Complete(id) \/ Clock!Expire
  BY <1>5 DEF Clock!Complete, Clock!Expire
<1>6. CASE Clock!Reset
  BY <1>6 DEF Clock!Reset
<1> QED BY <1>1, <1>2, <1>3, <1>4, <1>5, <1>6

-----------------------------------------------------------------------------

\* The replies that end a call, and the halves that end a report.
LEMMA Ended ==
  /\ \A out, offs : Proper(Done, out, offs) /\ Proper(Failed, out, offs)
  /\ \A id \in AllIds : \A out, offs : id # out => Proper(Call("complete", id), out, offs)
BY DEF Proper, Done, Failed, Call, Calls, Kinds, Halves

\* What one step of a handler does to the parts of the server.
Effect(d) ==
  /\ ServerType'
  /\ Proper(d, outstanding', offsets')
  /\ outstanding' = outstanding /\ outstanding \in offsets => outstanding \in offsets'
  /\ \/ outstanding' \in {outstanding, NoId}
     \/ offsets' = offsets /\ \A x \in UnderWay : x.id # outstanding'

\* What the coordinator does with a report of request id.
Ruling(d) ==
  /\ outstanding' \in {outstanding, NoId} /\ outstanding' \in HistoryIds \cup {NoId}
  /\ leased' \in BOOLEAN /\ raised' \subseteq HistoryIds
  /\ \A offs : Proper(d, outstanding', offs)

LEMMA Ruled ==
  ASSUME ServerType, NEW c, c.id \in AllIds, NEW d, Closes(c, d) \/ Leaves(c, d)
  PROVE  Ruling(d)
<1>1. CASE Closes(c, d)
  <2>1. /\ outstanding' = NoId /\ leased' = FALSE /\ c.id \in HistoryIds
        /\ raised' \in {raised, raised \cup {c.id}} /\ d \in {Call("complete", c.id), Failed}
    BY <1>1 DEF Closes, Answers, ServerType
  <2>2. \A offs : Proper(d, outstanding', offs) BY <2>1, Ended, Constants
  <2> QED BY <2>1, <2>2 DEF Ruling, ServerType
<1>2. CASE Leaves(c, d)
  <2>1. /\ UNCHANGED <<outstanding, leased, raised>>
        /\ d = IF c.id = outstanding THEN Failed ELSE Call("complete", c.id)
    BY <1>2 DEF Leaves, histVars
  <2>2. \A offs : Proper(d, outstanding', offs) BY <2>1, Ended
  <2> QED BY <2>1, <2>2 DEF Ruling, ServerType
<1> QED BY <1>1, <1>2

LEMMA Unmoved ==
  ASSUME ServerType, UNCHANGED server
  PROVE  ServerType' /\ outstanding' = outstanding /\ offsets' = offsets
<1>1. UNCHANGED <<histVars, liveVars, clockVars, shifted, raised>> BY DEF server
<1>2. Routine!LiveType' /\ ClockInv' BY <1>1, RoutineTyped, ClockTyped DEF ServerType
<1> QED BY <1>1, <1>2 DEF ServerType, histVars, clockVars

LEMMA StepEffect ==
  ASSUME IInv, NEW c \in UnderWay, NEW d \in Replies(c), Step(c, d)
  PROVE  Effect(d)
<1>0. ServerType /\ Sound(c, outstanding, offsets)
  BY DEF IInv
<1> DEFINE Kept == outstanding' = outstanding /\ offsets' = offsets
<1>1. CASE Take(c, d)
  <2>1. d.kind = "prepare" /\ d \in Calls /\ UNCHANGED clockVars /\ UNCHANGED <<shifted, raised>>
    BY <1>1, Replied DEF Take
  <2>2. Proper(d, outstanding', offsets')
    BY <2>1, Replied DEF Proper
  <2>3. ClockInv' /\ offsets' = offsets
    BY <1>0, <2>1, ClockTyped DEF ServerType, clockVars
  <2>4. CASE outstanding = NoId /\ d.id \in Fresh(HistoryIds) /\ outstanding' = d.id
             /\ leased' = TRUE /\ UNCHANGED liveVars
    <3>1. Routine!LiveType' BY <1>0, <2>4, RoutineTyped DEF ServerType
    <3>2. outstanding' \in HistoryIds /\ \A x \in UnderWay : x.id # outstanding'
      BY <2>4 DEF Fresh, InUse
    <3> QED BY <1>0, <2>1, <2>2, <2>3, <2>4, <3>1, <3>2 DEF Effect, ServerType
  <2>5. CASE leased' = TRUE /\ UNCHANGED <<outstanding, liveVars>>
    <3>1. Routine!LiveType' BY <1>0, <2>5, RoutineTyped DEF ServerType
    <3> QED BY <1>0, <2>1, <2>2, <2>3, <2>5, <3>1 DEF Effect, ServerType
  <2>6. CASE /\ \/ d.id \in Fresh(LiveIds) /\ Routine!IssueLive(d.id)
                \/ Routine!Reissue(d.id)
                \/ Routine!NothingDue /\ d.id = NoId
             /\ UNCHANGED histVars
    <3>1. Routine!LiveType' BY <1>0, <2>6, RoutineTyped DEF ServerType, Fresh
    <3> QED BY <1>0, <2>1, <2>2, <2>3, <2>6, <3>1 DEF Effect, ServerType, histVars
  <2> QED BY <1>1, <2>4, <2>5, <2>6 DEF Take
<1>2. CASE Prepare(c, d)
  <2>1. UNCHANGED <<histVars, liveVars, shifted, raised>>
    BY <1>2 DEF Prepare
  <2>2. Routine!LiveType' BY <1>0, <2>1, RoutineTyped DEF ServerType
  <2>3. /\ ClockInv' /\ offsets \subseteq offsets'
        /\ d.kind = "TIME" => d.id \in ClockIds
        /\ d.kind = "command" => d.id \in AllIds \cap offsets'
        /\ d.kind \in {"TIME", "command", "done"}
    <3>0. c.id \in AllIds \cup {NoId} \/ c.id \in ClockIds
      BY <1>0 DEF Sound, Calls
    <3>1. CASE d.kind = "TIME" /\ d.id \in Fresh(ClockIds) /\ Clock!Renew(d.id)
      <4>1. d.id \in ClockIds BY <3>1 DEF Fresh
      <4>2. offsets' = offsets BY <3>1 DEF Clock!Renew, Clock!Handshake
      <4>3. ClockInv'
        BY <1>0, <3>1, <4>1 DEF ServerType, ClockInv, Clock!ClockType, Clock!OffsetInTime,
                               Clock!Renew, Clock!Handshake
      <4> QED BY <3>1, <4>1, <4>2, <4>3
    <3>2. CASE d.kind = "TIME" /\ d.id \in Fresh(ClockIds) /\ Clock!Hold(c.id, d.id)
      <4>1. d.id \in ClockIds BY <3>2 DEF Fresh
      <4>2. offsets' = offsets BY <3>2 DEF Clock!Hold, Clock!Handshake
      <4>3. c.id \in AllIds \cup {NoId} BY <1>0, <1>2 DEF Prepare, Sound
      <4> QED BY <1>0, <3>2, <4>1, <4>2, <4>3, ClockTyped DEF ServerType
    <3>3. CASE d.kind = "TIME" /\ d.id = clock /\ Clock!Repeat
      <4>1. clock \in ClockIds
        BY <3>3, <1>0 DEF Clock!Repeat, ServerType, ClockInv
      <4>2. offsets' = offsets BY <3>3 DEF Clock!Repeat, Clock!clockVars
      <4> QED BY <1>0, <3>3, <4>1, <4>2, ClockTyped DEF ServerType
    <3>4. CASE d.kind = "command" /\ Clock!Release(d.id)
      <4>1. d.id \in AllIds /\ offsets' = offsets \cup {d.id}
        BY <3>4 DEF Clock!Release
      <4> QED BY <1>0, <3>4, <4>1, ClockTyped DEF ServerType
    <3>5. CASE d = Done /\ Clock!Pass(c.id)
      <4>1. offsets' = offsets BY <3>5 DEF Clock!Pass, Clock!clockVars
      <4>2. d.kind = "done" BY <3>5 DEF Done, Call
      <4> QED BY <1>0, <3>5, <4>1, <4>2, ClockTyped DEF ServerType
    <3> QED BY <1>2, <3>1, <3>2, <3>3, <3>4, <3>5 DEF Prepare
  <2> QED BY <1>0, <2>1, <2>2, <2>3 DEF Effect, ServerType, Proper, histVars
<1>3. CASE Time(c, d)
  <2>1. UNCHANGED <<histVars, liveVars, shifted, raised>> /\ d \in {Done, Failed}
    BY <1>3 DEF Time
  <2>2. Routine!LiveType' BY <1>0, <2>1, RoutineTyped DEF ServerType
  <2>3. Clock!RecordTime(c.id) \/ Clock!RejectTime(c.id) BY <1>3 DEF Time
  <2>4. ClockInv' BY <1>0, <2>3, ClockTyped DEF ServerType
  <2>5. offsets' = offsets
    BY <2>3 DEF Clock!RecordTime, Clock!RejectTime, Clock!clockVars
  <2>6. Proper(d, outstanding', offsets') BY <2>1, Ended
  <2> QED BY <1>0, <2>1, <2>2, <2>4, <2>5, <2>6 DEF Effect, ServerType, histVars
<1>4. CASE Upload(c, d)
  <2>1. UNCHANGED server /\ c.kind = "upload" /\ d \in {Call("translate", c.id), Failed}
    BY <1>4 DEF Upload
  <2>2. ServerType' /\ outstanding' = outstanding /\ offsets' = offsets
    BY <1>0, <2>1, Unmoved
  <2>3. Proper(d, outstanding, offsets)
    <3>1. Proper(Failed, outstanding, offsets) BY Ended
    <3>2. c.id \in AllIds /\ (c.id = outstanding => c.id \in offsets)
      BY <1>0, <2>1 DEF Sound, Reporting, Answering
    <3>3. Proper(Call("translate", c.id), outstanding, offsets)
      BY <3>2 DEF Proper, Call, Calls, Kinds, Halves
    <3> QED BY <2>1, <3>1, <3>3
  <2> QED BY <2>2, <2>3 DEF Effect
<1>5. CASE Translate(c, d)
  <2>1. UNCHANGED <<histVars, liveVars, clockVars, raised>> /\ d \in {Done, Failed}
    BY <1>5 DEF Translate
  <2>2. Routine!LiveType' BY <1>0, <2>1, RoutineTyped DEF ServerType
  <2>3. ClockInv' /\ offsets' = offsets
    BY <1>0, <2>1, ClockTyped DEF ServerType, clockVars
  <2>4. shifted' \in BOOLEAN BY <1>0, <1>5 DEF Translate, ServerType, Clock!Translates
  <2>5. Proper(d, outstanding', offsets') BY <2>1, Ended
  <2> QED BY <1>0, <2>1, <2>2, <2>3, <2>4, <2>5 DEF Effect, ServerType, histVars
<1>6. CASE Report(c, d)
  <2>1. UNCHANGED <<clockVars, shifted>> /\ c.kind = "result" BY <1>6 DEF Report
  <2>2. ClockInv' /\ offsets' = offsets
    BY <1>0, <2>1, ClockTyped DEF ServerType, clockVars
  <2>3. c.id \in AllIds BY <1>0, <2>1 DEF Sound, Reporting, Answering
  <2>4. CASE /\ d = Call("complete", c.id) /\ UNCHANGED <<histVars, raised>>
             /\ IF c.ok THEN Routine!Stored(c.id) ELSE Routine!Retry(c.id)
    <3>1. Routine!LiveType' BY <1>0, <2>4, RoutineTyped DEF ServerType
    <3>2. c.id = live BY <2>4 DEF Routine!Stored, Routine!Retry
    <3>3. c.id # outstanding
      BY <1>0, <2>3, <3>2, Constants DEF ServerType, Routine!LiveType
    <3>4. Proper(d, outstanding', offsets') BY <2>3, <2>4, <3>3, Ended DEF histVars
    <3> QED BY <1>0, <2>1, <2>2, <2>4, <3>1, <3>4 DEF Effect, ServerType, histVars
  <2>5. CASE (Closes(c, d) \/ Leaves(c, d)) /\ UNCHANGED liveVars
    <3>1. Routine!LiveType' BY <1>0, <2>5, RoutineTyped DEF ServerType
    <3>2. Ruling(d) BY <1>0, <2>3, <2>5, Ruled
    <3> QED BY <1>0, <2>1, <2>2, <3>1, <3>2 DEF Effect, Ruling, ServerType
  <2> QED BY <1>6, <2>4, <2>5 DEF Report
<1>7. CASE Availability(c, d)
  <2>1. /\ UNCHANGED server /\ c.kind = "availability"
        /\ d = Bounds(c.id, Clock!Translates(c.id))
    BY <1>7 DEF Availability
  <2>2. ServerType' /\ outstanding' = outstanding /\ offsets' = offsets
    BY <1>0, <2>1, Unmoved
  <2>3. c.id \in AllIds /\ (c.id = outstanding => c.id \in offsets)
    BY <1>0, <2>1 DEF Sound, Reporting, Answering
  <2>4. ASSUME NEW ok \in BOOLEAN, c.id = outstanding => ok
        PROVE  Proper(Bounds(c.id, ok), outstanding, offsets)
    BY <2>3, <2>4 DEF Proper, Bounds, Calls, Kinds, Halves
  <2>5. Clock!Translates(c.id) \in BOOLEAN /\ (c.id = outstanding => Clock!Translates(c.id))
    BY <2>3 DEF Clock!Translates
  <2>6. Proper(d, outstanding, offsets) BY <2>1, <2>4, <2>5
  <2> QED BY <2>2, <2>6 DEF Effect
<1>8. CASE Decide(c, d)
  <2>1. /\ UNCHANGED <<liveVars, clockVars>> /\ c.kind = "decide"
        /\ Closes(c, d) \/ Leaves(c, d)
    BY <1>8 DEF Decide
  <2>2. ClockInv' /\ offsets' = offsets
    BY <1>0, <2>1, ClockTyped DEF ServerType, clockVars
  <2>3. Routine!LiveType' BY <1>0, <2>1, RoutineTyped DEF ServerType
  <2>4. c.id \in AllIds /\ c.ok \in BOOLEAN BY <1>0, <2>1 DEF Sound, Reporting, Answering, Calls
  <2>5. shifted' \in BOOLEAN BY <1>0, <1>8, <2>4 DEF ServerType, Decide
  <2>6. Ruling(d) BY <1>0, <2>1, <2>4, Ruled
  <2> QED BY <1>0, <2>2, <2>3, <2>5, <2>6 DEF Effect, Ruling, ServerType
<1>9. CASE Complete(c, d)
  <2>1. UNCHANGED <<histVars, liveVars, shifted>> /\ d = Done /\ c.kind = "complete"
    BY <1>9 DEF Complete
  <2>2. Routine!LiveType' BY <1>0, <2>1, RoutineTyped DEF ServerType
  <2>3. Clock!Complete(c.id) /\ raised' = raised \ {c.id} BY <1>9 DEF Complete
  <2>4. ClockInv' BY <1>0, <2>3, ClockTyped DEF ServerType
  <2>5. offsets' = offsets \ {c.id} /\ c.id # outstanding
    BY <1>0, <2>1, <2>3 DEF Clock!Complete, Sound
  <2>6. Proper(d, outstanding', offsets') BY <2>1, Ended
  <2> QED BY <1>0, <2>1, <2>2, <2>3, <2>4, <2>5, <2>6 DEF Effect, ServerType, histVars
<1> QED BY <1>1, <1>2, <1>3, <1>4, <1>5, <1>6, <1>7, <1>8, <1>9 DEF Step

-----------------------------------------------------------------------------

\* The calls that are not handled stay in order.
LEMMA Undisturbed ==
  ASSUME IInv, NEW d, Effect(d), NEW x \in UnderWay
  PROVE  Sound(x, outstanding', offsets')
<1>1. Sound(x, outstanding, offsets) BY DEF IInv
<1>2. CASE outstanding' = outstanding
  BY <1>1, <1>2 DEF Sound, Effect
<1>3. CASE outstanding' = NoId
  BY <1>1, <1>3, Constants DEF Sound, Reporting, Answering
<1>4. CASE x.id # outstanding'
  BY <1>1, <1>4 DEF Sound
<1> QED BY <1>2, <1>3, <1>4 DEF Effect

\* A call stays in order when the terminal gives it up, and so does what it
\* does instead.
LEMMA GivenUp ==
  ASSUME NEW c, NEW out, NEW offs, Sound(c, out, offs), NEW e \in After(c, Failed)
  PROVE  Sound(e, out, offs)
<1>1. e \in Follows(c, Failed)
  BY DEF Follows, Failed, Call, Halves
<1>2. Failed \in Replies(c)
  BY DEF Replies
<1> QED BY <1>1, <1>2, Followed, Ended

\* A step that touches neither the calls nor the offsets of the requests.
LEMMA Calm ==
  ASSUME IInv, ServerType', outstanding' = outstanding, offsets' = offsets,
         UNCHANGED <<call, late>>
  PROVE  IInv'
BY DEF IInv, UnderWay

LEMMA Inductive == IInv /\ [Next]_vars => IInv'
<1> SUFFICES ASSUME IInv, [Next]_vars PROVE IInv'
  OBVIOUS
<1>0. ServerType /\ call \in UnderWay /\ late \subseteq UnderWay
  BY DEF IInv, UnderWay
<1>1. CASE Poll
  <2>1. UNCHANGED server /\ call' = Call("poll", NoId) /\ UNCHANGED late
    BY <1>1 DEF Poll
  <2>2. ServerType' /\ outstanding' = outstanding /\ offsets' = offsets
    BY <1>0, <2>1, Unmoved
  <2>3. Sound(call', outstanding, offsets)
    BY <2>1 DEF Sound, Call, Calls, Kinds, Halves, Reporting, Answering
  <2> QED BY <2>1, <2>2, <2>3 DEF IInv, UnderWay
<1>2. CASE Serve
  <2>1. PICK d \in Replies(call) : Step(call, d) /\ call' \in Follows(call, d) /\ UNCHANGED late
    BY <1>2 DEF Serve
  <2>2. Effect(d) BY <1>0, <2>1, StepEffect
  <2>3. Sound(call, outstanding, offsets) BY <1>0 DEF IInv
  <2>4. Sound(call', outstanding', offsets')
    BY <2>1, <2>2, <2>3, Followed DEF Effect
  <2>5. \A x \in late : Sound(x, outstanding', offsets')
    BY <1>0, <2>2, Undisturbed
  <2> QED BY <2>1, <2>2, <2>4, <2>5 DEF IInv, UnderWay, Effect
<1>3. CASE ServeLate
  <2>0. PICK c \in late : \E d \in Replies(c) :
           /\ Step(c, d) /\ UNCHANGED call
           /\ late' = (late \ {c}) \cup (IF d.kind \in Halves THEN {d} ELSE {})
    BY <1>3 DEF ServeLate
  <2>1. PICK d \in Replies(c) :
           /\ Step(c, d) /\ UNCHANGED call
           /\ late' = (late \ {c}) \cup (IF d.kind \in Halves THEN {d} ELSE {})
    BY <2>0
  <2>2. Effect(d) BY <1>0, <2>1, StepEffect
  <2>3. Sound(c, outstanding, offsets) BY <1>0, <2>1 DEF IInv
  <2>4. d.kind \in Halves => Sound(d, outstanding', offsets')
    <3>1. d.kind \in Halves => d \in Follows(c, d) BY DEF Follows
    <3> QED BY <3>1, <2>1, <2>2, <2>3, Followed DEF Effect
  <2>5. \A x \in UnderWay : Sound(x, outstanding', offsets')
    BY <2>2, Undisturbed
  <2> QED BY <1>0, <2>1, <2>2, <2>4, <2>5 DEF IInv, UnderWay, Effect
<1>4. CASE GiveUp
  <2>1. UNCHANGED server
    BY <1>4 DEF GiveUp
  <2>2. ServerType' /\ outstanding' = outstanding /\ offsets' = offsets
    BY <1>0, <2>1, Unmoved
  <2>3. Sound(call', outstanding, offsets)
    BY <1>0, <1>4, GivenUp DEF GiveUp, IInv
  <2>4. late' \subseteq UnderWay
    BY <1>0, <1>4 DEF GiveUp
  <2> QED BY <2>1, <2>2, <2>3, <2>4 DEF IInv, UnderWay
<1>5. CASE LeaseExpires
  <2>1. ServerType'
    BY <1>0, <1>5, RoutineTyped, ClockTyped DEF LeaseExpires, ServerType
  <2> QED BY <1>5, <2>1, Calm DEF LeaseExpires, clockVars
<1>6. CASE MinutePasses
  <2>1. ServerType'
    BY <1>0, <1>6, RoutineTyped, ClockTyped DEF MinutePasses, ServerType, histVars
  <2> QED BY <1>6, <2>1, Calm DEF MinutePasses, histVars, clockVars
<1>7. CASE HandshakeExpires
  <2>1. ServerType'
    BY <1>0, <1>7, RoutineTyped, ClockTyped DEF HandshakeExpires, ServerType, histVars
  <2>2. offsets' = offsets BY <1>7 DEF HandshakeExpires, Clock!Expire
  <2> QED BY <1>7, <2>1, <2>2, Calm DEF HandshakeExpires, histVars
<1>8. CASE Restart
  <2>1. ServerType'
    BY <1>0, <1>8, RoutineTyped, ClockTyped DEF Restart, ServerType
  <2>2. outstanding' = NoId /\ late' \subseteq late BY <1>8 DEF Restart
  <2>3. \A x \in UnderWay : Sound(x, outstanding', offsets')
    BY <2>2, Constants DEF IInv, Sound, Reporting, Answering
  <2>4. Sound(call', outstanding', offsets')
    BY <1>0, <1>8, <2>3, GivenUp DEF Restart
  <2> QED BY <1>0, <2>1, <2>2, <2>3, <2>4 DEF IInv, UnderWay
<1>9. CASE UNCHANGED vars
  <2>1. UNCHANGED <<server, call, late>> BY <1>9 DEF vars
  <2> QED BY <1>0, <2>1, Unmoved, Calm
<1> QED BY <1>1, <1>2, <1>3, <1>4, <1>5, <1>6, <1>7, <1>8, <1>9 DEF Next

LEMMA Invariance == Spec => []IInv
BY InitEstablishes, Inductive, PTL DEF Spec

\* The server, the terminal and the calls between them stay in the states
\* their types describe, whatever is lost, late or restarted.
THEOREM PlaneTypeCorrect == Spec => []TypeOK
<1>1. IInv => TypeOK
  BY DEF IInv, ServerType, ClockInv, Sound, UnderWay, TypeOK
<1> QED BY <1>1, Invariance, PTL

\* prepare never releases a command with an offset measured from a reading
\* older than the timeout of the handshake.
THEOREM OffsetsInTime == Spec => []OffsetInTime
<1>1. IInv => OffsetInTime
  BY DEF IInv, ServerType, ClockInv, OffsetInTime
<1> QED BY <1>1, Invariance, PTL

\* As long as a history request is outstanding, its bars and bounds find its
\* offset when the clock is asked for it, in every stage of their handling.
THEOREM WindowsTranslated == Spec => []OutstandingTranslated
<1>1. IInv => OutstandingTranslated
  BY DEF IInv, Sound, OutstandingTranslated
<1> QED BY <1>1, Invariance, PTL

-----------------------------------------------------------------------------
(* The command plane uses the coordinator as HistoryRequests allows.       *)

\* The answers under way or being handled.
Back == Returning \cup InHand

\* The commands and the answers, by membership.
LEMMA SentIs ==
  \A id : id \in Sent <=>
    id \in HistoryIds /\ (id = held \/ \E x \in UnderWay : x.kind = "prepare" /\ x.id = id)
BY DEF Sent

LEMMA BackIs ==
  \A id : id \in Back <=>
    id \in HistoryIds /\ \E x \in UnderWay : x.kind \in Answering /\ x.id = id
BY DEF Back, Returning, InHand, Answering

\* And in the next state.
LEMMA SentNext ==
  \A id : id \in Sent' <=>
    id \in HistoryIds /\ (id = held' \/ \E x \in UnderWay' : x.kind = "prepare" /\ x.id = id)
BY DEF Sent

LEMMA BackNext ==
  \A id : id \in Back' <=>
    id \in HistoryIds /\ \E x \in UnderWay' : x.kind \in Answering /\ x.id = id
BY DEF Back, Returning, InHand, Answering

LEMMA Fields ==
  /\ Idle.kind = "idle" /\ Failed.kind = "error"
  /\ \A k, id : Call(k, id).kind = k /\ Call(k, id).id = id
  /\ \A id, ok : Result(id, ok).kind = "result" /\ Result(id, ok).id = id
BY DEF Idle, Failed, Call, Result

LEMMA FailedAfter ==
  \A c : After(c, Failed) = IF c.kind \in Uploading THEN {Result(c.id, FALSE)} ELSE {Idle}
<1>1. Failed.kind = "error" /\ (Failed.kind = "done") = FALSE
  BY Fields
<1> QED BY <1>1 DEF After

\* What can follow a call: only a poll answered leads to a prepare, and only a
\* command or an upload leads to an answer, with the same id.
LEMMA FollowKinds ==
  ASSUME NEW c, NEW d, NEW e \in Follows(c, d)
  PROVE  /\ e.kind = "prepare" => e = d
         /\ e.kind \in Answering => \/ d.kind = "command" /\ e.id = d.id
                                    \/ c.kind \in Uploading /\ e.id = c.id
                                    \/ e = d
<1>1. ASSUME NEW x \in After(c, Failed)
      PROVE  x.kind # "prepare" /\ (x.kind \in Answering => c.kind \in Uploading /\ x.id = c.id)
  <2>1. After(c, Failed) = IF c.kind \in Uploading THEN {Result(c.id, FALSE)} ELSE {Idle}
    BY FailedAfter
  <2>2. x = Idle \/ (c.kind \in Uploading /\ x = Result(c.id, FALSE))
    BY <2>1
  <2>3. Result(c.id, FALSE).kind = "result" /\ Result(c.id, FALSE).id = c.id BY DEF Result
  <2> QED BY <2>2, <2>3, Fields DEF Answering
<1>2. ASSUME NEW x \in After(c, d)
      PROVE  /\ x.kind # "prepare"
             /\ x.kind \in Answering => \/ d.kind = "command" /\ x.id = d.id
                                        \/ c.kind \in Uploading /\ x.id = c.id
  <2>1. CASE d.kind = "TIME"
    <3>1. x = Call("time", d.id) BY <2>1 DEF After
    <3> QED BY <3>1 DEF Call, Answering
  <2>2. CASE d.kind = "command"
    <3>1. x \in Execution(d.id) BY <2>2 DEF After
    <3>2. \/ \E k \in {"upload", "availability"} : x = Call(k, d.id)
          \/ \E ok \in BOOLEAN : x = Result(d.id, ok)
      BY <3>1 DEF Execution
    <3>3. ASSUME NEW k \in {"upload", "availability"}, x = Call(k, d.id)
          PROVE  x.kind # "prepare" /\ x.id = d.id
      BY <3>3, Fields
    <3>4. ASSUME NEW ok \in BOOLEAN, x = Result(d.id, ok)
          PROVE  x.kind # "prepare" /\ x.id = d.id
      BY <3>4, Fields
    <3> QED BY <2>2, <3>2, <3>3, <3>4
  <2>3. CASE d.kind \notin {"TIME", "command"}
    <3>1. (c.kind \in Uploading /\ x = Result(c.id, d.kind = "done")) \/ x = Idle
      BY <2>3 DEF After
    <3> QED BY <3>1 DEF Result, Idle, Call, Answering
  <2> QED BY <2>1, <2>2, <2>3
<1> QED BY <1>1, <1>2 DEF Follows

\* A step that adds no command and no answer but of a command under way.
LEMMA Travels ==
  ASSUME outstanding' = outstanding, Sent' \subseteq Sent, Back' \subseteq Back \cup Sent
  PROVE  Requests!Next
BY DEF Requests!Next, Requests!Travel, Back

\* A step that leaves the answers where they are.
LEMMA SameBack ==
  ASSUME \A x : x.kind \in Answering => (x \in UnderWay <=> x \in UnderWay')
  PROVE  Returning' = Returning /\ InHand' = InHand
<1>1. \A id : id \in Returning <=> id \in Returning'
  BY DEF Returning, Answering
<1>2. \A id : id \in InHand <=> id \in InHand'
  BY DEF InHand, Answering
<1> QED BY <1>1, <1>2

\* A step of a handler is one of HistoryRequests; `c` may still be under way
\* when it is both late and repeated.
LEMMA StepMaps ==
  ASSUME IInv, NEW c \in UnderWay, NEW d \in Replies(c), Step(c, d),
         \A x \in UnderWay' : x \in UnderWay \/ x \in Follows(c, d),
         \A x \in UnderWay : x = c \/ x \in UnderWay',
         d.kind \in Halves => d \in UnderWay'
  PROVE  Requests!Next
<1>0. ServerType /\ Sound(c, outstanding, offsets)
  BY DEF IInv
<1>a. ASSUME NEW x \in UnderWay', x.kind = "prepare" PROVE x \in UnderWay \/ x = d
  BY <1>a, FollowKinds
<1>b. ASSUME NEW x \in UnderWay', x.kind \in Answering
      PROVE  \/ x \in UnderWay \/ x = d
             \/ d.kind = "command" /\ x.id = d.id
             \/ c.kind \in Uploading /\ x.id = c.id
  BY <1>b, FollowKinds
<1>c. d.kind \in {"prepare", "TIME", "command", "translate", "decide", "complete", "done", "error"}
  BY DEF Replies, Call, Bounds, Done, Failed
<1>g. d.kind \in Answering => d.kind \in {"translate", "decide"}
  BY <1>c DEF Answering
<1>d. ASSUME d.kind # "command", d.kind \in Answering => c.kind \in Answering /\ d.id = c.id
      PROVE  Back' \subseteq Back
  <2>1. ASSUME NEW x \in UnderWay', x.kind \in Answering
        PROVE  \E y \in UnderWay : y.kind \in Answering /\ y.id = x.id
    BY <1>b, <1>d, <2>1 DEF Uploading, Answering
  <2> QED BY <2>1, BackIs, BackNext
<1>e. ASSUME d.kind # "prepare", held' = held \/ held' = NoId
      PROVE  Sent' \subseteq Sent
  BY <1>a, <1>e, SentIs, SentNext, Constants DEF AllIds
<1>f. ASSUME c.kind # "prepare", d.kind # "prepare", held' = held
      PROVE  Sent' = Sent
  <2>1. \A id \in Sent' : id \in Sent BY <1>a, <1>f, SentIs, SentNext
  <2>2. \A id \in Sent : id \in Sent' BY <1>f, SentIs, SentNext
  <2> QED BY <2>1, <2>2
<1>1. CASE Take(c, d)
  <2>1. c.kind = "poll" /\ d.kind = "prepare" /\ d \in UnderWay' /\ held' = held
    BY <1>1 DEF Take, Halves, clockVars
  <2>2. Sent' = Sent \cup (HistoryIds \cap {d.id})
    BY <1>a, <2>1, SentIs, SentNext
  <2>3. Returning' = Returning /\ InHand' = InHand
    <3>1. ASSUME NEW x \in UnderWay', x.kind \in Answering PROVE x \in UnderWay
      BY <1>b, <2>1, <3>1 DEF Answering, Uploading
    <3>2. ASSUME NEW x \in UnderWay, x.kind \in Answering PROVE x \in UnderWay'
      BY <2>1, <3>2 DEF Answering
    <3> QED BY <3>1, <3>2, SameBack
  <2>4. CASE outstanding = NoId /\ d.id \in Fresh(HistoryIds) /\ outstanding' = d.id
    <3>1. d.id \in HistoryIds /\ d.id # held /\ \A x \in UnderWay : x.id # d.id
      BY <2>4 DEF Fresh, InUse
    <3>2. d.id \notin Sent \cup Back
      BY <3>1, SentIs, BackIs
    <3> QED BY <2>2, <2>3, <2>4, <3>1, <3>2 DEF Requests!Next, Requests!Issue, Back
  <2>5. CASE outstanding # NoId /\ d.id = outstanding /\ UNCHANGED outstanding
    <3>1. outstanding \in HistoryIds BY <1>0, <2>5 DEF ServerType
    <3> QED BY <2>2, <2>3, <2>5, <3>1 DEF Requests!Next, Requests!Resend
  <2>6. CASE /\ \/ d.id \in Fresh(LiveIds)
                \/ Routine!Reissue(d.id)
                \/ d.id = NoId
             /\ UNCHANGED histVars
    <3>1. d.id \in LiveIds \cup {NoId}
      BY <1>0, <2>6 DEF Fresh, Routine!Reissue, ServerType, Routine!LiveType
    <3>2. d.id \notin HistoryIds BY <3>1, Constants DEF AllIds
    <3> QED BY <2>2, <2>3, <2>6, <3>2, Travels DEF histVars, Back
  <2> QED BY <1>1, <2>4, <2>5, <2>6 DEF Take
<1>2. CASE Prepare(c, d)
  <2>1. c.kind = "prepare" /\ outstanding' = outstanding /\ d.kind \in {"TIME", "command", "done"}
    BY <1>2 DEF Prepare, histVars, Done, Call
  <2>2. held' \in {held, NoId, c.id} /\ (d.kind = "command" => d.id = held)
    BY <1>2 DEF Prepare, Clock!Renew, Clock!Hold, Clock!Handshake, Clock!Repeat,
                Clock!Release, Clock!Pass, Clock!clockVars, Done, Call
  <2>3. Sent' \subseteq Sent
    BY <1>a, <2>1, <2>2, SentIs, SentNext, Constants DEF AllIds
  <2>4. Back' \subseteq Back \cup Sent
    <3>1. ASSUME NEW id \in Back', id \notin Back PROVE id = held
      BY <1>b, <1>c, <2>1, <2>2, <3>1, BackIs, BackNext DEF Answering, Uploading
    <3> QED BY <3>1, BackNext, SentIs
  <2> QED BY <2>1, <2>3, <2>4, Travels
<1>3. CASE Time(c, d) \/ Upload(c, d) \/ Translate(c, d) \/ Availability(c, d) \/ Complete(c, d)
  <2>1. /\ outstanding' = outstanding /\ held' = held
        /\ d.kind \in {"done", "error", "translate", "decide"}
        /\ d.kind \in Answering => c.kind \in Answering /\ d.id = c.id
    BY <1>3 DEF Time, Upload, Translate, Availability, Complete, server, histVars, clockVars,
                Clock!RecordTime, Clock!RejectTime, Clock!Complete, Clock!clockVars, Done, Failed,
                Call, Bounds, Answering
  <2>2. Sent' \subseteq Sent BY <1>e, <2>1
  <2>3. Back' \subseteq Back BY <1>d, <2>1
  <2> QED BY <2>1, <2>2, <2>3, Travels
<1>4. CASE Report(c, d) \/ Decide(c, d)
  <2>1. /\ held' = held /\ d.kind \in {"complete", "error"} /\ d.kind \notin Answering
        /\ c.kind \in {"result", "decide"}
    BY <1>4 DEF Report, Decide, Closes, Leaves, clockVars, Failed, Call, Answering
  <2>2. Sent' = Sent BY <1>f, <2>1
  <2>3. Back' \subseteq Back BY <1>d, <2>1
  <2>4. CASE UNCHANGED histVars
    BY <2>2, <2>3, <2>4, Travels DEF histVars
  <2>5. CASE Answers(c.id)
    <3>1. outstanding = c.id /\ c.id \in HistoryIds /\ outstanding' = NoId
      BY <1>0, <2>5 DEF Answers, ServerType
    <3>2. outstanding \in Back
      BY <2>1, <3>1, BackIs DEF Answering
    <3> QED BY <2>2, <2>3, <3>1, <3>2 DEF Requests!Next, Requests!Answer, Back
  <2> QED BY <1>4, <2>4, <2>5 DEF Report, Decide, Closes, Leaves
<1> QED BY <1>1, <1>2, <1>3, <1>4 DEF Step

LEMMA NextMaps == IInv /\ [Next]_vars => [Requests!Next]_(Requests!hrVars)
<1> SUFFICES ASSUME IInv, [Next]_vars PROVE [Requests!Next]_(Requests!hrVars)
  OBVIOUS
<1>0. call \in UnderWay /\ late \subseteq UnderWay /\ UnderWay = {call} \cup late
      /\ UnderWay' = {call'} \cup late'
  BY DEF UnderWay
<1>1. CASE Poll \/ GiveUp
  <2>1. UNCHANGED <<outstanding, held>> BY <1>1 DEF Poll, GiveUp, server, histVars, clockVars
  <2>2. late' \subseteq UnderWay BY <1>0, <1>1 DEF Poll, GiveUp
  <2>3. call'.kind # "prepare"
        /\ (call'.kind \in Answering => call.kind \in Uploading /\ call'.id = call.id)
    <3>1. CASE Poll
      <4>1. call'.kind = "poll" BY <3>1 DEF Poll, Call
      <4> QED BY <4>1 DEF Answering
    <3>2. CASE GiveUp
      <4>1. call' \in IF call.kind \in Uploading THEN {Result(call.id, FALSE)} ELSE {Idle}
        BY <3>2, FailedAfter DEF GiveUp
      <4>2. call' = Idle \/ (call.kind \in Uploading /\ call' = Result(call.id, FALSE))
        BY <4>1
      <4>3. Result(call.id, FALSE).kind = "result" /\ Result(call.id, FALSE).id = call.id
        BY DEF Result
      <4> QED BY <4>2, <4>3, Fields DEF Answering
    <3> QED BY <1>1, <3>1, <3>2
  <2>4. Sent' \subseteq Sent BY <1>0, <2>1, <2>2, <2>3, SentIs, SentNext
  <2>5. Back' \subseteq Back
    BY <1>0, <2>2, <2>3, BackIs, BackNext DEF Answering, Uploading
  <2> QED BY <2>1, <2>4, <2>5, Travels
<1>2. CASE Serve
  <2>1. PICK d \in Replies(call) : Step(call, d) /\ call' \in Follows(call, d) /\ UNCHANGED late
    BY <1>2 DEF Serve
  <2>2. d.kind \in Halves => call' = d BY <2>1 DEF Follows
  <2> QED BY <1>0, <2>1, <2>2, StepMaps
<1>3. CASE ServeLate
  <2>1. PICK c \in late : \E d \in Replies(c) :
           /\ Step(c, d) /\ UNCHANGED call
           /\ late' = (late \ {c}) \cup (IF d.kind \in Halves THEN {d} ELSE {})
    BY <1>3 DEF ServeLate
  <2>2. PICK d \in Replies(c) :
           /\ Step(c, d) /\ UNCHANGED call
           /\ late' = (late \ {c}) \cup (IF d.kind \in Halves THEN {d} ELSE {})
    BY <2>1
  <2>3. d.kind \in Halves => d \in Follows(c, d) BY DEF Follows
  <2>4. /\ \A x \in UnderWay' : x \in UnderWay \/ x \in Follows(c, d)
        /\ \A x \in UnderWay : x = c \/ x \in UnderWay'
        /\ d.kind \in Halves => d \in UnderWay'
    BY <1>0, <2>2, <2>3
  <2>5. c \in UnderWay BY <1>0
  <2> QED BY <2>2, <2>4, <2>5, StepMaps
<1>4. CASE LeaseExpires \/ MinutePasses \/ HandshakeExpires \/ UNCHANGED vars
  <2>1. UNCHANGED <<outstanding, held, call, late>>
    BY <1>4 DEF LeaseExpires, MinutePasses, HandshakeExpires, Clock!Expire, vars, server,
                histVars, clockVars
  <2>2. Sent' = Sent /\ Back' = Back
    BY <2>1 DEF Sent, Back, Returning, InHand, UnderWay
  <2> QED BY <2>1, <2>2, Travels
<1>5. CASE Restart
  <2>1. outstanding' = NoId /\ held' = NoId /\ late' = {c \in late : c.kind \notin Halves}
    BY <1>5 DEF Restart, Clock!Reset
  <2>2. \/ call' = call /\ call.kind \notin Halves
        \/ call' = Idle /\ call.kind \in Halves
        \/ call' = Result(call.id, FALSE) /\ call.kind = "translate"
    <3>1. IF call.kind \in Halves THEN call' \in After(call, Failed) ELSE call' = call
      BY <1>5 DEF Restart
    <3>2. ASSUME call.kind \in Halves
          PROVE  After(call, Failed) =
                   IF call.kind = "translate" THEN {Result(call.id, FALSE)} ELSE {Idle}
      BY <3>2, FailedAfter DEF Halves, Uploading
    <3> QED BY <3>1, <3>2
  <2>3. /\ Idle.kind = "idle"
        /\ Result(call.id, FALSE).kind = "result" /\ Result(call.id, FALSE).id = call.id
    BY Fields
  <2>4. ASSUME NEW x \in UnderWay'
        PROVE  \/ x \in UnderWay \/ x.kind = "idle"
               \/ x.kind = "result" /\ call.kind = "translate" /\ x.id = call.id
    BY <1>0, <2>1, <2>2, <2>3
  <2>5. Sent' \subseteq Sent
    BY <2>1, <2>4, SentIs, SentNext, Constants DEF AllIds
  <2>6. Returning' \subseteq Returning \cup InHand
    BY <1>0, <2>4, BackIs, BackNext DEF Answering, Back
  <2>7. Returning \subseteq Returning'
    <3>1. ASSUME NEW x \in UnderWay, x.kind \in {"upload", "result", "availability"}
          PROVE  x \in UnderWay'
      BY <1>0, <2>1, <2>2, <3>1 DEF Halves
    <3> QED BY <3>1 DEF Returning
  <2>8. InHand' = {}
    <3>1. ASSUME NEW x \in UnderWay' PROVE x.kind \notin {"translate", "decide"}
      BY <1>0, <2>1, <2>2, <2>3 DEF Halves
    <3> QED BY <3>1 DEF InHand
  <2> QED BY <2>1, <2>5, <2>6, <2>7, <2>8 DEF Requests!Next, Requests!Forget
<1> QED BY <1>1, <1>2, <1>3, <1>4, <1>5 DEF Next

\* The handlers, the clock and the bridge together use the history coordinator
\* as its contract allows, and FullHistory implements that contract.
THEOREM ContractUsed == Spec => UsesRequests
<1>1. Init => Requests!Init
  BY Constants DEF Init, Requests!Init, Sent, Returning, InHand, UnderWay, Idle, Call, Clock!Init, AllIds
<1> QED BY <1>1, NextMaps, Invariance, PTL DEF Spec, UsesRequests, Requests!Spec

-----------------------------------------------------------------------------
(* While the server is not restarted and no call is handled after the        *)
(* terminal gave up on it, there is one call at a time.                      *)

OneAtATime == Late = {} /\ ~ Restarts

\* What is under way for a request, a command, a handshake or an offset, is
\* for a request that has not been answered; bars, bounds and results find the
\* offset of their request, and no command is held while they are on their way.
LoneInv ==
  /\ late = {} /\ ~ shifted
  /\ held \in {outstanding, live, NoId}
  /\ call.kind = "prepare" => call.id \in {outstanding, live, NoId}
  /\ call.kind \in Answering => call.id \in offsets \cap {outstanding, live}
  /\ call.kind = "decide" => call.ok
  /\ call.kind \in Reporting => held = NoId
  /\ offsets \subseteq {outstanding, live} \cup raised
                       \cup (IF call.kind = "complete" THEN {call.id} ELSE {})

LEMMA LoneInit == Init => LoneInv
BY DEF Init, LoneInv, Clock!Init, Idle, Call, Answering, Reporting

LEMMA LoneStep ==
  ASSUME IInv, LoneInv, NEW d \in Replies(call), Step(call, d),
         call' \in Follows(call, d), UNCHANGED late
  PROVE  LoneInv'
<1>0. /\ ServerType /\ Sound(call, outstanding, offsets)
  BY DEF IInv, UnderWay
<1>a. /\ outstanding # NoId => outstanding \in HistoryIds
      /\ live # NoId => live \in LiveIds
      /\ NoId \notin HistoryIds \cup LiveIds /\ HistoryIds \cap LiveIds = {}
      /\ offsets \subseteq HistoryIds \cup LiveIds
  BY <1>0, PlaneAssumption
     DEF ServerType, Routine!LiveType, ClockInv, Clock!ClockType, AllIds
<1>b. ASSUME d \in {Done, Failed}
      PROVE  IF call.kind \in Uploading THEN \E ok \in BOOLEAN : call' = Result(call.id, ok) ELSE call' = Idle
  <2>1. d.kind \in {"done", "error"} /\ call' \in After(call, d) \cup After(call, Failed)
    BY <1>b DEF Follows, Done, Failed, Call, Halves
  <2>2. After(call, d) = IF call.kind \in Uploading THEN {Result(call.id, d.kind = "done")} ELSE {Idle}
    BY <2>1 DEF After
  <2>3. (d.kind = "done") \in BOOLEAN OBVIOUS
  <2>4. CASE call.kind \in Uploading
    <3>1. call' \in {Result(call.id, d.kind = "done"), Result(call.id, FALSE)}
      BY <2>1, <2>2, <2>4, FailedAfter
    <3> QED BY <2>3, <2>4, <3>1
  <2>5. CASE call.kind \notin Uploading
    BY <2>1, <2>2, <2>5, FailedAfter
  <2> QED BY <2>4, <2>5
<1>c. d.kind \in Halves => call' = d
  BY DEF Follows
<1>d. Idle.kind = "idle" /\ Done.kind = "done" /\ Failed.kind = "error"
      /\ \A id, ok : Result(id, ok).kind = "result" /\ Result(id, ok).id = id
  BY DEF Idle, Done, Failed, Call, Result
<1>1. CASE Take(call, d)
  <2>1. /\ call.kind = "poll" /\ d.kind = "prepare" /\ call' = d
        /\ UNCHANGED <<held, offsets, shifted, raised>>
    BY <1>1, <1>c DEF Take, clockVars, Halves
  <2>2. /\ d.id \in {outstanding', live', NoId}
        /\ outstanding' = outstanding \/ outstanding = NoId
        /\ live' = live \/ live = NoId
    <3>1. CASE outstanding = NoId /\ outstanding' = d.id /\ UNCHANGED liveVars
      BY <3>1 DEF liveVars
    <3>2. CASE d.id = outstanding /\ UNCHANGED <<outstanding, liveVars>>
      BY <3>2 DEF liveVars
    <3>3. CASE /\ \/ Routine!IssueLive(d.id)
                  \/ Routine!Reissue(d.id)
                  \/ Routine!NothingDue /\ d.id = NoId
               /\ UNCHANGED histVars
      BY <3>3 DEF histVars, Routine!IssueLive, Routine!Reissue, Routine!NothingDue, Routine!liveVars
    <3> QED BY <1>1, <3>1, <3>2, <3>3 DEF Take
  <2>3. offsets \subseteq {outstanding, live} \cup raised /\ NoId \notin offsets
    BY <1>a, <2>1 DEF LoneInv
  <2> QED BY <2>1, <2>2, <2>3 DEF LoneInv, Answering, Reporting
<1>2. CASE Prepare(call, d)
  <2>1. /\ call.kind = "prepare" /\ UNCHANGED <<outstanding, live, shifted, raised>>
    BY <1>2 DEF Prepare, histVars, liveVars
  <2>2. offsets \subseteq {outstanding, live} \cup raised /\ call.id \in {outstanding, live, NoId}
    BY <2>1 DEF LoneInv
  <2>3. CASE d.kind = "TIME" /\ (Clock!Renew(d.id) \/ Clock!Hold(call.id, d.id) \/ Clock!Repeat)
    <3>1. held' \in {held, call.id} /\ offsets' = offsets
      BY <2>3 DEF Clock!Renew, Clock!Hold, Clock!Handshake, Clock!Repeat, Clock!clockVars
    <3>2. call' \in {Call("time", d.id), Idle}
      BY <2>1, <2>3, FailedAfter DEF Follows, After, Halves, Uploading
    <3>3. call'.kind \in {"time", "idle"} BY <3>2, Fields
    <3> QED BY <2>1, <2>2, <3>1, <3>3 DEF LoneInv, Answering, Reporting
  <2>4. CASE d.kind = "command" /\ Clock!Release(d.id)
    <3>1. held' = NoId /\ offsets' = offsets \cup {held} /\ d.id = held /\ held \in AllIds
      BY <2>4 DEF Clock!Release
    <3>2. call' \in Execution(d.id) \cup {Idle}
      BY <2>1, <2>4, FailedAfter DEF Follows, After, Halves, Uploading
    <3>3. \/ call'.kind = "idle"
          \/ call'.kind \in {"upload", "result", "availability"} /\ call'.id = d.id
      <4>1. \A x \in Execution(d.id) :
               x.kind \in {"upload", "result", "availability"} /\ x.id = d.id
        BY DEF Execution, Result, Call
      <4> QED BY <3>2, <4>1, <1>d
    <3>4. held \in {outstanding, live}
      BY <1>a, <3>1 DEF LoneInv, AllIds
    <3>5. held' \in {outstanding', live', NoId} /\ late' = {} /\ ~ shifted'
      BY <2>1, <3>1 DEF LoneInv
    <3>6. offsets' \subseteq {outstanding', live'} \cup raised'
      BY <2>1, <2>2, <3>1, <3>4
    <3>7. call'.kind \in Answering => call'.id \in offsets' \cap {outstanding', live'}
      BY <2>1, <3>1, <3>3, <3>4 DEF Answering
    <3>8. call'.kind \notin {"prepare", "decide", "complete"}
      BY <3>3
    <3> QED BY <3>1, <3>5, <3>6, <3>7, <3>8 DEF LoneInv
  <2>5. CASE d = Done /\ Clock!Pass(call.id)
    <3>1. held' = held /\ offsets' = offsets BY <2>5 DEF Clock!Pass, Clock!clockVars
    <3>2. call'.kind = "idle" BY <1>b, <1>d, <2>1, <2>5 DEF Uploading
    <3> QED BY <2>1, <2>2, <3>1, <3>2 DEF LoneInv, Answering, Reporting
  <2> QED BY <1>2, <2>3, <2>4, <2>5 DEF Prepare
<1>3. CASE Time(call, d)
  <2>1. /\ call.kind = "time" /\ d \in {Done, Failed}
        /\ UNCHANGED <<outstanding, live, shifted, raised, held, offsets>>
    BY <1>3 DEF Time, histVars, liveVars, Clock!RecordTime, Clock!RejectTime, Clock!clockVars
  <2>2. call'.kind = "idle" BY <1>b, <1>d, <2>1 DEF Uploading
  <2> QED BY <2>1, <2>2 DEF LoneInv, Answering, Reporting
<1>4. CASE Upload(call, d)
  <2>1. /\ call.kind = "upload" /\ d \in {Call("translate", call.id), Failed}
        /\ UNCHANGED <<outstanding, live, shifted, raised, held, offsets>>
    BY <1>4 DEF Upload, server, histVars, liveVars, clockVars
  <2>2. CASE d = Call("translate", call.id)
    <3>1. call' = d /\ call'.kind = "translate" /\ call'.id = call.id
      BY <1>c, <2>2, Fields DEF Halves
    <3> QED BY <2>1, <3>1 DEF LoneInv, Answering, Reporting
  <2>3. CASE d = Failed
    <3>1. call'.kind = "result" /\ call'.id = call.id BY <1>b, <1>d, <2>1, <2>3 DEF Uploading
    <3> QED BY <2>1, <3>1 DEF LoneInv, Answering, Reporting
  <2> QED BY <2>1, <2>2, <2>3
<1>5. CASE Translate(call, d)
  <2>1. /\ call.kind = "translate" /\ d \in {Done, Failed} /\ shifted' = (shifted \/ ~ (call.id \in offsets))
        /\ UNCHANGED <<outstanding, live, raised, held, offsets>>
    BY <1>5 DEF Translate, histVars, liveVars, clockVars, Clock!Translates
  <2>2. call'.kind = "result" /\ call'.id = call.id BY <1>b, <1>d, <2>1 DEF Uploading
  <2>3. /\ ~ shifted'
        /\ call.id \in offsets \cap {outstanding, live} /\ held = NoId
    BY <2>1 DEF LoneInv, Answering, Reporting
  <2> QED BY <2>1, <2>2, <2>3 DEF LoneInv, Answering, Reporting
<1>6. CASE Availability(call, d)
  <2>1. /\ call.kind = "availability" /\ d = Bounds(call.id, call.id \in offsets)
        /\ UNCHANGED <<outstanding, live, shifted, raised, held, offsets>>
    BY <1>6 DEF Availability, server, histVars, liveVars, clockVars, Clock!Translates
  <2>2. d.kind = "decide" /\ d.id = call.id /\ (d.ok <=> call.id \in offsets)
    BY <2>1 DEF Bounds
  <2>3. call' = d BY <1>c, <2>2 DEF Halves
  <2>4. call.id \in offsets BY <2>1 DEF LoneInv, Answering
  <2> QED BY <2>1, <2>2, <2>3, <2>4 DEF LoneInv, Answering, Reporting
<1>7. CASE Report(call, d) \/ Decide(call, d)
  <2>1. /\ call.kind \in {"result", "decide"} /\ held' = held /\ offsets' = offsets
    BY <1>7 DEF Report, Decide, clockVars
  <2>2. /\ call.id \in offsets \cap {outstanding, live} /\ held = NoId
        /\ offsets \subseteq {outstanding, live} \cup raised
    BY <2>1 DEF LoneInv, Answering, Reporting
  <2>3. ~ shifted'
    BY <1>7, <2>2 DEF Report, Decide, LoneInv
  <2>4. /\ outstanding' = outstanding \/ outstanding = call.id
        /\ live' = live \/ live = call.id
        /\ raised \subseteq raised'
        /\ d = Call("complete", call.id) \/ (d = Failed /\ live' = live)
        /\ d = Failed => outstanding' = outstanding \/ call.id \in raised'
    BY <1>7 DEF Report, Decide, Closes, Leaves, Routine!Stored, Routine!Retry, Routine!liveVars,
                liveVars, histVars, Answers
  <2>5. CASE d = Failed
    <3>1. call'.kind = "idle"
      <4>1. call.kind \notin Uploading BY <2>1 DEF Uploading
      <4> QED BY <1>b, <1>d, <2>5, <4>1
    <3>2. offsets' \subseteq {outstanding', live'} \cup raised'
      BY <1>d, <2>1, <2>2, <2>4, <2>5 DEF Call
    <3> QED BY <2>1, <2>2, <2>3, <3>1, <3>2 DEF LoneInv, Answering, Reporting
  <2>6. CASE d = Call("complete", call.id)
    <3>1. d.kind = "complete" /\ d.id = call.id BY <2>6 DEF Call
    <3>2. call' = d BY <1>c, <3>1 DEF Halves
    <3> QED BY <2>1, <2>2, <2>3, <2>4, <3>1, <3>2 DEF LoneInv, Answering, Reporting
  <2> QED BY <2>4, <2>5, <2>6
<1>8. CASE Complete(call, d)
  <2>1. /\ call.kind = "complete" /\ d = Done /\ offsets' = offsets \ {call.id}
        /\ raised' = raised \ {call.id}
        /\ UNCHANGED <<outstanding, live, shifted, held>>
    BY <1>8 DEF Complete, histVars, liveVars, Clock!Complete
  <2>2. call'.kind = "idle"
    <3>1. call.kind \notin Uploading BY <2>1 DEF Uploading
    <3> QED BY <1>b, <1>d, <2>1, <3>1
  <2> QED BY <2>1, <2>2 DEF LoneInv, Answering, Reporting
<1> QED BY <1>1, <1>2, <1>3, <1>4, <1>5, <1>6, <1>7, <1>8 DEF Step

LEMMA LoneKept ==
  ASSUME OneAtATime, IInv, LoneInv, [Next]_vars
  PROVE  LoneInv'
<1>1. CASE Poll
  <2>1. call.kind = "idle" /\ call'.kind = "poll" BY <1>1 DEF Poll, Idle, Call
  <2>2. UNCHANGED <<outstanding, live, shifted, raised, held, offsets, late>>
    BY <1>1 DEF Poll, server, histVars, liveVars, clockVars
  <2> QED BY <2>1, <2>2 DEF LoneInv, Answering, Reporting
<1>2. CASE Serve
  BY <1>2, LoneStep DEF Serve
<1>3. CASE ServeLate
  BY <1>3 DEF ServeLate, LoneInv
<1>4. CASE GiveUp
  <2>1. /\ call.kind \notin Halves /\ call' \in After(call, Failed)
        /\ UNCHANGED <<outstanding, live, shifted, raised, held, offsets, late>>
    BY <1>4 DEF GiveUp, OneAtATime, server, histVars, liveVars, clockVars
  <2>2. IF call.kind \in Uploading THEN call' = Result(call.id, FALSE) ELSE call' = Idle
    BY <2>1, FailedAfter
  <2>3. IF call.kind \in Uploading THEN call'.kind = "result" /\ call'.id = call.id
        ELSE call'.kind = "idle"
    BY <2>2 DEF Result, Idle, Call
  <2> QED BY <2>1, <2>3 DEF LoneInv, Answering, Reporting, Halves, Uploading
<1>5. CASE LeaseExpires \/ MinutePasses \/ HandshakeExpires \/ UNCHANGED vars
  <2>1. UNCHANGED <<outstanding, live, shifted, raised, held, offsets, call, late>>
    BY <1>5 DEF LeaseExpires, MinutePasses, HandshakeExpires, Routine!Minute, Clock!Expire, vars,
                server, histVars, liveVars, clockVars
  <2> QED BY <2>1 DEF LoneInv
<1>6. CASE Restart
  BY <1>6 DEF Restart, OneAtATime
<1> QED BY <1>1, <1>2, <1>3, <1>4, <1>5, <1>6 DEF Next

LEMMA LoneInvariance ==
  ASSUME OneAtATime PROVE Spec => []LoneInv
<1>1. LoneInv /\ IInv /\ [Next]_vars => LoneInv' BY LoneKept
<1> QED BY <1>1, LoneInit, Invariance, PTL DEF Spec

\* While the server is not restarted and handles calls within the terminal's
\* timeout, no bar with the terminal's time is stored, for any number of
\* requests, symbols and lost calls, as README 0.68.0 says.
THEOREM BarsTranslated ==
  ASSUME OneAtATime PROVE Spec => []TranslatedBack
<1>1. LoneInv => TranslatedBack BY DEF LoneInv, TranslatedBack
<1> QED BY <1>1, LoneInvariance, PTL

\* Under the same conditions the clock keeps no offset of a request that ended,
\* however often commands were lost and handed out again, but of those the
\* coordinator closed in a call that then raised.
THEOREM OffsetsKept ==
  ASSUME OneAtATime PROVE Spec => []OffsetsOwned
<1>1. LoneInv => OffsetsOwned BY DEF LoneInv, OffsetsOwned
<1> QED BY <1>1, LoneInvariance, PTL
=============================================================================
