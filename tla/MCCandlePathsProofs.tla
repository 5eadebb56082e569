------------------------- MODULE MCCandlePathsProofs -------------------------
(***************************************************************************)
(* What writes the candle table, for every value of the constants of       *)
(* MCCandlePaths: the upload path (Ingestion) for every number of jobs,    *)
(* minutes, chunks, executions, dead children, lost calls and expired      *)
(* buffers, and what GapRepairProofs shows of scans, for behaviours of     *)
(* MCSpec: those that are not of the scans leave their variables alone.    *)
(***************************************************************************)
EXTENDS MCCandlePaths, FiniteSetTheorems, SequenceTheorems, TLAPS

-----------------------------------------------------------------------------
(* The chunks of a window *)

LEMMA Division ==
  ASSUME NEW a \in Nat, NEW k \in Nat \ {0}
  PROVE  /\ a \div k \in Nat /\ a % k \in 0..k-1
         /\ a = (k * (a \div k)) + (a % k)
OBVIOUS

LEMMA ChunksFit ==
  /\ MaxMinute \div ChunkSize \in Nat
  /\ ChunkSize * (MaxMinute \div ChunkSize) = MaxMinute
  /\ MaxMinute \div ChunkSize # 0
<1>1. MaxMinute \in Nat /\ MaxMinute # 0 /\ ChunkSize \in Nat \ {0} /\ MaxMinute % ChunkSize = 0
  BY IngestionAssumption
<1>2. /\ MaxMinute \div ChunkSize \in Nat
      /\ ChunkSize * (MaxMinute \div ChunkSize) = MaxMinute
  BY <1>1, Division
<1> QED
  BY <1>1, <1>2

LEMMA ChunkOfWindow ==
  ASSUME NEW c \in Chunks
  PROVE  Chunk(c) \subseteq Minutes /\ Chunk(c) # {}
<1> DEFINE n == MaxMinute \div ChunkSize
<1>1. n \in Nat /\ ChunkSize * n = MaxMinute /\ ChunkSize \in Nat \ {0} /\ c \in 1..n
  BY ChunksFit, IngestionAssumption DEF Chunks
<1> HIDE DEF n
<1>2. (c - 1) * ChunkSize \in Nat /\ (c - 1) * ChunkSize + ChunkSize = c * ChunkSize
  BY <1>1
<1>3. c * ChunkSize <= MaxMinute
  <2>1. ChunkSize * (n - c) >= 0 /\ ChunkSize * (n - c) = ChunkSize * n - c * ChunkSize
    BY <1>1
  <2> QED
    BY <1>1, <2>1
<1>4. (c - 1) * ChunkSize + 1 \in Chunk(c)
  BY <1>1, <1>2 DEF Chunk
<1> QED
  BY <1>1, <1>2, <1>3, <1>4 DEF Chunk, Minutes

\* The chunks of a window together are the window.
LEMMA WindowOfChunks == UNION {Chunk(c) : c \in Chunks} = Minutes
<1> DEFINE n == MaxMinute \div ChunkSize
<1>1. n \in Nat /\ ChunkSize * n = MaxMinute /\ ChunkSize \in Nat \ {0}
  BY ChunksFit, IngestionAssumption
<1>2. ASSUME NEW t \in Minutes PROVE \E c \in Chunks : t \in Chunk(c)
  <2> DEFINE q == (t - 1) \div ChunkSize
             r == (t - 1) % ChunkSize
  <2>1. t \in 1..MaxMinute /\ t - 1 \in Nat
    BY IngestionAssumption DEF Minutes
  <2>2. q \in Nat /\ r \in 0..ChunkSize - 1 /\ t - 1 = ChunkSize * q + r
    BY <1>1, <2>1, Division
  <2> HIDE DEF q, r, n
  <2>3. q < n
    <3>1. SUFFICES ASSUME q >= n PROVE FALSE
      BY <1>1, <2>2
    <3>2. ChunkSize * (q - n) >= 0 /\ ChunkSize * (q - n) = ChunkSize * q - ChunkSize * n
      BY <1>1, <2>2, <3>1
    <3> QED
      BY <1>1, <2>1, <2>2, <3>2
  <2>4. q + 1 \in Chunks
    BY <1>1, <2>2, <2>3 DEF Chunks, n
  <2>5. (q + 1 - 1) * ChunkSize = ChunkSize * q /\ (q + 1) * ChunkSize = ChunkSize * q + ChunkSize
    BY <1>1, <2>2
  <2>6. t \in Chunk(q + 1)
    BY <1>1, <2>1, <2>2, <2>5 DEF Chunk
  <2> QED
    BY <2>4, <2>6
<1> QED
  BY <1>2, ChunkOfWindow

\* Some element of a set of minutes is the largest.
LEMMA MaxOfMinutes ==
  ASSUME NEW S \in SUBSET Minutes, S # {}
  PROVE  Max(S) \in S
<1> DEFINE Above(x) == {y \in S : y > x}
           T == {Above(x) : x \in S}
<1>1. IsFiniteSet(S)
  <2>1. IsFiniteSet(Minutes)
    BY FS_Interval, IngestionAssumption DEF Minutes
  <2> QED
    BY <2>1, FS_Subset
<1>2. T \subseteq SUBSET S /\ T # {}
  BY Zenon
<1>3. PICK A \in T : \A B \in T : ~ (<<B, A>> \in StrictSubsetOrdering(S))
  <2>1. IsWellFoundedOn(StrictSubsetOrdering(S), SUBSET S)
    BY <1>1, FS_StrictSubsetOrderingWellFounded, FS_FiniteSubsetsOfFinite
  <2> HIDE DEF T
  <2> QED
    BY <1>2, <2>1, WFMin
<1>4. PICK x \in S : A = Above(x)
  BY <1>3
<1>5. S \subseteq Nat
  BY IngestionAssumption DEF Minutes
<1>6. \A y \in S : x >= y
  <2>1. SUFFICES ASSUME NEW y \in S, y > x PROVE FALSE
    BY <1>5
  <2>2. Above(y) \subseteq A /\ y \in A /\ y \notin Above(y)
    <3>1. \A z \in S : z > y => z > x
      BY <1>5, <2>1
    <3>2. A = {z \in S : z > x} /\ ~ (y > y)
      BY <1>4, <1>5
    <3> QED
      BY <2>1, <3>1, <3>2
  <2>3. Above(y) \in T
    OBVIOUS
  <2>4. A \in SUBSET S /\ Above(y) \in SUBSET S
    BY <1>4
  <2>5. <<Above(y), A>> \in StrictSubsetOrdering(S)
    <3> HIDE DEF Above
    <3> QED
      BY <2>2, <2>4 DEF StrictSubsetOrdering
  <2> QED
    BY <1>3, <2>3, <2>5
<1> QED
  BY <1>6 DEF Max

-----------------------------------------------------------------------------
(* Cleaning a response *)

\* A set of naturals has a least element.
LEMMA LeastOf ==
  ASSUME NEW S \in SUBSET Nat, S # {}
  PROVE  \E m \in S : \A n \in S : m <= n
<1> DEFINE R == OpToRel(<, Nat)
<1>1. PICK m \in S : \A n \in S : ~ (<<n, m>> \in R)
  <2>1. IsWellFoundedOn(R, Nat)
    BY NatLessThanWellFounded
  <2> HIDE DEF R
  <2> QED
    BY <2>1, WFMin
<1>2. ASSUME NEW n \in S
      PROVE  m <= n
  <2>1. ~ (<<n, m>> \in R)
    BY <1>1
  <2>2. <<n, m>> \in Nat \X Nat /\ n \in Nat /\ m \in Nat
    OBVIOUS
  <2>3. ~ (n < m)
    BY <2>1, <2>2 DEF OpToRel
  <2> QED
    BY <2>2, <2>3
<1> QED
  BY <1>2

\* Some element of a set of minutes is the smallest.
LEMMA MinOfMinutes ==
  ASSUME NEW S \in SUBSET Minutes, S # {}
  PROVE  Min(S) \in S /\ \A y \in S : Min(S) <= y
<1>1. S \in SUBSET Nat
  BY IngestionAssumption DEF Minutes
<1> QED
  BY <1>1, LeastOf DEF Min

\* Which bars are changes is decided from the first to the last, each by the
\* changes before it.
LEMMA ChangesExist ==
  ASSUME NEW S \in SUBSET Minutes
  PROVE  /\ Changes(S) \subseteq S
         /\ \A t \in S : t \in Changes(S) <=> Changed(S, Before(Changes(S), t), t)
<1> DEFINE Upto(n, C) == \A t \in S : t <= n => (t \in C <=> Changed(S, Before(C, t), t))
           Bad == {n \in Nat : ~ \E C \in SUBSET S : Upto(n, C)}
<1>1. S \subseteq Nat /\ (\A t \in S : 1 <= t /\ t <= MaxMinute) /\ MaxMinute \in Nat
  BY IngestionAssumption DEF Minutes
<1>2. Bad = {}
  <2>1. SUFFICES ASSUME Bad # {} PROVE FALSE
    OBVIOUS
  <2>2. PICK n \in Bad : \A m \in Bad : n <= m
    <3>1. Bad \subseteq Nat
      OBVIOUS
    <3> HIDE DEF Bad
    <3> QED
      BY <2>1, <3>1, LeastOf
  <2>3. n \in Nat /\ n # 0
    <3>1. Upto(0, {})
      BY <1>1
    <3> QED
      BY <3>1
  <2>4. n - 1 \in Nat /\ n - 1 \notin Bad
    <3>1. n - 1 \in Nat /\ ~ (n <= n - 1)
      BY <2>3
    <3> HIDE DEF Bad
    <3> QED
      BY <2>2, <3>1
  <2>5. PICK C \in SUBSET S : Upto(n - 1, C)
    BY <2>4
  <2> DEFINE D == {u \in C : u < n} \cup {u \in S : u = n /\ Changed(S, Before(C, u), u)}
  <2>6. D \in SUBSET S
    OBVIOUS
  <2>7. \A t \in S : t <= n => Before(D, t) = Before(C, t)
    <3>1. SUFFICES ASSUME NEW t \in S, t <= n PROVE Before(D, t) = Before(C, t)
      OBVIOUS
    <3>2. \A u \in S : u < t => u < n
      BY <1>1, <2>3, <3>1
    <3>3. \A u \in S : u < t => (u \in D <=> u \in C)
      <4>1. \A u \in S : u < n => u # n
        BY <1>1, <2>3
      <4> QED
        BY <3>2, <4>1
    <3> HIDE DEF D
    <3> QED
      BY <2>6, <3>3 DEF Before
  <2>8. ASSUME NEW t \in S, t <= n PROVE t \in D <=> Changed(S, Before(C, t), t)
    <3>1. CASE t = n
      BY <1>1, <2>3, <3>1
    <3>2. CASE t # n
      <4>1. t <= n - 1 /\ t < n
        BY <1>1, <2>3, <2>8, <3>2
      <4>2. t \in C <=> Changed(S, Before(C, t), t)
        BY <2>5, <4>1
      <4> QED
        BY <4>1, <4>2, <3>2
    <3> QED
      BY <3>1, <3>2
  <2>9. Upto(n, D)
    <3> HIDE DEF D
    <3> QED
      BY <2>7, <2>8
  <2> QED
    BY <2>2, <2>6, <2>9
<1>3. PICK C \in SUBSET S : Upto(MaxMinute, C)
  BY <1>1, <1>2
<1>4. \A t \in S : t \in C <=> Changed(S, Before(C, t), t)
  BY <1>1, <1>3
<1> QED
  BY <1>4 DEF Changes

LEMMA SanitizedOfChunk ==
  ASSUME NEW S \in SUBSET Minutes
  PROVE  Sanitized(S) \subseteq S
BY ChangesExist DEF Sanitized

-----------------------------------------------------------------------------
(* The strengthened invariant *)

RowType  == Bars \cup {Missing, Stale}
Payloads == [state : {"open", "ok", "failed"}, rows : Nat]
Answers  == [id : Jobs, payload : Payloads]
Bodies   == [kind : {"refresh", "live", "plain"}, run : 0 .. MaxRuns, minutes : SUBSET Minutes]
Calls    == {<<>>} \cup {<<id>> : id \in Jobs}
Uploads  == [stage : {"idle", "posting", "waiting", "complete", "failed"}, chunk : Nat, call : Calls]

Upload(u) ==
  /\ u \in Uploads
  /\ u.stage # "idle" => u.chunk \in Chunks
  /\ u.call # <<>> => u.stage = "waiting"

\* The bridge posts chunks of the window, for a request that began.
Posting ==
  /\ bars \in [Minutes -> Bars]
  /\ kind \in {"refresh", "live", "plain"}
  /\ runs \in 0 .. MaxRuns /\ request \in 0 .. runs
  /\ Upload(ea)
  /\ buffer \in [0 .. MaxRuns -> SUBSET Chunks]

\* A job waits in the queue, at the child, in the results or at its caller, and a
\* positive answer on the way back is of a job that was committed.
CallTypes ==
  /\ queue \in Seq(Jobs) /\ results \in Seq(Answers)
  /\ waiting \subseteq handling /\ handling \subseteq Jobs
  /\ outcome \in [Jobs -> Payloads]
  /\ child \in {"none", "up", "dead"}
  /\ current \in {<<>>} \cup {<<a>> : a \in Answers}
  /\ body \in [Jobs -> Bodies]

Unused    == \A id \in Jobs : New(id) => id \notin handling /\ outcome[id].state = "open"
Queued    == \A i \in 1 .. Len(queue) : ~ New(queue[i])
Unanswered == \A id \in waiting : outcome[id].state = "open"
Entire    == \A id \in Jobs : body[id].kind = "refresh" => body[id].minutes = Minutes
Earned(a) == a.payload.state = "ok" => a.id \in committed
Answered ==
  /\ AckMeansWritten
  /\ \A i \in 1 .. Len(results) : Earned(results[i])
  /\ current # <<>> => Earned(current[1])

Serving == CallTypes /\ Unused /\ Queued /\ Unanswered /\ Entire /\ Answered

\* What is stamped, or about to be, is the terminal's.
Storing ==
  /\ rows \in [Minutes -> RowType]
  /\ stamped \subseteq Minutes /\ stamping \subseteq Minutes /\ held \in {0} \cup Minutes
  /\ \A t \in stamped \cup stamping : rows[t] = bars[t]

IInv == Posting /\ Serving /\ Storing

-----------------------------------------------------------------------------
(* The bridge *)

LEMMA ChunkAfter ==
  /\ 1 \in Chunks /\ Max(Chunks) \in Chunks /\ Chunks \subseteq Nat
  /\ \A c \in Chunks : c <= Max(Chunks) /\ (c # Max(Chunks) => c + 1 \in Chunks)
<1> DEFINE n == MaxMinute \div ChunkSize
<1>1. n \in Nat /\ n # 0 /\ Chunks = 1..n
  BY ChunksFit DEF Chunks
<1> HIDE DEF n
<1>2. n \in Chunks /\ \A y \in Chunks : n >= y
  BY <1>1
<1>3. \A x \in Chunks : (\A y \in Chunks : x >= y) => x = n
  BY <1>1, <1>2
<1>4. Max(Chunks) = n
  BY <1>2, <1>3 DEF Max
<1> QED
  BY <1>1, <1>4

LEMMA AcceptedPosting ==
  ASSUME Posting, ea.stage # "idle"
  PROVE  Upload(Accepted) /\ Upload(Rejected)
<1> USE DEF Upload
<1>1. ea \in Uploads /\ ea.chunk \in Chunks /\ Nothing \in Calls
  BY DEF Posting, Calls, Nothing
<1>2. Upload(Rejected)
  BY <1>1 DEF Rejected, Uploads, Nothing
<1>3. CASE LastChunk
  <2>1. Accepted = [ea EXCEPT !.call = Nothing, !.stage = "complete", !.chunk = ea.chunk]
    BY <1>3 DEF Accepted
  <2> QED
    BY <1>1, <1>2, <2>1 DEF Uploads, Nothing
<1>4. CASE ~ LastChunk
  <2>1. Accepted = [ea EXCEPT !.call = Nothing, !.stage = "posting", !.chunk = ea.chunk + 1]
    BY <1>4 DEF Accepted
  <2>2. ea.chunk + 1 \in Chunks /\ ea.chunk + 1 \in Nat
    BY <1>1, <1>4, ChunkAfter DEF LastChunk
  <2> QED
    BY <1>1, <1>2, <2>1, <2>2 DEF Uploads, Nothing
<1> QED
  BY <1>3, <1>4

LEMMA PostingInit == Init => Posting
<1> SUFFICES ASSUME Init PROVE Posting
  OBVIOUS
<1>1. bars \in [Minutes -> Bars]
  BY IngestionAssumption DEF Init
<1> QED
  BY <1>1, IngestionAssumption DEF Init, Posting, Upload, Uploads, Idle, Calls, Nothing

LEMMA PostingNext == Posting /\ [Next]_vars => Posting'
<1> SUFFICES ASSUME Posting, [Next]_vars PROVE Posting'
  OBVIOUS
<1> USE DEF Posting
<1>1. MaxRuns \in Nat /\ Kinds \subseteq {"refresh", "live", "plain"}
  BY IngestionAssumption
<1>2. CASE Fetch
  <2>1. PICK k \in Kinds, c \in Chunks :
          /\ kind' = k
          /\ ea' = [stage |-> "posting", chunk |-> c, call |-> Nothing]
    BY <1>2 DEF Fetch
  <2>2. Upload(ea')
    BY <2>1, ChunkAfter DEF Upload, Uploads, Calls, Nothing
  <2> QED
    BY <1>1, <1>2, <2>1, <2>2 DEF Fetch
<1>3. CASE Repeat
  <2>1. ea.stage # "idle" /\ ea.chunk \in Chunks
    BY <1>3 DEF Repeat, Upload
  <2>2. Upload(ea')
    BY <1>3, <2>1, ChunkAfter DEF Repeat, Upload, Uploads, Calls, Nothing
  <2> QED
    BY <1>1, <1>3, <2>2 DEF Repeat
<1>4. CASE GiveUp
  <2>1. Upload(ea')
    BY <1>4, AcceptedPosting DEF GiveUp
  <2> QED
    BY <1>4, <2>1 DEF GiveUp, plane
<1>5. ASSUME NEW id \in Jobs, NEW S, Enqueue(id, S), ea.stage = "posting"
      PROVE  Upload(ea')
  BY <1>5 DEF Enqueue, Upload, Uploads, Calls
<1>6. ASSUME NEW id \in Jobs, PostPlain(id) PROVE Posting'
  <2>1. Upload(ea')
    BY <1>5, <1>6, AcceptedPosting DEF PostPlain
  <2> QED
    BY <1>6, <2>1 DEF PostPlain, plane
<1>7. ASSUME NEW id \in Jobs, PostRefresh(id) PROVE Posting'
  <2>1. PICK old \in {FALSE} \cup {aged < MaxAged} :
          LET got == Buffered(old) IN
          \/ /\ got = Chunks
             /\ buffer' = [buffer EXCEPT ![request] = {}]
             /\ Enqueue(id, UNION {Chunk(c) : c \in got})
          \/ /\ got # Chunks
             /\ buffer' = [buffer EXCEPT ![request] = got]
             /\ ea' = Accepted
    BY <1>7 DEF PostRefresh
  <2>2. ea.stage = "posting" /\ ea.chunk \in Chunks
    BY <1>7 DEF PostRefresh, Upload
  <2>3. Upload(ea')
    BY <1>5, <2>1, <2>2, AcceptedPosting
  <2>4. Buffered(old) \subseteq Chunks
    BY <1>1, <2>2 DEF Buffered
  <2>5. buffer' \in [0 .. MaxRuns -> SUBSET Chunks]
    BY <2>1, <2>4
  <2> QED
    BY <1>7, <2>3, <2>5 DEF PostRefresh, plane
<1>8. ASSUME NEW id \in Jobs, Return(id) PROVE Posting'
  <2>1. Upload(ea')
    <3>1. ea.call = <<id>> => ea.stage # "idle"
      BY DEF Upload
    <3> QED
      BY <1>8, <3>1, AcceptedPosting DEF Return
  <2>2. buffer' \in [0 .. MaxRuns -> SUBSET Chunks]
    BY <1>8 DEF Return
  <2> QED
    BY <1>8, <2>1, <2>2 DEF Return, plane
<1>9. ASSUME UNCHANGED <<plane, buffer, ea>> PROVE Posting'
  BY <1>9 DEF plane
<1> QED
  BY <1>2, <1>3, <1>4, <1>6, <1>7, <1>8, <1>9 DEF Next, vars, WaitEnds, Work, Acknowledge,
     ChildDies, Listen, Stop

-----------------------------------------------------------------------------
(* The handlers, the process and the answers *)

LEMMA ServingInit == Init => Serving
<1> SUFFICES ASSUME Init PROVE Serving
  OBVIOUS
<1>1. /\ queue = <<>> /\ results = <<>> /\ waiting = {} /\ handling = {}
      /\ outcome = [id \in Jobs |-> Open] /\ child = "none" /\ current = <<>>
      /\ body = [id \in Jobs |-> [kind |-> "plain", run |-> 0, minutes |-> {}]]
  BY DEF Init, RpcInit, Nothing
<1>2. CallTypes
  BY <1>1, IngestionAssumption DEF CallTypes, Payloads, Open, Bodies
<1>3. Unused /\ Queued /\ Unanswered /\ Entire
  BY <1>1 DEF Unused, Queued, Unanswered, Entire, Open
<1>4. Answered
  BY <1>1 DEF Answered, AckMeansWritten, Open
<1> QED
  BY <1>2, <1>3, <1>4 DEF Serving

\* A chunk, or a whole window, becomes the job of a call.
LEMMA EnqueueServing ==
  ASSUME Posting, Serving, NEW id \in Jobs, NEW S \in SUBSET Minutes, S # {}, New(id),
         kind = "refresh" => S = Minutes, Enqueue(id, S), UNCHANGED committed
  PROVE  Serving'
<1> DEFINE b == [kind |-> kind, run |-> request, minutes |-> S]
<1>1. /\ body' = [body EXCEPT ![id] = b]
      /\ handling' = handling \cup {id}
  BY DEF Enqueue
<1>2. b \in Bodies
  BY IngestionAssumption DEF Bodies, Posting
<1>3. /\ body' \in [Jobs -> Bodies] /\ body'[id] = b
      /\ \A j \in Jobs \ {id} : body'[j] = body[j]
  BY <1>1, <1>2 DEF Serving, CallTypes
<1>4. /\ ~ New(id)' /\ \A j \in Jobs \ {id} : New(j)' = New(j)
  BY <1>3 DEF New
<1>5. id \notin handling /\ id \notin waiting /\ outcome[id].state = "open"
  BY DEF Serving, Unused, CallTypes
<1>6. Entire'
  BY <1>3 DEF Serving, Entire
<1>7. \A j \in Jobs : ~ New(j) => ~ New(j)'
  BY <1>4
<1>8. CASE Submit(id)
  <2>1. /\ child' = "up" /\ waiting' = waiting \cup {id} /\ queue' = Append(queue, id)
        /\ UNCHANGED <<results, outcome, current>>
    BY <1>8 DEF Submit
  <2>2. /\ queue \in Seq(Jobs) /\ queue' \in Seq(Jobs) /\ Len(queue') = Len(queue) + 1
        /\ Len(queue) \in Nat
        /\ \A i \in 1 .. Len(queue) : queue'[i] = queue[i] /\ queue[i] \in Jobs
        /\ queue'[Len(queue) + 1] = id
    BY <2>1, AppendProperties, ElementOfSeq DEF Serving, CallTypes
  <2>3. CallTypes'
    BY <1>1, <1>3, <2>1, <2>2 DEF Serving, CallTypes
  <2>4. Queued'
    <3>1. \A i \in 1 .. Len(queue) : body'[queue'[i]].minutes # {}
      BY <1>7, <2>2 DEF Serving, Queued, New
    <3>2. body'[queue'[Len(queue) + 1]].minutes # {}
      BY <1>4, <2>2 DEF New
    <3>3. \A i \in 1 .. Len(queue') : i \in 1 .. Len(queue) \/ i = Len(queue) + 1
      BY <2>2
    <3> QED
      BY <3>1, <3>2, <3>3 DEF Queued, New
  <2>5. Unused' /\ Unanswered'
    BY <1>1, <1>4, <1>5, <2>1 DEF Serving, Unused, Unanswered
  <2>6. Answered'
    BY <2>1 DEF Serving, Answered, AckMeansWritten, Earned
  <2> QED
    BY <1>6, <2>3, <2>4, <2>5, <2>6 DEF Serving
<1>9. CASE Refuse(id)
  <2>1. /\ child' \in {"none", "up", "dead"}
        /\ outcome' = [outcome EXCEPT ![id] = Payload(FALSE, 0)]
        /\ UNCHANGED <<queue, results, waiting, current>>
    BY <1>9 DEF Refuse, Serving, CallTypes
  <2>2. Payload(FALSE, 0) \in Payloads /\ Payload(FALSE, 0).state = "failed"
    BY DEF Payload, Payloads
  <2>3. /\ outcome' \in [Jobs -> Payloads] /\ outcome'[id].state = "failed"
        /\ \A j \in Jobs \ {id} : outcome'[j] = outcome[j]
    BY <2>1, <2>2 DEF Serving, CallTypes
  <2>4. CallTypes'
    BY <1>1, <1>3, <2>1, <2>3 DEF Serving, CallTypes
  <2>5. Queued'
    <3>1. \A i \in 1 .. Len(queue) : queue[i] \in Jobs
      BY ElementOfSeq DEF Serving, CallTypes
    <3> QED
      BY <1>7, <2>1, <3>1 DEF Serving, Queued
  <2>6. Unused'
    BY <1>1, <1>4, <2>3 DEF Serving, Unused
  <2>7. Unanswered'
    BY <1>5, <2>1, <2>3 DEF Serving, Unanswered, CallTypes
  <2>8. Answered'
    BY <2>1, <2>3 DEF Serving, Answered, AckMeansWritten, Earned
  <2> QED
    BY <1>6, <2>4, <2>5, <2>6, <2>7, <2>8 DEF Serving
<1> QED
  BY <1>8, <1>9 DEF Enqueue

LEMMA PostServing ==
  ASSUME Posting, Serving, NEW id \in Jobs, PostPlain(id) \/ PostRefresh(id)
  PROVE  Serving'
<1>1. ASSUME UNCHANGED <<rpcVars, body, handling, committed>> PROVE Serving'
  BY <1>1 DEF rpcVars, Serving, CallTypes, Unused, Queued, Unanswered, Entire, Answered,
     AckMeansWritten, Earned, New
<1>2. New(id) /\ ea.chunk \in Chunks /\ UNCHANGED committed
  BY DEF PostPlain, PostRefresh, data, Posting, Upload
<1>3. CASE PostPlain(id)
  <2> DEFINE S == IF kind = "live" THEN Chunk(ea.chunk) ELSE Sanitized(Chunk(ea.chunk))
  <2>1. kind # "refresh" /\ ((S # {} /\ Enqueue(id, S)) \/ UNCHANGED <<rpcVars, body, handling>>)
    BY <1>3 DEF PostPlain
  <2>2. Sanitized(Chunk(ea.chunk)) \subseteq Chunk(ea.chunk)
    BY <1>2, ChunkOfWindow, SanitizedOfChunk
  <2>3. S \in SUBSET Minutes
    BY <1>2, <2>2, ChunkOfWindow
  <2> HIDE DEF S
  <2> QED
    BY <1>1, <1>2, <2>1, <2>3, EnqueueServing
<1>4. CASE PostRefresh(id)
  <2>1. \/ Enqueue(id, UNION {Chunk(c) : c \in Chunks})
        \/ UNCHANGED <<rpcVars, body, handling>>
    BY <1>4 DEF PostRefresh
  <2>2. Minutes # {}
    BY IngestionAssumption DEF Minutes
  <2>3. Enqueue(id, Minutes) \/ UNCHANGED <<rpcVars, body, handling>>
    BY <2>1, WindowOfChunks
  <2> QED
    BY <1>1, <1>2, <2>2, <2>3, EnqueueServing
<1> QED
  BY <1>3, <1>4

LEMMA ReturnServing ==
  ASSUME Serving, NEW id \in Jobs, Return(id)
  PROVE  Serving'
<1>1. /\ outcome[id].state # "open" /\ handling' = handling \ {id}
      /\ UNCHANGED <<queue, results, waiting, outcome, child, current, body, committed>>
  BY DEF Return, rpcVars, data
<1>2. CallTypes'
  BY <1>1 DEF Serving, CallTypes, Unanswered
<1> QED
  BY <1>1, <1>2 DEF Serving, Unused, Queued, Unanswered, Entire, Answered,
     AckMeansWritten, Earned, New

LEMMA ExpireServing ==
  ASSUME Serving, NEW id \in Jobs, WaitEnds(id)
  PROVE  Serving'
<1>1. /\ id \in waiting /\ waiting' = waiting \ {id}
      /\ outcome' = [outcome EXCEPT ![id] = Payload(FALSE, 0)]
      /\ UNCHANGED <<queue, results, child, current, body, handling, committed>>
  BY DEF WaitEnds, Expire, data
<1>2. /\ outcome' \in [Jobs -> Payloads] /\ outcome'[id].state = "failed"
      /\ \A j \in Jobs \ {id} : outcome'[j] = outcome[j]
  BY <1>1 DEF Serving, CallTypes, Payload, Payloads
<1>3. CallTypes'
  BY <1>1, <1>2 DEF Serving, CallTypes
<1>4. Unused' /\ Unanswered'
  BY <1>1, <1>2 DEF Serving, CallTypes, Unused, Unanswered, New
<1> QED
  BY <1>1, <1>2, <1>3, <1>4 DEF Serving, Queued, Entire, Answered, AckMeansWritten, Earned, New

LEMMA HeadAndTail ==
  ASSUME NEW S, NEW s \in Seq(S), s # <<>>
  PROVE  /\ Tail(s) \in Seq(S) /\ Head(s) \in S /\ Head(s) = s[1]
         /\ Len(s) \in Nat /\ 1 \in 1 .. Len(s)
         /\ \A i \in 1 .. Len(Tail(s)) : i + 1 \in 1 .. Len(s) /\ Tail(s)[i] = s[i + 1]
BY HeadTailProperties

\* The jobs of the queue behind the first.
LEMMA TailQueued ==
  ASSUME Serving, queue # <<>>, queue' = Tail(queue), UNCHANGED body
  PROVE  Queued' /\ queue' \in Seq(Jobs)
<1>1. queue \in Seq(Jobs)
  BY DEF Serving, CallTypes
<1>2. /\ queue' \in Seq(Jobs)
      /\ \A i \in 1 .. Len(queue') : i + 1 \in 1 .. Len(queue) /\ queue'[i] = queue[i + 1]
  BY <1>1, HeadAndTail
<1> QED
  BY <1>2 DEF Serving, Queued, New

\* What is counted of a job is a number.
LEMMA Counts ==
  ASSUME NEW S \in SUBSET Minutes, NEW before, NEW after
  PROVE  /\ Cardinality(S) \in Nat /\ Cardinality(Kept(S)) \in Nat
         /\ Cardinality(Released(S)) \in Nat /\ Cardinality({}) \in Nat
         /\ Table!Changed(before, after) \in Nat
<1>1. IsFiniteSet(Minutes)
  BY FS_Interval, IngestionAssumption DEF Minutes
<1>2. \A U \in SUBSET Minutes : Cardinality(U) \in Nat
  BY <1>1, FS_Subset, FS_CardinalityType
<1>3. Kept(S) \in SUBSET Minutes
  BY DEF Kept
<1>4. Cardinality({held}) \in Nat /\ Cardinality({}) \in Nat
  <2>1. Cardinality({held}) = 1 /\ Cardinality({}) = 0
    BY FS_Singleton, FS_EmptySet
  <2> QED
    BY <2>1
<1>5. Released(S) = {held} \/ Released(S) = {}
  BY DEF Released
<1>6. Table!Changed(before, after) = Cardinality({t \in Minutes : before[t] # after[t]})
  BY Zenon DEF Table!Changed, Table!Cardinality, Cardinality
<1>7. Table!Changed(before, after) \in Nat
  <2> DEFINE D == {t \in Minutes : before[t] # after[t]}
  <2>1. D \in SUBSET Minutes
    OBVIOUS
  <2>2. Table!Changed(before, after) = Cardinality(D)
    BY <1>6
  <2> HIDE DEF D
  <2> QED
    BY <1>2, <2>1, <2>2
<1> QED
  BY <1>2, <1>3, <1>4, <1>5, <1>7

LEMMA WorkServing ==
  ASSUME Serving, NEW fails \in BOOLEAN, Work(fails)
  PROVE  Serving'
<1> DEFINE id == Head(queue)
<1>1. /\ queue # <<>> /\ queue' = Tail(queue)
      /\ UNCHANGED <<results, waiting, outcome, child, body, handling>>
      /\ committed' = IF fails THEN committed ELSE committed \cup {id}
  BY DEF Work, Execute
<1>2. PICK n \in Nat : current' = <<Answer(id, ~ fails, n)>>
  <2> DEFINE job == body[id]
             late == IF job.kind = "refresh" THEN {} ELSE Released(job.minutes)
             kept == IF job.kind = "refresh" THEN job.minutes ELSE Kept(job.minutes)
             batch == Batch(late \cup kept)
             written == CASE job.kind = "refresh" -> Table!ReplaceWindow(rows, batch, Minutes)
                          [] job.kind = "live"    -> Table!Overwrite(rows, batch)
                          [] job.kind = "plain"   -> Table!InsertMissing(rows, batch)
             n == IF job.kind = "plain" THEN Table!Changed(rows, written)
                  ELSE Cardinality(late) + Cardinality(kept)
  <2>1. Execute(~ fails, n)
    BY DEF Work
  <2>2. id \in Jobs /\ body[id].minutes \in SUBSET Minutes
    BY <1>1, HeadAndTail DEF Serving, CallTypes, Bodies
  <2>3. Cardinality(late) \in Nat /\ Cardinality(kept) \in Nat
    BY <2>2, Counts
  <2>4. Table!Changed(rows, written) \in Nat
    <3> HIDE DEF written
    <3> QED
      BY Counts
  <2>5. n \in Nat
    <3> HIDE DEF late, kept, written
    <3> QED
      BY <2>3, <2>4
  <2> HIDE DEF n
  <2> QED
    BY <2>1, <2>5 DEF Execute
<1>3. id \in Jobs /\ Answer(id, ~ fails, n) \in Answers
  BY <1>1, HeadAndTail DEF Serving, CallTypes, Answer, Payload, Answers, Payloads
<1>4. Queued' /\ queue' \in Seq(Jobs)
  BY <1>1, TailQueued
<1>5. CallTypes'
  BY <1>1, <1>2, <1>3, <1>4 DEF Serving, CallTypes
<1>6. Answered'
  <2>1. Answer(id, ~ fails, n).id = id /\ (Answer(id, ~ fails, n).payload.state = "ok" <=> ~ fails)
    BY DEF Answer, Payload
  <2>2. committed \subseteq committed' /\ (~ fails => id \in committed')
    BY <1>1
  <2>4. AckMeansWritten'
    BY <1>1, <2>2 DEF Serving, Answered, AckMeansWritten
  <2>5. \A i \in 1 .. Len(results) : results[i].payload.state = "ok" => results[i].id \in committed'
    BY <2>2 DEF Serving, Answered, Earned
  <2> QED
    BY <1>1, <1>2, <2>1, <2>2, <2>4, <2>5 DEF Answered, Earned
<1> QED
  BY <1>1, <1>4, <1>5, <1>6 DEF Serving, Unused, Unanswered, Entire, New

LEMMA AcknowledgeServing ==
  ASSUME Serving, Acknowledge
  PROVE  Serving'
<1>1. /\ current # <<>> /\ results' = results \o current /\ current' = <<>>
      /\ UNCHANGED <<queue, waiting, outcome, child, body, handling, committed>>
  BY DEF Acknowledge, Reply, Nothing
<1>2. PICK a \in Answers : current = <<a>>
  BY <1>1 DEF Serving, CallTypes
<1>3. Earned(a)
  BY <1>1, <1>2 DEF Serving, Answered
<1>4. results' = Append(results, a)
  BY <1>1, <1>2, AppendIsConcat DEF Serving, CallTypes
<1>5. /\ results \in Seq(Answers) /\ results' \in Seq(Answers) /\ Len(results') = Len(results) + 1
      /\ Len(results) \in Nat
      /\ \A i \in 1 .. Len(results) : results'[i] = results[i]
      /\ results'[Len(results) + 1] = a
  BY <1>4, AppendProperties, LenProperties DEF Serving, CallTypes
<1>6. CallTypes'
  BY <1>1, <1>5 DEF Serving, CallTypes
<1>7. Answered'
  <2>1. \A i \in 1 .. Len(results') : i \in 1 .. Len(results) \/ i = Len(results) + 1
    BY <1>5
  <2> QED
    BY <1>1, <1>3, <1>5, <2>1 DEF Serving, Answered, AckMeansWritten, Earned
<1> QED
  BY <1>1, <1>6, <1>7 DEF Serving, Unused, Queued, Unanswered, Entire, New

LEMMA ChildDiesServing ==
  ASSUME Serving, ChildDies
  PROVE  Serving'
<1>1. /\ child' = "dead" /\ current' = <<>>
      /\ queue' = queue \/ (queue # <<>> /\ queue' = Tail(queue))
      /\ UNCHANGED <<results, waiting, outcome, body, handling, committed>>
  BY DEF ChildDies, Crash, Nothing
<1>2. Queued' /\ queue' \in Seq(Jobs)
  BY <1>1, TailQueued DEF Serving, CallTypes, Queued, New
<1>3. CallTypes'
  BY <1>1, <1>2 DEF Serving, CallTypes
<1> QED
  BY <1>1, <1>2, <1>3 DEF Serving, Unused, Unanswered, Entire, Answered, AckMeansWritten, Earned, New

LEMMA ListenServing ==
  ASSUME Serving, Listen
  PROVE  Serving'
<1> DEFINE r == Head(results)
<1>1. /\ results # <<>> /\ results' = Tail(results)
      /\ \/ /\ r.id \in waiting /\ waiting' = waiting \ {r.id}
            /\ outcome' = [outcome EXCEPT ![r.id] = r.payload]
         \/ UNCHANGED <<waiting, outcome>>
      /\ UNCHANGED <<queue, child, current, body, handling, committed>>
  BY DEF Listen, Collect, data
<1>2. /\ results' \in Seq(Answers) /\ r \in Answers /\ r = results[1] /\ 1 \in 1 .. Len(results)
      /\ \A i \in 1 .. Len(results') : i + 1 \in 1 .. Len(results) /\ results'[i] = results[i + 1]
  BY <1>1, HeadAndTail DEF Serving, CallTypes
<1>3. r.id \in Jobs /\ r.payload \in Payloads /\ Earned(r)
  BY <1>2 DEF Answers, Serving, Answered
<1>4. /\ outcome' \in [Jobs -> Payloads] /\ waiting' \subseteq waiting
      /\ \A j \in Jobs : outcome'[j] = outcome[j]
           \/ (j \in waiting \ waiting' /\ j = r.id /\ outcome'[j] = r.payload)
  <2> HIDE DEF r
  <2> QED
    BY <1>1, <1>3 DEF Serving, CallTypes
<1>5. CallTypes'
  BY <1>1, <1>2, <1>4 DEF Serving, CallTypes
<1>6. Unused' /\ Unanswered'
  BY <1>1, <1>4 DEF Serving, CallTypes, Unused, Unanswered, New
<1>7. Answered'
  <2>1. \A i \in 1 .. Len(results') : Earned(results'[i])
    BY <1>2 DEF Serving, Answered
  <2>2. AckMeansWritten'
    BY <1>1, <1>3, <1>4 DEF Serving, Answered, AckMeansWritten, Earned
  <2> QED
    BY <1>1, <2>1, <2>2 DEF Serving, Answered, Earned
<1> QED
  BY <1>1, <1>5, <1>6, <1>7 DEF Serving, Queued, Entire, New

LEMMA StopServing ==
  ASSUME Serving, Stop
  PROVE  Serving'
<1>1. CASE ShutDown
  BY <1>1 DEF Stop, ShutDown, data, Serving, CallTypes, Unused, Queued, Unanswered, Entire,
     Answered, AckMeansWritten, Earned, New
<1>2. CASE Finish
  <2>1. /\ child' = "none" /\ current' = <<>> /\ queue' = <<>> /\ results' = <<>> /\ waiting' = {}
        /\ outcome' = [id \in Jobs |-> IF id \in waiting THEN Payload(FALSE, 0) ELSE outcome[id]]
        /\ UNCHANGED <<body, handling, committed>>
    BY <1>2 DEF Stop, Finish, data, Nothing
  <2>2. Payload(FALSE, 0) \in Payloads /\ Payload(FALSE, 0).state = "failed"
    BY DEF Payload, Payloads
  <2>3. /\ outcome' \in [Jobs -> Payloads]
        /\ \A j \in Jobs \ waiting : outcome'[j] = outcome[j]
        /\ \A j \in waiting : outcome'[j].state = "failed"
    BY <2>1, <2>2 DEF Serving, CallTypes
  <2>4. CallTypes'
    BY <2>1, <2>3, EmptySeq DEF Serving, CallTypes
  <2>5. Queued' /\ Unanswered' /\ Entire'
    BY <2>1 DEF Serving, Queued, Unanswered, Entire
  <2>6. Unused'
    <3>1. \A j \in Jobs : New(j) => j \notin handling /\ j \notin waiting /\ outcome[j].state = "open"
      BY DEF Serving, CallTypes, Unused
    <3> QED
      BY <2>1, <2>3, <3>1 DEF Unused, New
  <2>7. AckMeansWritten'
    BY <2>1, <2>3 DEF Serving, Answered, AckMeansWritten
  <2> QED
    BY <2>1, <2>4, <2>5, <2>6, <2>7 DEF Serving, Answered
<1> QED
  BY <1>1, <1>2 DEF Stop

LEMMA ServingNext == IInv /\ [Next]_vars => Serving'
<1> SUFFICES ASSUME IInv, [Next]_vars PROVE Serving'
  OBVIOUS
<1>1. Posting /\ Serving
  BY DEF IInv
<1>2. ASSUME UNCHANGED <<rpcVars, body, handling, committed>> PROVE Serving'
  BY <1>1, <1>2 DEF rpcVars, Serving, CallTypes, Unused, Queued, Unanswered, Entire, Answered,
     AckMeansWritten, Earned, New
<1>3. CASE Fetch \/ Repeat \/ GiveUp \/ UNCHANGED vars
  BY <1>2, <1>3 DEF Fetch, Repeat, GiveUp, vars, data
<1>4. ASSUME NEW id \in Jobs, PostPlain(id) \/ PostRefresh(id) \/ Return(id) \/ WaitEnds(id)
      PROVE  Serving'
  BY <1>1, <1>4, PostServing, ReturnServing, ExpireServing
<1>5. CASE Work(FALSE) \/ Work(TRUE)
  BY <1>1, <1>5, WorkServing
<1>6. CASE Acknowledge \/ ChildDies \/ Listen \/ Stop
  BY <1>1, <1>6, AcknowledgeServing, ChildDiesServing, ListenServing, StopServing
<1> QED
  BY <1>3, <1>4, <1>5, <1>6 DEF Next

-----------------------------------------------------------------------------
(* The table *)

\* The bars a job writes are bars of the window, all of them for a refresh and all
\* that move for another; a row that is the terminal's stays so, and what is written
\* becomes so unless a row was there for a plain job.
LEMMA WorkWrites ==
  ASSUME IInv, NEW fails \in BOOLEAN, Work(fails)
  PROVE  /\ rows' \in [Minutes -> RowType]
         /\ \A t \in Minutes : rows[t] = bars[t] => rows'[t] = bars[t]
         /\ stamped' \subseteq stamped
         /\ stamping' \subseteq Minutes /\ \A t \in stamping' : rows'[t] = bars[t]
         /\ held' \in {0} \cup Minutes
         /\ body[Head(queue)].kind = "refresh" /\ ~ fails => rows' = bars
         /\ \A t \in Minutes : rows'[t] \in {rows[t], bars[t]}
         /\ body[Head(queue)].kind # "refresh" /\ ~ fails =>
              \A t \in body[Head(queue)].minutes : ~ bars[t].flat => rows'[t] # Missing
<1> DEFINE job == body[Head(queue)]
           late == IF job.kind = "refresh" THEN {} ELSE Released(job.minutes)
           kept == IF job.kind = "refresh" THEN job.minutes ELSE Kept(job.minutes)
           batch == Batch(late \cup kept)
           written == CASE job.kind = "refresh" -> Table!ReplaceWindow(rows, batch, Minutes)
                        [] job.kind = "live"    -> Table!Overwrite(rows, batch)
                        [] job.kind = "plain"   -> Table!InsertMissing(rows, batch)
<1>1. /\ queue # <<>>
      /\ rows' = IF fails THEN rows ELSE written
      /\ stamped' = IF job.kind = "refresh" /\ ~ fails THEN {} ELSE stamped
      /\ stamping' = Stamping(job, fails, late \cup kept)
      /\ held' = IF job.kind = "refresh" THEN held
                 ELSE IF bars[Max(job.minutes)].flat THEN Max(job.minutes) ELSE 0
  BY DEF Work
<1>2. /\ bars \in [Minutes -> Bars] /\ rows \in [Minutes -> RowType]
      /\ held \in {0} \cup Minutes
  BY DEF IInv, Posting, Storing
<1>3. /\ job.kind \in {"refresh", "live", "plain"} /\ job.minutes \in SUBSET Minutes
      /\ job.minutes # {} /\ (job.kind = "refresh" => job.minutes = Minutes)
  <2>1. queue \in Seq(Jobs) /\ body \in [Jobs -> Bodies]
    BY DEF IInv, Serving, CallTypes
  <2>2. Head(queue) \in Jobs /\ Head(queue) = queue[1] /\ 1 \in 1 .. Len(queue)
    BY <1>1, <2>1, HeadAndTail
  <2>3. ~ New(Head(queue))
    BY <2>2 DEF IInv, Serving, Queued
  <2>4. job.kind = "refresh" => job.minutes = Minutes
    BY <2>2 DEF IInv, Serving, Entire
  <2> QED
    BY <2>1, <2>2, <2>3, <2>4 DEF New, Bodies
<1> HIDE DEF job
<1>4. late \cup kept \subseteq Minutes /\ (job.kind = "refresh" => late \cup kept = Minutes)
  BY <1>2, <1>3 DEF Released, Kept
<1>10. job.kind # "refresh" => \A t \in job.minutes : bars[t].flat \/ t \in late \cup kept
  BY DEF Kept
<1> HIDE DEF late, kept
<1>5. DOMAIN batch = late \cup kept /\ \A t \in late \cup kept : batch[t] = bars[t]
  BY DEF Batch
<1> HIDE DEF batch
<1>6. /\ written \in [Minutes -> RowType]
      /\ \A t \in Minutes : rows[t] = bars[t] => written[t] = bars[t]
      /\ job.kind # "plain" => \A t \in late \cup kept : written[t] = bars[t]
      /\ job.kind = "refresh" => written = bars
      /\ \A t \in Minutes : written[t] \in {rows[t], bars[t]}
      /\ \A t \in late \cup kept : written[t] # Missing
  <2>1. \A t \in Minutes : bars[t] \in RowType /\ bars[t] # Missing
    BY <1>2 DEF RowType, Bars, Missing
  <2>2. CASE job.kind = "refresh"
    <3>1. 1 \in Minutes
      BY IngestionAssumption DEF Minutes
    <3>2. written = [t \in Minutes |-> batch[t]]
      BY <1>4, <1>5, <2>2, <3>1 DEF Table!ReplaceWindow
    <3>3. written = bars
      BY <1>2, <1>4, <1>5, <2>2, <3>2
    <3> HIDE DEF written
    <3> QED
      BY <1>2, <1>4, <2>1, <2>2, <3>3
  <2>3. CASE job.kind = "live"
    <3>1. written = [t \in Minutes |-> IF t \in late \cup kept THEN bars[t] ELSE rows[t]]
      BY <1>5, <2>3 DEF Table!Overwrite
    <3> HIDE DEF written
    <3> QED
      BY <1>2, <1>4, <2>1, <2>3, <3>1
  <2>4. CASE job.kind = "plain"
    <3>1. written = [t \in Minutes |-> IF t \in late \cup kept /\ rows[t] = Missing
                                       THEN bars[t] ELSE rows[t]]
      BY <1>5, <2>4 DEF Table!InsertMissing
    <3> HIDE DEF written
    <3> QED
      BY <1>2, <1>4, <2>1, <2>4, <3>1
  <2> QED
    BY <1>3, <2>2, <2>3, <2>4
<1> HIDE DEF written
<1>7. Stamping(job, fails, late \cup kept) = {} \/
      (job.kind # "plain" /\ ~ fails /\ Stamping(job, fails, late \cup kept) = late \cup kept)
  BY DEF Stamping
<1>8. held' \in {0} \cup Minutes
  BY <1>1, <1>2, <1>3, MaxOfMinutes
<1>9. body[Head(queue)] = job
  BY DEF job
<1>11. \A t \in Minutes : rows'[t] \in {rows[t], bars[t]}
  BY <1>1, <1>6
<1>12. job.kind # "refresh" /\ ~ fails =>
         \A t \in job.minutes : ~ bars[t].flat => rows'[t] # Missing
  BY <1>1, <1>6, <1>10
<1> QED
  BY <1>1, <1>2, <1>4, <1>6, <1>7, <1>8, <1>9, <1>11, <1>12

LEMMA StoringNext == IInv /\ [Next]_vars => Storing'
<1> SUFFICES ASSUME IInv, [Next]_vars PROVE Storing'
  OBVIOUS
<1>1. bars' = bars
  BY DEF Next, vars, plane, Fetch, Repeat, GiveUp, PostPlain, PostRefresh, Return, WaitEnds,
     Work, Acknowledge, ChildDies, Listen, Stop
<1>2. ASSUME NEW fails \in BOOLEAN, Work(fails) PROVE Storing'
  <2>1. stamped \subseteq Minutes /\ \A t \in stamped : rows[t] = bars[t]
    BY DEF IInv, Storing
  <2> QED
    BY <1>1, <1>2, <2>1, WorkWrites DEF Storing
<1>3. CASE Acknowledge
  BY <1>1, <1>3 DEF Acknowledge, IInv, Storing
<1>4. CASE ChildDies
  BY <1>1, <1>4 DEF ChildDies, IInv, Storing
<1>5. ASSUME UNCHANGED data PROVE Storing'
  BY <1>1, <1>5 DEF data, IInv, Storing
<1> QED
  BY <1>2, <1>3, <1>4, <1>5 DEF Next, vars, Fetch, Repeat, GiveUp, PostPlain, PostRefresh,
     Return, WaitEnds, Listen, Stop

-----------------------------------------------------------------------------
(* The theorems *)

LEMMA IngestionInductive == (Init => IInv) /\ (IInv /\ [Next]_vars => IInv')
<1>1. ASSUME Init PROVE Storing
  <2>1. 1 \in Minutes
    BY IngestionAssumption DEF Minutes
  <2> QED
    BY <1>1, <2>1 DEF Init, Storing, RowType
<1> QED
  BY <1>1, PostingInit, ServingInit, PostingNext, ServingNext, StoringNext DEF IInv

LEMMA TypesOfInv == IInv => TypeOK
<1> SUFFICES ASSUME IInv PROVE TypeOK
  OBVIOUS
<1>1. /\ queue \in Seq(Jobs) /\ waiting \subseteq handling /\ handling \subseteq Jobs
      /\ child \in {"none", "up", "dead"}
      /\ \A id \in Jobs : outcome[id].state \in {"open", "ok", "failed"}
      /\ \A id \in Jobs : body[id].minutes \subseteq Minutes
  BY DEF IInv, Serving, CallTypes, Payloads, Bodies
<1>2. /\ ea.stage \in {"idle", "posting", "waiting", "complete", "failed"}
      /\ buffer \in [0 .. MaxRuns -> SUBSET Chunks] /\ request \in 0 .. MaxRuns
  BY IngestionAssumption DEF IInv, Posting, Upload, Uploads
<1> QED
  BY <1>1, <1>2 DEF TypeOK, IInv, Storing, RowType

\* However many jobs, executions and minutes: the state of the server, of the process
\* and of the bridge stays within its types, and a caller that is waited for has its
\* handler.
THEOREM UploadTypes == Spec => []TypeOK
BY TypesOfInv, IngestionInductive, PTL DEF Spec

\* history_worker.py:258-292: whatever answers come late, whatever children die and
\* whoever gives up, a caller told that its job was stored is told of its own job,
\* which was committed.
THEOREM OwnAnswers == Spec => []AckMeansWritten
<1>1. IInv => AckMeansWritten
  BY DEF IInv, Serving, Answered
<1> QED
  BY <1>1, IngestionInductive, PTL DEF Spec

\* authoritative_refresh.py:37-116: a refresh replaces its window by every bar of the
\* terminal or leaves it alone, for any number of chunks, in whichever executions of
\* the request they came and however often its buffer expired.
THEOREM WholeWindows == Spec => WindowWhole
<1>1. IInv /\ [Next]_vars =>
        [\A id \in committed' \ committed : body[id].kind = "refresh" => rows' = bars]_vars
  <2> SUFFICES ASSUME IInv, Next, NEW id \in committed' \ committed, body[id].kind = "refresh"
               PROVE  rows' = bars
    OBVIOUS
  <2>1. Work(FALSE) \/ Work(TRUE)
    BY DEF Next, Fetch, Repeat, GiveUp, PostPlain, PostRefresh, Return, WaitEnds, Acknowledge,
       ChildDies, Listen, Stop, data
  <2>2. Work(FALSE) /\ id = Head(queue)
    BY <2>1 DEF Work
  <2> QED
    BY <2>2, WorkWrites
<1> QED
  BY <1>1, IngestionInductive, PTL DEF Spec, WindowWhole

\* history_worker.py:134-140: a row that carries the provenance of the provider is the
\* provider's, though row and provenance are written apart.
THEOREM ProvenanceHolds == Spec => []StampedOfficial
<1>1. IInv => StampedOfficial
  BY DEF IInv, Storing, StampedOfficial
<1> QED
  BY <1>1, IngestionInductive, PTL DEF Spec

-----------------------------------------------------------------------------
(* The process as a service of jobs *)

\* Who was not told anything still waits, and every answer on its way says something.
Says(a) == a.payload.state # "open"
Unheard ==
  /\ \A id \in Jobs : ~ New(id) /\ outcome[id].state = "open" => id \in waiting
  /\ \A i \in 1 .. Len(results) : Says(results[i])
  /\ current # <<>> => Says(current[1])

Asked == {id \in Jobs : ~ New(id)}

LEMMA JobsInit == Init => Unheard /\ Service!Init
<1> SUFFICES ASSUME Init PROVE Unheard /\ Service!Init
  OBVIOUS
<1>1. /\ queue = <<>> /\ results = <<>> /\ child = "none" /\ current = <<>> /\ committed = {}
      /\ outcome = [id \in Jobs |-> Open] /\ stopped = FALSE
      /\ body = [id \in Jobs |-> [kind |-> "plain", run |-> 0, minutes |-> {}]]
  BY DEF Init, RpcInit, Nothing
<1>2. \A id \in Jobs : New(id)
  BY <1>1 DEF New
<1>3. Unheard
  BY <1>1, <1>2 DEF Unheard
<1>4. ~ (stopped /\ child = "none") = TRUE
  BY <1>1
<1>5. [id \in Jobs |-> outcome[id].state] = [id \in Jobs |-> "open"]
  BY <1>1 DEF Open
<1> QED
  BY <1>1, <1>2, <1>3, <1>4, <1>5 DEF Service!Init

\* What the steps below need of the invariant.
LEMMA ServingFacts ==
  ASSUME IInv
  PROVE  /\ queue \in Seq(Jobs) /\ results \in Seq(Answers) /\ waiting \subseteq Asked
         /\ outcome \in [Jobs -> Payloads] /\ body \in [Jobs -> Bodies]
         /\ \A id \in waiting : outcome[id].state = "open"
         /\ \A id \in Jobs : New(id) => outcome[id].state = "open"
BY DEF IInv, Serving, CallTypes, Unused, Unanswered, Asked

\* A job is asked for, and queued or refused.
LEMMA EnqueueAsks ==
  ASSUME IInv, Unheard, NEW id \in Jobs, NEW S \in SUBSET Minutes, S # {}, New(id),
         Enqueue(id, S), UNCHANGED committed
  PROVE  Unheard' /\ Service!Ask(id)
<1>1. /\ body' \in [Jobs -> [kind : {kind}, run : {request}, minutes : {S}] \cup Bodies]
      /\ body'[id].minutes = S /\ \A j \in Jobs \ {id} : body'[j] = body[j]
  BY ServingFacts DEF Enqueue
<1>2. /\ ~ New(id)' /\ \A j \in Jobs \ {id} : New(j)' = New(j)
  BY <1>1 DEF New
<1>3. Asked' = Asked \cup {id} /\ id \notin Asked
  BY <1>2 DEF Asked
<1>4. outcome[id].state = "open"
  BY ServingFacts
<1>5. CASE Submit(id)
  <2>1. /\ ~ stopped /\ child' = "up" /\ waiting' = waiting \cup {id} /\ queue' = Append(queue, id)
        /\ UNCHANGED <<results, outcome, current, stopped>>
    BY <1>5 DEF Submit
  <2>2. Unheard'
    BY <1>2, <2>1 DEF Unheard, Says
  <2>3. (~ (stopped /\ child = "none")) = TRUE /\ (~ (stopped /\ child = "none"))' = TRUE
    BY <2>1
  <2>4. [j \in Jobs |-> outcome[j].state]' = [j \in Jobs |-> outcome[j].state]
    BY <2>1
  <2> QED
    BY <1>3, <1>4, <2>1, <2>2, <2>3, <2>4 DEF Service!Ask, Asked
<1>6. CASE Refuse(id)
  <2>1. /\ outcome' = [outcome EXCEPT ![id] = Payload(FALSE, 0)]
        /\ UNCHANGED <<queue, results, waiting, current, stopped>>
        /\ (stopped /\ child' = child) \/ (~ stopped /\ child' = "up")
    BY <1>6 DEF Refuse
  <2>2. Payload(FALSE, 0).state = "failed"
    BY DEF Payload
  <2>3. outcome'[id].state = "failed" /\ \A j \in Jobs \ {id} : outcome'[j] = outcome[j]
    BY <2>1, <2>2, ServingFacts
  <2>4. Unheard'
    BY <1>2, <2>1, <2>3 DEF Unheard, Says
  <2>5. (~ (stopped /\ child = "none"))' = ~ (stopped /\ child = "none")
    BY <2>1
  <2>6. [j \in Jobs |-> outcome[j].state]' = [[j \in Jobs |-> outcome[j].state] EXCEPT ![id] = "failed"]
    BY <2>3
  <2> QED
    BY <1>3, <1>4, <2>1, <2>4, <2>5, <2>6 DEF Service!Ask, Asked
<1> QED
  BY <1>5, <1>6 DEF Enqueue

\* What touches no job, no answer and no process.
LEMMA NothingAsked ==
  ASSUME Unheard, UNCHANGED <<queue, results, waiting, outcome, current, body, committed>>,
         (stopped /\ child = "none")' = (stopped /\ child = "none")
  PROVE  Unheard' /\ UNCHANGED Service!jsVars
BY DEF Unheard, Says, New, Service!jsVars

LEMMA PostAsks ==
  ASSUME IInv, Unheard, NEW id \in Jobs, PostPlain(id) \/ PostRefresh(id)
  PROVE  Unheard' /\ [Service!Next]_Service!jsVars
<1>1. ASSUME UNCHANGED <<rpcVars, body>>, UNCHANGED committed
      PROVE  Unheard' /\ [Service!Next]_Service!jsVars
  BY <1>1, NothingAsked DEF rpcVars
<1>2. New(id) /\ ea.chunk \in Chunks /\ UNCHANGED committed
  BY DEF PostPlain, PostRefresh, data, IInv, Posting, Upload
<1>3. ASSUME NEW S \in SUBSET Minutes, S # {}, Enqueue(id, S)
      PROVE  Unheard' /\ [Service!Next]_Service!jsVars
  BY <1>2, <1>3, EnqueueAsks DEF Service!Next
<1>4. CASE PostPlain(id)
  <2> DEFINE S == IF kind = "live" THEN Chunk(ea.chunk) ELSE Sanitized(Chunk(ea.chunk))
  <2>1. (S # {} /\ Enqueue(id, S)) \/ UNCHANGED <<rpcVars, body>>
    BY <1>4 DEF PostPlain
  <2>2. S \in SUBSET Minutes
    BY <1>2, ChunkOfWindow, SanitizedOfChunk
  <2> HIDE DEF S
  <2> QED
    BY <1>1, <1>2, <1>3, <2>1, <2>2
<1>5. CASE PostRefresh(id)
  <2>1. Enqueue(id, UNION {Chunk(c) : c \in Chunks}) \/ UNCHANGED <<rpcVars, body>>
    BY <1>5 DEF PostRefresh
  <2>2. Minutes # {}
    BY IngestionAssumption DEF Minutes
  <2> QED
    BY <1>1, <1>2, <1>3, <2>1, <2>2, WindowOfChunks
<1> QED
  BY <1>4, <1>5

\* The next job is taken.
LEMMA WorkTakes ==
  ASSUME IInv, Unheard, NEW fails \in BOOLEAN, Work(fails)
  PROVE  Unheard' /\ Service!Take
<1>1. /\ queue # <<>> /\ queue' = Tail(queue) /\ child = "up"
      /\ UNCHANGED <<results, waiting, outcome, child, body, stopped>>
      /\ committed' = IF fails THEN committed ELSE committed \cup {Head(queue)}
  BY DEF Work, Execute
<1>2. \E n : current' = <<Answer(Head(queue), ~ fails, n)>>
  BY DEF Work, Execute
<1>3. Unheard'
  BY <1>1, <1>2 DEF Unheard, Says, New, Answer, Payload
<1>4. (~ (stopped /\ child = "none")) = TRUE /\ (~ (stopped /\ child = "none"))' = TRUE
  BY <1>1
<1>5. Asked' = Asked /\ [j \in Jobs |-> outcome[j].state]' = [j \in Jobs |-> outcome[j].state]
  BY <1>1 DEF Asked, New
<1> QED
  BY <1>1, <1>3, <1>4, <1>5 DEF Service!Take, Asked

LEMMA ReplyTells ==
  ASSUME IInv, Unheard, Acknowledge
  PROVE  Unheard' /\ UNCHANGED Service!jsVars
<1>1. /\ current # <<>> /\ results' = results \o current /\ current' = <<>>
      /\ UNCHANGED <<queue, waiting, outcome, child, body, committed, stopped>>
  BY DEF Acknowledge, Reply, Nothing
<1>2. PICK a \in Answers : current = <<a>>
  BY <1>1 DEF IInv, Serving, CallTypes
<1>3. /\ Len(results) \in Nat /\ Len(results') = Len(results) + 1
      /\ \A i \in 1 .. Len(results) : results'[i] = results[i]
      /\ results'[Len(results) + 1] = a
  <2>1. results' = Append(results, a)
    BY <1>1, <1>2, ServingFacts, AppendIsConcat
  <2> QED
    BY <2>1, ServingFacts, AppendProperties, LenProperties
<1>4. \A i \in 1 .. Len(results') : Says(results'[i])
  <2>1. \A i \in 1 .. Len(results') : i \in 1 .. Len(results) \/ i = Len(results) + 1
    BY <1>3
  <2> QED
    BY <1>1, <1>2, <1>3, <2>1 DEF Unheard
<1> QED
  BY <1>1, <1>4 DEF Unheard, New, Service!jsVars

\* A job that was taken may die with the child.
LEMMA DeathLoses ==
  ASSUME IInv, Unheard, ChildDies
  PROVE  Unheard' /\ [Service!Next]_Service!jsVars
<1>1. /\ child = "up" /\ child' = "dead" /\ current' = <<>>
      /\ queue' = queue \/ (queue # <<>> /\ queue' = Tail(queue))
      /\ UNCHANGED <<results, waiting, outcome, body, committed, stopped>>
  BY DEF ChildDies, Crash, Nothing
<1>2. Unheard'
  BY <1>1 DEF Unheard, New
<1>3. (~ (stopped /\ child = "none")) = TRUE /\ (~ (stopped /\ child = "none"))' = TRUE
  BY <1>1
<1>4. Asked' = Asked /\ [j \in Jobs |-> outcome[j].state]' = [j \in Jobs |-> outcome[j].state]
  BY <1>1 DEF Asked, New
<1>5. CASE queue' = queue
  BY <1>1, <1>2, <1>3, <1>4, <1>5 DEF Service!jsVars, Asked
<1>6. CASE queue # <<>> /\ queue' = Tail(queue)
  BY <1>1, <1>2, <1>3, <1>4, <1>6 DEF Service!Next, Service!Take, Asked
<1> QED
  BY <1>1, <1>5, <1>6

LEMMA TellIsStep ==
  ASSUME NEW id \in Jobs, Service!Tell(id)
  PROVE  Service!Next
BY DEF Service!Next

\* An answer reaches its caller, if it still waits.
LEMMA ListenTells ==
  ASSUME IInv, Unheard, Listen
  PROVE  Unheard' /\ [Service!Next]_Service!jsVars
<1> DEFINE r == Head(results)
<1>1. /\ results # <<>> /\ results' = Tail(results)
      /\ \/ /\ r.id \in waiting /\ waiting' = waiting \ {r.id}
            /\ outcome' = [outcome EXCEPT ![r.id] = r.payload]
         \/ UNCHANGED <<waiting, outcome>>
      /\ UNCHANGED <<queue, child, current, body, committed, stopped>>
  BY DEF Listen, Collect, data
<1>2. /\ r \in Answers /\ r = results[1] /\ 1 \in 1 .. Len(results)
      /\ \A i \in 1 .. Len(results') : i + 1 \in 1 .. Len(results) /\ results'[i] = results[i + 1]
  BY <1>1, ServingFacts, HeadAndTail
<1>3. /\ r.id \in Jobs /\ r.payload.state \in {"ok", "failed"}
      /\ r.payload.state = "ok" => r.id \in committed
  BY <1>2 DEF Answers, Payloads, Unheard, Says, IInv, Serving, Answered, Earned
<1>4. \A i \in 1 .. Len(results') : Says(results'[i])
  BY <1>2 DEF Unheard
<1>5. Asked' = Asked /\ (~ (stopped /\ child = "none"))' = ~ (stopped /\ child = "none")
  BY <1>1 DEF Asked, New
<1> HIDE DEF r
<1>6. CASE UNCHANGED <<waiting, outcome>>
  BY <1>1, <1>4, <1>6 DEF Unheard, New, Service!jsVars
<1>7. CASE r.id \in waiting /\ waiting' = waiting \ {r.id} /\ outcome' = [outcome EXCEPT ![r.id] = r.payload]
  <2>1. outcome'[r.id] = r.payload /\ \A j \in Jobs \ {r.id} : outcome'[j] = outcome[j]
    BY <1>3, <1>7, ServingFacts
  <2>2. Unheard'
    BY <1>1, <1>3, <1>4, <1>7, <2>1 DEF Unheard, New
  <2>3. [j \in Jobs |-> outcome[j].state]' =
          [[j \in Jobs |-> outcome[j].state] EXCEPT ![r.id] = r.payload.state]
    BY <1>3, <2>1
  <2>4. r.id \in Asked /\ outcome[r.id].state = "open"
    BY <1>7, ServingFacts
  <2>5. PICK id \in Jobs : id = r.id
    BY <1>3
  <2>6. Service!Tell(id)
    BY <1>1, <1>3, <1>5, <2>3, <2>4, <2>5 DEF Service!Tell, Asked
  <2>7. Service!Next
    BY <2>6, TellIsStep
  <2> QED
    BY <2>2, <2>7
<1> QED
  BY <1>1, <1>6, <1>7

\* A caller gives up.
LEMMA ExpireTells ==
  ASSUME IInv, Unheard, NEW id \in Jobs, WaitEnds(id)
  PROVE  Unheard' /\ Service!Tell(id)
<1>1. /\ id \in waiting /\ waiting' = waiting \ {id}
      /\ outcome' = [outcome EXCEPT ![id] = Payload(FALSE, 0)]
      /\ UNCHANGED <<queue, results, child, current, body, committed, stopped>>
  BY DEF WaitEnds, Expire, data
<1>2. outcome'[id].state = "failed" /\ \A j \in Jobs \ {id} : outcome'[j] = outcome[j]
  BY <1>1, ServingFacts DEF Payload
<1>3. Unheard'
  BY <1>1, <1>2 DEF Unheard, New
<1>4. [j \in Jobs |-> outcome[j].state]' = [[j \in Jobs |-> outcome[j].state] EXCEPT ![id] = "failed"]
  BY <1>2
<1>5. Asked' = Asked /\ (~ (stopped /\ child = "none"))' = ~ (stopped /\ child = "none")
  BY <1>1 DEF Asked, New
<1>6. id \in Asked /\ outcome[id].state = "open"
  BY <1>1, ServingFacts
<1> QED
  BY <1>1, <1>3, <1>4, <1>5, <1>6 DEF Service!Tell, Asked

\* Whoever waits when the process is stopped is told so.
LEMMA StopCloses ==
  ASSUME IInv, Unheard, Stop
  PROVE  Unheard' /\ [Service!Next]_Service!jsVars
<1>1. CASE ShutDown
  BY <1>1, NothingAsked DEF Stop, ShutDown, data
<1>2. CASE Finish
  <2>1. /\ stopped /\ child # "none" /\ child' = "none" /\ current' = <<>>
        /\ queue' = <<>> /\ results' = <<>> /\ waiting' = {}
        /\ outcome' = [id \in Jobs |-> IF id \in waiting THEN Payload(FALSE, 0) ELSE outcome[id]]
        /\ UNCHANGED <<body, committed, stopped>>
    BY <1>2 DEF Stop, Finish, data, Nothing
  <2>2. \A id \in Jobs : outcome'[id].state = IF id \in waiting THEN "failed" ELSE outcome[id].state
    BY <2>1 DEF Payload
  <2>3. Unheard'
    <3>1. \A id \in Jobs : ~ New(id) /\ outcome'[id].state = "open" => FALSE
      BY <2>2 DEF Unheard
    <3>2. \A id \in Jobs : New(id)' = New(id)
      BY <2>1 DEF New
    <3>3. \A i \in 1 .. Len(results') : FALSE
      BY <2>1
    <3> QED
      BY <2>1, <3>1, <3>2, <3>3 DEF Unheard, Says
  <2>4. \A id \in Jobs : id \in waiting <=> id \in Asked /\ outcome[id].state = "open"
    BY ServingFacts DEF Unheard, Asked
  <2>5. [id \in Jobs |-> outcome[id].state]' =
          [id \in Jobs |-> IF id \in Asked /\ outcome[id].state = "open"
                           THEN "failed" ELSE outcome[id].state]
    BY <2>2, <2>4
  <2>6. [id \in Jobs |-> outcome[id].state]' =
          [id \in Jobs |-> IF id \in Asked /\ [j \in Jobs |-> outcome[j].state][id] = "open"
                           THEN "failed" ELSE [j \in Jobs |-> outcome[j].state][id]]
    BY <2>5
  <2>7. (~ (stopped /\ child = "none")) = TRUE /\ (~ (stopped /\ child = "none"))' = FALSE
    BY <2>1
  <2>8. Asked' = Asked
    BY <2>1 DEF Asked, New
  <2>9. Service!Close
    BY <2>1, <2>6, <2>7, <2>8 DEF Service!Close, Asked
  <2> QED
    BY <2>3, <2>9 DEF Service!Next
<1> QED
  BY <1>1, <1>2 DEF Stop

LEMMA JobsNext ==
  ASSUME IInv, Unheard, [Next]_vars
  PROVE  Unheard' /\ [Service!Next]_Service!jsVars
<1>1. CASE Fetch \/ Repeat \/ GiveUp \/ UNCHANGED vars
  BY <1>1, NothingAsked DEF Fetch, Repeat, GiveUp, vars, data, rpcVars
<1>2. ASSUME NEW id \in Jobs, PostPlain(id) \/ PostRefresh(id) \/ Return(id) \/ WaitEnds(id)
      PROVE  Unheard' /\ [Service!Next]_Service!jsVars
  <2>1. CASE Return(id)
    BY <2>1, NothingAsked DEF Return, data, rpcVars
  <2>2. CASE WaitEnds(id)
    BY <2>2, ExpireTells DEF Service!Next
  <2> QED
    BY <1>2, <2>1, <2>2, PostAsks
<1>3. CASE Work(FALSE) \/ Work(TRUE)
  BY <1>3, WorkTakes DEF Service!Next
<1>4. CASE Acknowledge \/ ChildDies \/ Listen \/ Stop
  BY <1>4, ReplyTells, DeathLoses, ListenTells, StopCloses
<1> QED
  BY <1>1, <1>2, <1>3, <1>4 DEF Next

\* history_worker.py:167-292: whatever children die, calls are refused, callers give up
\* and answers come late, the process and the threads that call it are a service of jobs
\* as JobService says.
THEOREM ServesJobs == Spec => ImplementsJobs
<1>1. Init => Unheard /\ Service!Init
  BY JobsInit
<1>2. IInv /\ Unheard /\ [Next]_vars => Unheard' /\ [Service!Next]_Service!jsVars
  BY JobsNext
<1> QED
  BY <1>1, <1>2, IngestionInductive, PTL DEF Spec, ImplementsJobs, Service!Spec

\* Jobs are queued once, are asked for before they are done, and are done before anyone
\* is told so.
ToldDone == \A id \in Jobs : outcome[id].state = "ok" => id \in committed
Distinct == \A i, j \in 1 .. Len(queue) : i # j => queue[i] # queue[j]
Promised ==
  /\ queue \in Seq(Asked \ committed) /\ committed \subseteq Asked
  /\ ToldDone /\ Distinct

LEMMA AskPromises ==
  ASSUME Promised, NEW id \in Jobs, Service!Ask(id)
  PROVE  Promised'
<1>1. Asked' = Asked \cup {id} /\ id \notin Asked /\ committed' = committed
  BY DEF Service!Ask, Asked
<1>2. ToldDone'
  <2>1. \/ [j \in Jobs |-> outcome[j].state]' = [j \in Jobs |-> outcome[j].state]
        \/ [j \in Jobs |-> outcome[j].state]' =
             [[j \in Jobs |-> outcome[j].state] EXCEPT ![id] = "failed"]
    BY DEF Service!Ask
  <2>2. \A j \in Jobs : outcome'[j].state = "ok" => outcome[j].state = "ok"
    BY <2>1
  <2> QED
    BY <1>1, <2>2 DEF Promised, ToldDone
<1>3. Asked \ committed \subseteq (Asked \ committed)' /\ id \in (Asked \ committed)'
  BY <1>1 DEF Promised
<1>4. \A T : Asked \ committed \subseteq T => queue \in Seq(T)
  BY DEF Promised
<1>5. CASE queue' = queue
  BY <1>1, <1>2, <1>3, <1>4, <1>5 DEF Promised, Distinct
<1>6. CASE queue' = Append(queue, id)
  <2> DEFINE T == (Asked \ committed)'
  <2>1. queue \in Seq(T) /\ id \in T
    BY <1>3, <1>4
  <2>2. /\ queue' \in Seq(T) /\ Len(queue) \in Nat /\ Len(queue') = Len(queue) + 1
        /\ \A i \in 1 .. Len(queue) : queue'[i] = queue[i]
        /\ queue'[Len(queue) + 1] = id
    <3> HIDE DEF T
    <3> QED
      BY <1>6, <2>1, AppendProperties
  <2>3. \A i \in 1 .. Len(queue) : queue[i] # id
    BY <1>1 DEF Promised
  <2>4. \A i \in 1 .. Len(queue') : i \in 1 .. Len(queue) \/ i = Len(queue) + 1
    BY <2>2
  <2>5. Distinct'
    BY <2>2, <2>3, <2>4 DEF Promised, Distinct
  <2> QED
    BY <1>1, <1>2, <2>2, <2>5 DEF Promised
<1> QED
  BY <1>5, <1>6 DEF Service!Ask

LEMMA TakePromises ==
  ASSUME Promised, Service!Take
  PROVE  Promised'
<1>1. /\ queue # <<>> /\ queue' = Tail(queue) /\ Asked' = Asked
      /\ committed' \in {committed, committed \cup {Head(queue)}}
      /\ [j \in Jobs |-> outcome[j].state]' = [j \in Jobs |-> outcome[j].state]
  BY DEF Service!Take, Asked
<1>2. /\ Tail(queue) \in Seq(Asked \ committed) /\ Head(queue) \in Asked \ committed
      /\ Head(queue) = queue[1] /\ 1 \in 1 .. Len(queue) /\ Len(queue) \in Nat
      /\ \A i \in 1 .. Len(Tail(queue)) : i + 1 \in 1 .. Len(queue) /\ Tail(queue)[i] = queue[i + 1]
  BY <1>1, HeadAndTail DEF Promised
<1>3. ToldDone'
  <2>1. \A j \in Jobs : outcome'[j].state = outcome[j].state
    BY <1>1
  <2> QED
    BY <1>1, <2>1 DEF Promised, ToldDone
<1>4. Len(Tail(queue)) \in Nat /\ DOMAIN Tail(queue) = 1 .. Len(Tail(queue))
  BY <1>2, LenProperties
<1>5. \A i \in 1 .. Len(Tail(queue)) : i \in Nat /\ i + 1 # 1
  BY <1>4
<1>6. \A i \in 1 .. Len(Tail(queue)) : Tail(queue)[i] \in Asked \ committed'
  <2>1. \A i \in 1 .. Len(Tail(queue)) : Tail(queue)[i] # Head(queue)
    BY <1>2, <1>5 DEF Promised, Distinct
  <2>2. \A i \in 1 .. Len(Tail(queue)) : Tail(queue)[i] \in Asked \ committed
    BY <1>2, ElementOfSeq
  <2> QED
    BY <1>1, <2>1, <2>2
<1>7. Tail(queue) \in Seq(Asked \ committed')
  <2>1. Tail(queue) \in [1 .. Len(Tail(queue)) -> Asked \ committed']
    BY <1>2, <1>4, <1>6, LenProperties
  <2> QED
    BY <1>4, <2>1, SeqDef
<1>8. Distinct'
  <2>1. \A i, j \in 1 .. Len(Tail(queue)) : i # j => i + 1 # j + 1
    BY <1>5
  <2> QED
    BY <1>1, <1>2, <2>1 DEF Promised, Distinct
<1>9. committed' \subseteq Asked'
  BY <1>1, <1>2 DEF Promised
<1> QED
  BY <1>1, <1>3, <1>7, <1>8, <1>9 DEF Promised

LEMMA TellPromises ==
  ASSUME Promised, NEW id \in Jobs, Service!Tell(id)
  PROVE  Promised'
<1>1. Asked' = Asked /\ queue' = queue /\ committed' = committed
  BY DEF Service!Tell, Asked
<1>2. \/ id \in committed
      \/ [j \in Jobs |-> outcome[j].state]' =
           [[j \in Jobs |-> outcome[j].state] EXCEPT ![id] = "failed"]
  BY DEF Service!Tell
<1>3. \E o : [j \in Jobs |-> outcome[j].state]' =
               [[j \in Jobs |-> outcome[j].state] EXCEPT ![id] = o]
  BY DEF Service!Tell
<1>4. \A j \in Jobs \ {id} : outcome'[j].state = outcome[j].state
  BY <1>3
<1>5. id \in committed \/ outcome'[id].state = "failed"
  BY <1>2
<1>6. ToldDone'
  BY <1>1, <1>4, <1>5 DEF Promised, ToldDone
<1> QED
  BY <1>1, <1>6 DEF Promised, Distinct

LEMMA ClosePromises ==
  ASSUME Promised, Service!Close
  PROVE  Promised'
<1>1. Asked' = Asked /\ queue' = <<>> /\ committed' = committed
  BY DEF Service!Close, Asked
<1>2. \A j \in Jobs : outcome'[j].state \in {outcome[j].state, "failed"}
  <2>1. [j \in Jobs |-> outcome[j].state]' =
          [j \in Jobs |-> IF j \in Asked /\ [k \in Jobs |-> outcome[k].state][j] = "open"
                         THEN "failed" ELSE [k \in Jobs |-> outcome[k].state][j]]
    BY DEF Service!Close, Asked
  <2> QED
    BY <2>1
<1>3. ToldDone'
  BY <1>1, <1>2 DEF Promised, ToldDone
<1> QED
  BY <1>1, <1>3, EmptySeq DEF Promised, Distinct

LEMMA PromisesNext ==
  ASSUME Promised, [Service!Next]_Service!jsVars
  PROVE  Promised'
<1>1. CASE UNCHANGED Service!jsVars
  <2>1. Asked' = Asked /\ queue' = queue /\ committed' = committed
    BY <1>1 DEF Service!jsVars, Asked
  <2>2. [j \in Jobs |-> outcome[j].state]' = [j \in Jobs |-> outcome[j].state]
    BY <1>1 DEF Service!jsVars
  <2>3. ToldDone'
    BY <2>1, <2>2 DEF Promised, ToldDone
  <2> QED
    BY <2>1, <2>3 DEF Promised, Distinct
<1> QED
  BY <1>1, AskPromises, TellPromises, TakePromises, ClosePromises DEF Service!Next

LEMMA PromisesKept == Promised => Service!Kept
<1> SUFFICES ASSUME Promised PROVE Service!Kept
  OBVIOUS
<1>1. \A i \in 1 .. Len(queue) : queue[i] \in Asked \ committed
  BY ElementOfSeq DEF Promised
<1> QED
  BY <1>1 DEF Promised, ToldDone, Distinct, Service!Kept, Asked

\* What JobService promises follows from its steps alone.
LEMMA ServicePromises == Service!Spec => []Service!Kept
<1>1. Service!Init => Promised
  <2> SUFFICES ASSUME Service!Init PROVE Promised
    OBVIOUS
  <2>1. queue = <<>> /\ committed = {}
    BY DEF Service!Init
  <2>2. \A j \in Jobs : outcome[j].state = "open"
    <3>1. [j \in Jobs |-> outcome[j].state] = [j \in Jobs |-> "open"]
      BY DEF Service!Init
    <3> QED
      BY <3>1
  <2> QED
    BY <2>1, <2>2, EmptySeq DEF Promised, ToldDone, Distinct
<1> QED
  BY <1>1, PromisesNext, PromisesKept, PTL DEF Service!Spec

\* history_worker.py:106-140: no job waits to be done a second time, and a caller is told
\* that its job was done only if it was.
THEOREM JobsOnce == Spec => []Service!Kept
BY ServesJobs, ServicePromises, PTL DEF ImplementsJobs

-----------------------------------------------------------------------------
(* What an upload leaves in the table *)

Repeats(t) == bars[t].flat \/ \E u \in 1 .. t - 1 : bars[u].close = bars[t].close
Stored(t)  == bars[t].flat \/ rows[t] # Missing
Settled(t) == Stored(t) \/ (kind = "plain" /\ Repeats(t))

\* A committed job left no minute that moved without a row.
Landed ==
  /\ \A t \in Minutes : rows[t] \in {Missing, Stale, bars[t]}
  /\ \A id \in committed : id \in Jobs /\ ~ New(id)
  /\ \A id \in committed : body[id].kind # "refresh" => \A t \in body[id].minutes : Stored(t)

\* The job of the chunk under way is of the bridge's request, and lacks only bars
\* that repeat an earlier one.
Carried ==
  \A id \in Jobs : ea.call = <<id>> /\ kind # "refresh" =>
    /\ ~ New(id) /\ body[id].kind = kind
    /\ \A t \in Chunk(ea.chunk) : t \in body[id].minutes \/ (kind = "plain" /\ Repeats(t))

\* The chunks of a plain request are posted in their order; those acknowledged are
\* settled.
Behind == \A c \in Chunks : c < ea.chunk => \A t \in Chunk(c) : Settled(t)
Advanced ==
  /\ kind = "plain" /\ ea.stage \in {"posting", "waiting", "complete"} => Behind
  /\ kind # "refresh" /\ ea.stage = "complete" => \A t \in Chunk(ea.chunk) : Settled(t)
  /\ kind = "plain" /\ ea.stage = "complete" => ea.chunk = Max(Chunks)

MovesInv == Landed /\ Carried /\ Advanced

\* A bar of a chunk that is left out is flat or closes where an earlier one did.
LEMMA LeftOut ==
  ASSUME Posting, Landed, NEW c \in Chunks, NEW t \in Chunk(c), t \notin Sanitized(Chunk(c))
  PROVE  Repeats(t)
<1> DEFINE S == Chunk(c)
           E == Before(Changes(S), t)
<1>1. S \in SUBSET Minutes /\ S # {} /\ t \in S /\ Minutes = 1 .. MaxMinute /\ MaxMinute \in Nat
  BY ChunkOfWindow, IngestionAssumption DEF Minutes
<1> HIDE DEF S
<1>2. ~ Changed(S, E, t)
  <2>1. t \notin Changes(S)
    BY DEF S, Sanitized
  <2> QED
    BY <1>1, <2>1, ChangesExist
<1>3. E \in SUBSET Minutes /\ \A u \in E : u < t
  BY <1>1, ChangesExist DEF Before
<1> HIDE DEF E
<1>4. /\ LastBar(S, E) # 0
      /\ Unchanged(bars[t], IF E = {} THEN rows[LastBar(S, E)] ELSE bars[LastBar(S, E)])
  BY <1>2 DEF Changed
<1>5. CASE E # {}
  <2>1. LastBar(S, E) = Max(E) /\ Max(E) \in E
    BY <1>3, <1>5, MaxOfMinutes DEF LastBar
  <2>2. Max(E) \in 1 .. t - 1
    <3>1. Max(E) \in 1 .. MaxMinute /\ t \in 1 .. MaxMinute /\ Max(E) < t /\ MaxMinute \in Nat
      BY <1>1, <1>3, <2>1
    <3> QED
      BY <3>1
  <2>3. Unchanged(bars[t], bars[Max(E)])
    BY <1>4, <1>5, <2>1
  <2> QED
    BY <2>2, <2>3 DEF Unchanged, Repeats
<1>6. CASE E = {}
  <2> DEFINE P == Table!Present(rows, 1 .. Min(S))
  <2>1. Min(S) \in Minutes /\ Min(S) <= t
    BY <1>1, MinOfMinutes
  <2>2. P \in SUBSET Minutes /\ \A r \in P : r \in 1 .. Min(S) /\ rows[r] # Missing
    BY <1>1, <2>1 DEF Table!Present
  <2>3. LastRow(S) = LastBar(S, E)
    BY <1>6 DEF LastBar
  <2>4. P # {} /\ Max(P) # Min(S) /\ LastBar(S, E) = Max(P)
    BY <1>4, <2>3 DEF LastRow
  <2> HIDE DEF P
  <2>5. Max(P) \in P
    BY <2>2, <2>4, MaxOfMinutes
  <2>6. Max(P) \in 1 .. t - 1 /\ Max(P) \in Minutes /\ rows[Max(P)] # Missing
    <3>1. Max(P) \in Minutes /\ Max(P) \in 1 .. Min(S) /\ rows[Max(P)] # Missing
      BY <2>2, <2>5
    <3>2. /\ Max(P) \in 1 .. MaxMinute /\ t \in 1 .. MaxMinute /\ Min(S) \in 1 .. MaxMinute
          /\ Max(P) <= Min(S) /\ Max(P) # Min(S) /\ Min(S) <= t /\ MaxMinute \in Nat
      BY <1>1, <2>1, <2>4, <3>1
    <3>3. Max(P) \in 1 .. t - 1
      BY <3>2
    <3> QED
      BY <3>1, <3>3
  <2>7. rows[Max(P)] \in {Stale, bars[Max(P)]}
    BY <2>6 DEF Landed
  <2>8. bars[t] # Stale
    BY <1>1 DEF Posting, Bars, Stale
  <2>9. Unchanged(bars[t], rows[Max(P)])
    BY <1>4, <1>6, <2>4
  <2>10. bars[t].flat \/ rows[Max(P)] = bars[Max(P)]
    BY <2>7, <2>8, <2>9 DEF Unchanged
  <2> QED
    BY <2>6, <2>9, <2>10 DEF Unchanged, Repeats
<1> QED
  BY <1>5, <1>6

\* A row is never taken away: a window is replaced only by all of it.
LEMMA RowsStay ==
  ASSUME IInv, Landed, [Next]_vars
  PROVE  /\ bars' = bars
         /\ \A t \in Minutes : rows'[t] \in {Missing, Stale, bars[t]}
         /\ \A t \in Minutes : rows[t] # Missing => rows'[t] # Missing
<1>1. bars' = bars
  BY DEF Next, vars, plane, Fetch, Repeat, GiveUp, PostPlain, PostRefresh, Return, WaitEnds,
     Work, Acknowledge, ChildDies, Listen, Stop
<1>2. \A t \in Minutes : rows'[t] \in {rows[t], bars[t]}
  <2>1. Work(FALSE) \/ Work(TRUE) \/ rows' = rows
    BY DEF Next, vars, data, Fetch, Repeat, GiveUp, PostPlain, PostRefresh, Return, WaitEnds,
       Acknowledge, ChildDies, Listen, Stop
  <2> QED
    BY <2>1, WorkWrites
<1>3. \A t \in Minutes : bars[t] # Missing
  BY DEF IInv, Posting, Bars, Missing
<1> QED
  BY <1>1, <1>2, <1>3 DEF Landed

\* What is settled stays so while the request lasts.
LEMMA SettledStays ==
  ASSUME IInv, Landed, [Next]_vars
  PROVE  /\ \A t \in Minutes : Stored(t) => Stored(t)'
         /\ \A t \in Minutes : Repeats(t) => Repeats(t)'
         /\ kind' = kind => \A t \in Minutes : Settled(t) => Settled(t)'
<1>1. /\ bars' = bars
      /\ \A t \in Minutes : rows[t] # Missing => rows'[t] # Missing
  BY RowsStay
<1>2. \A t \in Minutes : (Stored(t) => Stored(t)') /\ (Repeats(t) => Repeats(t)')
  BY <1>1 DEF Stored, Repeats
<1> QED
  BY <1>2 DEF Settled

\* A job once posted keeps what it carries.
LEMMA BodyStays ==
  ASSUME IInv, [Next]_vars, NEW id \in Jobs, ~ New(id)
  PROVE  body'[id] = body[id] /\ ~ New(id)'
<1>1. body' = body \/ \E j \in Jobs : New(j) /\ \E b : body' = [body EXCEPT ![j] = b]
  <2>1. ASSUME NEW j \in Jobs, PostPlain(j) \/ PostRefresh(j)
        PROVE  body' = body \/ (New(j) /\ \E b : body' = [body EXCEPT ![j] = b])
    BY <2>1 DEF PostPlain, PostRefresh, Enqueue
  <2> QED
    BY <2>1 DEF Next, vars, Fetch, Repeat, GiveUp, Return, WaitEnds, Work, Acknowledge,
       ChildDies, Listen, Stop
<1>2. body'[id] = body[id]
  BY <1>1 DEF IInv, Serving, CallTypes
<1> QED
  BY <1>2 DEF New

LEMMA LandedNext ==
  ASSUME IInv, Landed, [Next]_vars
  PROVE  Landed'
<1>1. \A t \in Minutes : rows'[t] \in {Missing, Stale, bars'[t]}
  BY RowsStay
<1>2. \A t \in Minutes : Stored(t) => Stored(t)'
  BY SettledStays
<1>3. \A id \in committed : body'[id] = body[id] /\ ~ New(id)'
  BY BodyStays DEF Landed
<1>4. \A id \in Jobs : body[id].minutes \subseteq Minutes
  BY DEF IInv, Serving, CallTypes, Bodies
<1>5. ASSUME NEW id \in committed' \ committed
      PROVE  /\ id \in Jobs /\ ~ New(id)'
             /\ body'[id].kind # "refresh" => \A t \in body'[id].minutes : Stored(t)'
  <2>1. Work(FALSE) /\ id = Head(queue) /\ queue # <<>>
    BY <1>5 DEF Next, vars, Fetch, Repeat, GiveUp, PostPlain, PostRefresh, Return, Acknowledge,
       WaitEnds, ChildDies, Listen, Stop, data, Work
  <2>2. id \in Jobs /\ ~ New(id)
    <3>1. queue \in Seq(Jobs)
      BY DEF IInv, Serving, CallTypes
    <3>2. id \in Jobs /\ id = queue[1] /\ 1 \in 1 .. Len(queue)
      BY <2>1, <3>1, HeadAndTail
    <3> QED
      BY <3>2 DEF IInv, Serving, Queued
  <2>3. body'[id] = body[id] /\ ~ New(id)'
    BY <2>2, BodyStays
  <2>4. body[id].kind # "refresh" => \A t \in body[id].minutes : ~ bars[t].flat => rows'[t] # Missing
    BY <2>1, WorkWrites
  <2>5. bars' = bars
    BY RowsStay
  <2> QED
    BY <2>2, <2>3, <2>4, <2>5 DEF Stored
<1>6. ASSUME NEW id \in committed, body'[id].kind # "refresh", NEW t \in body'[id].minutes
      PROVE  Stored(t)'
  <2>1. id \in Jobs /\ t \in body[id].minutes /\ body[id].kind # "refresh"
    BY <1>3, <1>6 DEF Landed
  <2> QED
    BY <1>2, <1>4, <2>1 DEF Landed
<1> QED
  BY <1>1, <1>3, <1>5, <1>6 DEF Landed

\* An upload that goes on after its chunk is settled.
LEMMA AcceptedAdvances ==
  ASSUME IInv, MovesInv, [Next]_vars, ea.stage \in {"posting", "waiting"}, kind' = kind,
         ea' = Accepted, kind # "refresh" => \A t \in Chunk(ea.chunk) : Settled(t)'
  PROVE  Carried' /\ Advanced'
<1>1. ea \in Uploads /\ ea.chunk \in Chunks /\ Chunks \subseteq Nat
  BY ChunkAfter DEF IInv, Posting, Upload
<1>2. \A c \in Chunks : Chunk(c) \subseteq Minutes
  BY ChunkOfWindow
<1>3. kind = "plain" => \A c \in Chunks : c < ea.chunk => \A t \in Chunk(c) : Settled(t)'
  BY <1>2, SettledStays DEF MovesInv, Advanced, Behind
<1>9. \A c \in Chunks : /\ c <= ea.chunk => c < ea.chunk \/ c = ea.chunk
                        /\ c < ea.chunk + 1 => c <= ea.chunk
  <2>1. SUFFICES ASSUME NEW c \in Nat, NEW n \in Nat
                 PROVE (c <= n => c < n \/ c = n) /\ (c < n + 1 => c <= n)
    BY <1>1
  <2> QED
    OBVIOUS
<1>4. kind = "plain" => \A c \in Chunks : c <= ea.chunk => \A t \in Chunk(c) : Settled(t)'
  BY <1>3, <1>9
<1>5. ea'.call = <<>>
  BY <1>1 DEF Accepted, Uploads, Nothing
<1>6. Carried'
  BY <1>5 DEF Carried
<1>7. CASE LastChunk
  <2>1. ea'.chunk = ea.chunk /\ ea'.stage = "complete"
    BY <1>1, <1>7 DEF Accepted, Uploads
  <2>2. kind = "plain" => Behind'
    BY <1>3, <2>1 DEF Behind, Chunks, Chunk
  <2>3. kind # "refresh" => \A t \in Chunk(ea'.chunk) : Settled(t)'
    BY <2>1
  <2> QED
    BY <1>6, <1>7, <2>1, <2>2, <2>3 DEF Advanced, LastChunk
<1>8. CASE ~ LastChunk
  <2>1. ea'.chunk = ea.chunk + 1 /\ ea'.stage = "posting"
    BY <1>1, <1>8 DEF Accepted, Uploads
  <2>3. kind = "plain" => Behind'
    BY <1>4, <1>9, <2>1 DEF Behind
  <2> QED
    BY <1>6, <2>1, <2>3 DEF Advanced
<1> QED
  BY <1>7, <1>8

\* An upload at the same chunk, waiting for nothing new or given up.
LEMMA StandingStays ==
  ASSUME IInv, MovesInv, [Next]_vars, kind' = kind,
         ea' = ea \/ (ea'.stage \in {"idle", "failed"} /\ ea'.call = <<>>)
  PROVE  Carried' /\ Advanced'
<1>1. \A c \in Chunks : Chunk(c) \subseteq Minutes
  BY ChunkOfWindow
<1>2. CASE ea'.stage \in {"idle", "failed"} /\ ea'.call = <<>>
  BY <1>2 DEF Carried, Advanced
<1>3. CASE ea' = ea
  <2>1. ea.stage # "idle" => ea.chunk \in Chunks
    BY DEF IInv, Posting, Upload
  <2>2. ASSUME NEW id \in Jobs, ea.call = <<id>>, kind # "refresh"
        PROVE  body'[id] = body[id] /\ ~ New(id)'
    <3>1. ~ New(id)
      BY <2>2 DEF MovesInv, Carried
    <3> QED
      BY <3>1, BodyStays
  <2>3. \A t \in Minutes : (Settled(t) => Settled(t)') /\ (Repeats(t) => Repeats(t)')
    BY SettledStays DEF MovesInv
  <2>4. Carried'
    <3>1. SUFFICES ASSUME NEW id \in Jobs, ea.call = <<id>>, kind # "refresh"
                   PROVE  /\ ~ New(id)' /\ body'[id].kind = kind
                          /\ \A t \in Chunk(ea.chunk) :
                               t \in body'[id].minutes \/ (kind = "plain" /\ Repeats(t)')
      BY <1>3 DEF Carried
    <3>2. ea.chunk \in Chunks
      BY <2>1, <3>1 DEF IInv, Posting, Upload
    <3> QED
      BY <1>1, <2>2, <2>3, <3>1, <3>2 DEF MovesInv, Carried
  <2>5. Behind => Behind'
    BY <1>1, <1>3, <2>3 DEF Behind
  <2>6. Advanced'
    BY <1>1, <1>3, <2>1, <2>3, <2>5 DEF MovesInv, Advanced
  <2> QED
    BY <2>4, <2>6
<1> QED
  BY <1>2, <1>3

LEMMA PostAdvances ==
  ASSUME IInv, MovesInv, [Next]_vars, NEW id \in Jobs, PostPlain(id)
  PROVE  Carried' /\ Advanced'
<1> DEFINE S == IF kind = "live" THEN Chunk(ea.chunk) ELSE Sanitized(Chunk(ea.chunk))
<1>1. /\ ea.stage = "posting" /\ kind \in {"live", "plain"} /\ kind' = kind
      /\ (S # {} /\ Enqueue(id, S)) \/ (S = {} /\ ea' = Accepted)
  BY DEF PostPlain, plane, IInv, Posting
<1>2. /\ ea \in Uploads /\ ea.chunk \in Chunks
      /\ Chunk(ea.chunk) \subseteq Minutes /\ Chunk(ea.chunk) # {}
  BY <1>1, ChunkOfWindow DEF IInv, Posting, Upload
<1>3. \A t \in Chunk(ea.chunk) : t \in S \/ (kind = "plain" /\ Repeats(t))
  BY <1>1, <1>2, LeftOut DEF IInv, MovesInv
<1>4. kind = "live" => S # {}
  BY <1>2
<1> HIDE DEF S
<1>5. CASE S = {} /\ ea' = Accepted
  <2>1. \A t \in Chunk(ea.chunk) : Settled(t)'
    <3>1. \A t \in Chunk(ea.chunk) : Settled(t)
      BY <1>1, <1>3, <1>5 DEF Settled
    <3> QED
      BY <1>1, <1>2, <3>1, SettledStays DEF MovesInv
  <2> QED
    BY <1>1, <1>5, <2>1, AcceptedAdvances
<1>6. CASE S # {} /\ Enqueue(id, S)
  <2>1. /\ ea' = [ea EXCEPT !.stage = "waiting", !.call = <<id>>]
        /\ body' = [body EXCEPT ![id] = [kind |-> kind, run |-> request, minutes |-> S]]
    BY <1>6 DEF Enqueue
  <2>2. ea'.stage = "waiting" /\ ea'.call = <<id>> /\ ea'.chunk = ea.chunk
    BY <1>2, <2>1 DEF Uploads
  <2>3. body'[id] = [kind |-> kind, run |-> request, minutes |-> S]
    BY <2>1 DEF IInv, Serving, CallTypes
  <2>4. \A t \in Minutes : Repeats(t) => Repeats(t)'
    BY SettledStays DEF MovesInv
  <2>5. Carried'
    <3>1. \A j \in Jobs : ea'.call = <<j>> => j = id
      BY <2>2
    <3>2. body'[id].kind = kind' /\ ~ New(id)' /\ body'[id].minutes = S
      BY <1>1, <1>6, <2>3 DEF New
    <3>3. \A t \in Chunk(ea'.chunk) : t \in body'[id].minutes \/ (kind' = "plain" /\ Repeats(t)')
      BY <1>1, <1>2, <1>3, <2>2, <2>4, <3>2
    <3> QED
      BY <3>1, <3>2, <3>3 DEF Carried
  <2>6. Advanced'
    <3>1. \A c \in Chunks : Chunk(c) \subseteq Minutes
      BY ChunkOfWindow
    <3>2. kind = "plain" => Behind
      BY <1>1 DEF MovesInv, Advanced
    <3>3. kind = "plain" => Behind'
      BY <1>1, <2>2, <3>1, <3>2, SettledStays DEF Behind, MovesInv
    <3> QED
      BY <1>1, <2>2, <3>3 DEF Advanced
  <2> QED
    BY <2>5, <2>6
<1> QED
  BY <1>1, <1>5, <1>6

\* A chunk whose job is told to be stored is settled.
LEMMA ReturnAdvances ==
  ASSUME IInv, MovesInv, [Next]_vars, NEW id \in Jobs, Return(id)
  PROVE  Carried' /\ Advanced'
<1>1. kind' = kind /\ ea.chunk \in Nat /\ ea \in Uploads
  BY DEF Return, plane, IInv, Posting, Upload, Uploads
<1>2. CASE ea' = ea
  BY <1>1, <1>2, StandingStays
<1>3. CASE ea' = Rejected
  <2>1. ea'.stage = "failed" /\ ea'.call = <<>>
    BY <1>1, <1>3 DEF Rejected, Nothing, Uploads
  <2> QED
    BY <1>1, <2>1, StandingStays
<1>4. CASE ea.call = <<id>> /\ outcome[id].state = "ok" /\ ea' = Accepted
  <2>1. ea.stage = "waiting" /\ ea.chunk \in Chunks
    BY <1>4 DEF IInv, Posting, Upload
  <2>2. id \in committed
    BY <1>4 DEF IInv, Serving, Answered, AckMeansWritten
  <2>3. Chunk(ea.chunk) \subseteq Minutes
    BY <2>1, ChunkOfWindow
  <2>4. kind # "refresh" => \A t \in Chunk(ea.chunk) : Settled(t)
    <3>1. SUFFICES ASSUME kind # "refresh", NEW t \in Chunk(ea.chunk) PROVE Settled(t)
      OBVIOUS
    <3>2. /\ body[id].kind = kind
          /\ t \in body[id].minutes \/ (kind = "plain" /\ Repeats(t))
      BY <1>4, <3>1 DEF MovesInv, Carried
    <3>3. t \in body[id].minutes => Stored(t)
      BY <2>2, <3>1, <3>2 DEF MovesInv, Landed
    <3> QED
      BY <3>2, <3>3 DEF Settled
  <2>5. kind # "refresh" => \A t \in Chunk(ea.chunk) : Settled(t)'
    BY <1>1, <2>3, <2>4, SettledStays DEF MovesInv
  <2> QED
    BY <1>1, <1>4, <2>1, <2>5, AcceptedAdvances
<1> QED
  BY <1>2, <1>3, <1>4 DEF Return

LEMMA MovesNext == IInv /\ MovesInv /\ [Next]_vars => MovesInv'
<1> SUFFICES ASSUME IInv, MovesInv, [Next]_vars PROVE MovesInv'
  OBVIOUS
<1>1. Landed'
  BY LandedNext DEF MovesInv
<1>2. ASSUME ea'.stage = "posting", ea'.call = <<>>, kind' = "plain" => ea'.chunk = 1
      PROVE  Carried' /\ Advanced'
  <2>1. \A c \in Chunks : ~ (c < 1)
    BY ChunksFit DEF Chunks
  <2> QED
    BY <1>2, <2>1 DEF Carried, Advanced, Behind
<1>3. CASE Fetch
  <2>1. PICK k \in Kinds, c \in Chunks :
          /\ k # "live" => c = 1
          /\ kind' = k
          /\ ea' = [stage |-> "posting", chunk |-> c, call |-> Nothing]
    BY <1>3 DEF Fetch
  <2> QED
    BY <1>1, <1>2, <2>1 DEF MovesInv, Nothing
<1>4. CASE Repeat
  <2>1. ea' = [stage |-> "posting", chunk |-> IF kind = "live" THEN ea.chunk ELSE 1, call |-> Nothing]
        /\ kind' = kind
    BY <1>4 DEF Repeat
  <2> QED
    BY <1>1, <1>2, <2>1 DEF MovesInv, Nothing
<1>5. CASE GiveUp
  <2>1. ea'.stage = "failed" /\ ea'.call = <<>> /\ kind' = kind
    BY <1>5 DEF GiveUp, Rejected, Nothing, plane, IInv, Posting, Upload, Uploads
  <2> QED
    BY <1>1, <2>1, StandingStays DEF MovesInv
<1>6. ASSUME NEW id \in Jobs, PostPlain(id) PROVE MovesInv'
  BY <1>1, <1>6, PostAdvances DEF MovesInv
<1>7. ASSUME NEW id \in Jobs, PostRefresh(id) PROVE MovesInv'
  <2>1. kind' = "refresh"
    BY <1>7 DEF PostRefresh, plane
  <2> QED
    BY <1>1, <2>1 DEF MovesInv, Carried, Advanced
<1>8. ASSUME NEW id \in Jobs, Return(id) PROVE MovesInv'
  BY <1>1, <1>8, ReturnAdvances DEF MovesInv
<1>9. ASSUME UNCHANGED <<plane, ea>> PROVE MovesInv'
  BY <1>1, <1>9, StandingStays DEF MovesInv, plane
<1> QED
  BY <1>3, <1>4, <1>5, <1>6, <1>7, <1>8, <1>9 DEF Next, vars, WaitEnds, Work, Acknowledge,
     ChildDies, Listen, Stop

\* web.py:877-1004, bridge.py:485-510: when the terminal reports an upload complete,
\* every bar of it that moved has a row, or closes where an earlier one did: whatever
\* was repeated under the same id, given up, or answered late.
THEOREM MovesKept == Spec => []MovesStored
<1>1. Init => MovesInv
  BY DEF Init, Idle, Nothing, MovesInv, Landed, Carried, Advanced
<1>2. IInv /\ MovesInv => MovesStored
  <2> SUFFICES ASSUME IInv, MovesInv, ea.stage = "complete",
                      NEW t \in IF kind = "live" THEN Chunk(ea.chunk) ELSE Minutes,
                      kind # "refresh"
               PROVE  \/ bars[t].flat \/ rows[t] # Missing
                      \/ kind = "plain" /\ \E u \in 1 .. t - 1 : bars[u].close = bars[t].close
    BY DEF MovesStored
  <2>1. kind \in {"live", "plain"}
    BY DEF IInv, Posting
  <2>2. Settled(t)
    <3>1. CASE kind = "live"
      BY <3>1 DEF MovesInv, Advanced
    <3>2. CASE kind = "plain"
      <4>1. PICK c \in Chunks : t \in Chunk(c)
        BY <3>2, WindowOfChunks
      <4>2. c < ea.chunk \/ c = ea.chunk
        <5>1. ea.chunk = Max(Chunks)
          BY <3>2 DEF MovesInv, Advanced
        <5>2. ea.chunk \in Nat /\ c \in Nat /\ c <= ea.chunk
          BY <5>1, ChunkAfter
        <5> QED
          BY <5>2
      <4>3. \A t2 \in Chunk(c) : Settled(t2)
        BY <3>2, <4>2 DEF MovesInv, Advanced, Behind
      <4> QED
        BY <4>1, <4>3
    <3> QED
      BY <2>1, <3>1, <3>2
  <2> QED
    BY <2>2 DEF Settled, Stored, Repeats
<1> QED
  BY <1>1, <1>2, MovesNext, IngestionInductive, PTL DEF Spec

-----------------------------------------------------------------------------
(* GapRepair *)

\* The instance of GapRepair, with its theorems.
Scans == INSTANCE GapRepairProofs WITH
  Open <- ExpectedOpen, Limit <- GapLimit, MaxCalls <- MaxScans, calls <- asked

\* The steps of the instance in MCCandlePaths are steps of this one.
LEMMA ScansNext == Gaps!Next => Scans!Next
<1>1. ASSUME NEW a \in Threads
      PROVE  /\ Gaps!Step(a) => Scans!Step(a)
             /\ Gaps!RepairGaps(a) => Scans!RepairGaps(a)
  <2>1. Gaps!Upsert(a) => Scans!Upsert(a)
    BY DEF Gaps!Upsert, Scans!Upsert, Gaps!Fetched, Scans!Fetched, Gaps!Do, Scans!Do,
           Gaps!Phase, Scans!Phase
  <2>2. Gaps!Read(a) => Scans!Read(a)
    BY DEF Gaps!Read, Scans!Read, Gaps!Do, Scans!Do, Gaps!Phase, Scans!Phase
  <2>3. Gaps!Clear(a) => Scans!Clear(a)
    BY DEF Gaps!Clear, Scans!Clear, Gaps!DoTaking, Scans!DoTaking,
           Gaps!Uncounted, Scans!Uncounted, Gaps!Phase, Scans!Phase
  <2>4. Gaps!Record(a) => Scans!Record(a)
    BY DEF Gaps!Record, Scans!Record, Gaps!Gap, Scans!Gap, Gaps!Min, Scans!Min, Gaps!Do,
           Scans!Do, Gaps!Phase, Scans!Phase
  <2>5. Gaps!Scanned(a) => Scans!Scanned(a)
    BY DEF Gaps!Scanned, Scans!Scanned, Gaps!NoTask, Scans!NoTask, Gaps!Do, Scans!Do,
           Gaps!Phase, Scans!Phase
  <2>6. Gaps!FetchWindow(a) => Scans!FetchWindow(a)
    BY DEF Gaps!FetchWindow, Scans!FetchWindow, Gaps!Fetched, Scans!Fetched, Gaps!Window,
           Scans!Window, Gaps!Do, Scans!Do, Gaps!Phase, Scans!Phase
  <2>7. Gaps!FetchedAll(a) => Scans!FetchedAll(a)
    BY DEF Gaps!FetchedAll, Scans!FetchedAll, Gaps!Do, Scans!Do, Gaps!Phase, Scans!Phase
  <2>8. Gaps!Resolve(a) => Scans!Resolve(a)
    BY DEF Gaps!Resolve, Scans!Resolve, Gaps!Do, Scans!Do, Gaps!Phase, Scans!Phase
  <2>9. Gaps!Repaired(a) => Scans!Repaired(a)
    BY DEF Gaps!Repaired, Scans!Repaired, Gaps!NoTask, Scans!NoTask, Gaps!Do, Scans!Do,
           Gaps!Phase, Scans!Phase
  <2>10. Gaps!Delete(a) => Scans!Delete(a)
    BY DEF Gaps!Delete, Scans!Delete, Gaps!Fetched, Scans!Fetched, Gaps!Times,
           Scans!Times, Gaps!DoTaking, Scans!DoTaking, Gaps!Uncounted, Scans!Uncounted,
           Gaps!Phase, Scans!Phase
  <2>11. Gaps!ClearWindow(a) => Scans!ClearWindow(a)
    BY DEF Gaps!ClearWindow, Scans!ClearWindow, Gaps!DoTaking, Scans!DoTaking,
           Gaps!Uncounted, Scans!Uncounted, Gaps!Phase, Scans!Phase
  <2>12. Gaps!WriteAccepted(a) => Scans!WriteAccepted(a)
    BY DEF Gaps!WriteAccepted, Scans!WriteAccepted, Gaps!NoTask, Scans!NoTask, Gaps!Do,
           Scans!Do, Gaps!Phase, Scans!Phase
  <2>13. Gaps!Fail(a) => Scans!Fail(a)
    BY DEF Gaps!Fail, Scans!Fail, Gaps!NoTask, Scans!NoTask, Gaps!DoTaking, Scans!DoTaking,
           Gaps!Uncounted, Scans!Uncounted, Gaps!Phase, Scans!Phase
  <2>14. Gaps!RepairGaps(a) => Scans!RepairGaps(a)
    <3>1. \A S : Gaps!Earliest(S) = Scans!Earliest(S)
      BY DEF Gaps!Earliest, Scans!Earliest, Gaps!Cardinality, Scans!Cardinality
    <3>2. \A r : Gaps!Call(a, r) = Scans!Call(a, r)
      BY DEF Gaps!Call, Scans!Call, Gaps!NoTask, Scans!NoTask, Gaps!Do, Scans!Do
    <3> QED
      BY <3>1, <3>2 DEF Gaps!RepairGaps, Scans!RepairGaps, Gaps!NoTask, Scans!NoTask
  <2> QED
    BY <2>1, <2>2, <2>3, <2>4, <2>5, <2>6, <2>7, <2>8, <2>9, <2>10, <2>11, <2>12, <2>13,
       <2>14 DEF Gaps!Step, Scans!Step
<1>2. ASSUME NEW a \in Threads, NEW lo, NEW hi
      PROVE  /\ Gaps!Backfill(a, lo, hi) => Scans!Backfill(a, lo, hi)
             /\ Gaps!Rebuild(a, lo, hi) => Scans!Rebuild(a, lo, hi)
  BY DEF Gaps!Backfill, Scans!Backfill, Gaps!Rebuild, Scans!Rebuild,
         Gaps!Call, Scans!Call, Gaps!NoTask, Scans!NoTask, Gaps!Do, Scans!Do
<1>3. ASSUME NEW a \in Threads, NEW lo, NEW aligned \in BOOLEAN
      PROVE  Gaps!Scan(a, lo, aligned) => Scans!Scan(a, lo, aligned)
  BY DEF Gaps!Scan, Scans!Scan, Gaps!Call, Scans!Call, Gaps!NoTask, Scans!NoTask, Gaps!Do,
         Scans!Do
<1>4. \A new, gone : Gaps!Import(new, gone) => Scans!Import(new, gone)
  BY DEF Gaps!Import, Scans!Import, Gaps!Uncounted, Scans!Uncounted
<1>5. Gaps!Times = Scans!Times
  BY DEF Gaps!Times, Scans!Times
<1>6. CASE \E a \in Threads : Gaps!Step(a) \/ Gaps!RepairGaps(a)
  BY <1>1, <1>6 DEF Scans!Next
<1>7. CASE \E a \in Threads, lo \in Gaps!Times :
            \E hi \in lo..MaxTime : Gaps!Backfill(a, lo, hi) \/ Gaps!Rebuild(a, lo, hi)
  BY <1>2, <1>5, <1>7, Zenon DEF Scans!Next
<1>8. CASE \E a \in Threads, lo \in Gaps!Times :
            \E aligned \in BOOLEAN : Gaps!Scan(a, lo, aligned)
  BY <1>3, <1>5, <1>8, Zenon DEF Scans!Next
<1>9. CASE \E new \in SUBSET (Gaps!Times \ candles), gone \in SUBSET candles :
            Gaps!Import(new, gone)
  BY <1>4, <1>5, <1>9, Zenon DEF Scans!Next
<1> QED
  BY <1>6, <1>7, <1>8, <1>9, Zenon DEF Gaps!Next

\* history.py:152-178: for every calendar, number of threads and of operations, with
\* candles added and taken away at any time, each time that counts as scanned and is
\* expected to be open has a candle or an open gap once nothing is under way.
THEOREM ScansComplete ==
  ASSUME MaxTime \in Nat
  PROVE  MCSpec => []ScanComplete
<1>1. MCInit => Scans!Init
  BY DEF MCInit, Gaps!Init, Scans!Init, Gaps!NoTask, Scans!NoTask
<1>2. path = "gaps" /\ [MCNext]_paths => [Scans!Next]_Scans!vars
  BY ScansNext DEF MCNext, paths, scans, Scans!vars
<1>3. path = "gaps" /\ [MCNext]_paths => (path = "gaps")'
  BY DEF MCNext, paths
<1>4. ~ (path = "gaps") /\ [MCNext]_paths => (~ (path = "gaps"))'
  BY DEF MCNext, paths
<1>5. Scans!ScanComplete => ScanComplete
  BY DEF ScanComplete, Gaps!ScanComplete, Scans!ScanComplete, Gaps!NoTask, Scans!NoTask
<1>6. ~ (path = "gaps") => ScanComplete
  BY DEF ScanComplete
<1>7. Scans!Spec => []Scans!ScanComplete
  <2>1. Scans!Spec => [](Scans!TypeOK /\ Scans!ScanComplete)
    BY Scans!ScansHold
  <2> QED
    BY <2>1, PTL
<1> QED
  BY <1>1, <1>2, <1>3, <1>4, <1>5, <1>6, <1>7, PTL DEF MCSpec, Scans!Spec
-----------------------------------------------------------------------------
(* ProviderStream *)

\* The instance of ProviderStream, with its theorems.
Live == INSTANCE ProviderStreamProofs WITH MaxMinute <- SessionMinutes, rows <- table

\* The operators of the two instances are the same: the builder's,
LEMMA LiveIngest ==
  /\ Session!Minutes = Live!Minutes /\ Session!Missing = Live!Missing
  /\ \A r, f : Session!Upsert(r, f) = Live!Upsert(r, f)
  /\ \A r, a : Session!Finalize(r, a) = Live!Finalize(r, a)
  /\ \A r, u : Session!CloseAt(r, u) = Live!CloseAt(r, u)
  /\ \A r, a, m, p, c, f : Session!Ingest(r, a, m, p, c, f) = Live!Ingest(r, a, m, p, c, f)
<1>1. Session!Minutes = Live!Minutes /\ Session!Missing = Live!Missing
  BY DEF Session!Minutes, Live!Minutes, Session!Missing, Live!Missing
<1>2. \A r, m : Session!Previous(r, m) = Live!Previous(r, m)
  BY DEF Session!Previous, Live!Previous, Session!CompleteBefore, Live!CompleteBefore,
         Session!Minutes, Live!Minutes, Session!Max, Live!Max
<1>3. \A r, u : Session!CloseAt(r, u) = Live!CloseAt(r, u)
  BY DEF Session!CloseAt, Live!CloseAt
<1>4. \A a, c : Session!IsUnchangedFlat(a, c) = Live!IsUnchangedFlat(a, c)
  BY DEF Session!IsUnchangedFlat, Live!IsUnchangedFlat
<1>5. \A r, a : Session!Persist(r, a) = Live!Persist(r, a)
  BY DEF Session!Persist, Live!Persist, Session!Put, Live!Put
<1>6. \A r, a : Session!Finalize(r, a) = Live!Finalize(r, a)
  BY <1>1, <1>2, <1>3, <1>4 DEF Session!Finalize, Live!Finalize, Session!Put, Live!Put
<1>7. \A r, f : Session!Upsert(r, f) = Live!Upsert(r, f)
  BY DEF Session!Upsert, Live!Upsert, Session!Minutes, Live!Minutes
<1>8. \A r, u, m, f : Session!VerifyGap(r, u, m, f) = Live!VerifyGap(r, u, m, f)
  BY <1>7 DEF Session!VerifyGap, Live!VerifyGap
<1>9. \A r, u, m, c : Session!Filled(r, u, m, c) = Live!Filled(r, u, m, c)
  BY <1>7 DEF Session!Filled, Live!Filled, Session!FillShortGap, Live!FillShortGap,
     Session!Minutes, Live!Minutes, Session!Missing, Live!Missing, Session!Quiet, Live!Quiet
<1>10. \A m, p, o : Session!FromTick(m, p, o) = Live!FromTick(m, p, o)
  BY DEF Session!FromTick, Live!FromTick, Session!Hi, Live!Hi, Session!Lo, Live!Lo
<1>11. \A r, u, m, p, c : Session!Opening(r, u, m, p, c) = Live!Opening(r, u, m, p, c)
  BY DEF Session!Opening, Live!Opening
<1>12. \A a, p : Session!Apply(a, p) = Live!Apply(a, p)
  BY DEF Session!Apply, Live!Apply, Session!Hi, Live!Hi, Session!Lo, Live!Lo
<1>13. ASSUME NEW r, NEW a, NEW m, NEW p, NEW c, NEW f
       PROVE  Session!NewMinute(r, a, m, p, c, f) = Live!NewMinute(r, a, m, p, c, f)
  BY <1>1, <1>2, <1>3, <1>4, <1>5, <1>6, <1>8, <1>9, <1>10, <1>11
     DEF Session!NewMinute, Live!NewMinute
<1>14. ASSUME NEW r, NEW a, NEW p
       PROVE  Session!SameMinute(r, a, p) = Live!SameMinute(r, a, p)
  BY <1>2, <1>3, <1>4, <1>5, <1>12 DEF Session!SameMinute, Live!SameMinute
<1>15. \A r, a, m, p, c, f : Session!Ingest(r, a, m, p, c, f) = Live!Ingest(r, a, m, p, c, f)
  BY <1>13, <1>14 DEF Session!Ingest, Live!Ingest
<1> QED
  BY <1>1, <1>3, <1>6, <1>7, <1>15

\* the aggregates',
LEMMA LiveRefresh ==
  /\ \A r, b : Session!Source(r, b) = Live!Source(r, b)
  /\ \A r, S : Session!Build(r, S) = Live!Build(r, S)
  /\ \A r, S : Session!Touched(r, S) = Live!Touched(r, S)
  /\ \A a, r, S : Session!Refresh(a, r, S) = Live!Refresh(a, r, S)
<1>1. ASSUME NEW r, NEW b PROVE Session!Source(r, b) = Live!Source(r, b)
  BY LiveIngest DEF Session!Source, Live!Source, Session!BucketStart, Live!BucketStart
<1>2. ASSUME NEW r, NEW S PROVE Session!Build(r, S) = Live!Build(r, S)
  BY DEF Session!Build, Live!Build, Session!Missing, Live!Missing, Session!Max, Live!Max,
     Session!Min, Live!Min
<1>3. \A r, S : Session!Touched(r, S) = Live!Touched(r, S)
  BY <1>1 DEF Session!Touched, Live!Touched, Session!Buckets, Live!Buckets,
     Session!BucketStart, Live!BucketStart
<1>4. ASSUME NEW a, NEW r, NEW S PROVE Session!Refresh(a, r, S) = Live!Refresh(a, r, S)
  BY <1>1, <1>2, <1>3 DEF Session!Refresh, Live!Refresh, Session!Buckets, Live!Buckets
<1> QED
  BY <1>1, <1>2, <1>3, <1>4

\* and the feed's and the provider's.
LEMMA LiveOutcomes ==
  /\ \A f : Session!StateAt(f) = Live!StateAt(f)
  /\ \A f : Session!Recovering(f) = Live!Recovering(f)
  /\ \A p : Session!Observed(p) = Live!Observed(p)
  /\ Session!Prices = Live!Prices
  /\ \A u, m : Session!History(u, m) = Live!History(u, m)
  /\ \A p, e : Session!Outcomes(p, e) = Live!Outcomes(p, e)
<1>1. \A f : Session!StateAt(f) = Live!StateAt(f)
  BY DEF Session!StateAt, Live!StateAt
<1>2. \A f : Session!Recovering(f) = Live!Recovering(f)
  BY <1>1 DEF Session!Recovering, Live!Recovering
<1>3. \A p : Session!Observed(p) = Live!Observed(p)
  BY <1>1, <1>2 DEF Session!Observed, Live!Observed
<1>4. Session!Prices = Live!Prices
  BY DEF Session!Prices, Live!Prices
<1>5. \A u, m : Session!History(u, m) = Live!History(u, m)
  BY <1>4 DEF Session!History, Live!History, Session!Minutes, Live!Minutes, Session!Quiet,
     Live!Quiet
<1>6. Session!Answers = Live!Answers
  <2>1. Session!Recovered = Live!Recovered
    <3>1. \A p, b : Session!Quiet(p, b) = Live!Quiet(p, b)
      BY DEF Session!Quiet, Live!Quiet
    <3>2. Session!History(0, now) = Live!History(0, now)
      BY <1>5
    <3>3. ASSUME NEW f, NEW p PROVE Session!WithNow(f, p) = Live!WithNow(f, p)
      BY <3>1 DEF Session!WithNow, Live!WithNow
    <3> QED
      BY <1>4, <3>2, <3>3 DEF Session!Recovered, Live!Recovered
  <2> QED
    BY <1>2, <1>5, <2>1 DEF Session!Answers, Live!Answers
<1>7. ASSUME NEW f, NEW e PROVE Session!Recover(f, e) = Live!Recover(f, e)
  <2>1. \A g, c : Session!Meaningful(g, c) = Live!Meaningful(g, c)
    BY DEF Session!Meaningful, Live!Meaningful
  <2> QED
    BY <2>1, LiveIngest DEF Session!Recover, Live!Recover
<1>8. Session!NoActive = Live!NoActive
  BY LiveIngest DEF Session!NoActive, Live!NoActive
<1>9. ASSUME NEW p, NEW e PROVE Session!Outcomes(p, e) = Live!Outcomes(p, e)
  BY <1>2, <1>6, <1>7, <1>8, LiveIngest DEF Session!Outcomes, Live!Outcomes
<1> QED
  BY <1>1, <1>2, <1>3, <1>4, <1>5, <1>9

\* The steps of the instance in MCCandlePaths are steps of this one.
LEMMA LiveNext == Session!Next => Live!Next
<1>1. ASSUME NEW p, NEW l, NEW b PROVE Session!Serve(p, l, b) => Live!Serve(p, l, b)
  BY LiveIngest, LiveRefresh DEF Session!Serve, Live!Serve, Session!Changed, Live!Changed,
     Session!BucketStart, Live!BucketStart, Session!RefreshTimes, Live!RefreshTimes
<1>2. ASSUME NEW p, NEW e \in BOOLEAN PROVE Session!Tick(p, e) => Live!Tick(p, e)
  BY <1>1, LiveOutcomes DEF Session!Tick, Live!Tick, Session!Authoritative,
     Live!Authoritative, Session!Fresh, Live!Fresh, Session!CompleteRecovery,
     Live!CompleteRecovery
<1>3. ASSUME NEW p PROVE Session!BridgeTick(p) => Live!BridgeTick(p)
  BY LiveOutcomes DEF Session!BridgeTick, Live!BridgeTick
<1>4. ASSUME NEW f PROVE Session!Import(f) => Live!Import(f)
  BY LiveIngest, LiveRefresh DEF Session!Import, Live!Import, Session!FinalizeClosed,
     Live!FinalizeClosed, Session!BucketStart, Live!BucketStart
<1>5. Session!Restart => Live!Restart
  BY DEF Session!Restart, Live!Restart, Session!Flush, Live!Flush, Session!Persist,
     Live!Persist, Session!Put, Live!Put, Session!Seeded, Live!Seeded, Session!NoActive,
     Live!NoActive, Session!Missing, Live!Missing
<1>6. Session!Advance => Live!Advance
  BY DEF Session!Advance, Live!Advance
<1>7. Session!RivalTicks => Live!RivalTicks
  BY DEF Session!RivalTicks, Live!RivalTicks
<1>8. CASE \E p \in Session!Prices :
             Session!Tick(p, TRUE) \/ Session!Tick(p, FALSE) \/ Session!BridgeTick(p)
  BY <1>2, <1>3, <1>8, LiveOutcomes, Zenon DEF Live!Next
<1>9. CASE \E f \in Session!History(0, now) : Session!Import(f)
  BY <1>4, <1>9, LiveOutcomes, Zenon DEF Live!Next
<1> QED
  BY <1>5, <1>6, <1>7, <1>8, <1>9, Zenon DEF Session!Next, Live!Next

\* What SessionAssumption says of the constants, in the words of the theorems.
LEMMA LiveConstants == Live!StreamAssumption
BY SessionAssumption DEF Live!StreamAssumption

\* The part that is live is always as its invariant says, and never starts or ends.
LEMMA LiveInvariance == MCSpec => [](path = "live" => Live!IInv)
<1>1. MCInit => Live!Init
  BY DEF MCInit, Session!Init, Live!Init, Session!Seeded, Live!Seeded, Session!Never,
     Live!Never, Session!NoActive, Live!NoActive, Session!Missing, Live!Missing,
     Session!Minutes, Live!Minutes, Session!Buckets, Live!Buckets
<1>2. path = "live" /\ [MCNext]_paths => [Live!Next]_Live!vars
  BY LiveNext DEF MCNext, paths, session, Live!vars
<1>3. path = "live" /\ [MCNext]_paths => (path = "live")'
  BY DEF MCNext, paths
<1>4. ~ (path = "live") /\ [MCNext]_paths => (~ (path = "live"))'
  BY DEF MCNext, paths
<1>5. Live!Spec => []Live!IInv
  BY LiveConstants, Live!Invariance
<1> QED
  BY <1>1, <1>2, <1>3, <1>4, <1>5, PTL DEF MCSpec, Live!Spec

\* candle_builder.py: the rows of minutes that are over are complete, but for those a
\* stopped worker left behind.
THEOREM RowsComplete == MCSpec => []NoHalfCandles
<1>1. (path = "live" => Live!IInv) => NoHalfCandles
  <2>1. Live!IInv => Live!NoHalfCandles
    BY LiveConstants, Live!HalvesHold
  <2> QED
    BY <2>1, LiveIngest DEF NoHalfCandles, Session!NoHalfCandles, Live!NoHalfCandles
<1> QED
  BY <1>1, LiveInvariance, PTL

\* candle_builder.py:74: minutes are synthesized only between candles that are at most
\* ShortGap minutes apart, whatever was verified, recovered or filled before.
THEOREM GapsShort == MCSpec => []ShortGapsOnly
<1>1. (path = "live" => Live!IInv) => ShortGapsOnly
  <2>1. Live!IInv => Live!ShortGapsOnly
    BY LiveConstants, Live!GapsHold
  <2> QED
    BY <2>1, LiveIngest DEF ShortGapsOnly, Session!ShortGapsOnly, Live!ShortGapsOnly
<1> QED
  BY <1>1, LiveInvariance, PTL

\* runtime.py: no tick that was built is missing from the row of its minute.
THEOREM TicksKept == MCSpec => []TicksCovered
<1>1. (path = "live" => Live!IInv) => TicksCovered
  <2>1. Live!IInv => Live!TicksCovered
    BY LiveConstants, Live!TicksHold
  <2>2. \A S : Session!Cardinality(S) = Live!Cardinality(S)
    BY DEF Session!Cardinality, Live!Cardinality
  <2> QED
    BY <2>1, <2>2, LiveIngest DEF TicksCovered, Session!TicksCovered, Live!TicksCovered
<1> QED
  BY <1>1, LiveInvariance, PTL

\* aggregation.py: an aggregate row is the aggregate of the rows below it.
THEOREM AggregatesKept == MCSpec => []AggregatesFollow
<1>1. (path = "live" => Live!IInv) => AggregatesFollow
  <2>1. Live!IInv => Live!AggregatesFollow
    BY LiveConstants, Live!AggregatesHold
  <2> QED
    BY <2>1, LiveIngest, LiveRefresh DEF AggregatesFollow, Session!AggregatesFollow,
       Live!AggregatesFollow, Session!Buckets, Live!Buckets, Session!BucketStart,
       Live!BucketStart
<1> QED
  BY <1>1, LiveInvariance, PTL

-----------------------------------------------------------------------------
(* The three together *)

\* Whichever of the three moves, its variables stay within their types.
THEOREM PathsTyped ==
  ASSUME MaxTime \in Nat
  PROVE  MCSpec => []AllTypes
<1>1. MCInit => Init
  BY DEF MCInit
<1>2. [MCNext]_paths => [Next]_vars
  BY DEF MCNext, paths
<1>3. (Init => IInv) /\ (IInv /\ [Next]_vars => IInv')
  BY IngestionInductive
<1>4. MCInit => Scans!Init
  BY DEF MCInit, Gaps!Init, Scans!Init, Gaps!NoTask, Scans!NoTask
<1>5. path = "gaps" /\ [MCNext]_paths => [Scans!Next]_Scans!vars
  BY ScansNext DEF MCNext, paths, scans, Scans!vars
<1>6. path = "gaps" /\ [MCNext]_paths => (path = "gaps")'
  BY DEF MCNext, paths
<1>7. ~ (path = "gaps") /\ [MCNext]_paths => (~ (path = "gaps"))'
  BY DEF MCNext, paths
<1>8. Scans!Spec => []Scans!TypeOK
  <2>1. Scans!Spec => [](Scans!TypeOK /\ Scans!ScanComplete)
    BY Scans!ScansHold
  <2> QED
    BY <2>1, PTL
<1>9. IInv /\ (path = "live" => Live!IInv) /\ (path = "gaps" => Scans!TypeOK) => AllTypes
  <2>1. Live!IInv => Live!TypeOK
    BY LiveConstants, Live!TypeHolds
  <2>2. Live!TypeOK => Session!TypeOK
    BY LiveIngest DEF Session!TypeOK, Live!TypeOK, Session!Candles, Live!Candles,
       Session!Prices, Live!Prices, Session!Sources, Live!Sources
  <2>3. Scans!TypeOK => Gaps!TypeOK
    BY DEF Scans!TypeOK, Gaps!TypeOK, Scans!Times, Gaps!Times
  <2> QED
    BY <2>1, <2>2, <2>3, TypesOfInv DEF AllTypes
<1> QED
  BY <1>1, <1>2, <1>3, <1>4, <1>5, <1>6, <1>7, <1>8, <1>9, LiveInvariance, PTL
     DEF MCSpec, Scans!Spec
==============================================================================
