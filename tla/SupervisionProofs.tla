-------------------------- MODULE SupervisionProofs --------------------------
(***************************************************************************)
(* One worker of a provider runs, for every number of requests that do not *)
(* overlap, of workers and of threads.                                     *)
(***************************************************************************)
EXTENDS Supervision, SequenceTheorems, TLAPS

\* What a request has still to do, while it holds the lock ...
Held == {
  <<"stop", "join", "create", "check", "launch", "unlock">>,
  <<"join", "create", "check", "launch", "unlock">>,
  <<"create", "check", "launch", "unlock">>,
  <<"check", "launch", "unlock">>,
  <<"launch", "unlock">>,
  <<"stop", "join", "unlock">>,
  <<"join", "unlock">>,
  <<"unlock">> }

\* ... before it takes the lock or the worker ...
Asked == {
  <<"get", "stop", "join", "check", "launch">>,
  <<"get", "check", "launch">>,
  <<"get", "stop", "join">>,
  <<"pop", "stop", "join", "create", "check", "launch", "unlock">>,
  <<"pop", "stop", "join", "unlock">> }

\* ... and with the worker but without the lock.
Free == {
  <<"stop", "join", "check", "launch">>,
  <<"join", "check", "launch">>,
  <<"check", "launch">>,
  <<"launch">>,
  <<"stop", "join">>,
  <<"join">> }

AllSteps == {<<>>} \cup Asked \cup Free \cup Held

Types ==
  /\ registered \in 0..Len(workers)
  /\ workers \in Seq([stop : BOOLEAN, thread : Nat])
  /\ threads \in Seq([of : Nat, alive : BOOLEAN])
  /\ \A t \in DOMAIN threads : threads[t].of \in 1..Len(workers)
  /\ \A w \in DOMAIN workers : workers[w].thread \in 0..Len(threads)
  /\ lock \in Callers \cup {Nobody}
  /\ call \in [Callers -> [steps : AllSteps, worker : 0..Len(workers)]]

\* One request at a time, which holds the lock exactly while its steps say so.
Alone == \A c, d \in Callers : call[c].steps # <<>> /\ call[d].steps # <<>> => c = d
Owned == \A c \in Callers : call[c].steps \in Held <=> lock = c

\* A thread that lives is the thread of its worker.
Current == \A t \in DOMAIN threads : threads[t].alive => workers[threads[t].of].thread = t

\* A thread that would take the next tick is the registered worker's, or of the
\* worker about to be stopped.
Known ==
  \A t \in Running :
    \/ threads[t].of = registered
    \/ \E c \in Callers : lock = c /\ At(c, "stop") /\ threads[t].of = W(c)

\* The worker a request is about to change.
Chosen ==
  \A c \in Callers :
    /\ call[c].steps \in Free => W(c) = registered /\ registered # 0
    /\ lock = c /\ (At(c, "stop") \/ At(c, "join") \/ At(c, "create")) => registered = 0
    /\ lock = c /\ (At(c, "check") \/ At(c, "launch")) => W(c) = registered /\ registered # 0
    /\ At(c, "launch") => ~ Alive(W(c))

IInv == Types /\ Alone /\ Owned /\ Current /\ Known /\ Chosen

-----------------------------------------------------------------------------

LEMMA HeldSteps ==
  ASSUME NEW s \in Held
  PROVE  /\ s # <<>> /\ s \notin Free /\ s \notin Asked
         /\ Head(s) \in {"stop", "join", "create", "check", "launch", "unlock"}
         /\ Head(s) = "stop" => Tail(s) \in Held /\ Head(Tail(s)) = "join"
         /\ Head(s) = "join" => Tail(s) \in Held /\ Head(Tail(s)) \in {"create", "unlock"}
         /\ Head(s) = "create" => Tail(s) \in Held /\ Head(Tail(s)) = "check"
         /\ Head(s) = "check" =>
              /\ Tail(s) \in Held /\ Head(Tail(s)) = "launch"
              /\ Tail(Tail(s)) \in Held /\ Head(Tail(Tail(s))) = "unlock"
         /\ Head(s) = "launch" => Tail(s) \in Held /\ Head(Tail(s)) = "unlock"
         /\ Head(s) = "unlock" => Tail(s) = <<>>
<1>1. CASE s = <<"stop", "join", "create", "check", "launch", "unlock">>
  BY <1>1 DEF Held, Free, Asked
<1>2. CASE s = <<"join", "create", "check", "launch", "unlock">>
  BY <1>2 DEF Held, Free, Asked
<1>3. CASE s = <<"create", "check", "launch", "unlock">>
  BY <1>3 DEF Held, Free, Asked
<1>4. CASE s = <<"check", "launch", "unlock">>
  BY <1>4 DEF Held, Free, Asked
<1>5. CASE s = <<"launch", "unlock">>
  BY <1>5 DEF Held, Free, Asked
<1>6. CASE s = <<"stop", "join", "unlock">>
  BY <1>6 DEF Held, Free, Asked
<1>7. CASE s = <<"join", "unlock">>
  BY <1>7 DEF Held, Free, Asked
<1>8. CASE s = <<"unlock">>
  BY <1>8 DEF Held, Free, Asked
<1> QED
  BY <1>1, <1>2, <1>3, <1>4, <1>5, <1>6, <1>7, <1>8 DEF Held

LEMMA FreeSteps ==
  ASSUME NEW s \in Free
  PROVE  /\ s # <<>> /\ s \notin Held /\ s \notin Asked
         /\ Head(s) \in {"stop", "join", "check", "launch"}
         /\ Head(s) = "stop" => Tail(s) \in Free /\ Head(Tail(s)) = "join"
         /\ Head(s) = "join" => Tail(s) = <<>> \/ (Tail(s) \in Free /\ Head(Tail(s)) = "check")
         /\ Head(s) = "check" => Tail(s) \in Free /\ Head(Tail(s)) = "launch" /\ Tail(Tail(s)) = <<>>
         /\ Head(s) = "launch" => Tail(s) = <<>>
<1>1. CASE s = <<"stop", "join", "check", "launch">>
  BY <1>1 DEF Held, Free, Asked
<1>2. CASE s = <<"join", "check", "launch">>
  BY <1>2 DEF Held, Free, Asked
<1>3. CASE s = <<"check", "launch">>
  BY <1>3 DEF Held, Free, Asked
<1>4. CASE s = <<"launch">>
  BY <1>4 DEF Held, Free, Asked
<1>5. CASE s = <<"stop", "join">>
  BY <1>5 DEF Held, Free, Asked
<1>6. CASE s = <<"join">>
  BY <1>6 DEF Held, Free, Asked
<1> QED
  BY <1>1, <1>2, <1>3, <1>4, <1>5, <1>6 DEF Free

LEMMA AskedSteps ==
  ASSUME NEW s \in Asked
  PROVE  /\ s # <<>> /\ s \notin Held /\ s \notin Free
         /\ Head(s) \in {"get", "pop"}
         /\ Head(s) = "get" => Tail(s) \in Free /\ Head(Tail(s)) \in {"stop", "check"}
         /\ Head(s) = "pop" => Tail(s) \in Held /\ Head(Tail(s)) = "stop"
<1>1. CASE s = <<"get", "stop", "join", "check", "launch">>
  BY <1>1 DEF Held, Free, Asked
<1>2. CASE s = <<"get", "check", "launch">>
  BY <1>2 DEF Held, Free, Asked
<1>3. CASE s = <<"get", "stop", "join">>
  BY <1>3 DEF Held, Free, Asked
<1>4. CASE s = <<"pop", "stop", "join", "create", "check", "launch", "unlock">>
  BY <1>4 DEF Held, Free, Asked
<1>5. CASE s = <<"pop", "stop", "join", "unlock">>
  BY <1>5 DEF Held, Free, Asked
<1> QED
  BY <1>1, <1>2, <1>3, <1>4, <1>5 DEF Asked

LEMMA NoSteps == <<>> \notin Held /\ <<>> \notin Free /\ <<>> \notin Asked
BY HeldSteps, FreeSteps, AskedSteps

\* While a request has steps to go, the others have none and not the lock.
LEMMA OnlyOne ==
  ASSUME IInv, NEW c \in Callers, NEW s, At(c, s)
  PROVE  /\ \A d \in Callers \ {c} : call[d].steps = <<>> /\ lock # d
         /\ lock = c \/ lock = Nobody
         /\ lock = c <=> call[c].steps \in Held
         /\ \A d \in Callers \ {c} : \A r : ~ At(d, r)
<1>1. \A d \in Callers \ {c} : call[d].steps = <<>>
  BY DEF IInv, Alone, At
<1>2. \A d \in Callers \ {c} : lock # d
  BY <1>1, NoSteps DEF IInv, Owned
<1> QED
  BY <1>1, <1>2 DEF IInv, Owned, Types, At

-----------------------------------------------------------------------------
(* One lemma per step of a request *)

LEMMA InitSafe == Init /\ Nobody \notin Callers => IInv
<1> SUFFICES ASSUME Init, Nobody \notin Callers PROVE IInv
  OBVIOUS
<1>1. Types
  BY DEF Init, Types, NoCall, AllSteps
<1>2. Alone /\ Owned
  BY NoSteps DEF Init, Alone, Owned, NoCall
<1>3. Current /\ Known
  BY DEF Init, Current, Known, Running
<1>4. Chosen
  BY NoSteps DEF Init, Chosen, At, NoCall
<1> QED
  BY <1>1, <1>2, <1>3, <1>4 DEF IInv

\* A request that begins alone.
LEMMA RequestSafe ==
  ASSUME IInv, Nobody \notin Callers, NEW c \in Callers, NEW kind \in DOMAIN Steps,
         Request(c, kind), ~ overlapped'
  PROVE  IInv'
<1>1. UNCHANGED <<registered, workers, threads, lock>>
  BY DEF Request
<1>2. \A d \in Callers : call[d].steps = <<>>
  BY DEF Request, IInv, Types
<1>3. Steps[kind] \in Asked
  BY DEF Steps, Asked
<1>4. /\ call' = [call EXCEPT ![c] = [steps |-> Steps[kind], worker |-> 0]]
      /\ call'[c].steps = Steps[kind] /\ call'[c].worker = 0
      /\ \A d \in Callers \ {c} : call'[d] = call[d]
  BY DEF Request, IInv, Types
<1>5. Types'
  BY <1>1, <1>3, <1>4 DEF IInv, Types, AllSteps
<1>6. Alone' /\ Owned'
  <2>1. lock \notin Callers
    BY <1>2, NoSteps DEF IInv, Owned
  <2>2. call'[c].steps \notin Held
    BY <1>3, <1>4, AskedSteps
  <2>3. \A d \in Callers : call'[d].steps \notin Held
    BY <1>2, <1>4, <2>2, NoSteps
  <2> QED
    BY <1>1, <1>2, <1>4, <2>1, <2>3 DEF Alone, Owned
<1>7. Current'
  BY <1>1 DEF IInv, Current
<1>8. Known'
  <2>1. \A t \in Running : threads[t].of = registered
    BY <1>2 DEF IInv, Known, At
  <2> QED
    BY <1>1, <2>1 DEF Known, Running
<1>9. Chosen'
  <2>1. \A d \in Callers : lock # d
    BY <1>2, NoSteps DEF IInv, Owned
  <2>2. ~ At(c, "launch")' /\ call'[c].steps \notin Free
    BY <1>3, <1>4, AskedSteps DEF At
  <2>3. \A d \in Callers \ {c} : call'[d].steps = <<>>
    BY <1>2, <1>4
  <2> QED
    BY <1>1, <2>1, <2>2, <2>3, NoSteps DEF Chosen, At
<1> QED
  BY <1>5, <1>6, <1>7, <1>8, <1>9 DEF IInv

\* A step of a request with steps to go leaves it alone, and the lock its own.
LEMMA Stepped ==
  ASSUME IInv, Nobody \notin Callers, NEW c \in Callers, NEW s, At(c, s),
         NEW r \in [steps : AllSteps, worker : 0..Len(workers')], Moves(c, r),
         Len(workers) <= Len(workers'), Len(workers) \in Nat, Len(workers') \in Nat,
         lock' \in {c, Nobody}, r.steps \in Held <=> lock' = c
  PROVE  /\ call' \in [Callers -> [steps : AllSteps, worker : 0..Len(workers')]]
         /\ Alone' /\ Owned'
         /\ call'[c] = r
         /\ \A d \in Callers \ {c} : call'[d].steps = <<>> /\ lock' # d
<1>1. call' = [call EXCEPT ![c] = r]
  BY DEF Moves
<1>2. call \in [Callers -> [steps : AllSteps, worker : 0..Len(workers')]]
  <2>1. \A d \in Callers : call[d] \in [steps : AllSteps, worker : 0..Len(workers)]
    BY DEF IInv, Types
  <2>2. 0..Len(workers) \subseteq 0..Len(workers')
    OBVIOUS
  <2>3. \A d \in Callers : call[d] \in [steps : AllSteps, worker : 0..Len(workers')]
    BY <2>1, <2>2
  <2> QED
    BY <2>3 DEF IInv, Types
<1>3. call'[c] = r /\ \A d \in Callers \ {c} : call'[d] = call[d]
  BY <1>1, <1>2
<1>4. \A d \in Callers \ {c} : call'[d].steps = <<>> /\ lock' # d
  BY <1>3, OnlyOne
<1>5. Alone' /\ Owned'
  BY <1>3, <1>4, NoSteps DEF Alone, Owned
<1> QED
  BY <1>1, <1>2, <1>3, <1>4, <1>5

LEMMA GetSafe ==
  ASSUME IInv, Nobody \notin Callers, NEW c \in Callers, Get(c)
  PROVE  IInv'
<1> DEFINE r == IF registered = 0 THEN NoCall ELSE [Moved(c) EXCEPT !.worker = registered]
<1>1. /\ UNCHANGED <<registered, workers, threads, lock>>
      /\ lock = Nobody /\ At(c, "get") /\ Moves(c, r)
  BY DEF Get
<1>2. call[c].steps \in Asked
  BY <1>1, OnlyOne, HeldSteps, FreeSteps DEF IInv, Types, AllSteps, At
<1>3. Tail(call[c].steps) \in Free /\ Head(Tail(call[c].steps)) \in {"stop", "check"}
  BY <1>1, <1>2, AskedSteps DEF At
<1>4. call[c] \in [steps : AllSteps, worker : 0..Len(workers)]
  BY DEF IInv, Types
<1>5. /\ registered = 0 => r.steps = <<>> /\ r.worker = 0
      /\ registered # 0 => r.steps = Tail(call[c].steps) /\ r.worker = registered
      /\ r \in [steps : AllSteps, worker : 0..Len(workers)]
  BY <1>3, <1>4 DEF NoCall, Moved, AllSteps, IInv, Types
<1>6. r.steps \notin Held
  BY <1>3, <1>5, FreeSteps, NoSteps
<1>7. /\ call' \in [Callers -> [steps : AllSteps, worker : 0..Len(workers')]]
      /\ Alone' /\ Owned' /\ call'[c] = r
      /\ \A d \in Callers \ {c} : call'[d].steps = <<>> /\ lock' # d
  <2>1. Len(workers) \in Nat
    BY DEF IInv, Types
  <2>2. lock' \in {c, Nobody} /\ (r.steps \in Held <=> lock' = c)
    BY <1>1, <1>6
  <2> HIDE DEF r
  <2> QED
    BY <1>1, <1>5, <2>1, <2>2, Stepped
<1>8. Types'
  BY <1>1, <1>7 DEF IInv, Types
<1>9. Current' /\ Known'
  BY <1>1 DEF IInv, Current, Known, Running
<1>10. Chosen'
  <2>1. r.steps \in Free => r.worker = registered /\ registered # 0
    BY <1>5, NoSteps
  <2>2. r.steps # <<>> => Head(r.steps) # "launch"
    BY <1>3, <1>5
  <2> HIDE DEF r
  <2> QED
    BY <1>1, <1>7, <2>1, <2>2, NoSteps DEF Chosen, At, W
<1> QED
  BY <1>7, <1>8, <1>9, <1>10 DEF IInv

LEMMA PopSafe ==
  ASSUME IInv, Nobody \notin Callers, NEW c \in Callers, Pop(c)
  PROVE  IInv'
<1> DEFINE r == [Moved(c) EXCEPT !.worker = registered]
<1>1. /\ UNCHANGED <<workers, threads>> /\ registered' = 0
      /\ lock = Nobody /\ lock' = c /\ At(c, "pop") /\ Moves(c, r)
  BY DEF Pop
<1>2. call[c].steps \in Asked
  BY <1>1, OnlyOne, HeldSteps, FreeSteps DEF IInv, Types, AllSteps, At
<1>3. Tail(call[c].steps) \in Held /\ Head(Tail(call[c].steps)) = "stop"
  BY <1>1, <1>2, AskedSteps DEF At
<1>4. call[c] \in [steps : AllSteps, worker : 0..Len(workers)]
  BY DEF IInv, Types
<1>5. /\ r.steps = Tail(call[c].steps) /\ r.worker = registered
      /\ r \in [steps : AllSteps, worker : 0..Len(workers)]
  BY <1>3, <1>4 DEF Moved, AllSteps, IInv, Types
<1>6. r.steps \in Held /\ r.steps # <<>> /\ Head(r.steps) = "stop"
  BY <1>3, <1>5, HeldSteps
<1>7. /\ call' \in [Callers -> [steps : AllSteps, worker : 0..Len(workers')]]
      /\ Alone' /\ Owned' /\ call'[c] = r
      /\ \A d \in Callers \ {c} : call'[d].steps = <<>> /\ lock' # d
  <2>1. workers' = workers /\ Len(workers) \in Nat
    BY <1>1 DEF IInv, Types
  <2>2. lock' \in {c, Nobody} /\ (r.steps \in Held <=> lock' = c)
    BY <1>1, <1>6
  <2>3. At(c, "pop") /\ Moves(c, r) /\ r \in [steps : AllSteps, worker : 0..Len(workers')]
    BY <1>1, <1>5, <2>1
  <2>4. Len(workers) <= Len(workers') /\ Len(workers') \in Nat
    BY <2>1
  <2> HIDE DEF r
  <2> QED
    BY <2>1, <2>2, <2>3, <2>4, Stepped
<1>8. Types'
  BY <1>1, <1>7 DEF IInv, Types
<1>9. Current'
  BY <1>1 DEF IInv, Current
<1>10. Known'
  <2>1. \A t \in Running : threads[t].of = registered
    BY <1>1 DEF IInv, Known
  <2>2. Running' = Running /\ At(c, "stop")' /\ W(c)' = registered
    BY <1>1, <1>5, <1>6, <1>7 DEF Running, At, W
  <2> QED
    BY <1>1, <2>1, <2>2 DEF Known
<1>11. Chosen'
  <2>1. r.steps \notin Free
    BY <1>6, HeldSteps
  <2> HIDE DEF r
  <2> QED
    BY <1>1, <1>6, <1>7, <2>1, NoSteps DEF Chosen, At, W
<1> QED
  BY <1>7, <1>8, <1>9, <1>10, <1>11 DEF IInv

\* A request that has its worker either holds the lock or nobody does; unless it is
\* about to stop its worker, what runs is registered.
LEMMA HasWorker ==
  ASSUME IInv, Nobody \notin Callers, NEW c \in Callers, NEW s, At(c, s),
         s \notin {"get", "pop"}
  PROVE  /\ call[c] \in [steps : AllSteps, worker : 0..Len(workers)]
         /\ Len(workers) \in Nat
         /\ \/ call[c].steps \in Held /\ lock = c
            \/ call[c].steps \in Free /\ lock = Nobody
         /\ s # "stop" => \A t \in Running : threads[t].of = registered
<1>1. call[c] \in [steps : AllSteps, worker : 0..Len(workers)] /\ Len(workers) \in Nat
  BY DEF IInv, Types
<1>2. call[c].steps \in Held \/ call[c].steps \in Free
  BY <1>1, AskedSteps DEF AllSteps, At
<1>3. call[c].steps \in Free => lock = Nobody
  BY OnlyOne, FreeSteps
<1>4. ASSUME s # "stop", NEW t \in Running PROVE threads[t].of = registered
  <2>1. \A d \in Callers : ~ (lock = d /\ At(d, "stop"))
    BY <1>4, OnlyOne DEF At
  <2> QED
    BY <2>1 DEF IInv, Known
<1> QED
  BY <1>1, <1>2, <1>3, <1>4, OnlyOne

\* A thread is of one of the workers.
LEMMA ThreadOf ==
  ASSUME IInv
  PROVE  /\ Len(workers) \in Nat /\ Len(threads) \in Nat
         /\ DOMAIN workers = 1..Len(workers) /\ DOMAIN threads = 1..Len(threads)
         /\ \A t \in DOMAIN threads : threads[t] \in [of : DOMAIN workers, alive : BOOLEAN]
<1>1. /\ workers \in Seq([stop : BOOLEAN, thread : Nat])
      /\ threads \in Seq([of : Nat, alive : BOOLEAN])
      /\ \A t \in DOMAIN threads : threads[t].of \in 1..Len(workers)
  BY DEF IInv, Types
<1>2. /\ Len(workers) \in Nat /\ Len(threads) \in Nat
      /\ DOMAIN workers = 1..Len(workers) /\ DOMAIN threads = 1..Len(threads)
  BY <1>1, LenProperties
<1>3. \A t \in 1..Len(threads) : threads[t] \in [of : Nat, alive : BOOLEAN]
  BY <1>1, ElementOfSeq
<1>4. ASSUME NEW t \in DOMAIN threads PROVE threads[t] \in [of : DOMAIN workers, alive : BOOLEAN]
  BY <1>1, <1>2, <1>3
<1> QED
  BY <1>2, <1>4

LEMMA SetStopSafe ==
  ASSUME IInv, Nobody \notin Callers, NEW c \in Callers, SetStop(c)
  PROVE  IInv'
<1> DEFINE r == Moved(c)
<1>1. /\ UNCHANGED <<registered, threads, lock>>
      /\ At(c, "stop") /\ Moves(c, r)
      /\ workers' = IF W(c) = 0 THEN workers ELSE [workers EXCEPT ![W(c)].stop = TRUE]
  BY DEF SetStop
<1>2. /\ call[c] \in [steps : AllSteps, worker : 0..Len(workers)]
      /\ Len(workers) \in Nat
      /\ \/ call[c].steps \in Held /\ lock = c
         \/ call[c].steps \in Free /\ lock = Nobody
  BY <1>1, HasWorker
<1>3. /\ r \in [steps : AllSteps, worker : 0..Len(workers)]
      /\ r.steps = Tail(call[c].steps) /\ r.worker = W(c) /\ Head(r.steps) = "join"
      /\ call[c].steps \in Held => r.steps \in Held
      /\ call[c].steps \in Free => r.steps \in Free
  BY <1>1, <1>2, HeldSteps, FreeSteps DEF Moved, AllSteps, At, W
<1>4. /\ workers' \in Seq([stop : BOOLEAN, thread : Nat]) /\ Len(workers') = Len(workers)
      /\ DOMAIN workers' = DOMAIN workers
      /\ \A w \in DOMAIN workers : workers'[w].thread = workers[w].thread
      /\ \A w \in DOMAIN workers : ~ workers'[w].stop => w # W(c) /\ ~ workers[w].stop
  <2>1. workers \in Seq([stop : BOOLEAN, thread : Nat]) /\ W(c) \in 0..Len(workers)
    BY <1>2 DEF IInv, Types, W
  <2>2. CASE W(c) = 0
    BY <1>1, <1>2, <2>1, <2>2
  <2>3. CASE W(c) # 0
    <3> DEFINE w0 == [workers[W(c)] EXCEPT !.stop = TRUE]
    <3>1. W(c) \in 1..Len(workers)
      BY <1>2, <2>1, <2>3
    <3>2. /\ workers[W(c)] \in [stop : BOOLEAN, thread : Nat]
          /\ DOMAIN workers = 1..Len(workers)
      BY <2>1, <3>1, ElementOfSeq, LenProperties
    <3>3. /\ w0 \in [stop : BOOLEAN, thread : Nat]
          /\ w0.stop /\ w0.thread = workers[W(c)].thread
      BY <3>2
    <3>4. workers' = [workers EXCEPT ![W(c)] = w0]
      BY <1>1, <2>3
    <3> HIDE DEF w0
    <3> QED
      BY <2>1, <3>1, <3>2, <3>3, <3>4, ExceptSeq
  <2> QED
    BY <2>2, <2>3
<1>5. /\ call' \in [Callers -> [steps : AllSteps, worker : 0..Len(workers')]]
      /\ Alone' /\ Owned' /\ call'[c] = r
      /\ \A d \in Callers \ {c} : call'[d].steps = <<>> /\ lock' # d
  <2>1. lock' \in {c, Nobody} /\ (r.steps \in Held <=> lock' = c)
    BY <1>1, <1>2, <1>3, FreeSteps
  <2>2. r \in [steps : AllSteps, worker : 0..Len(workers')]
    BY <1>3, <1>4
  <2>3. Len(workers) <= Len(workers') /\ Len(workers') \in Nat
    BY <1>2, <1>4
  <2> HIDE DEF r
  <2> QED
    BY <1>1, <1>2, <2>1, <2>2, <2>3, Stepped
<1>6. Types'
  BY <1>1, <1>4, <1>5 DEF IInv, Types
<1>7. \A t \in DOMAIN threads : threads[t].of \in DOMAIN workers
  BY ThreadOf
<1>8. Current'
  BY <1>1, <1>4, <1>7 DEF IInv, Current
<1>9. Known'
  <2>1. SUFFICES ASSUME NEW t \in Running' PROVE threads[t].of = registered
    BY <1>1 DEF Known
  <2>2. t \in Running /\ threads[t].of # W(c)
    BY <1>1, <1>4, <1>7 DEF Running
  <2>3. \A d \in Callers : lock = d => d = c
    BY <1>1, OnlyOne
  <2> QED
    BY <2>2, <2>3 DEF IInv, Known
<1>10. Chosen'
  <2>1. /\ call[c].steps \in Free => W(c) = registered /\ registered # 0
        /\ call[c].steps \in Held => registered = 0
    BY <1>1, <1>2, FreeSteps DEF IInv, Chosen
  <2>2. r.steps \in Free => r.worker = registered /\ registered # 0
    BY <1>2, <1>3, <2>1, HeldSteps
  <2>3. lock = c => registered = 0
    BY <1>2, <2>1
  <2> HIDE DEF r
  <2> QED
    BY <1>1, <1>3, <1>5, <2>2, <2>3, NoSteps DEF Chosen, At, W
<1> QED
  BY <1>5, <1>6, <1>8, <1>9, <1>10 DEF IInv

LEMMA JoinSafe ==
  ASSUME IInv, Nobody \notin Callers, NEW c \in Callers, Join(c)
  PROVE  IInv'
<1> DEFINE r == Moved(c)
<1>1. UNCHANGED <<registered, workers, threads, lock>> /\ At(c, "join") /\ Moves(c, r)
  BY DEF Join
<1>2. /\ call[c] \in [steps : AllSteps, worker : 0..Len(workers)]
      /\ Len(workers) \in Nat
      /\ \/ call[c].steps \in Held /\ lock = c
         \/ call[c].steps \in Free /\ lock = Nobody
      /\ \A t \in Running : threads[t].of = registered
  BY <1>1, HasWorker
<1>3. /\ r \in [steps : AllSteps, worker : 0..Len(workers)]
      /\ r.steps = Tail(call[c].steps) /\ r.worker = W(c)
      /\ call[c].steps \in Held => r.steps \in Held /\ Head(r.steps) \in {"create", "unlock"}
      /\ call[c].steps \in Free => r.steps = <<>> \/ (r.steps \in Free /\ Head(r.steps) = "check")
  BY <1>1, <1>2, HeldSteps, FreeSteps DEF Moved, AllSteps, At, W
<1>4. /\ call' \in [Callers -> [steps : AllSteps, worker : 0..Len(workers')]]
      /\ Alone' /\ Owned' /\ call'[c] = r
      /\ \A d \in Callers \ {c} : call'[d].steps = <<>> /\ lock' # d
  <2>1. lock' \in {c, Nobody} /\ (r.steps \in Held <=> lock' = c)
    BY <1>1, <1>2, <1>3, FreeSteps, NoSteps
  <2>2. r \in [steps : AllSteps, worker : 0..Len(workers')] /\ workers' = workers
    BY <1>1, <1>3
  <2>3. Len(workers) <= Len(workers') /\ Len(workers') \in Nat
    BY <1>2, <2>2
  <2> HIDE DEF r
  <2> QED
    BY <1>1, <1>2, <2>1, <2>2, <2>3, Stepped
<1>5. Types'
  BY <1>1, <1>4 DEF IInv, Types
<1>6. Current' /\ Known'
  BY <1>1, <1>2 DEF IInv, Current, Known, Running
<1>7. Chosen'
  <2>1. /\ call[c].steps \in Free => W(c) = registered /\ registered # 0
        /\ call[c].steps \in Held => registered = 0
    BY <1>1, <1>2, FreeSteps DEF IInv, Chosen
  <2>2. r.steps \in Free => r.worker = registered /\ registered # 0 /\ Head(r.steps) = "check"
    BY <1>2, <1>3, <2>1, HeldSteps, NoSteps
  <2>3. lock = c => registered = 0 /\ r.steps \in Held /\ Head(r.steps) \in {"create", "unlock"}
    BY <1>2, <1>3, <2>1
  <2>4. r.steps = <<>> \/ Head(r.steps) # "launch"
    BY <1>2, <1>3
  <2> HIDE DEF r
  <2> QED
    BY <1>1, <1>5, <1>4, <2>2, <2>3, <2>4, NoSteps DEF Chosen, At, W
<1> QED
  BY <1>4, <1>5, <1>6, <1>7 DEF IInv

LEMMA CreateSafe ==
  ASSUME IInv, Nobody \notin Callers, NEW c \in Callers, Create(c)
  PROVE  IInv'
<1> DEFINE n == Len(workers) + 1
           r == [Moved(c) EXCEPT !.worker = n]
           w0 == [stop |-> FALSE, thread |-> 0]
<1>1. /\ UNCHANGED <<threads, lock>> /\ At(c, "create") /\ Moves(c, r)
      /\ workers' = Append(workers, w0) /\ registered' = n
  BY DEF Create
<1>2. /\ call[c] \in [steps : AllSteps, worker : 0..Len(workers)]
      /\ Len(workers) \in Nat
      /\ call[c].steps \in Held /\ lock = c
      /\ \A t \in Running : threads[t].of = registered
  BY <1>1, HasWorker, FreeSteps DEF At
<1>3. /\ r.steps \in Held /\ Head(r.steps) = "check" /\ r.worker = n
      /\ r \in [steps : AllSteps, worker : 0..n]
  <2>1. Tail(call[c].steps) \in Held /\ Head(Tail(call[c].steps)) = "check"
    BY <1>1, <1>2, HeldSteps DEF At
  <2>2. n \in 0..n
    BY <1>2
  <2> HIDE DEF n
  <2>3. /\ r.steps = Tail(call[c].steps) /\ r.worker = n
        /\ r \in [steps : AllSteps, worker : 0..n]
    BY <1>2, <2>1, <2>2 DEF Moved, AllSteps
  <2> HIDE DEF r
  <2> QED
    BY <2>1, <2>3
<1>4. /\ workers' \in Seq([stop : BOOLEAN, thread : Nat]) /\ Len(workers') = n
      /\ DOMAIN workers = 1..Len(workers) /\ DOMAIN workers' = 1..n
      /\ \A w \in 1..Len(workers) : workers'[w] = workers[w]
      /\ workers'[n].thread = 0
  <2>1. workers \in Seq([stop : BOOLEAN, thread : Nat]) /\ w0 \in [stop : BOOLEAN, thread : Nat]
    BY DEF IInv, Types
  <2>2. w0.thread = 0
    OBVIOUS
  <2> HIDE DEF w0
  <2> QED
    BY <1>1, <2>1, <2>2, AppendProperties, LenProperties
<1>5. /\ call' \in [Callers -> [steps : AllSteps, worker : 0..Len(workers')]]
      /\ Alone' /\ Owned' /\ call'[c] = r
      /\ \A d \in Callers \ {c} : call'[d].steps = <<>> /\ lock' # d
  <2>1. lock' \in {c, Nobody} /\ (r.steps \in Held <=> lock' = c)
    BY <1>1, <1>2, <1>3
  <2>2. r \in [steps : AllSteps, worker : 0..Len(workers')]
    BY <1>3, <1>4
  <2>3. Len(workers) <= Len(workers') /\ Len(workers') \in Nat
    BY <1>2, <1>4
  <2> HIDE DEF r
  <2> QED
    BY <1>1, <1>2, <2>1, <2>2, <2>3, Stepped
<1>6. Types'
  <2>1. registered' \in 0..Len(workers')
    BY <1>1, <1>2, <1>4
  <2>2. \A t \in DOMAIN threads' : threads'[t].of \in 1..Len(workers')
    BY <1>1, <1>2, <1>4 DEF IInv, Types
  <2>3. \A w \in DOMAIN workers' : workers'[w].thread \in 0..Len(threads')
    <3>1. \A w \in 1..Len(workers) : workers'[w].thread \in 0..Len(threads')
      BY <1>1, <1>4 DEF IInv, Types
    <3>2. workers'[n].thread \in 0..Len(threads')
      BY <1>1, <1>4, ThreadOf
    <3> QED
      BY <1>2, <1>4, <3>1, <3>2
  <2> QED
    BY <1>1, <1>4, <1>5, <2>1, <2>2, <2>3 DEF IInv, Types
<1>7. Current'
  BY <1>1, <1>4, ThreadOf DEF IInv, Current
<1>8. Known'
  <2>1. registered = 0
    BY <1>1, <1>2 DEF IInv, Chosen
  <2>2. Running = {}
    BY <1>2, <2>1, ThreadOf DEF Running
  <2>3. Running' = {}
    BY <1>1, <1>4, <2>2, ThreadOf DEF Running
  <2> QED
    BY <2>3 DEF Known
<1>9. Chosen'
  <2>1. r.steps \notin Free /\ registered' # 0
    BY <1>1, <1>2, <1>3, HeldSteps
  <2>2. r.worker = registered'
    BY <1>1, <1>3
  <2>3. r.steps # <<>> /\ Head(r.steps) = "check"
    BY <1>3, HeldSteps
  <2> HIDE DEF r
  <2> QED
    BY <1>5, <2>1, <2>2, <2>3, NoSteps DEF Chosen, At, W
<1> QED
  BY <1>5, <1>6, <1>7, <1>8, <1>9 DEF IInv

LEMMA CheckSafe ==
  ASSUME IInv, Nobody \notin Callers, NEW c \in Callers, Check(c)
  PROVE  IInv'
<1> DEFINE r == IF Alive(W(c)) THEN [Moved(c) EXCEPT !.steps = Tail(@)] ELSE Moved(c)
<1>1. UNCHANGED <<registered, workers, threads, lock>> /\ At(c, "check") /\ Moves(c, r)
  BY DEF Check
<1>2. /\ call[c] \in [steps : AllSteps, worker : 0..Len(workers)]
      /\ Len(workers) \in Nat
      /\ \/ call[c].steps \in Held /\ lock = c
         \/ call[c].steps \in Free /\ lock = Nobody
      /\ \A t \in Running : threads[t].of = registered
  BY <1>1, HasWorker
<1>3. /\ r \in [steps : AllSteps, worker : 0..Len(workers)] /\ r.worker = W(c)
      /\ call[c].steps \in Held =>
           r.steps \in Held /\ Head(r.steps) = (IF Alive(W(c)) THEN "unlock" ELSE "launch")
      /\ call[c].steps \in Free => r.steps = <<>> \/ (r.steps \in Free /\ Head(r.steps) = "launch")
      /\ Alive(W(c)) => r.steps = <<>> \/ Head(r.steps) = "unlock"
  <2>1. CASE Alive(W(c))
    BY <1>1, <1>2, <2>1, HeldSteps, FreeSteps DEF Moved, AllSteps, At, W
  <2>2. CASE ~ Alive(W(c))
    BY <1>1, <1>2, <2>2, HeldSteps, FreeSteps DEF Moved, AllSteps, At, W
  <2> QED
    BY <2>1, <2>2
<1>4. /\ call' \in [Callers -> [steps : AllSteps, worker : 0..Len(workers')]]
      /\ Alone' /\ Owned' /\ call'[c] = r
      /\ \A d \in Callers \ {c} : call'[d].steps = <<>> /\ lock' # d
  <2>1. lock' \in {c, Nobody} /\ (r.steps \in Held <=> lock' = c)
    BY <1>1, <1>2, <1>3, FreeSteps, NoSteps
  <2>2. r \in [steps : AllSteps, worker : 0..Len(workers')] /\ workers' = workers
    BY <1>1, <1>3
  <2>3. Len(workers) <= Len(workers') /\ Len(workers') \in Nat
    BY <1>2, <2>2
  <2> HIDE DEF r
  <2> QED
    BY <1>1, <1>2, <2>1, <2>2, <2>3, Stepped
<1>5. Types'
  BY <1>1, <1>4 DEF IInv, Types
<1>6. Current' /\ Known'
  BY <1>1, <1>2 DEF IInv, Current, Known, Running
<1>7. Chosen'
  <2>1. W(c) = registered /\ registered # 0
    BY <1>1, <1>2 DEF IInv, Chosen
  <2>2. r.steps = <<>> \/ Head(r.steps) \in {"launch", "unlock"}
    BY <1>2, <1>3
  <2>3. r.steps # <<>> /\ Head(r.steps) = "launch" => ~ Alive(W(c))
    BY <1>3
  <2>4. r.worker = W(c)
    BY <1>3
  <2>5. Alive(W(c))' <=> Alive(r.worker)
    BY <1>1, <1>4 DEF Alive, W
  <2> HIDE DEF r
  <2> QED
    BY <1>1, <1>4, <2>1, <2>2, <2>3, <2>4, <2>5, NoSteps DEF Chosen, At, W
<1> QED
  BY <1>4, <1>5, <1>6, <1>7 DEF IInv

LEMMA LaunchSafe ==
  ASSUME IInv, Nobody \notin Callers, NEW c \in Callers, Launch(c)
  PROVE  IInv'
<1> DEFINE n == Len(threads) + 1
           r == Moved(c)
           t0 == [of |-> W(c), alive |-> TRUE]
           w0 == [stop |-> FALSE, thread |-> n]
<1>1. /\ UNCHANGED <<registered, lock>> /\ At(c, "launch") /\ Moves(c, r)
      /\ threads' = Append(threads, t0)
      /\ workers' = [workers EXCEPT ![W(c)] = w0]
  BY DEF Launch
<1>2. /\ call[c] \in [steps : AllSteps, worker : 0..Len(workers)]
      /\ Len(workers) \in Nat
      /\ \/ call[c].steps \in Held /\ lock = c
         \/ call[c].steps \in Free /\ lock = Nobody
      /\ \A t \in Running : threads[t].of = registered
  BY <1>1, HasWorker
<1>3. /\ r \in [steps : AllSteps, worker : 0..Len(workers)] /\ r.worker = W(c)
      /\ call[c].steps \in Held => r.steps \in Held /\ Head(r.steps) = "unlock"
      /\ call[c].steps \in Free => r.steps = <<>>
  BY <1>1, <1>2, HeldSteps, FreeSteps DEF Moved, AllSteps, At, W
<1>4. W(c) = registered /\ W(c) \in 1..Len(workers) /\ ~ Alive(W(c))
  <2>1. W(c) = registered /\ registered # 0 /\ ~ Alive(W(c))
    BY <1>1, <1>2 DEF IInv, Chosen
  <2> QED
    BY <1>2, <2>1 DEF W
<1>5. /\ threads' \in Seq([of : Nat, alive : BOOLEAN]) /\ Len(threads') = n
      /\ DOMAIN threads = 1..Len(threads) /\ DOMAIN threads' = 1..n /\ Len(threads) \in Nat
      /\ \A t \in 1..Len(threads) : threads'[t] = threads[t]
      /\ threads'[n].of = W(c) /\ threads'[n].alive
  <2>1. threads \in Seq([of : Nat, alive : BOOLEAN]) /\ t0 \in [of : Nat, alive : BOOLEAN]
    BY <1>4 DEF IInv, Types
  <2>2. t0.of = W(c) /\ t0.alive
    OBVIOUS
  <2> HIDE DEF t0
  <2> QED
    BY <1>1, <2>1, <2>2, AppendProperties, LenProperties
<1>6. /\ workers' \in Seq([stop : BOOLEAN, thread : Nat]) /\ Len(workers') = Len(workers)
      /\ DOMAIN workers = 1..Len(workers) /\ DOMAIN workers' = 1..Len(workers)
      /\ \A w \in 1..Len(workers) \ {W(c)} : workers'[w] = workers[w]
      /\ workers'[W(c)].thread = n
  <2>1. workers \in Seq([stop : BOOLEAN, thread : Nat]) /\ w0 \in [stop : BOOLEAN, thread : Nat]
    BY <1>5 DEF IInv, Types
  <2>2. w0.thread = n
    OBVIOUS
  <2> HIDE DEF w0, n
  <2> QED
    BY <1>1, <1>4, <2>1, <2>2, ExceptSeq, LenProperties
<1>7. /\ call' \in [Callers -> [steps : AllSteps, worker : 0..Len(workers')]]
      /\ Alone' /\ Owned' /\ call'[c] = r
      /\ \A d \in Callers \ {c} : call'[d].steps = <<>> /\ lock' # d
  <2>1. lock' \in {c, Nobody} /\ (r.steps \in Held <=> lock' = c)
    BY <1>1, <1>2, <1>3, FreeSteps, NoSteps
  <2>2. r \in [steps : AllSteps, worker : 0..Len(workers')]
    BY <1>3, <1>6
  <2>3. Len(workers) <= Len(workers') /\ Len(workers') \in Nat
    BY <1>2, <1>6
  <2> HIDE DEF r
  <2> QED
    BY <1>1, <1>2, <2>1, <2>2, <2>3, Stepped
<1>8. Types'
  <2>1. \A t \in DOMAIN threads' : threads'[t].of \in 1..Len(workers')
    <3>1. \A t \in 1..Len(threads) : threads'[t].of \in 1..Len(workers')
      BY <1>5, <1>6 DEF IInv, Types
    <3>2. threads'[n].of \in 1..Len(workers')
      BY <1>4, <1>5, <1>6
    <3> QED
      BY <1>5, <3>1, <3>2
  <2>2. \A w \in DOMAIN workers' : workers'[w].thread \in 0..Len(threads')
    <3>1. ASSUME NEW w \in 1..Len(workers) \ {W(c)} PROVE workers'[w].thread \in 0..Len(threads')
      <4>1. workers[w].thread \in 0..Len(threads)
        BY <1>6 DEF IInv, Types
      <4> QED
        BY <1>5, <1>6, <4>1
    <3>2. workers'[W(c)].thread \in 0..Len(threads')
      BY <1>5, <1>6
    <3> QED
      BY <1>6, <3>1, <3>2
  <2> QED
    BY <1>1, <1>5, <1>6, <1>7, <2>1, <2>2 DEF IInv, Types
<1>9. \A t \in 1..Len(threads) : threads[t].alive => threads[t].of \in 1..Len(workers) \ {W(c)}
  <2>1. SUFFICES ASSUME NEW t \in 1..Len(threads), threads[t].alive, threads[t].of = W(c)
                 PROVE  FALSE
    BY <1>5, <1>6, ThreadOf
  <2>2. workers[W(c)].thread = t
    BY <1>5, <2>1 DEF IInv, Current
  <2> QED
    BY <1>4, <2>1, <2>2 DEF Alive
<1>10. Current'
  <2>1. ASSUME NEW t \in 1..Len(threads), threads'[t].alive
        PROVE  workers'[threads'[t].of].thread = t
    <3>1. threads[t].alive /\ workers[threads[t].of].thread = t
      BY <1>5, <2>1 DEF IInv, Current
    <3> QED
      BY <1>5, <1>6, <1>9, <3>1
  <2>2. workers'[threads'[n].of].thread = n
    BY <1>5, <1>6
  <2>3. \A t \in DOMAIN threads' : t = n \/ t \in 1..Len(threads)
    BY <1>5
  <2> QED
    BY <2>1, <2>2, <2>3 DEF Current
<1>11. Known'
  <2>1. SUFFICES ASSUME NEW t \in Running', t \in 1..Len(threads) PROVE FALSE
    BY <1>1, <1>4, <1>5 DEF Known, Running
  <2>2. t \in Running /\ threads[t].of # W(c)
    BY <1>5, <1>6, <1>9, <2>1 DEF Running
  <2> QED
    BY <1>2, <1>4, <2>2
<1>12. Chosen'
  <2>1. r.steps = <<>> \/ (r.steps \notin Free /\ Head(r.steps) = "unlock")
    BY <1>2, <1>3, HeldSteps
  <2> HIDE DEF r
  <2> QED
    BY <1>7, <2>1, NoSteps DEF Chosen, At, W
<1> QED
  BY <1>7, <1>8, <1>10, <1>11, <1>12 DEF IInv

LEMMA UnlockSafe ==
  ASSUME IInv, Nobody \notin Callers, NEW c \in Callers, Unlock(c)
  PROVE  IInv'
<1> DEFINE r == Moved(c)
<1>1. /\ UNCHANGED <<registered, workers, threads>>
      /\ At(c, "unlock") /\ lock' = Nobody /\ Moves(c, r)
  BY DEF Unlock
<1>2. /\ call[c] \in [steps : AllSteps, worker : 0..Len(workers)]
      /\ Len(workers) \in Nat
      /\ call[c].steps \in Held /\ lock = c
      /\ \A t \in Running : threads[t].of = registered
  BY <1>1, HasWorker, FreeSteps DEF At
<1>3. r \in [steps : AllSteps, worker : 0..Len(workers)] /\ r.steps = <<>>
  BY <1>1, <1>2, HeldSteps DEF Moved, AllSteps, At
<1>4. /\ call' \in [Callers -> [steps : AllSteps, worker : 0..Len(workers')]]
      /\ Alone' /\ Owned' /\ call'[c] = r
      /\ \A d \in Callers \ {c} : call'[d].steps = <<>> /\ lock' # d
  <2>1. lock' \in {c, Nobody} /\ (r.steps \in Held <=> lock' = c)
    BY <1>1, <1>3, NoSteps
  <2>2. r \in [steps : AllSteps, worker : 0..Len(workers')] /\ workers' = workers
    BY <1>1, <1>3
  <2>3. Len(workers) <= Len(workers') /\ Len(workers') \in Nat
    BY <1>2, <2>2
  <2> HIDE DEF r
  <2> QED
    BY <1>1, <1>2, <2>1, <2>2, <2>3, Stepped
<1>5. Types'
  BY <1>1, <1>4 DEF IInv, Types
<1>6. Current' /\ Known'
  BY <1>1, <1>2 DEF IInv, Current, Known, Running
<1>7. Chosen'
  BY <1>3, <1>4, NoSteps DEF Chosen, At
<1> QED
  BY <1>4, <1>5, <1>6, <1>7 DEF IInv

\* A thread that ends takes no more ticks.
LEMMA EndSafe ==
  ASSUME IInv, NEW t \in DOMAIN threads, End(t)
  PROVE  IInv'
<1> DEFINE t0 == [threads[t] EXCEPT !.alive = FALSE]
<1>1. /\ UNCHANGED <<registered, workers, lock, call>>
      /\ threads' = [threads EXCEPT ![t] = t0]
  BY DEF End
<1>2. /\ threads' \in Seq([of : Nat, alive : BOOLEAN]) /\ Len(threads') = Len(threads)
      /\ DOMAIN threads' = DOMAIN threads
      /\ \A u \in DOMAIN threads : /\ threads'[u].of = threads[u].of
                                   /\ threads'[u].alive => threads[u].alive
  <2>1. threads \in Seq([of : Nat, alive : BOOLEAN])
    BY DEF IInv, Types
  <2>2. /\ t \in 1..Len(threads) /\ DOMAIN threads = 1..Len(threads)
        /\ threads[t] \in [of : Nat, alive : BOOLEAN]
    BY <2>1, LenProperties, ElementOfSeq
  <2>3. t0 \in [of : Nat, alive : BOOLEAN] /\ t0.of = threads[t].of /\ ~ t0.alive
    BY <2>2
  <2> HIDE DEF t0
  <2> QED
    BY <1>1, <2>1, <2>2, <2>3, ExceptSeq, LenProperties
<1>3. Types'
  BY <1>1, <1>2 DEF IInv, Types
<1>4. Alone' /\ Owned' /\ Current'
  BY <1>1, <1>2 DEF IInv, Alone, Owned, Current
<1>5. Known'
  <2>1. Running' \subseteq Running
    BY <1>1, <1>2 DEF Running
  <2> QED
    BY <1>1, <1>2, <2>1 DEF IInv, Known, At, W, Running
<1>6. Chosen'
  <2>1. ASSUME NEW c \in Callers, At(c, "launch") PROVE ~ Alive(W(c))'
    <3>1. ~ Alive(W(c)) /\ W(c) \in 0..Len(workers)
      BY <2>1 DEF IInv, Chosen, Types, W
    <3>2. W(c) # 0
      BY <2>1, HeldSteps, FreeSteps, AskedSteps DEF IInv, Chosen, Types, AllSteps, At, Owned
    <3>3. workers[W(c)].thread \in 0..Len(threads)
      BY <3>1, <3>2, ThreadOf DEF IInv, Types
    <3> QED
      BY <1>1, <1>2, <3>1, <3>3, ThreadOf DEF Alive, W
  <2> QED
    BY <1>1, <2>1 DEF IInv, Chosen, At, W
<1> QED
  BY <1>3, <1>4, <1>5, <1>6 DEF IInv

-----------------------------------------------------------------------------

LEMMA SafeNext ==
  ASSUME Nobody \notin Callers
  PROVE  (~ overlapped => IInv) /\ [Next]_vars => (~ overlapped' => IInv')
<1> SUFFICES ASSUME ~ overlapped => IInv, [Next]_vars, ~ overlapped' PROVE IInv'
  OBVIOUS
<1>1. IInv
  BY DEF Next, vars, Request, Get, Pop, SetStop, Join, Create, Check, Launch, Unlock, End
<1>2. CASE UNCHANGED vars
  BY <1>1, <1>2 DEF vars, IInv, Types, Alone, Owned, Current, Known, Chosen, Running, At, W, Alive
<1>3. ASSUME NEW c \in Callers,
             \/ \E kind \in DOMAIN Steps : Request(c, kind)
             \/ Get(c) \/ Pop(c) \/ SetStop(c) \/ Join(c)
             \/ Create(c) \/ Check(c) \/ Launch(c) \/ Unlock(c)
      PROVE  IInv'
  BY <1>1, <1>3, RequestSafe, GetSafe, PopSafe, SetStopSafe, JoinSafe,
     CreateSafe, CheckSafe, LaunchSafe, UnlockSafe
<1>4. ASSUME NEW t \in DOMAIN threads, End(t) PROVE IInv'
  BY <1>1, <1>4, EndSafe
<1> QED
  BY <1>2, <1>3, <1>4 DEF Next

LEMMA InvGivesOneWorker ==
  ASSUME Nobody \notin Callers, IInv
  PROVE  OneWorkerRuns
<1>1. ASSUME NEW t \in Running, NEW u \in Running PROVE threads[t].of = threads[u].of
  <2>1. CASE \E c \in Callers : lock = c /\ At(c, "stop")
    <3>1. PICK c \in Callers : lock = c /\ At(c, "stop")
      BY <2>1
    <3>2. registered = 0
      BY <3>1 DEF IInv, Chosen
    <3>3. threads[t].of # registered /\ threads[u].of # registered
      BY <3>2, ThreadOf DEF Running
    <3> QED
      BY <3>1, <3>3 DEF IInv, Known
  <2>2. CASE ~ \E c \in Callers : lock = c /\ At(c, "stop")
    BY <2>2 DEF IInv, Known
  <2> QED
    BY <2>1, <2>2
<1>2. \A t, u \in Running : t = u
  BY <1>1 DEF IInv, Current, Running
<1>3. lock = Nobody => \A t \in Running : threads[t].of = registered
  BY DEF IInv, Known
<1> QED
  BY <1>2, <1>3 DEF OneWorkerRuns

\* runtime.py:207-210: however many requests come, one after the other, and however
\* long a thread outlives its stop, the threads that would take the next tick are one
\* at most, and it is the registered worker's.
THEOREM OneWorker ==
  ASSUME Nobody \notin Callers
  PROVE  Spec => []OneWorkerRuns
<1>1. Init => (~ overlapped => IInv)
  BY InitSafe
<1>2. (~ overlapped => IInv) /\ [Next]_vars => (~ overlapped => IInv)'
  BY SafeNext
<1>3. (~ overlapped => IInv) => OneWorkerRuns
  BY InvGivesOneWorker DEF OneWorkerRuns
<1> QED
  BY <1>1, <1>2, <1>3, PTL DEF Spec

-----------------------------------------------------------------------------
(* Requests that overlap: nothing is left of the above but the types *)

\* A request has a worker when it is about to stop or to start one.
Armed(r) == r.steps \in Free \/ (r.steps \in Held /\ Head(r.steps) \in {"check", "launch"})
              => r.worker # 0

Typed == Types /\ \A c \in Callers : Armed(call[c])

Calling(n) == [steps : AllSteps, worker : 0..n]

\* A step of a request that has the others as they were.
LEMMA CallTyped ==
  ASSUME Typed, NEW c \in Callers, NEW r \in Calling(Len(workers')), Armed(r), Moves(c, r),
         Len(workers) \in Nat, Len(workers') \in Nat, Len(workers) <= Len(workers')
  PROVE  /\ call' \in [Callers -> Calling(Len(workers'))]
         /\ \A d \in Callers : Armed(call'[d])
<1>1. call' = [call EXCEPT ![c] = r] /\ call \in [Callers -> Calling(Len(workers))]
  BY DEF Moves, Typed, Types, Calling
<1>2. Calling(Len(workers)) \subseteq Calling(Len(workers'))
  <2>1. 0..Len(workers) \subseteq 0..Len(workers')
    OBVIOUS
  <2> QED
    BY <2>1 DEF Calling
<1>3. call' \in [Callers -> Calling(Len(workers'))]
  BY <1>1, <1>2
<1>4. call'[c] = r /\ \A d \in Callers \ {c} : call'[d] = call[d]
  BY <1>1
<1> QED
  BY <1>3, <1>4 DEF Typed

LEMMA TypedFacts ==
  ASSUME Typed, NEW c \in Callers
  PROVE  /\ registered \in 0..Len(workers) /\ Len(workers) \in Nat /\ Len(threads) \in Nat
         /\ workers \in Seq([stop : BOOLEAN, thread : Nat])
         /\ threads \in Seq([of : Nat, alive : BOOLEAN])
         /\ DOMAIN workers = 1..Len(workers) /\ DOMAIN threads = 1..Len(threads)
         /\ call[c].steps \in AllSteps /\ W(c) \in 0..Len(workers)
         /\ call[c] \in Calling(Len(workers))
         /\ Moved(c).steps = Tail(call[c].steps) /\ Moved(c).worker = W(c)
         /\ DOMAIN Moved(c) = {"steps", "worker"}
<1>1. call[c] \in [steps : AllSteps, worker : 0..Len(workers)]
  BY DEF Typed, Types
<1>2. workers \in Seq([stop : BOOLEAN, thread : Nat]) /\ threads \in Seq([of : Nat, alive : BOOLEAN])
  BY DEF Typed, Types
<1>3. /\ Len(workers) \in Nat /\ DOMAIN workers = 1..Len(workers)
      /\ Len(threads) \in Nat /\ DOMAIN threads = 1..Len(threads)
  BY <1>2, LenProperties
<1> QED
  BY <1>1, <1>2, <1>3 DEF Typed, Types, Calling, Moved, W

\* A step of a request changes the one field and keeps the other.
LEMMA StepsMove ==
  ASSUME NEW S, NEW T, NEW r \in [steps : S, worker : T], NEW U, NEW u \in U
  PROVE  /\ [r EXCEPT !.steps = u] \in [steps : U, worker : T]
         /\ [r EXCEPT !.steps = u].steps = u
         /\ [r EXCEPT !.steps = u].worker = r.worker
OBVIOUS

LEMMA WorkerMoves ==
  ASSUME NEW S, NEW T, NEW r \in [steps : S, worker : T], NEW U, NEW u \in U
  PROVE  /\ [r EXCEPT !.worker = u] \in [steps : S, worker : U]
         /\ [r EXCEPT !.worker = u].steps = r.steps
         /\ [r EXCEPT !.worker = u].worker = u
OBVIOUS

\* What the request asks for next, on its worker or on another.
LEMMA MovedTyped ==
  ASSUME Typed, NEW c \in Callers, Tail(call[c].steps) \in AllSteps
  PROVE  /\ Moved(c) \in Calling(Len(workers))
         /\ Moved(c).steps = Tail(call[c].steps) /\ Moved(c).worker = W(c)
<1>1. call[c] \in [steps : AllSteps, worker : 0..Len(workers)]
  BY DEF Typed, Types
<1>2. Moved(c) = [call[c] EXCEPT !.steps = Tail(call[c].steps)]
  BY DEF Moved
<1> QED
  BY <1>1, <1>2, StepsMove DEF Calling, W

LEMMA MovedToTyped ==
  ASSUME Typed, NEW c \in Callers, Tail(call[c].steps) \in AllSteps,
         NEW n \in Nat, NEW w \in 0..n
  PROVE  /\ [Moved(c) EXCEPT !.worker = w] \in Calling(n)
         /\ [Moved(c) EXCEPT !.worker = w].steps = Tail(call[c].steps)
         /\ [Moved(c) EXCEPT !.worker = w].worker = w
<1>1. Moved(c) \in [steps : AllSteps, worker : 0..Len(workers)]
  BY MovedTyped DEF Calling
<1>2. Moved(c).steps = Tail(call[c].steps)
  BY MovedTyped
<1> QED
  BY <1>1, <1>2, WorkerMoves DEF Calling

\* What a request goes on to do after its step.
LEMMA StepsOf ==
  ASSUME NEW s \in AllSteps, s # <<>>
  PROVE  /\ s \in Asked \cup Free \cup Held
         /\ Head(s) = "get" => Tail(s) \in Free
         /\ Head(s) = "pop" => Tail(s) \in Held /\ Head(Tail(s)) = "stop"
         /\ Head(s) = "stop" => (s \in Free /\ Tail(s) \in Free)
                                \/ (s \in Held /\ Tail(s) \in Held /\ Head(Tail(s)) = "join")
         /\ Head(s) = "join" => (s \in Free /\ Tail(s) \in Free \cup {<<>>})
                                \/ (s \in Held /\ Tail(s) \in Held /\ Head(Tail(s)) \in {"create", "unlock"})
         /\ Head(s) = "create" => s \in Held /\ Tail(s) \in Held
         /\ Head(s) = "check" =>
              \/ s \in Free /\ Tail(s) \in Free /\ Tail(Tail(s)) = <<>>
              \/ s \in Held /\ Tail(s) \in Held /\ Tail(Tail(s)) \in Held /\ Head(Tail(Tail(s))) = "unlock"
         /\ Head(s) = "launch" => (s \in Free /\ Tail(s) = <<>>)
                                  \/ (s \in Held /\ Tail(s) \in Held /\ Head(Tail(s)) = "unlock")
         /\ Head(s) = "unlock" => Tail(s) = <<>>
<1>1. CASE s \in Asked
  BY <1>1, AskedSteps
<1>2. CASE s \in Free
  BY <1>2, FreeSteps
<1>3. CASE s \in Held
  BY <1>3, HeldSteps
<1> QED
  BY <1>1, <1>2, <1>3 DEF AllSteps

\* A step that leaves workers and threads alone.
LEMMA PlainTyped ==
  ASSUME Typed, NEW c \in Callers, NEW r, Moves(c, r), r \in Calling(Len(workers)), Armed(r),
         UNCHANGED <<workers, threads>>, registered' \in {0, registered},
         lock' \in {lock, c, Nobody}
  PROVE  Typed'
<1>1. registered \in 0..Len(workers) /\ Len(workers) \in Nat
  BY TypedFacts
<1>2. /\ call' \in [Callers -> Calling(Len(workers'))]
      /\ \A d \in Callers : Armed(call'[d])
  BY <1>1, CallTyped
<1>3. registered' \in 0..Len(workers) /\ lock' \in Callers \cup {Nobody}
  BY <1>1 DEF Typed, Types
<1>4. Types'
  BY <1>2, <1>3 DEF Typed, Types, Calling
<1> QED
  BY <1>2, <1>4 DEF Typed

LEMMA QuietTyped ==
  ASSUME Typed, NEW c \in Callers,
         \/ \E kind \in DOMAIN Steps : Request(c, kind)
         \/ Get(c) \/ Pop(c) \/ Join(c) \/ Check(c) \/ Unlock(c)
  PROVE  Typed'
<1> DEFINE s == call[c].steps
<1>1. /\ registered \in 0..Len(workers) /\ Len(workers) \in Nat
      /\ s \in AllSteps /\ W(c) \in 0..Len(workers)
      /\ Moved(c).steps = Tail(s) /\ Moved(c).worker = W(c)
      /\ DOMAIN Moved(c) = {"steps", "worker"} /\ call[c].worker = W(c) /\ Armed(call[c])
  BY TypedFacts DEF W, Typed
<1>2. <<>> \in AllSteps /\ Asked \subseteq AllSteps /\ Free \subseteq AllSteps /\ Held \subseteq AllSteps
  BY DEF AllSteps
<1>3. ASSUME NEW kind \in DOMAIN Steps, Request(c, kind) PROVE Typed'
  <2>1. Steps[kind] \in Asked
    BY DEF Steps, Asked
  <2>2. [steps |-> Steps[kind], worker |-> 0] \in Calling(Len(workers))
    BY <1>1, <1>2, <2>1 DEF Calling
  <2>3. Armed([steps |-> Steps[kind], worker |-> 0])
    BY <2>1, AskedSteps DEF Armed
  <2> QED
    BY <1>3, <2>2, <2>3, PlainTyped DEF Request, Moves
<1>4. CASE Get(c)
  <2>1. s # <<>> /\ Head(s) = "get"
    BY <1>4 DEF Get, At
  <2>2. Tail(s) \in Free
    BY <1>1, <2>1, StepsOf
  <2>3. CASE registered = 0
    <3>1. NoCall \in Calling(Len(workers)) /\ Armed(NoCall)
      BY <1>1, <1>2, NoSteps DEF Calling, NoCall, Armed
    <3> QED
      BY <1>4, <2>3, <3>1, PlainTyped DEF Get
  <2>4. CASE registered # 0
    <3> DEFINE r == [Moved(c) EXCEPT !.worker = registered]
    <3>1. r \in Calling(Len(workers)) /\ r.steps = Tail(s) /\ r.worker = registered
      BY <1>1, <1>2, <2>2, MovedToTyped
    <3> HIDE DEF r
    <3>2. Armed(r)
      BY <2>4, <3>1 DEF Armed
    <3> QED
      BY <1>4, <2>4, <3>1, <3>2, PlainTyped DEF Get, r
  <2> QED
    BY <2>3, <2>4
<1>5. CASE Pop(c)
  <2>1. s # <<>> /\ Head(s) = "pop"
    BY <1>5 DEF Pop, At
  <2>2. Tail(s) \in Held /\ Head(Tail(s)) = "stop"
    BY <1>1, <2>1, StepsOf
  <2> DEFINE r == [Moved(c) EXCEPT !.worker = registered]
  <2>3. r \in Calling(Len(workers)) /\ r.steps = Tail(s)
    BY <1>1, <1>2, <2>2, MovedToTyped
  <2> HIDE DEF r
  <2>4. Armed(r)
    BY <2>2, <2>3, HeldSteps DEF Armed
  <2> QED
    BY <1>5, <2>3, <2>4, PlainTyped DEF Pop, r
<1>7. CASE Join(c)
  <2>1. s # <<>> /\ Head(s) = "join"
    BY <1>7 DEF Join, At
  <2>2. Tail(s) \in AllSteps
    BY <1>1, <1>2, <2>1, StepsOf
  <2>3. Moved(c) \in Calling(Len(workers)) /\ Moved(c).steps = Tail(s)
    BY <2>2, MovedTyped
  <2>4. Armed(Moved(c))
    <3>1. CASE s \in Free
      BY <1>1, <2>3, <3>1 DEF Armed
    <3>2. CASE Tail(s) \in Held /\ Head(Tail(s)) \in {"create", "unlock"}
      BY <2>3, <3>2, HeldSteps DEF Armed
    <3> QED
      BY <1>1, <2>1, <3>1, <3>2, StepsOf
  <2> QED
    BY <1>7, <2>3, <2>4, PlainTyped DEF Join
<1>8. CASE Check(c)
  <2>1. s # <<>> /\ Head(s) = "check"
    BY <1>8 DEF Check, At
  <2>2. W(c) # 0
    BY <1>1, <2>1, StepsOf DEF Armed
  <2>3. Tail(s) \in AllSteps /\ Tail(Tail(s)) \in AllSteps
    BY <1>1, <1>2, <2>1, StepsOf
  <2>4. Moved(c) \in Calling(Len(workers)) /\ Moved(c).steps = Tail(s) /\ Moved(c).worker # 0
    BY <2>2, <2>3, MovedTyped
  <2> DEFINE r == [Moved(c) EXCEPT !.steps = Tail(Moved(c).steps)]
  <2>5. r \in Calling(Len(workers)) /\ r.worker # 0
    BY <2>3, <2>4, StepsMove DEF Calling
  <2>6. Moves(c, IF Alive(W(c)) THEN r ELSE Moved(c))
    BY <1>8 DEF Check
  <2> HIDE DEF r
  <2>7. Armed(r) /\ Armed(Moved(c))
    BY <2>4, <2>5 DEF Armed
  <2>8. UNCHANGED <<workers, threads, registered, lock>>
    BY <1>8 DEF Check
  <2> QED
    BY <2>4, <2>5, <2>6, <2>7, <2>8, PlainTyped
<1>9. CASE Unlock(c)
  <2>1. s # <<>> /\ Head(s) = "unlock"
    BY <1>9 DEF Unlock, At
  <2>2. Tail(s) = <<>>
    BY <1>1, <2>1, StepsOf
  <2>3. Moved(c) \in Calling(Len(workers)) /\ Moved(c).steps = <<>>
    BY <1>2, <2>2, MovedTyped
  <2>4. Armed(Moved(c))
    BY <2>3, NoSteps DEF Armed
  <2> QED
    BY <1>9, <2>3, <2>4, PlainTyped DEF Unlock
<1> QED
  BY <1>3, <1>4, <1>5, <1>7, <1>8, <1>9

LEMMA SetStopTyped ==
  ASSUME Typed, NEW c \in Callers, SetStop(c)
  PROVE  Typed'
<1> DEFINE s == call[c].steps
<1>1. /\ registered \in 0..Len(workers) /\ Len(workers) \in Nat
      /\ s \in AllSteps /\ W(c) \in 0..Len(workers)
      /\ call[c].worker = W(c) /\ Armed(call[c])
      /\ workers \in Seq([stop : BOOLEAN, thread : Nat]) /\ DOMAIN workers = 1..Len(workers)
      /\ s # <<>> /\ Head(s) = "stop"
  BY TypedFacts DEF W, Typed, SetStop, At
<1>2. Tail(s) \in AllSteps
  BY <1>1, StepsOf DEF AllSteps
<1>3. /\ workers' \in Seq([stop : BOOLEAN, thread : Nat]) /\ Len(workers') = Len(workers)
      /\ \A w \in 1..Len(workers) : workers'[w].thread = workers[w].thread
  <2>1. CASE W(c) = 0
    BY <1>1, <2>1 DEF SetStop
  <2>2. CASE W(c) # 0
    <3> DEFINE v == [workers[W(c)] EXCEPT !.stop = TRUE]
    <3>1. W(c) \in 1..Len(workers)
      BY <1>1, <2>2
    <3>2. workers[W(c)] \in [stop : BOOLEAN, thread : Nat]
      BY <1>1, <3>1, ElementOfSeq
    <3>3. v \in [stop : BOOLEAN, thread : Nat] /\ v.thread = workers[W(c)].thread
      BY <3>2
    <3>4. workers' = [workers EXCEPT ![W(c)] = v]
      BY <2>2 DEF SetStop
    <3> HIDE DEF v
    <3> QED
      BY <1>1, <3>1, <3>3, <3>4, ExceptSeq, LenProperties
  <2> QED
    BY <2>1, <2>2
<1>4. Moved(c) \in Calling(Len(workers')) /\ Armed(Moved(c))
  <2>1. Moved(c) \in Calling(Len(workers)) /\ Moved(c).steps = Tail(s) /\ Moved(c).worker = W(c)
    BY <1>2, MovedTyped
  <2>2. CASE s \in Free
    BY <1>1, <1>3, <2>1, <2>2 DEF Armed
  <2>3. CASE Tail(s) \in Held /\ Head(Tail(s)) = "join"
    BY <1>3, <2>1, <2>3, HeldSteps DEF Armed
  <2> QED
    BY <1>1, <2>2, <2>3, StepsOf
<1>5. Moves(c, Moved(c)) /\ UNCHANGED <<registered, threads, lock>>
  BY DEF SetStop
<1>6. /\ call' \in [Callers -> Calling(Len(workers'))]
      /\ \A d \in Callers : Armed(call'[d])
  BY <1>1, <1>3, <1>4, <1>5, CallTyped
<1>7. DOMAIN workers' = 1..Len(workers)
  BY <1>1, <1>3, LenProperties
<1>8. Types'
  BY <1>1, <1>3, <1>5, <1>6, <1>7 DEF Typed, Types, Calling
<1> QED
  BY <1>6, <1>8 DEF Typed

LEMMA CreateTyped ==
  ASSUME Typed, NEW c \in Callers, Create(c)
  PROVE  Typed'
<1> DEFINE s == call[c].steps
           n == Len(workers) + 1
           w0 == [stop |-> FALSE, thread |-> 0]
           r == [Moved(c) EXCEPT !.worker = n]
<1>1. /\ Len(workers) \in Nat /\ Len(threads) \in Nat /\ s \in AllSteps
      /\ workers \in Seq([stop : BOOLEAN, thread : Nat]) /\ DOMAIN workers = 1..Len(workers)
      /\ s # <<>> /\ Head(s) = "create"
      /\ DOMAIN threads = 1..Len(threads)
  BY TypedFacts DEF Create, At
<1>2. Tail(s) \in AllSteps
  BY <1>1, StepsOf DEF AllSteps
<1>3. /\ UNCHANGED <<threads, lock>> /\ Moves(c, r) /\ registered' = n
      /\ workers' = Append(workers, w0)
  BY DEF Create
<1>4. w0 \in [stop : BOOLEAN, thread : Nat] /\ w0.thread = 0
  OBVIOUS
<1> HIDE DEF w0
<1>5. /\ workers' \in Seq([stop : BOOLEAN, thread : Nat]) /\ Len(workers') = n
      /\ DOMAIN workers' = 1..n
      /\ \A w \in 1..Len(workers) : workers'[w] = workers[w]
      /\ workers'[n].thread = 0
  BY <1>1, <1>3, <1>4, AppendProperties, LenProperties
<1>6. n \in Nat /\ n \in 0..n /\ n # 0
  BY <1>1
<1>7. r \in Calling(Len(workers')) /\ Armed(r)
  <2>1. r \in Calling(n) /\ r.worker # 0
    <3> HIDE DEF n
    <3> QED
      BY <1>2, <1>6, MovedToTyped
  <2> HIDE DEF r
  <2> QED
    BY <1>5, <2>1 DEF Armed
<1> HIDE DEF r
<1>8. /\ call' \in [Callers -> Calling(Len(workers'))]
      /\ \A d \in Callers : Armed(call'[d])
  BY <1>1, <1>3, <1>5, <1>7, CallTyped
<1>9. registered' \in 0..Len(workers')
  BY <1>1, <1>3, <1>5
<1>10. \A t \in DOMAIN threads' : threads'[t].of \in 1..Len(workers')
  BY <1>1, <1>3, <1>5 DEF Typed, Types
<1>11. \A w \in DOMAIN workers' : workers'[w].thread \in 0..Len(threads')
  <2>1. \A w \in 1..Len(workers) : workers'[w].thread \in 0..Len(threads')
    BY <1>1, <1>3, <1>5 DEF Typed, Types
  <2>2. workers'[n].thread \in 0..Len(threads')
    BY <1>1, <1>3, <1>5
  <2> QED
    BY <1>1, <1>5, <2>1, <2>2
<1>12. Types'
  BY <1>3, <1>5, <1>8, <1>9, <1>10, <1>11 DEF Typed, Types, Calling
<1> QED
  BY <1>8, <1>12 DEF Typed

LEMMA LaunchTyped ==
  ASSUME Typed, NEW c \in Callers, Launch(c)
  PROVE  Typed'
<1> DEFINE s == call[c].steps
           n == Len(threads) + 1
           t0 == [of |-> W(c), alive |-> TRUE]
           w0 == [stop |-> FALSE, thread |-> n]
<1>1. /\ Len(workers) \in Nat /\ Len(threads) \in Nat /\ s \in AllSteps
      /\ registered \in 0..Len(workers) /\ W(c) \in 0..Len(workers)
      /\ workers \in Seq([stop : BOOLEAN, thread : Nat]) /\ DOMAIN workers = 1..Len(workers)
      /\ threads \in Seq([of : Nat, alive : BOOLEAN]) /\ DOMAIN threads = 1..Len(threads)
      /\ s # <<>> /\ Head(s) = "launch" /\ Armed(call[c]) /\ call[c].worker = W(c)
  BY TypedFacts DEF Launch, At, W, Typed
<1>2. Tail(s) \in AllSteps
  BY <1>1, StepsOf DEF AllSteps
<1>3. /\ UNCHANGED <<registered, lock>> /\ Moves(c, Moved(c))
      /\ threads' = Append(threads, t0)
      /\ workers' = [workers EXCEPT ![W(c)] = w0]
  BY DEF Launch
<1>4. W(c) \in 1..Len(workers)
  <2>1. W(c) # 0
    BY <1>1, StepsOf DEF Armed
  <2> QED
    BY <1>1, <2>1
<1>5. /\ t0 \in [of : Nat, alive : BOOLEAN] /\ t0.of = W(c)
      /\ w0 \in [stop : BOOLEAN, thread : Nat] /\ w0.thread = n
  BY <1>1, <1>4
<1> HIDE DEF t0, w0
<1>6. /\ threads' \in Seq([of : Nat, alive : BOOLEAN]) /\ Len(threads') = n
      /\ DOMAIN threads' = 1..n
      /\ \A t \in 1..Len(threads) : threads'[t] = threads[t]
      /\ threads'[n].of = W(c)
  BY <1>1, <1>3, <1>5, AppendProperties, LenProperties
<1>7. /\ workers' \in Seq([stop : BOOLEAN, thread : Nat]) /\ Len(workers') = Len(workers)
      /\ DOMAIN workers' = 1..Len(workers)
      /\ \A w \in 1..Len(workers) \ {W(c)} : workers'[w] = workers[w]
      /\ workers'[W(c)].thread = n
  <2> HIDE DEF n
  <2> QED
    BY <1>1, <1>3, <1>4, <1>5, ExceptSeq, LenProperties
<1>8. Moved(c) \in Calling(Len(workers')) /\ Armed(Moved(c))
  <2>1. Moved(c) \in Calling(Len(workers)) /\ Moved(c).worker = W(c)
    BY <1>2, MovedTyped
  <2>2. W(c) # 0
    BY <1>1, <1>4
  <2> QED
    BY <1>7, <2>1, <2>2 DEF Armed
<1>9. /\ call' \in [Callers -> Calling(Len(workers'))]
      /\ \A d \in Callers : Armed(call'[d])
  BY <1>1, <1>3, <1>7, <1>8, CallTyped
<1>10. \A t \in DOMAIN threads' : threads'[t].of \in 1..Len(workers')
  <2>1. \A t \in 1..Len(threads) : threads'[t].of \in 1..Len(workers')
    BY <1>1, <1>6, <1>7 DEF Typed, Types
  <2>2. threads'[n].of \in 1..Len(workers')
    BY <1>4, <1>6, <1>7
  <2>3. \A t \in 1..n : t \in 1..Len(threads) \/ t = n
    BY <1>1
  <2> HIDE DEF n
  <2> QED
    BY <1>6, <2>1, <2>2, <2>3
<1>11. \A w \in DOMAIN workers' : workers'[w].thread \in 0..Len(threads')
  <2>1. ASSUME NEW w \in 1..Len(workers) \ {W(c)} PROVE workers'[w].thread \in 0..Len(threads')
    <3>1. workers[w].thread \in 0..Len(threads)
      BY <1>1 DEF Typed, Types
    <3> QED
      BY <1>1, <1>6, <1>7, <3>1
  <2>2. workers'[W(c)].thread \in 0..Len(threads')
    BY <1>1, <1>6, <1>7
  <2> QED
    BY <1>7, <2>1, <2>2
<1>12. Types'
  BY <1>1, <1>3, <1>6, <1>7, <1>9, <1>10, <1>11 DEF Typed, Types, Calling
<1> QED
  BY <1>9, <1>12 DEF Typed

LEMMA EndTyped ==
  ASSUME Typed, NEW t \in DOMAIN threads, End(t)
  PROVE  Typed'
<1>1. /\ threads \in Seq([of : Nat, alive : BOOLEAN]) /\ DOMAIN threads = 1..Len(threads)
      /\ t \in 1..Len(threads)
  BY LenProperties DEF Typed, Types
<1>2. UNCHANGED <<registered, workers, lock, call>>
  BY DEF End
<1> DEFINE v == [threads[t] EXCEPT !.alive = FALSE]
<1>3. v \in [of : Nat, alive : BOOLEAN] /\ v.of = threads[t].of
  <2>1. threads[t] \in [of : Nat, alive : BOOLEAN]
    BY <1>1, ElementOfSeq
  <2> QED
    BY <2>1
<1>4. threads' = [threads EXCEPT ![t] = v]
  BY DEF End
<1> HIDE DEF v
<1>5. /\ threads' \in Seq([of : Nat, alive : BOOLEAN]) /\ Len(threads') = Len(threads)
      /\ DOMAIN threads' = DOMAIN threads
      /\ \A u \in DOMAIN threads : threads'[u].of = threads[u].of
  BY <1>1, <1>3, <1>4, ExceptSeq, LenProperties
<1> QED
  BY <1>2, <1>5 DEF Typed, Types

LEMMA TypedInit == Init => Typed
BY NoSteps DEF Init, Typed, Types, NoCall, AllSteps, Armed

LEMMA TypedNext ==
  ASSUME Typed, [Next]_vars
  PROVE  Typed'
<1>1. CASE UNCHANGED vars
  BY <1>1 DEF vars, Typed, Types
<1>2. ASSUME NEW c \in Callers,
             \/ \E kind \in DOMAIN Steps : Request(c, kind)
             \/ Get(c) \/ Pop(c) \/ SetStop(c) \/ Join(c)
             \/ Create(c) \/ Check(c) \/ Launch(c) \/ Unlock(c)
      PROVE  Typed'
  BY <1>2, QuietTyped, SetStopTyped, CreateTyped, LaunchTyped
<1> QED
  BY <1>1, <1>2, EndTyped DEF Next

LEMMA TypedGivesTypes ==
  ASSUME Typed
  PROVE  TypeOK
<1>1. \A w \in DOMAIN workers : workers[w] \in [stop : BOOLEAN, thread : Nat]
  BY ElementOfSeq, LenProperties DEF Typed, Types
<1>2. \A t \in DOMAIN threads : threads[t] \in [of : Nat, alive : BOOLEAN]
  BY ElementOfSeq, LenProperties DEF Typed, Types
<1>3. DOMAIN workers = 1..Len(workers)
  BY LenProperties DEF Typed, Types
<1> QED
  BY <1>1, <1>2, <1>3 DEF Typed, Types, TypeOK

\* However many requests overlap: every thread is of a worker object, every worker's
\* thread was started, and the provider's worker is one of these objects.
THEOREM ThreadsTyped == Spec => []TypeOK
<1>1. Init => Typed
  BY TypedInit
<1>2. Typed /\ [Next]_vars => Typed'
  BY TypedNext
<1>3. Typed => TypeOK
  BY TypedGivesTypes
<1> QED
  BY <1>1, <1>2, <1>3, PTL DEF Spec
==============================================================================
