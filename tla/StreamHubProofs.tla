--------------------------- MODULE StreamHubProofs ---------------------------
(***************************************************************************)
(* What a client of the live stream is sent, for every number of           *)
(* publishers, clients, event types and events and every size of a queue.  *)
(***************************************************************************)
EXTENDS StreamHub, SequenceTheorems, TLAPS

\* Of two events of one publisher, the first was published before the second.
Older(e, f) == e.from = f.from => e.number < f.number

OlderEvents == {pair \in Events \X Events : Older(pair[1], pair[2])}
Deliveries  == Clients \X Events
OlderCalls  == {pair \in Deliveries \X Deliveries :
                  pair[1][1] = pair[2][1] => Older(pair[1][2], pair[2][2])}

Ordered(s, R) == \A i, j \in DOMAIN s : i < j => <<s[i], s[j]>> \in R

Types ==
  /\ sequence \in 0 .. MaxEvents
  /\ handing \in [Publishers -> [event : Events \cup {Nothing.event}, to : SUBSET Clients]]
  /\ ready \in Seq(Deliveries)
  /\ client \in [Clients -> {"new", "open", "ended"}]
  /\ filter \in [Clients -> SUBSET EventTypes]
  /\ queue \in [Clients -> Seq(Events)] /\ received \in [Clients -> Seq(Events)]
  /\ due \in [Clients -> SUBSET Events] /\ lost \in [Clients -> SUBSET Events]
  /\ \A p \in Publishers : handing[p].to # {} =>
       handing[p].event \in Events /\ handing[p].event.from = p

\* Where an event for c is: read or dropped, waiting in its queue, a callback of the
\* loop, or with its publisher.
Past(c)   == ToSet(received[c]) \cup lost[c]
Queued(c) == ToSet(queue[c])
Called(c) == {call[2] : call \in {e \in ToSet(ready) : e[1] = c}}
Handed(c) == {handing[p].event : p \in {q \in Publishers : c \in handing[q].to}}

\* Events move on in the order of their publisher.
Ahead(A, B) == \A e \in A, f \in B : Older(e, f)

InOrder(c) ==
  /\ Ordered(received[c], OlderEvents) /\ Ordered(queue[c], OlderEvents)
  /\ Ahead(Past(c), Queued(c))
  /\ Ahead(Past(c) \cup Queued(c), Called(c))
  /\ Ahead(Past(c) \cup Queued(c) \cup Called(c), Handed(c))

\* What is due is somewhere, and read or dropped only once.
Somewhere(c) ==
  /\ due[c] = Past(c) \cup Queued(c) \cup Called(c) \cup Handed(c)
  /\ ToSet(received[c]) \cap lost[c] = {}
  /\ client[c] = "new" => due[c] = {}
  /\ \A e \in due[c] : e.number <= sequence /\ e.type \in filter[c]

IInv ==
  /\ Types
  /\ Ordered(ready, OlderCalls)
  /\ \A c \in Clients : InOrder(c) /\ Somewhere(c)

-----------------------------------------------------------------------------
(* Sequences in order *)

LEMMA AppendOrdered ==
  ASSUME NEW S, NEW R, NEW s \in Seq(S), NEW e \in S, Ordered(s, R),
         \A x \in ToSet(s) : <<x, e>> \in R
  PROVE  /\ Append(s, e) \in Seq(S) /\ ToSet(Append(s, e)) = ToSet(s) \cup {e}
         /\ Ordered(Append(s, e), R)
<1> DEFINE t == Append(s, e)
           n == Len(s)
<1>1. /\ t \in Seq(S) /\ Len(t) = n + 1 /\ n \in Nat
      /\ \A i \in 1 .. n : t[i] = s[i]
      /\ t[n + 1] = e
      /\ DOMAIN s = 1 .. n /\ DOMAIN t = 1 .. n + 1
  BY AppendProperties, LenProperties
<1> HIDE DEF t, n
<1>2. \A i \in 1 .. n + 1 : i \in 1 .. n \/ i = n + 1
  BY <1>1
<1>3. ToSet(t) = ToSet(s) \cup {e}
  BY <1>1, <1>2 DEF ToSet
<1>4. Ordered(t, R)
  <2>1. SUFFICES ASSUME NEW i \in 1 .. n + 1, NEW j \in 1 .. n + 1, i < j
                 PROVE  <<t[i], t[j]>> \in R
    BY <1>1 DEF Ordered
  <2>2. i \in 1 .. n /\ t[i] = s[i]
    BY <1>1, <2>1
  <2>3. CASE j \in 1 .. n
    BY <1>1, <2>1, <2>2, <2>3 DEF Ordered
  <2>4. CASE j = n + 1
    BY <1>1, <2>2, <2>4 DEF ToSet
  <2> QED
    BY <1>2, <2>3, <2>4
<1> QED
  BY <1>1, <1>3, <1>4 DEF t

LEMMA TailOrdered ==
  ASSUME NEW S, NEW R, NEW s \in Seq(S), s # <<>>, Ordered(s, R)
  PROVE  /\ Tail(s) \in Seq(S) /\ Head(s) \in S
         /\ ToSet(s) = ToSet(Tail(s)) \cup {Head(s)}
         /\ Ordered(Tail(s), R)
         /\ \A x \in ToSet(Tail(s)) : <<Head(s), x>> \in R
<1> DEFINE t == Tail(s)
           n == Len(s)
<1>1. /\ t \in Seq(S) /\ Head(s) \in S /\ Head(s) = s[1] /\ n \in Nat /\ n > 0
      /\ Len(t) = n - 1 /\ DOMAIN s = 1 .. n /\ DOMAIN t = 1 .. n - 1
      /\ \A i \in 1 .. n - 1 : t[i] = s[i + 1]
  BY HeadTailProperties, LenProperties
<1> HIDE DEF t, n
<1>2. \A i \in 1 .. n : i = 1 \/ (i - 1 \in 1 .. n - 1 /\ s[i] = t[i - 1])
  BY <1>1
<1>3. \A i \in 1 .. n - 1 : i + 1 \in 1 .. n
  BY <1>1
<1>4. ToSet(s) = ToSet(t) \cup {s[1]}
  <2>1. ASSUME NEW x \in ToSet(s)
        PROVE  x \in ToSet(t) \/ x = s[1]
    <3>1. PICK i \in 1 .. n : x = s[i]
      BY <1>1 DEF ToSet
    <3>2. CASE i = 1
      BY <3>1, <3>2
    <3>3. CASE i - 1 \in 1 .. n - 1 /\ s[i] = t[i - 1]
      BY <1>1, <3>1, <3>3 DEF ToSet
    <3> QED
      BY <1>2, <3>2, <3>3
  <2>2. \A x \in ToSet(t) : x \in ToSet(s)
    BY <1>1, <1>3 DEF ToSet
  <2>3. s[1] \in ToSet(s)
    <3>1. 1 \in 1 .. n
      BY <1>1
    <3> QED
      BY <1>1, <3>1 DEF ToSet
  <2> QED
    BY <2>1, <2>2, <2>3
<1>5. Ordered(t, R)
  <2>1. SUFFICES ASSUME NEW i \in 1 .. n - 1, NEW j \in 1 .. n - 1, i < j
                 PROVE  <<t[i], t[j]>> \in R
    BY <1>1 DEF Ordered
  <2>2. i + 1 < j + 1 /\ i + 1 \in DOMAIN s /\ j + 1 \in DOMAIN s
    BY <1>1, <1>3, <2>1
  <2>3. <<s[i + 1], s[j + 1]>> \in R
    BY <2>2 DEF Ordered
  <2> QED
    BY <1>1, <2>3
<1>6. \A x \in ToSet(t) : <<s[1], x>> \in R
  <2>1. SUFFICES ASSUME NEW i \in 1 .. n - 1
                 PROVE  <<s[1], t[i]>> \in R
    BY <1>1 DEF ToSet
  <2>2. 1 < i + 1 /\ 1 \in DOMAIN s /\ i + 1 \in DOMAIN s
    BY <1>1, <1>3, <2>1
  <2>3. <<s[1], s[i + 1]>> \in R
    BY <2>2 DEF Ordered
  <2> QED
    BY <1>1, <2>3
<1> QED
  BY <1>1, <1>4, <1>5, <1>6 DEF t

LEMMA ConcatOrdered ==
  ASSUME NEW S, NEW R, NEW s \in Seq(S), NEW t \in Seq(S), Ordered(s, R), Ordered(t, R),
         \A x \in ToSet(s), y \in ToSet(t) : <<x, y>> \in R
  PROVE  ToSet(s \o t) = ToSet(s) \cup ToSet(t) /\ Ordered(s \o t, R)
<1> DEFINE u == s \o t
           m == Len(s)
           n == Len(t)
<1>1. /\ m \in Nat /\ n \in Nat /\ DOMAIN s = 1 .. m /\ DOMAIN t = 1 .. n
      /\ DOMAIN u = 1 .. m + n
      /\ \A i \in 1 .. m + n : u[i] = IF i <= m THEN s[i] ELSE t[i - m]
  BY ConcatProperties, LenProperties
<1> HIDE DEF u, m, n
<1>2. \A i \in 1 .. m + n : (i \in 1 .. m /\ u[i] = s[i])
                           \/ (i > m /\ i - m \in 1 .. n /\ u[i] = t[i - m])
  BY <1>1
<1>3. /\ \A i \in 1 .. m : i \in 1 .. m + n /\ u[i] = s[i]
      /\ \A i \in 1 .. n : i + m \in 1 .. m + n /\ u[i + m] = t[i]
  BY <1>1
<1>4. ToSet(u) = ToSet(s) \cup ToSet(t)
  <2>1. ASSUME NEW x \in ToSet(u)
        PROVE  x \in ToSet(s) \cup ToSet(t)
    <3>1. PICK i \in 1 .. m + n : x = u[i]
      BY <1>1 DEF ToSet
    <3>2. CASE i \in 1 .. m /\ u[i] = s[i]
      BY <1>1, <3>1, <3>2 DEF ToSet
    <3>3. CASE i - m \in 1 .. n /\ u[i] = t[i - m]
      BY <1>1, <3>1, <3>3 DEF ToSet
    <3> QED
      BY <1>2, <3>2, <3>3
  <2>2. \A x \in ToSet(s) : x \in ToSet(u)
    BY <1>1, <1>3 DEF ToSet
  <2>3. ASSUME NEW x \in ToSet(t)
        PROVE  x \in ToSet(u)
    <3>1. PICK i \in 1 .. n : x = t[i]
      BY <1>1 DEF ToSet
    <3>2. i + m \in DOMAIN u /\ u[i + m] = x
      BY <1>1, <1>3, <3>1
    <3> QED
      BY <3>2 DEF ToSet
  <2> QED
    BY <2>1, <2>2, <2>3
<1>5. Ordered(u, R)
  <2>1. SUFFICES ASSUME NEW i \in 1 .. m + n, NEW j \in 1 .. m + n, i < j
                 PROVE  <<u[i], u[j]>> \in R
    BY <1>1 DEF Ordered
  <2>2. CASE i \in 1 .. m /\ j \in 1 .. m
    BY <1>1, <1>3, <2>1, <2>2 DEF Ordered
  <2>3. CASE i \in 1 .. m /\ j - m \in 1 .. n /\ u[j] = t[j - m]
    BY <1>1, <1>3, <2>3 DEF ToSet
  <2>4. CASE i > m /\ i - m \in 1 .. n /\ u[i] = t[i - m] /\ j - m \in 1 .. n /\ u[j] = t[j - m]
    <3>1. i - m < j - m /\ i - m \in DOMAIN t /\ j - m \in DOMAIN t
      BY <1>1, <2>1, <2>4
    <3>2. <<t[i - m], t[j - m]>> \in R
      BY <3>1 DEF Ordered
    <3> QED
      BY <2>4, <3>2
  <2> QED
    BY <1>1, <1>2, <2>1, <2>2, <2>3, <2>4
<1> QED
  BY <1>4, <1>5 DEF u

-----------------------------------------------------------------------------
(* The steps *)

LEMMA EventFields ==
  ASSUME MaxEvents \in Nat, NEW e \in Events
  PROVE  e.number \in Nat /\ e.from \in Publishers /\ e.type \in EventTypes
BY DEF Events, Event

LEMMA InitIInv ==
  ASSUME MaxEvents \in Nat, Init
  PROVE  IInv
<1>1. Types
  BY DEF Init, Types, Nothing
<1>2. ToSet(<<>>) = {} /\ \A R : Ordered(<<>>, R)
  BY DEF ToSet, Ordered
<1>3. Ordered(ready, OlderCalls)
  BY <1>2 DEF Init
<1>4. ASSUME NEW c \in Clients
      PROVE  InOrder(c) /\ Somewhere(c)
  <2>1. Past(c) = {} /\ Queued(c) = {} /\ Called(c) = {} /\ Handed(c) = {}
    BY <1>2 DEF Init, Past, Queued, Called, Handed, Nothing
  <2> QED
    BY <1>2, <2>1 DEF Init, InOrder, Somewhere, Ahead
<1> QED
  BY <1>1, <1>3, <1>4 DEF IInv

LEMMA PublishKeeps ==
  ASSUME MaxEvents \in Nat, IInv, NEW p \in Publishers, NEW type \in EventTypes, Publish(p, type)
  PROVE  IInv'
<1> DEFINE event == Event(sequence + 1, p, type)
<1>1. event \in Events /\ event.number = sequence + 1 /\ event.from = p /\ event.type = type
  BY DEF Events, Event, IInv, Types, Publish
<1> HIDE DEF event
<1>2. /\ handing' = [handing EXCEPT ![p] = [event |-> event, to |-> Targets(event)]]
      /\ due' = [c \in Clients |->
                   IF client[c] = "open" /\ type \in filter[c] THEN due[c] \cup {event} ELSE due[c]]
      /\ sequence' = sequence + 1 /\ handing[p].to = {}
      /\ UNCHANGED <<ready, client, filter, queue, received, lost>>
  BY DEF Publish, event
<1>3. Types'
  BY <1>1, <1>2 DEF IInv, Types, Publish, Targets
<1>4. Ordered(ready, OlderCalls)'
  BY <1>2 DEF IInv
<1>5. ASSUME NEW c \in Clients
      PROVE  (InOrder(c) /\ Somewhere(c))'
  <2> DEFINE mine == client[c] = "open" /\ type \in filter[c]
  <2>1. Past(c)' = Past(c) /\ Queued(c)' = Queued(c) /\ Called(c)' = Called(c)
    BY <1>2 DEF Past, Queued, Called
  <2>2. Handed(c)' = IF mine THEN Handed(c) \cup {event} ELSE Handed(c)
    BY <1>1, <1>2 DEF Handed, IInv, Types, Targets
  <2>3. due'[c] = IF mine THEN due[c] \cup {event} ELSE due[c]
    BY <1>2
  <2>4. /\ due[c] = Past(c) \cup Queued(c) \cup Called(c) \cup Handed(c)
        /\ due[c] \subseteq Events /\ sequence \in Nat
        /\ \A e \in due[c] : e.number <= sequence
    BY DEF IInv, Somewhere, Types
  <2>5. \A e \in due[c] : Older(e, event)
    BY <1>1, <2>4, EventFields DEF Older
  <2>6. InOrder(c)'
    BY <1>2, <2>1, <2>2, <2>4, <2>5 DEF IInv, InOrder, Ahead
  <2>7. Somewhere(c)'
    BY <1>1, <1>2, <2>1, <2>2, <2>3, <2>4, EventFields DEF IInv, Somewhere
  <2> QED
    BY <2>6, <2>7
<1> QED
  BY <1>3, <1>4, <1>5 DEF IInv

LEMMA HandOverKeeps ==
  ASSUME MaxEvents \in Nat, IInv, NEW p \in Publishers, NEW c \in Clients, HandOver(p, c)
  PROVE  IInv'
<1> DEFINE event == handing[p].event
           call  == <<c, event>>
<1>1. /\ event \in Events /\ event.from = p /\ c \in handing[p].to
      /\ call \in Deliveries /\ call[1] = c /\ call[2] = event
      /\ ready \in Seq(Deliveries)
  BY DEF HandOver, IInv, Types, Deliveries
<1>2. event \in Handed(c)
  BY <1>1 DEF Handed
<1> HIDE DEF event, call
<1>3. /\ ready' = Append(ready, call)
      /\ handing' = [handing EXCEPT ![p].to = @ \ {c}]
      /\ UNCHANGED <<sequence, client, filter, queue, received, due, lost>>
  BY DEF HandOver, event, call
<1>4. ASSUME NEW x \in ToSet(ready)
      PROVE  <<x, call>> \in OlderCalls
  <2>1. x \in Deliveries
    BY <1>1 DEF ToSet
  <2>2. x[1] = c => x[2] \in Called(c)
    BY DEF Called
  <2>3. x[1] = c => Older(x[2], event)
    BY <1>2, <2>2 DEF IInv, InOrder, Ahead
  <2> QED
    BY <1>1, <2>1, <2>3 DEF OlderCalls
<1>5. ready' \in Seq(Deliveries) /\ ToSet(ready') = ToSet(ready) \cup {call}
      /\ Ordered(ready', OlderCalls)
  BY <1>1, <1>3, <1>4, AppendOrdered DEF IInv
<1>6. Types'
  BY <1>3, <1>5 DEF IInv, Types
<1>7. ASSUME NEW d \in Clients
      PROVE  (InOrder(d) /\ Somewhere(d))'
  <2>1. Past(d)' = Past(d) /\ Queued(d)' = Queued(d)
    BY <1>3 DEF Past, Queued
  <2>2. Called(d)' = IF d = c THEN Called(d) \cup {event} ELSE Called(d)
    BY <1>1, <1>5 DEF Called
  <2>3. /\ Handed(d)' \subseteq Handed(d)
        /\ Handed(d) \subseteq Handed(d)' \cup {event}
        /\ d # c => Handed(d)' = Handed(d)
        /\ d = c => \A e \in Handed(d)' : e.from # p
    <3>1. \A q \in Publishers : d \in handing'[q].to <=> (d \in handing[q].to /\ (q # p \/ d # c))
      BY <1>3 DEF IInv, Types
    <3>2. \A q \in Publishers : handing'[q].event = handing[q].event
      BY <1>3 DEF IInv, Types
    <3>3. \A q \in Publishers : d \in handing[q].to => handing[q].event.from = q
      BY DEF IInv, Types
    <3> QED
      BY <3>1, <3>2, <3>3 DEF Handed, event
  <2>4. \A e \in Handed(d)' : d = c => Older(event, e)
    BY <1>1, <2>3 DEF Older
  <2>5. event \in Handed(c)
    BY <1>2
  <2>6. InOrder(d)'
    BY <1>3, <2>1, <2>2, <2>3, <2>4, <2>5 DEF IInv, InOrder, Ahead
  <2>7. Somewhere(d)'
    BY <1>3, <2>1, <2>2, <2>3, <2>5 DEF IInv, Somewhere
  <2> QED
    BY <2>6, <2>7
<1> QED
  BY <1>5, <1>6, <1>7 DEF IInv

LEMMA EnqueueKeeps ==
  ASSUME MaxEvents \in Nat, QueueSize \in Nat \ {0}, IInv, Enqueue
  PROVE  IInv'
<1> DEFINE call == Head(ready)
<1>1. /\ ready \in Seq(Deliveries) /\ ready # <<>> /\ Ordered(ready, OlderCalls)
      /\ ready' = Tail(ready)
      /\ UNCHANGED <<sequence, handing, client, filter, received, due>>
  BY DEF Enqueue, IInv, Types
<1>2. /\ ready' \in Seq(Deliveries) /\ call \in Deliveries
      /\ ToSet(ready) = ToSet(ready') \cup {call}
      /\ Ordered(ready', OlderCalls)
      /\ \A x \in ToSet(ready') : <<call, x>> \in OlderCalls
  BY <1>1, TailOrdered
<1>3. PICK c \in Clients, event \in Events : call = <<c, event>>
  BY <1>2 DEF Deliveries
<1> DEFINE full == Len(queue[c]) = QueueSize
           rest == IF full THEN Tail(queue[c]) ELSE queue[c]
           gone == IF full THEN {Head(queue[c])} ELSE {}
<1>4. /\ queue' = [queue EXCEPT ![c] = Append(rest, event)]
      /\ lost'  = [lost EXCEPT ![c] = @ \cup gone]
  <2>1. Head(ready)[1] = c /\ Head(ready)[2] = event
    BY <1>3
  <2>2. /\ queue' = [queue EXCEPT ![c] = Append(IF full THEN Tail(@) ELSE @, event)]
        /\ lost'  = [lost EXCEPT ![c] = IF full THEN @ \cup {Head(queue[c])} ELSE @]
    BY <2>1 DEF Enqueue
  <2>3. lost \in [Clients -> SUBSET Events] /\ queue \in [Clients -> Seq(Events)]
    BY DEF IInv, Types
  <2>4. CASE full
    BY <2>2, <2>4
  <2>5. CASE ~full
    BY <2>2, <2>3, <2>5
  <2> QED
    BY <2>4, <2>5
<1> HIDE DEF call
<1>5. /\ queue[c] \in Seq(Events) /\ Ordered(queue[c], OlderEvents)
      /\ queue \in [Clients -> Seq(Events)] /\ lost \in [Clients -> SUBSET Events]
  BY <1>3 DEF IInv, Types, InOrder
<1>6. /\ rest \in Seq(Events) /\ Ordered(rest, OlderEvents)
      /\ Queued(c) = ToSet(rest) \cup gone /\ gone \subseteq Events
      /\ Ahead(gone, ToSet(rest))
  <2>1. CASE full
    <3>1. queue[c] # <<>>
      BY <2>1
    <3>2. /\ Tail(queue[c]) \in Seq(Events) /\ Head(queue[c]) \in Events
          /\ ToSet(queue[c]) = ToSet(Tail(queue[c])) \cup {Head(queue[c])}
          /\ Ordered(Tail(queue[c]), OlderEvents)
          /\ \A x \in ToSet(Tail(queue[c])) : <<Head(queue[c]), x>> \in OlderEvents
      BY <1>5, <3>1, TailOrdered
    <3> QED
      BY <2>1, <3>2 DEF Queued, Ahead, OlderEvents
  <2>2. CASE ~full
    BY <1>5, <2>2 DEF Queued, Ahead
  <2> QED
    BY <2>1, <2>2
<1> HIDE DEF full, rest, gone
<1>7. event \in Called(c)
  BY <1>2, <1>3 DEF Called
<1>8. \A e \in Queued(c) : e \in Events /\ Older(e, event)
  <2>1. Queued(c) \subseteq Events
    BY <1>5 DEF Queued, ToSet
  <2> QED
    BY <1>3, <1>7, <2>1 DEF IInv, InOrder, Ahead
<1>9. \A e \in ToSet(rest) : <<e, event>> \in OlderEvents
  BY <1>3, <1>6, <1>8 DEF OlderEvents
<1>10. /\ queue'[c] \in Seq(Events) /\ ToSet(queue'[c]) = ToSet(rest) \cup {event}
       /\ Ordered(queue'[c], OlderEvents)
  BY <1>3, <1>4, <1>5, <1>6, <1>9, AppendOrdered
<1>11. Types'
  BY <1>1, <1>2, <1>3, <1>4, <1>5, <1>6, <1>10 DEF IInv, Types
<1>12. \A d \in Clients : Called(d) = IF d = c THEN Called(d)' \cup {event} ELSE Called(d)'
  BY <1>2, <1>3 DEF Called
<1>13. Ahead({event}, Called(c)')
  <2>1. ASSUME NEW x \in ToSet(ready'), x[1] = c
        PROVE  Older(event, x[2])
    BY <1>2, <1>3, <2>1 DEF OlderCalls
  <2> QED
    BY <2>1 DEF Called, Ahead
<1>14. ASSUME NEW d \in Clients, d # c
       PROVE  (InOrder(d) /\ Somewhere(d))'
  <2>1. Past(d)' = Past(d) /\ Queued(d)' = Queued(d) /\ Handed(d)' = Handed(d)
        /\ queue'[d] = queue[d] /\ lost'[d] = lost[d]
    BY <1>1, <1>4, <1>5, <1>14 DEF Past, Queued, Handed
  <2>2. Called(d)' = Called(d)
    BY <1>12, <1>14
  <2> QED
    BY <1>1, <2>1, <2>2 DEF IInv, InOrder, Somewhere
<1>15. (InOrder(c) /\ Somewhere(c))'
  <2>1. /\ Past(c)' = Past(c) \cup gone /\ lost'[c] = lost[c] \cup gone
        /\ Queued(c)' = ToSet(rest) \cup {event} /\ Handed(c)' = Handed(c)
    BY <1>1, <1>3, <1>4, <1>5, <1>10 DEF Past, Queued, Handed
  <2>2. Called(c) = Called(c)' \cup {event}
    BY <1>3, <1>12
  <2>3. InOrder(c) /\ Somewhere(c)
    BY <1>3 DEF IInv
  <2>4. InOrder(c)'
    BY <1>1, <1>6, <1>8, <1>10, <1>13, <2>1, <2>2, <2>3 DEF InOrder, Ahead
  <2>5. ToSet(received[c]) \cap gone = {}
    <3>1. \A e \in ToSet(received[c]), f \in gone : Older(e, f) /\ f \in Events
      BY <1>6, <2>3 DEF InOrder, Ahead, Past
    <3> QED
      BY <3>1, EventFields DEF Older
  <2>6. Somewhere(c)'
    BY <1>1, <1>6, <2>1, <2>2, <2>3, <2>5 DEF Somewhere
  <2> QED
    BY <2>4, <2>6
<1> QED
  BY <1>2, <1>11, <1>14, <1>15 DEF IInv

LEMMA ReceiveKeeps ==
  ASSUME MaxEvents \in Nat, IInv, NEW c \in Clients, Receive(c)
  PROVE  IInv'
<1> DEFINE event == Head(queue[c])
<1>1. /\ queue[c] \in Seq(Events) /\ queue[c] # <<>> /\ Ordered(queue[c], OlderEvents)
      /\ received[c] \in Seq(Events) /\ Ordered(received[c], OlderEvents)
      /\ queue \in [Clients -> Seq(Events)] /\ received \in [Clients -> Seq(Events)]
      /\ InOrder(c) /\ Somewhere(c)
  BY DEF Receive, IInv, Types, InOrder
<1>2. /\ received' = [received EXCEPT ![c] = Append(@, event)]
      /\ queue' = [queue EXCEPT ![c] = Tail(@)]
      /\ UNCHANGED <<sequence, handing, ready, client, filter, due, lost>>
  BY DEF Receive
<1>3. /\ queue'[c] \in Seq(Events) /\ event \in Events
      /\ Queued(c) = ToSet(queue'[c]) \cup {event}
      /\ Ordered(queue'[c], OlderEvents)
      /\ \A x \in ToSet(queue'[c]) : <<event, x>> \in OlderEvents
  BY <1>1, <1>2, TailOrdered DEF Queued
<1> HIDE DEF event
<1>4. /\ ToSet(received[c]) \subseteq Events
      /\ \A e \in Past(c) : Older(e, event)
  BY <1>1, <1>3 DEF ToSet, InOrder, Ahead
<1>5. \A e \in ToSet(received[c]) : <<e, event>> \in OlderEvents
  BY <1>3, <1>4 DEF OlderEvents, Past
<1>6. /\ received'[c] \in Seq(Events) /\ ToSet(received'[c]) = ToSet(received[c]) \cup {event}
      /\ Ordered(received'[c], OlderEvents)
  BY <1>1, <1>2, <1>3, <1>5, AppendOrdered
<1>7. Types'
  BY <1>1, <1>2, <1>3, <1>6 DEF IInv, Types
<1>8. ASSUME NEW d \in Clients, d # c
      PROVE  (InOrder(d) /\ Somewhere(d))'
  <2>1. /\ received'[d] = received[d] /\ queue'[d] = queue[d]
        /\ Past(d)' = Past(d) /\ Queued(d)' = Queued(d)
        /\ Called(d)' = Called(d) /\ Handed(d)' = Handed(d)
    BY <1>1, <1>2, <1>8 DEF Past, Queued, Called, Handed
  <2> QED
    BY <1>2, <2>1 DEF IInv, InOrder, Somewhere
<1>9. (InOrder(c) /\ Somewhere(c))'
  <2>1. /\ Past(c)' = Past(c) \cup {event} /\ Queued(c) = Queued(c)' \cup {event}
        /\ Called(c)' = Called(c) /\ Handed(c)' = Handed(c)
    BY <1>2, <1>3, <1>6 DEF Past, Queued, Called, Handed
  <2>2. Ahead({event}, Queued(c)')
    BY <1>3 DEF Ahead, OlderEvents, Queued
  <2>3. InOrder(c)'
    BY <1>1, <1>3, <1>6, <2>1, <2>2 DEF InOrder, Ahead
  <2>4. event \notin lost[c]
    BY <1>3, <1>4, EventFields DEF Older, Past
  <2>5. Somewhere(c)'
    BY <1>1, <1>2, <1>6, <2>1, <2>4 DEF Somewhere
  <2> QED
    BY <2>3, <2>5
<1> QED
  BY <1>2, <1>7, <1>8, <1>9 DEF IInv

LEMMA SubscribeKeeps ==
  ASSUME IInv, NEW c \in Clients,
         End(c) \/ \E types \in SUBSET EventTypes : Subscribe(c, types)
  PROVE  IInv'
<1>1. /\ UNCHANGED <<sequence, handing, ready, queue, received, due, lost>>
      /\ client' \in [Clients -> {"new", "open", "ended"}]
      /\ filter' \in [Clients -> SUBSET EventTypes]
      /\ \A d \in Clients : (client'[d] = "new" => client[d] = "new")
                           /\ (filter'[d] = filter[d] \/ client[d] = "new")
  <2>1. CASE End(c)
    BY <2>1 DEF IInv, Types, End
  <2>2. ASSUME NEW types \in SUBSET EventTypes, Subscribe(c, types)
        PROVE  /\ UNCHANGED <<sequence, handing, ready, queue, received, due, lost>>
               /\ client' \in [Clients -> {"new", "open", "ended"}]
               /\ filter' \in [Clients -> SUBSET EventTypes]
               /\ \A d \in Clients : (client'[d] = "new" => client[d] = "new")
                                    /\ (filter'[d] = filter[d] \/ client[d] = "new")
    BY <2>2 DEF IInv, Types, Subscribe
  <2> QED
    BY <2>1, <2>2
<1>2. Types'
  BY <1>1 DEF IInv, Types
<1>3. ASSUME NEW d \in Clients
      PROVE  (InOrder(d) /\ Somewhere(d))'
  <2>1. /\ Past(d)' = Past(d) /\ Queued(d)' = Queued(d)
        /\ Called(d)' = Called(d) /\ Handed(d)' = Handed(d)
    BY <1>1 DEF Past, Queued, Called, Handed
  <2>2. InOrder(d)'
    BY <1>1, <2>1 DEF IInv, InOrder
  <2>3. client[d] = "new" => due[d] = {}
    BY DEF IInv, Somewhere
  <2>4. Somewhere(d)'
    BY <1>1, <2>1, <2>3 DEF IInv, Somewhere
  <2> QED
    BY <2>2, <2>4
<1> QED
  BY <1>1, <1>2, <1>3 DEF IInv

-----------------------------------------------------------------------------
(* What the clients are promised *)

LEMMA IInvFaithful ==
  ASSUME MaxEvents \in Nat, IInv
  PROVE  StreamFaithful
<1>1. SUFFICES ASSUME NEW c \in Clients
               PROVE  LET reading == Reading(c) IN
    /\ \A i, j \in DOMAIN reading :
         i < j /\ reading[i].from = reading[j].from => reading[i].number < reading[j].number
    /\ \A e \in lost[c], i \in DOMAIN queue[c] :
         e.from = queue[c][i].from => e.number < queue[c][i].number
    /\ ToSet(reading) \cup lost[c] \cup Underway(c) = due[c]
    /\ ToSet(reading) \cap (lost[c] \cup Underway(c)) = {}
    /\ \A e \in ToSet(reading) : e.type \in filter[c]
  BY DEF StreamFaithful
<1> DEFINE reading == Reading(c)
<1>2. InOrder(c) /\ Somewhere(c) /\ queue[c] \in Seq(Events) /\ received[c] \in Seq(Events)
  BY DEF IInv, Types
<1>3. ToSet(queue[c]) \subseteq Events /\ ToSet(received[c]) \subseteq Events
  BY <1>2 DEF ToSet
<1>4. \A x \in ToSet(received[c]), y \in ToSet(queue[c]) : <<x, y>> \in OlderEvents
  BY <1>2, <1>3 DEF InOrder, Ahead, Past, Queued, OlderEvents
<1>5. ToSet(reading) = ToSet(received[c]) \cup ToSet(queue[c]) /\ Ordered(reading, OlderEvents)
  BY <1>2, <1>4, ConcatOrdered DEF InOrder, Reading
<1>6. Underway(c) = Called(c) \cup Handed(c)
  BY DEF Underway, Called, Handed
<1> HIDE DEF reading
<1>7. \A i, j \in DOMAIN reading :
        i < j /\ reading[i].from = reading[j].from => reading[i].number < reading[j].number
  BY <1>5 DEF Ordered, OlderEvents, Older
<1>8. \A e \in lost[c], i \in DOMAIN queue[c] :
        e.from = queue[c][i].from => e.number < queue[c][i].number
  <2>1. \A i \in DOMAIN queue[c] : queue[c][i] \in Queued(c)
    BY DEF Queued, ToSet
  <2> QED
    BY <1>2, <2>1 DEF InOrder, Ahead, Older, Past
<1>9. ToSet(reading) \cup lost[c] \cup Underway(c) = due[c]
  BY <1>2, <1>5, <1>6 DEF Somewhere, Past, Queued
<1>10. ToSet(reading) \cap (lost[c] \cup Underway(c)) = {}
  <2>1. \A e \in ToSet(reading) : ~Older(e, e)
    BY <1>3, <1>5, EventFields DEF Older
  <2>2. \A e \in ToSet(reading), f \in Underway(c) : Older(e, f)
    BY <1>2, <1>5, <1>6 DEF InOrder, Ahead, Past, Queued
  <2>3. \A e \in lost[c], f \in ToSet(queue[c]) : Older(e, f)
    BY <1>2 DEF InOrder, Ahead, Past, Queued
  <2>4. ToSet(received[c]) \cap lost[c] = {}
    BY <1>2 DEF Somewhere
  <2> QED
    BY <1>5, <2>1, <2>2, <2>3, <2>4
<1>11. \A e \in ToSet(reading) : e.type \in filter[c]
  BY <1>2, <1>5 DEF Somewhere, Past, Queued
<1> QED
  BY <1>7, <1>8, <1>9, <1>10, <1>11 DEF reading

\* The hub, step by step.
LEMMA HubNext ==
  ASSUME MaxEvents \in Nat, QueueSize \in Nat \ {0}, IInv, [Next]_vars
  PROVE  IInv'
<1>1. ASSUME NEW p \in Publishers, NEW type \in EventTypes, Publish(p, type)
      PROVE  IInv'
  BY <1>1, PublishKeeps
<1>2. ASSUME NEW p \in Publishers, NEW c \in Clients, HandOver(p, c)
      PROVE  IInv'
  BY <1>2, HandOverKeeps
<1>3. CASE Enqueue
  BY <1>3, EnqueueKeeps
<1>4. ASSUME NEW c \in Clients, Receive(c)
      PROVE  IInv'
  BY <1>4, ReceiveKeeps
<1>5. ASSUME NEW c \in Clients,
             End(c) \/ \E types \in SUBSET EventTypes : Subscribe(c, types)
      PROVE  IInv'
  BY <1>5, SubscribeKeeps
<1>6. CASE UNCHANGED vars
  <2>1. UNCHANGED <<sequence, handing, ready, client, filter, queue, received, due, lost>>
    BY <1>6 DEF vars
  <2>2. Types'
    BY <2>1 DEF IInv, Types
  <2>3. ASSUME NEW c \in Clients
        PROVE  (InOrder(c) /\ Somewhere(c))'
    <3>1. /\ Past(c)' = Past(c) /\ Queued(c)' = Queued(c)
          /\ Called(c)' = Called(c) /\ Handed(c)' = Handed(c)
      BY <2>1 DEF Past, Queued, Called, Handed
    <3> QED
      BY <2>1, <3>1 DEF IInv, InOrder, Somewhere
  <2> QED
    BY <2>1, <2>2, <2>3 DEF IInv
<1> QED
  BY <1>1, <1>2, <1>3, <1>4, <1>5, <1>6 DEF Next

\* A client is sent what it asked for, each publisher's events in their order and at most
\* once, and only a full queue loses any, the oldest first (streaming.py:61-106).
THEOREM ClientsServed ==
  ASSUME MaxEvents \in Nat, QueueSize \in Nat \ {0}
  PROVE  Spec => []StreamFaithful
<1>1. Init => IInv
  BY InitIInv
<1>2. IInv /\ [Next]_vars => IInv'
  BY HubNext
<1>3. IInv => StreamFaithful
  BY IInvFaithful
<1> QED
  BY <1>1, <1>2, <1>3, PTL DEF Spec

-----------------------------------------------------------------------------
(* Types *)

\* A queue is never longer than it may be: a full one makes room first.
Bounded == \A c \in Clients : Len(queue[c]) <= QueueSize

LEMMA BoundedNext ==
  ASSUME MaxEvents \in Nat, QueueSize \in Nat \ {0}, IInv, Bounded, [Next]_vars
  PROVE  Bounded'
<1>1. queue \in [Clients -> Seq(Events)] /\ ready \in Seq(Deliveries)
  BY DEF IInv, Types
<1>2. \A c \in Clients : Len(queue[c]) \in Nat /\ Len(queue[c]) <= QueueSize
  <2>1. ASSUME NEW c \in Clients PROVE Len(queue[c]) \in Nat
    <3>1. queue[c] \in Seq(Events)
      BY <1>1
    <3> QED
      BY <3>1, LenProperties
  <2> QED
    BY <2>1 DEF Bounded
<1>3. CASE Enqueue
  <2> DEFINE d == Head(ready)[1]
             e == Head(ready)[2]
             q == queue[d]
             kept == IF Len(q) = QueueSize THEN Tail(q) ELSE q
  <2>1. Head(ready) \in Deliveries
    <3>1. ready # <<>>
      BY <1>3 DEF Enqueue
    <3> QED
      BY <1>1, <3>1, HeadTailProperties
  <2>2. d \in Clients /\ e \in Events
    BY <2>1 DEF Deliveries
  <2>3. queue' = [queue EXCEPT ![d] = Append(kept, e)]
    BY <1>3 DEF Enqueue
  <2> HIDE DEF d, e
  <2>4. q \in Seq(Events) /\ Len(q) \in Nat /\ Len(q) <= QueueSize
    BY <1>1, <1>2, <2>2
  <2> HIDE DEF q
  <2>5. kept \in Seq(Events) /\ Len(kept) \in Nat /\ Len(kept) + 1 <= QueueSize
    <3>1. CASE Len(q) = QueueSize
      <4>1. q # <<>>
        BY <2>4, <3>1, EmptySeq
      <4>2. Tail(q) \in Seq(Events) /\ Len(Tail(q)) = Len(q) - 1
        BY <2>4, <4>1, HeadTailProperties
      <4> QED
        BY <2>4, <3>1, <4>2
    <3>2. CASE Len(q) # QueueSize
      BY <2>4, <3>2
    <3> QED
      BY <3>1, <3>2
  <2> HIDE DEF kept
  <2>6. Len(Append(kept, e)) = Len(kept) + 1
    BY <2>2, <2>5, AppendProperties
  <2>7. queue'[d] = Append(kept, e) /\ \A c \in Clients \ {d} : queue'[c] = queue[c]
    BY <1>1, <2>2, <2>3
  <2> QED
    BY <1>2, <2>5, <2>6, <2>7 DEF Bounded
<1>4. ASSUME NEW c \in Clients, Receive(c) PROVE Bounded'
  <2>1. queue[c] # <<>> /\ queue' = [queue EXCEPT ![c] = Tail(queue[c])]
    BY <1>4 DEF Receive
  <2>2. queue[c] \in Seq(Events) /\ Len(queue[c]) \in Nat
    BY <1>1, <1>2
  <2>3. Len(Tail(queue[c])) = Len(queue[c]) - 1
    BY <2>1, <2>2, HeadTailProperties
  <2>4. Len(Tail(queue[c])) <= QueueSize
    BY <1>2, <2>2, <2>3
  <2>5. queue'[c] = Tail(queue[c]) /\ \A d \in Clients \ {c} : queue'[d] = queue[d]
    BY <1>1, <2>1
  <2> QED
    BY <1>2, <2>4, <2>5 DEF Bounded
<1>5. CASE UNCHANGED queue
  BY <1>5 DEF Bounded
<1> QED
  BY <1>3, <1>4, <1>5 DEF Next, vars, Publish, HandOver, Subscribe, End

\* Whatever the hub does, its queues hold events and no more than their size of them
\* (streaming.py:88-98).
THEOREM HubTyped ==
  ASSUME MaxEvents \in Nat, QueueSize \in Nat \ {0}
  PROVE  Spec => []TypeOK
<1>1. Init => IInv /\ Bounded
  BY InitIInv DEF Init, Bounded
<1>2. IInv /\ Bounded /\ [Next]_vars => (IInv /\ Bounded)'
  BY HubNext, BoundedNext
<1>3. IInv /\ Bounded => TypeOK
  BY DEF IInv, Types, Bounded, TypeOK, Deliveries
<1> QED
  BY <1>1, <1>2, <1>3, PTL DEF Spec
==============================================================================
