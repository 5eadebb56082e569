------------------------- MODULE ProviderStreamProofs -------------------------
(***************************************************************************)
(* Live candles for every number of minutes, prices and restarts, every    *)
(* short gap, bucket size and set of feed thresholds: what the candle      *)
(* builder leaves in the table, and what the aggregates above it are.      *)
(***************************************************************************)
EXTENDS ProviderStream, FiniteSetTheorems, WellFoundedInduction, TLAPS

\* What the theorems assume of the constants, as SessionAssumption of
\* MCCandlePaths does: bounds are positive and the feed thresholds are ordered.
StreamAssumption ==
  /\ MaxMinute \in Nat \ {0} /\ MaxPrice \in Nat \ {0} /\ BucketSize \in Nat \ {0}
  /\ ShortGap \in Nat /\ MaxRestarts \in Nat /\ Fallback \in Nat
  /\ QuietAge \in Nat /\ StalledAge \in Nat /\ InactiveAge \in Nat
  /\ 0 < QuietAge /\ QuietAge < StalledAge /\ StalledAge < InactiveAge

-----------------------------------------------------------------------------
(* The least and the greatest of some numbers *)

LEMMA LeastOf ==
  ASSUME NEW S \in SUBSET Nat, S # {}
  PROVE  \E m \in S : \A n \in S : m <= n
<1> DEFINE R == OpToRel(<, Nat)
<1>1. PICK m \in S : \A n \in S : ~ (<<n, m>> \in R)
  <2>1. IsWellFoundedOn(R, Nat)
    BY NatLessThanWellFounded
  <2> HIDE DEF R
  <2> QED
    BY <2>1, WFMin
<1>2. ASSUME NEW n \in S
      PROVE  m <= n
  <2>1. ~ (<<n, m>> \in R)
    BY <1>1
  <2>2. <<n, m>> \in Nat \X Nat /\ n \in Nat /\ m \in Nat
    OBVIOUS
  <2>3. ~ (n < m)
    BY <2>1, <2>2 DEF OpToRel
  <2> QED
    BY <2>2, <2>3
<1> QED
  BY <1>2

LEMMA MinOf ==
  ASSUME NEW S \in SUBSET Nat, S # {}
  PROVE  Min(S) \in S /\ \A n \in S : Min(S) <= n
BY LeastOf DEF Min

LEMMA MaxOf ==
  ASSUME NEW N \in Nat, NEW S \in SUBSET (0 .. N), S # {}
  PROVE  Max(S) \in S /\ \A n \in S : n <= Max(S)
<1> DEFINE T == {N - x : x \in S}
<1>1. T \in SUBSET Nat /\ T # {}
  <2>1. \A x \in S : N - x \in Nat
    OBVIOUS
  <2> QED
    BY <2>1
<1>2. PICK d \in T : \A e \in T : d <= e
  <2> HIDE DEF T
  <2> QED
    BY <1>1, LeastOf
<1>3. PICK x \in S : d = N - x
  BY <1>2
<1>4. \A y \in S : x >= y
  BY <1>2, <1>3
<1> QED
  BY <1>3, <1>4 DEF Max

-----------------------------------------------------------------------------
(* The invariant *)

Row   == Candles \cup {Missing}
Table == [Minutes -> Row]

\* A candle that is being built.
WellFormed(c) ==
  /\ c \in Candles /\ ~ c.complete /\ c.by = "ticks"
  /\ c.low <= c.open /\ c.open <= c.high
  /\ c.low <= c.close /\ c.close <= c.high

Holds(c, S) == \A p \in S : c.low <= p /\ p <= c.high

\* The candles a filled minute lies between.
Between(r, m) ==
  \E u, v \in Minutes :
    /\ u < m /\ m < v /\ v - u <= ShortGap
    /\ r[u] # Missing /\ r[u].by # "fill"
    /\ r[v] # Missing /\ r[v].by # "fill"

\* Filled minutes are complete, lie between candles and run up to one, which is
\* not a bar read early.
Fills(r) ==
  \A m \in Minutes : r[m].by = "fill" =>
    /\ r[m].complete /\ Between(r, m)
    /\ m + 1 \in Minutes /\ r[m + 1] # Missing /\ r[m + 1].by # "early"

\* A bar read before its minute was over is complete and flat, and no price of S
\* differs from it.
Early(r, m, S) ==
  r[m].by = "early" =>
    /\ r[m].complete /\ r[m].low = r[m].close /\ r[m].high = r[m].close
    /\ S \subseteq {r[m].close}

\* A minute that may hold a complete candle: it is over, or its bar was read early.
Past(r, m) == m < now \/ (m = now /\ r[m].by = "early")

\* What TicksCovered says of a minute.
Covers(r, m, S) ==
  \/ r[m].by = "provider" \/ m \in abandoned
  \/ r[m].by \in {"none", "fill"} /\ Cardinality(S) <= 1
  \/ Holds(r[m], S)

\* A table in which no minute is being built.
Closed(r) ==
  /\ r \in Table /\ Fills(r)
  /\ \A m \in Minutes : r[m] # Missing /\ ~ r[m].complete => m \in abandoned
  /\ \A m \in Minutes : m > now => r[m] = Missing
  /\ \A m \in Minutes : r[m].complete => Past(r, m)
  /\ \A m \in Minutes : Covers(r, m, seen[m])
  /\ \A m \in Minutes : Early(r, m, seen[m])

States == {"LIVE", "QUIET", "STALLED", "INACTIVE", "RECOVERING"}

Typed ==
  /\ now \in Minutes /\ managed \in BOOLEAN
  /\ feed \in [state : States, changed : 0 .. now, price : {0} \cup Prices]
  /\ ticked \in [changed : 0 .. now, price : {0} \cup Prices]
  /\ rows \in Table
  /\ active.minute \in 0 .. now /\ active.stored \in BOOLEAN
  /\ seen \in [Minutes -> SUBSET Prices]

\* The minute being built: a stored one is in the table, one that is not never
\* moved, neither from the candle before it nor from its bar when that was read
\* early; nothing comes after it.
Building ==
  /\ active.minute = 0 => active = NoActive
  /\ active.minute # 0 =>
       /\ ~ managed /\ active.minute <= feed.changed
       /\ active = [minute |-> active.minute, candle |-> active.candle, stored |-> active.stored]
       /\ WellFormed(active.candle) /\ Holds(active.candle, seen[active.minute])
       /\ active.stored => rows[active.minute] = active.candle
       /\ ~ active.stored /\ rows[active.minute].by # "early" =>
            IsUnchangedFlat(active, CloseAt(rows, Previous(rows, active.minute)))
       /\ ~ active.stored /\ rows[active.minute].by = "early" =>
            IsUnchangedFlat(active, rows[active.minute].close)
       /\ \A m \in Minutes : m > active.minute => rows[m] = Missing

\* A filled minute right before the one being built keeps that one from being
\* removed.
FillHolds ==
  LET w == Previous(rows, active.minute) IN
  active.minute # 0 /\ active.stored /\ w # 0 /\ w + 1 = active.minute /\ rows[w].by = "fill" =>
    ~ IsUnchangedFlat(active, rows[w].close)

\* Nothing of the future is stored or seen, and without the bridge nothing after
\* the last tick that was built.
Present ==
  /\ \A m \in Minutes : m > now => rows[m] = Missing
  /\ \A m \in Minutes : rows[m].complete => Past(rows, m)
  /\ \A m \in Minutes : m > now \/ (m = now /\ active.minute # now) => seen[m] = {}
  /\ ~ managed => /\ ticked.changed <= feed.changed
                 /\ \A m \in Minutes : m > ticked.changed => rows[m] = Missing

Halves ==
  \A m \in Minutes : rows[m] # Missing /\ ~ rows[m].complete =>
    (m = active.minute /\ active.stored) \/ m \in abandoned

Covered == \A m \in Minutes : Covers(rows, m, seen[m]) /\ Early(rows, m, seen[m])

OpenBuckets == managed => \A b \in Buckets : agg[b] # Missing => (b + 1) * BucketSize < now

RowsInv == Typed /\ Building /\ FillHolds /\ Present /\ Halves /\ Covered /\ Fills(rows)

-----------------------------------------------------------------------------
(* Rows and tables *)

LEMMA Constants ==
  ASSUME StreamAssumption
  PROVE
  /\ Minutes \subseteq Nat /\ Minutes = 1 .. MaxMinute /\ Prices \subseteq Nat
  /\ 0 \notin Minutes /\ 0 \notin Prices
  /\ Missing \notin Candles /\ Missing.by = "none" /\ Missing.complete = FALSE
  /\ Missing.low = 0 /\ Missing.high = 0
  /\ MaxMinute \in Nat /\ MaxMinute + 1 \in Nat
BY DEF StreamAssumption, Minutes, Prices, Missing, Candles, Sources

LEMMA RowFacts ==
  ASSUME StreamAssumption, NEW c \in Row
  PROVE  /\ c.complete \in BOOLEAN
         /\ c.complete => c # Missing
         /\ c # Missing => c \in Candles /\ c.by \in Sources /\ c.by # "none"
         /\ c.by \in {"fill", "provider", "ticks", "early"} => c # Missing
         /\ c # Missing => /\ c.open \in Prices /\ c.high \in Prices
                           /\ c.low \in Prices /\ c.close \in Prices
<1>1. CASE c = Missing
  BY <1>1, Constants
<1>2. CASE c \in Candles
  BY <1>2, Constants DEF Candles, Sources
<1> QED
  BY <1>1, <1>2 DEF Row

LEMMA QuietRow ==
  ASSUME StreamAssumption, NEW p \in Prices, NEW by \in Sources
  PROVE  /\ Quiet(p, by) \in Candles /\ Quiet(p, by) \in Row /\ Quiet(p, by) # Missing
         /\ Quiet(p, by).complete /\ Quiet(p, by).by = by
         /\ Quiet(p, by).close = p /\ Quiet(p, by).low = p /\ Quiet(p, by).high = p
BY Constants DEF Quiet, Candles, Row

\* What is written over a table, minute by minute.
LEMMA Overlay ==
  ASSUME NEW r \in Table, NEW f, DOMAIN f \subseteq Minutes, \A k \in DOMAIN f : f[k] \in Row
  PROVE  /\ Upsert(r, f) \in Table
         /\ \A k \in DOMAIN f : Upsert(r, f)[k] = f[k]
         /\ \A k \in Minutes \ DOMAIN f : Upsert(r, f)[k] = r[k]
BY DEF Upsert, Table

LEMMA PutRow ==
  ASSUME StreamAssumption, NEW r \in Table, NEW m \in Minutes, NEW c \in Row
  PROVE  /\ Put(r, m, c) \in Table /\ Put(r, m, c)[m] = c
         /\ \A k \in Minutes \ {m} : Put(r, m, c)[k] = r[k]
BY DEF Put, Table

\* The latest complete minute before another.
LEMMA PreviousFacts ==
  ASSUME StreamAssumption, NEW r \in Table, NEW m \in Nat
  PROVE  /\ Previous(r, m) \in Nat
         /\ Previous(r, m) # 0 =>
              /\ Previous(r, m) \in Minutes /\ Previous(r, m) < m /\ r[Previous(r, m)].complete
         /\ \A k \in Minutes : k < m /\ r[k].complete => Previous(r, m) # 0 /\ k <= Previous(r, m)
<1> DEFINE S == CompleteBefore(r, m)
<1>1. CASE S = {}
  BY <1>1 DEF Previous, CompleteBefore
<1>2. CASE S # {}
  <2>1. S \in SUBSET (0 .. MaxMinute) /\ MaxMinute \in Nat
    BY Constants DEF CompleteBefore
  <2> HIDE DEF S
  <2>2. Max(S) \in S /\ \A n \in S : n <= Max(S)
    BY <1>2, <2>1, MaxOf
  <2>3. Previous(r, m) = Max(S)
    BY <1>2 DEF Previous, S
  <2> QED
    BY <2>2, <2>3, Constants DEF S, CompleteBefore
<1> QED
  BY <1>1, <1>2

\* Tables with the same complete minutes before m have the same latest one.
LEMMA PreviousSame ==
  ASSUME NEW r \in Table, NEW q \in Table, NEW m \in Nat, NEW n \in Nat,
         \A k \in Minutes : (k < m /\ r[k].complete) <=> (k < n /\ q[k].complete)
  PROVE  Previous(r, m) = Previous(q, n)
<1>1. CompleteBefore(r, m) = CompleteBefore(q, n)
  BY DEF CompleteBefore
<1> QED
  BY <1>1 DEF Previous

LEMMA AtMostOne ==
  ASSUME NEW S, NEW x, S \subseteq {x}
  PROVE  Cardinality(S) \in Nat /\ Cardinality(S) <= 1
<1>1. IsFiniteSet({x}) /\ Cardinality({x}) = 1
  BY FS_Singleton
<1> QED
  BY <1>1, FS_Subset, FS_CardinalityType

LEMMA CoversFew ==
  ASSUME StreamAssumption, NEW r \in Table, NEW m \in Minutes, NEW S \in SUBSET Prices,
         Covers(r, m, S), r[m].by = "none"
  PROVE  m \in abandoned \/ Cardinality(S) <= 1
<1>1. r[m] = Missing
  BY RowFacts DEF Table
<1>2. CASE Holds(r[m], S)
  <2>1. S = {}
    <3>1. SUFFICES ASSUME NEW p \in S PROVE FALSE
      OBVIOUS
    <3>2. p \in Nat /\ p # 0 /\ p <= 0
      BY <1>1, <1>2, Constants DEF Holds
    <3> QED
      BY <3>2
  <2> QED
    BY <2>1, FS_EmptySet
<1> QED
  BY <1>1, <1>2, Constants DEF Covers

-----------------------------------------------------------------------------
(* The feed *)

LEMMA StateFacts ==
  ASSUME StreamAssumption, Typed, NEW item, item.changed \in 0 .. now
  PROVE  /\ StateAt(item) \in States
         /\ item.changed = now => ~ Recovering(item)
<1> DEFINE age == now - item.changed
           Fits(s) == /\ (s = "INACTIVE") = (age >= InactiveAge)
                      /\ (s = "STALLED") = (age >= StalledAge /\ age < InactiveAge)
                      /\ (s = "QUIET") = (age >= QuietAge /\ age < StalledAge)
           Ages == {"LIVE", "QUIET", "STALLED", "INACTIVE"}
<1>1. now \in Nat /\ now # 0
  BY Constants DEF Typed
<1>2. age \in Nat /\ QuietAge \in Nat /\ StalledAge \in Nat /\ InactiveAge \in Nat
      /\ 0 < QuietAge /\ QuietAge < StalledAge /\ StalledAge < InactiveAge
  BY <1>1 DEF StreamAssumption
<1> HIDE DEF age
<1>3. \E s \in Ages : Fits(s)
  <2>1. CASE age >= InactiveAge
    <3>1. Fits("INACTIVE")
      BY <1>2, <2>1
    <3> QED
      BY <3>1
  <2>2. CASE age < InactiveAge /\ age >= StalledAge
    <3>1. Fits("STALLED")
      BY <1>2, <2>2
    <3> QED
      BY <3>1
  <2>3. CASE age < StalledAge /\ age >= QuietAge
    <3>1. Fits("QUIET")
      BY <1>2, <2>3
    <3> QED
      BY <3>1
  <2>4. CASE age < QuietAge
    <3>1. Fits("LIVE")
      BY <1>2, <2>4
    <3> QED
      BY <3>1
  <2> QED
    BY <1>2, <2>1, <2>2, <2>3, <2>4
<1>4. item.changed # 0 => StateAt(item) \in Ages /\ Fits(StateAt(item))
  <2>1. item.changed # 0 => StateAt(item) = CHOOSE s \in Ages : Fits(s)
    BY DEF StateAt, age
  <2> HIDE DEF Fits, Ages
  <2> QED
    BY <1>3, <2>1
<1>5. item.changed = 0 => StateAt(item) = "INACTIVE"
  BY DEF StateAt
<1>6. StateAt(item) \in States
  BY <1>4, <1>5 DEF States
<1>7. ASSUME item.changed = now PROVE ~ Recovering(item)
  <2>1. age = 0 /\ item.changed # 0
    BY <1>1, <1>7 DEF age
  <2> QED
    BY <1>2, <1>4, <2>1 DEF Recovering
<1> QED
  BY <1>6, <1>7

\* The observation after a tick, recovered or not.
LEMMA ObservedType ==
  ASSUME StreamAssumption, Typed, NEW p \in Prices
  PROVE  /\ Observed(p) \in [state : States, changed : 0 .. now, price : {0} \cup Prices]
         /\ CompleteRecovery(Observed(p)) \in [state : States, changed : 0 .. now, price : {0} \cup Prices]
         /\ feed.changed <= Observed(p).changed
         /\ p # feed.price => /\ Observed(p).changed = now
                              /\ CompleteRecovery(Observed(p)).changed = now
<1>1. feed \in [state : States, changed : 0 .. now, price : {0} \cup Prices] /\ now \in Nat
  BY Constants DEF Typed
<1>2. StateAt(feed) \in States
  BY <1>1, StateFacts
<1>3. CASE p = feed.price
  <2>1. Observed(p) = [feed EXCEPT !.state = StateAt(feed)]
    BY <1>3 DEF Observed
  <2>2. /\ Observed(p).changed = feed.changed
        /\ Observed(p) \in [state : States, changed : 0 .. now, price : {0} \cup Prices]
    BY <1>1, <1>2, <2>1
  <2> QED
    BY <1>1, <1>3, <2>2 DEF CompleteRecovery, States
<1>4. CASE p # feed.price
  <2>1. PICK s \in {"RECOVERING", "LIVE"} : Observed(p) = [state |-> s, changed |-> now, price |-> p]
    BY <1>4 DEF Observed
  <2> QED
    BY <1>1, <1>4, <2>1 DEF CompleteRecovery, States
<1> QED
  BY <1>3, <1>4

-----------------------------------------------------------------------------
(* The provider's history *)

\* Candles of minutes that are over, and maybe a bar of the minute just begun.
Provided(f) ==
  /\ DOMAIN f \subseteq {k \in Minutes : k <= now}
  /\ \A k \in DOMAIN f :
       \E p \in Prices : f[k] = Quiet(p, IF k = now THEN "early" ELSE "provider")

LEMMA HistoryProvided ==
  ASSUME StreamAssumption, Typed, NEW f
  PROVE  /\ f \in History(0, now) => Provided(f) /\ now \notin DOMAIN f
         /\ f \in Answers => Provided(f)
<1>1. now \in Nat /\ 1 <= now /\ now \in Minutes
  BY Constants DEF Typed
<1>2. ASSUME NEW g, NEW m \in Nat, m <= now, g \in History(0, m)
      PROVE  Provided(g) /\ now \notin DOMAIN g
  <2> DEFINE gap == {k \in Minutes : 0 < k /\ k < m}
  <2>1. PICK S \in {{}, gap} \cup {{k} : k \in gap}, p \in Prices :
          g = [k \in S |-> Quiet(p, "provider")]
    BY <1>2 DEF History
  <2>2. S \subseteq gap
    BY <2>1
  <2>3. gap \subseteq {k \in Minutes : k <= now} /\ now \notin gap
    BY <1>1, <1>2, Constants
  <2> HIDE DEF gap
  <2>4. DOMAIN g = S /\ \A k \in S : g[k] = Quiet(p, "provider")
    BY <2>1
  <2> QED
    BY <2>2, <2>3, <2>4 DEF Provided
<1>3. ASSUME f \in Recovered PROVE Provided(f)
  <2>1. PICK g \in History(0, now), q \in Prices : f = WithNow(g, q)
    BY <1>3 DEF Recovered
  <2>2. Provided(g) /\ now \notin DOMAIN g
    BY <1>1, <1>2
  <2>3. /\ DOMAIN f = DOMAIN g \cup {now} /\ f[now] = Quiet(q, "early")
        /\ \A k \in DOMAIN g : f[k] = g[k]
    BY <2>1, <2>2 DEF WithNow
  <2> QED
    BY <1>1, <2>2, <2>3 DEF Provided
<1>4. f \in Answers => f \in History(0, now) \/ f \in History(0, 1) \/ f \in Recovered
  BY DEF Answers
<1> QED
  BY <1>1, <1>2, <1>3, <1>4

\* Part of what the provider has.
LEMMA ProvidedPart ==
  ASSUME StreamAssumption, NEW f, Provided(f), NEW D \in SUBSET DOMAIN f
  PROVE  Provided([k \in D |-> f[k]])
BY DEF Provided

LEMMA ProvidedRows ==
  ASSUME StreamAssumption, NEW f, Provided(f)
  PROVE  /\ DOMAIN f \subseteq Minutes
         /\ \A k \in DOMAIN f : /\ k <= now /\ f[k] \in Row /\ f[k] # Missing
                                /\ f[k].complete /\ f[k].low = f[k].close /\ f[k].high = f[k].close
                                /\ f[k].by = IF k = now THEN "early" ELSE "provider"
<1>1. ASSUME NEW k \in DOMAIN f
      PROVE  /\ k <= now /\ f[k] \in Row /\ f[k] # Missing
             /\ f[k].complete /\ f[k].low = f[k].close /\ f[k].high = f[k].close
             /\ f[k].by = IF k = now THEN "early" ELSE "provider"
  <2> DEFINE by == IF k = now THEN "early" ELSE "provider"
  <2>1. PICK p \in Prices : f[k] = Quiet(p, by)
    BY DEF Provided
  <2>2. by \in Sources
    BY DEF Sources
  <2>3. k <= now
    BY DEF Provided
  <2> HIDE DEF by
  <2>4. /\ f[k] \in Row /\ f[k] # Missing /\ f[k].complete /\ f[k].by = by
        /\ f[k].low = f[k].close /\ f[k].high = f[k].close
    BY <2>1, <2>2, QuietRow
  <2> QED
    BY <2>3, <2>4 DEF by
<1> QED
  BY <1>1 DEF Provided

\* Filled minutes stay as they are when other candles are written: rows become
\* candles that are not filled, and no row is removed or becomes a bar read early.
LEMMA FillsStay ==
  ASSUME StreamAssumption, NEW r \in Table, NEW q \in Table, Fills(r),
         \A k \in Minutes : \/ q[k] = r[k]
                            \/ /\ q[k] # Missing /\ q[k].by # "fill"
                               /\ q[k].by = "early" => r[k] = Missing
  PROVE  Fills(q)
<1>1. SUFFICES ASSUME NEW m \in Minutes, q[m].by = "fill"
               PROVE  /\ q[m].complete /\ Between(q, m)
                      /\ m + 1 \in Minutes /\ q[m + 1] # Missing /\ q[m + 1].by # "early"
  BY DEF Fills
<1>2. /\ q[m] = r[m] /\ r[m].complete /\ Between(r, m)
      /\ m + 1 \in Minutes /\ r[m + 1] # Missing /\ r[m + 1].by # "early"
  BY <1>1 DEF Fills
<1>3. Between(q, m)
  BY <1>2 DEF Between
<1>4. q[m + 1] # Missing /\ q[m + 1].by # "early"
  BY <1>2
<1> QED
  BY <1>2, <1>3, <1>4

\* Candles of the provider leave a table as closed as it was, a bar of the minute
\* just begun too, when nothing of that minute is stored or was built.
LEMMA ProvidedClosed ==
  ASSUME StreamAssumption, Typed, NEW r, Closed(r), NEW f, Provided(f),
         now \in DOMAIN f => r[now] = Missing /\ seen[now] = {}
  PROVE  Closed(Upsert(r, f))
<1> DEFINE q == Upsert(r, f)
<1>1. r \in Table
  BY DEF Closed
<1>2. /\ q \in Table
      /\ \A k \in DOMAIN f : q[k] = f[k]
      /\ \A k \in Minutes \ DOMAIN f : q[k] = r[k]
  BY <1>1, Overlay, ProvidedRows
<1> HIDE DEF q
<1>3. now \in Nat /\ \A k \in Minutes : k \in Nat
  BY Constants DEF Typed
<1>4. \A k \in Minutes :
        \/ q[k] = r[k]
        \/ q[k] # Missing /\ q[k].by = "provider" /\ q[k].complete /\ k < now
        \/ /\ q[k] # Missing /\ q[k].by = "early" /\ q[k].complete /\ k = now
           /\ q[k].low = q[k].close /\ q[k].high = q[k].close
           /\ r[k] = Missing /\ seen[k] = {}
  <2>1. ASSUME NEW k \in DOMAIN f, k = now
        PROVE  /\ q[k] # Missing /\ q[k].by = "early" /\ q[k].complete
               /\ q[k].low = q[k].close /\ q[k].high = q[k].close
    BY <1>2, <2>1, ProvidedRows
  <2>2. ASSUME NEW k \in DOMAIN f, k # now
        PROVE  q[k] # Missing /\ q[k].by = "provider" /\ q[k].complete /\ k < now
    <3>1. k <= now /\ k \in Nat
      BY <1>3, ProvidedRows
    <3> QED
      BY <1>2, <1>3, <2>2, <3>1, ProvidedRows
  <2> QED
    BY <1>2, <2>1, <2>2
<1>5. Fills(q)
  <2>1. Fills(r)
    BY DEF Closed
  <2>2. \A k \in Minutes : \/ q[k] = r[k]
                           \/ /\ q[k] # Missing /\ q[k].by # "fill"
                              /\ q[k].by = "early" => r[k] = Missing
    BY <1>4
  <2> QED
    BY <1>1, <1>2, <2>1, <2>2, FillsStay
<1>6. ASSUME NEW m \in Minutes PROVE Covers(q, m, seen[m]) /\ Early(q, m, seen[m])
  <2>1. Covers(r, m, seen[m]) /\ Early(r, m, seen[m])
    BY DEF Closed
  <2> QED
    BY <1>4, <2>1 DEF Covers, Early, Holds
<1>7. \A m \in Minutes : q[m].complete => Past(q, m)
  BY <1>4 DEF Closed, Past
<1>8. /\ \A m \in Minutes : q[m] # Missing /\ ~ q[m].complete => m \in abandoned
      /\ \A m \in Minutes : m > now => q[m] = Missing
  BY <1>3, <1>4 DEF Closed
<1> QED
  BY <1>2, <1>5, <1>6, <1>7, <1>8 DEF Closed, q

-----------------------------------------------------------------------------
(* A minute that ends *)

LEMMA Flat ==
  ASSUME StreamAssumption, WellFormed(active.candle), NEW c, IsUnchangedFlat(active, c)
  PROVE  /\ active.candle.low = active.candle.high /\ active.candle.low = c
         /\ \A S \in SUBSET Prices : Holds(active.candle, S) => S \subseteq {c}
<1>1. /\ active.candle.low = c /\ active.candle.high = c /\ c \in Nat
  BY Constants DEF IsUnchangedFlat, WellFormed, Candles
<1>2. ASSUME NEW S \in SUBSET Prices, Holds(active.candle, S), NEW p \in S
      PROVE  p = c
  <2>1. p \in Nat /\ c <= p /\ p <= c
    BY <1>1, <1>2, Constants DEF Holds
  <2> QED
    BY <1>1, <2>1
<1> QED
  BY <1>1, <1>2

\* The minute being built, in a table where it is stored.
LEMMA BuildingFacts ==
  ASSUME StreamAssumption, RowsInv, active.minute # 0
  PROVE  /\ active.minute \in Minutes /\ active.minute <= now /\ active.minute \in Nat
         /\ active.candle \in Row /\ active.candle # Missing
         /\ active.candle.by = "ticks" /\ ~ active.candle.complete
         /\ seen[active.minute] \in SUBSET Prices
<1>1. now \in Nat /\ now <= MaxMinute /\ active.minute \in 0 .. now
  BY Constants DEF RowsInv, Typed
<1>2. active.minute \in Minutes
  BY <1>1, Constants
<1>3. WellFormed(active.candle)
  BY DEF RowsInv, Building
<1> QED
  BY <1>1, <1>2, <1>3, Constants DEF WellFormed, Row, RowsInv, Typed

\* A minute that ends unchanged, and was stored, is removed.
LEMMA RemovedClosed ==
  ASSUME StreamAssumption, RowsInv, active.minute # 0, active.minute # now, active.stored,
         IsUnchangedFlat(active, CloseAt(rows, Previous(rows, active.minute)))
  PROVE  Closed(Put(rows, active.minute, Missing))
<1> DEFINE M == active.minute
           q == Put(rows, M, Missing)
           w == Previous(rows, M)
<1>1. /\ M \in Minutes /\ M <= now /\ M \in Nat /\ now \in Nat
      /\ WellFormed(active.candle) /\ rows[M] = active.candle
      /\ Holds(active.candle, seen[M]) /\ seen[M] \in SUBSET Prices
      /\ \A k \in Minutes : k > M => rows[k] = Missing
      /\ rows \in Table /\ Fills(rows) /\ Missing \in Row
  BY BuildingFacts, Constants DEF RowsInv, Building, Typed, Row
<1>2. /\ q \in Table /\ q[M] = Missing /\ \A k \in Minutes \ {M} : q[k] = rows[k]
  BY <1>1, PutRow
<1>3. /\ w \in Nat
      /\ w # 0 => w \in Minutes /\ w < M /\ rows[w].complete
      /\ \A k \in Minutes : k < M /\ rows[k].complete => w # 0 /\ k <= w
  BY <1>1, PreviousFacts
<1>4. w # 0 /\ w + 1 = M => rows[w].by # "fill"
  BY <1>1 DEF RowsInv, FillHolds, CloseAt
<1>5. rows[M].by = "ticks" /\ rows[M] # Missing /\ ~ rows[M].complete
  BY <1>1, Constants DEF WellFormed
<1> HIDE DEF q, w
<1>6. Fills(q)
  <2>1. SUFFICES ASSUME NEW m \in Minutes, q[m].by = "fill"
                 PROVE  /\ q[m].complete /\ Between(q, m)
                        /\ m + 1 \in Minutes /\ q[m + 1] # Missing /\ q[m + 1].by # "early"
    BY DEF Fills
  <2>2. m # M /\ q[m] = rows[m]
    BY <1>2, <2>1, Constants
  <2>3. /\ rows[m].complete /\ Between(rows, m)
        /\ m + 1 \in Minutes /\ rows[m + 1] # Missing /\ rows[m + 1].by # "early"
    BY <1>1, <2>1, <2>2 DEF Fills
  <2>4. m < M /\ m \in Nat
    <3>1. rows[m] # Missing
      BY <2>1, <2>2, Constants
    <3>2. m \in Nat
      BY Constants
    <3> QED
      BY <1>1, <2>2, <3>1, <3>2
  <2>5. w # 0 /\ m <= w /\ w \in Minutes /\ w \in Nat /\ w < M /\ rows[w].complete
    BY <1>3, <2>3, <2>4
  <2>6. PICK x \in Minutes : x \in Nat /\ m < x /\ x < M /\ rows[x] # Missing /\ rows[x].by # "fill"
    <3>1. CASE rows[w].by # "fill"
      <4>1. w # m
        BY <2>1, <2>2, <3>1
      <4>2. rows[w] # Missing
        BY <2>5, Constants
      <4> QED
        BY <2>4, <2>5, <3>1, <4>1, <4>2
    <3>2. CASE rows[w].by = "fill"
      <4>1. w + 1 \in Minutes /\ rows[w + 1] # Missing /\ w + 1 # M
        BY <1>1, <1>4, <2>5, <3>2 DEF Fills
      <4>2. w + 1 \in Nat /\ w + 1 < M /\ m < w + 1
        BY <1>1, <2>4, <2>5, <4>1
      <4>3. ~ rows[w + 1].complete
        BY <1>3, <2>5, <4>1, <4>2
      <4>4. rows[w + 1].by # "fill"
        BY <1>1, <4>1, <4>3 DEF Fills
      <4> QED
        BY <4>1, <4>2, <4>4
    <3> QED
      BY <3>1, <3>2
  <2>7. q[x] = rows[x] /\ x # M
    BY <1>1, <1>2, <2>6
  <2>8. PICK u, v \in Minutes :
          /\ u < m /\ m < v /\ v - u <= ShortGap
          /\ rows[u] # Missing /\ rows[u].by # "fill"
          /\ rows[v] # Missing /\ rows[v].by # "fill"
    BY <2>3 DEF Between
  <2>9. u \in Nat /\ v \in Nat /\ ShortGap \in Nat /\ u # M /\ q[u] = rows[u]
    BY <1>1, <1>2, <2>4, <2>8, Constants DEF StreamAssumption
  <2>10. Between(q, m)
    <3>1. CASE v = M
      <4>1. x - u <= ShortGap
        BY <1>1, <2>4, <2>6, <2>8, <2>9, <3>1
      <4> QED
        BY <2>6, <2>7, <2>8, <2>9, <4>1 DEF Between
    <3>2. CASE v # M
      <4>1. q[v] = rows[v]
        BY <1>2, <3>2
      <4> QED
        BY <2>8, <2>9, <4>1 DEF Between
    <3> QED
      BY <3>1, <3>2
  <2>11. m + 1 # M
    BY <2>4, <2>6, <1>1
  <2>12. q[m + 1] # Missing /\ q[m + 1].by # "early"
    BY <1>2, <2>3, <2>11
  <2> QED
    BY <2>2, <2>3, <2>10, <2>12
<1>7. ASSUME NEW m \in Minutes PROVE Covers(q, m, seen[m]) /\ Early(q, m, seen[m])
  <2>1. CASE m = M
    <3>1. seen[M] \subseteq {CloseAt(rows, w)}
      BY <1>1, Flat DEF w
    <3>2. Cardinality(seen[M]) <= 1
      BY <3>1, AtMostOne
    <3> QED
      BY <1>2, <2>1, <3>2, Constants DEF Covers, Early
  <2>2. CASE m # M
    BY <1>2, <2>2 DEF RowsInv, Covered, Covers, Early
  <2> QED
    BY <2>1, <2>2
<1>8. /\ \A m \in Minutes : q[m] # Missing /\ ~ q[m].complete => m \in abandoned
      /\ \A m \in Minutes : m > now => q[m] = Missing
      /\ \A m \in Minutes : q[m].complete => Past(q, m)
  BY <1>1, <1>2, Constants DEF RowsInv, Halves, Present, Past
<1> QED
  BY <1>2, <1>6, <1>7, <1>8 DEF Closed, q

\* A minute that ends leaves a table in which nothing is being built.
LEMMA FinalizedClosed ==
  ASSUME StreamAssumption, RowsInv, active.minute # now
  PROVE  /\ Closed(Finalize(rows, active))
         /\ \A m \in Minutes : Finalize(rows, active)[m] # rows[m] => m = active.minute
<1> DEFINE M == active.minute
           flat == IsUnchangedFlat(active, CloseAt(rows, Previous(rows, M)))
<1>1. /\ rows \in Table /\ Fills(rows) /\ now \in Nat /\ Missing \in Row
  BY Constants DEF RowsInv, Typed, Row
<1>2. CASE M = 0 \/ (~ active.stored /\ flat)
  <2>1. Finalize(rows, active) = rows
    BY <1>2 DEF Finalize
  <2>2. M = 0 => ~ active.stored
    BY DEF RowsInv, Building, NoActive
  <2>3. Closed(rows)
    BY <1>1, <1>2, <2>2 DEF RowsInv, Halves, Covered, Present, Closed
  <2> QED
    BY <2>1, <2>3
<1>3. CASE M # 0 /\ active.stored /\ flat
  <2>1. Finalize(rows, active) = Put(rows, M, Missing)
    BY <1>3 DEF Finalize
  <2>2. M \in Minutes
    BY <1>3, BuildingFacts
  <2>3. \A k \in Minutes \ {M} : Put(rows, M, Missing)[k] = rows[k]
    BY <1>1, <2>2, PutRow
  <2> QED
    BY <1>3, <2>1, <2>3, RemovedClosed
<1>4. CASE M # 0 /\ ~ flat
  <2> DEFINE c == [active.candle EXCEPT !.complete = TRUE]
             q == Put(rows, M, c)
  <2>1. Finalize(rows, active) = q
    BY <1>4 DEF Finalize
  <2>2. /\ M \in Minutes /\ M <= now /\ M \in Nat /\ M < now
        /\ WellFormed(active.candle) /\ Holds(active.candle, seen[M])
    BY <1>1, <1>4, BuildingFacts DEF RowsInv, Building
  <2>3. /\ c \in Row /\ c # Missing /\ c.by = "ticks" /\ c.complete
        /\ c.low = active.candle.low /\ c.high = active.candle.high
    BY <2>2, Constants DEF WellFormed, Candles, Row
  <2>4. /\ q \in Table /\ q[M] = c /\ \A k \in Minutes \ {M} : q[k] = rows[k]
    <3>1. M \in Minutes /\ c \in Row /\ rows \in Table
      BY <1>1, <2>2, <2>3
    <3> HIDE DEF c
    <3> QED
      BY <3>1, PutRow
  <2> HIDE DEF q, c
  <2>5. \A k \in Minutes : \/ q[k] = rows[k]
                           \/ /\ q[k] # Missing /\ q[k].by # "fill"
                              /\ q[k].by = "early" => rows[k] = Missing
    BY <2>3, <2>4
  <2>6. Fills(q)
    BY <1>1, <2>4, <2>5, FillsStay
  <2>7. \A m \in Minutes : Covers(q, m, seen[m]) /\ Early(q, m, seen[m])
    BY <2>2, <2>3, <2>4 DEF RowsInv, Covered, Covers, Early, Holds
  <2>8. /\ \A m \in Minutes : q[m] # Missing /\ ~ q[m].complete => m \in abandoned
        /\ \A m \in Minutes : m > now => q[m] = Missing
        /\ \A m \in Minutes : q[m].complete => Past(q, m)
    BY <1>1, <2>2, <2>3, <2>4, Constants DEF RowsInv, Halves, Present, Past
  <2>9. Closed(q)
    BY <2>4, <2>6, <2>7, <2>8 DEF Closed
  <2> QED
    BY <2>1, <2>4, <2>9
<1>5. active.stored \in BOOLEAN
  BY DEF RowsInv, Typed
<1> QED
  BY <1>2, <1>3, <1>4

-----------------------------------------------------------------------------
(* A minute that begins *)

\* What a tick leaves: its minute is being built, and S was seen of it.
Built(b, S) ==
  LET w == Previous(b.rows, now) IN
  /\ b.rows \in Table /\ Fills(b.rows)
  /\ b.active = [minute |-> now, candle |-> b.active.candle, stored |-> b.active.stored]
  /\ b.active.stored \in BOOLEAN
  /\ WellFormed(b.active.candle) /\ Holds(b.active.candle, S)
  /\ b.active.stored => b.rows[now] = b.active.candle
  /\ ~ b.active.stored /\ b.rows[now].by # "early" =>
       IsUnchangedFlat(b.active, CloseAt(b.rows, w))
  /\ ~ b.active.stored /\ b.rows[now].by = "early" =>
       IsUnchangedFlat(b.active, b.rows[now].close)
  /\ b.active.stored /\ w # 0 /\ w + 1 = now /\ b.rows[w].by = "fill" =>
       ~ IsUnchangedFlat(b.active, b.rows[w].close)
  /\ \A m \in Minutes : m > now => b.rows[m] = Missing
  /\ \A m \in Minutes : b.rows[m].complete => Past(b.rows, m)
  /\ \A m \in Minutes : b.rows[m] # Missing /\ ~ b.rows[m].complete =>
       (m = now /\ b.active.stored) \/ m \in abandoned
  /\ \A m \in Minutes \ {now} : Covers(b.rows, m, seen[m]) /\ Early(b.rows, m, seen[m])
  /\ Covers(b.rows, now, S) /\ Early(b.rows, now, S)

LEMMA FromTickFacts ==
  ASSUME StreamAssumption, NEW p \in Prices, NEW o \in Prices
  PROVE  LET a == FromTick(now, p, o) IN
         /\ a = [minute |-> now, candle |-> a.candle, stored |-> FALSE]
         /\ WellFormed(a.candle) /\ Holds(a.candle, {p})
         /\ a.candle \in Row /\ a.candle # Missing
         /\ \A c : IsUnchangedFlat(a, c) <=> (o = p /\ p = c)
<1> DEFINE a == FromTick(now, p, o)
<1>1. /\ p \in Nat /\ o \in Nat /\ Hi(o, p) \in Prices /\ Lo(o, p) \in Prices
      /\ Lo(o, p) <= o /\ o <= Hi(o, p) /\ Lo(o, p) <= p /\ p <= Hi(o, p)
      /\ o = Hi(o, p) /\ o = Lo(o, p) <=> o = p
  BY Constants DEF Hi, Lo
<1>2. /\ a.candle = [open |-> o, high |-> Hi(o, p), low |-> Lo(o, p), close |-> p,
                     complete |-> FALSE, by |-> "ticks"]
      /\ a.minute = now /\ a.stored = FALSE
      /\ a = [minute |-> now, candle |-> a.candle, stored |-> FALSE]
  BY DEF FromTick
<1>3. a.candle \in Candles
  BY <1>1, <1>2 DEF Candles, Sources
<1>4. WellFormed(a.candle) /\ Holds(a.candle, {p})
  BY <1>1, <1>2, <1>3 DEF WellFormed, Holds
<1>5. ASSUME NEW c PROVE IsUnchangedFlat(a, c) <=> (o = p /\ p = c)
  BY <1>1, <1>2 DEF IsUnchangedFlat, Hi, Lo
<1> QED
  BY <1>2, <1>3, <1>4, <1>5, Constants DEF Row

LEMMA OpeningFacts ==
  ASSUME StreamAssumption, NEW r, NEW u, NEW p \in Prices, NEW connected, u # 0 => r[u] \in Candles
  PROVE  /\ Opening(r, u, now, p, connected) \in Prices
         /\ Opening(r, u, now, p, connected) = p \/ (u # 0 /\ Opening(r, u, now, p, connected) = r[u].close)
BY DEF Opening, Candles

\* The latest complete minute of a closed table is before now, or holds the bar
\* of now that was read early.
LEMMA LatestFacts ==
  ASSUME StreamAssumption, Typed, NEW r \in Table, \A m \in Minutes : r[m].complete => Past(r, m)
  PROVE  LET u == Previous(r, MaxMinute + 1) IN
         /\ u \in Nat
         /\ r[now].by # "early" => u = Previous(r, now) /\ u < now
         /\ u = now => r[now].by = "early"
         /\ u # 0 => u \in Minutes /\ u <= now /\ r[u].complete /\ r[u] \in Candles
         /\ \A k \in Minutes : r[k].complete => u # 0 /\ k <= u
<1> DEFINE u == Previous(r, MaxMinute + 1)
<1>1. /\ now \in Nat /\ now # 0 /\ MaxMinute + 1 \in Nat
      /\ \A k \in Minutes : k \in Nat /\ k < MaxMinute + 1
  BY Constants DEF Typed
<1>2. /\ u \in Nat
      /\ u # 0 => u \in Minutes /\ r[u].complete
      /\ \A k \in Minutes : r[k].complete => u # 0 /\ k <= u
  BY <1>1, PreviousFacts
<1> HIDE DEF u
<1>3. u # 0 => r[u] \in Candles /\ Past(r, u)
  <2>1. u # 0 => r[u] \in Row
    BY <1>2 DEF Table
  <2> QED
    BY <1>2, <2>1, RowFacts
<1>4. ASSUME r[now].by # "early" PROVE u = Previous(r, now) /\ u < now
  <2>1. \A k \in Minutes : r[k].complete => k < now
    BY <1>4 DEF Past
  <2>2. u = Previous(r, now)
    BY <1>1, <2>1, PreviousSame DEF u
  <2>3. u = 0 \/ u < now
    BY <1>2, <2>1
  <2> QED
    BY <1>1, <2>2, <2>3
<1>5. /\ u = now => r[now].by = "early"
      /\ u # 0 => u <= now
  BY <1>1, <1>2, <1>3, <1>4 DEF Past
<1> QED
  BY <1>2, <1>3, <1>4, <1>5 DEF u

\* The minute is new, nothing is written.
LEMMA FirstStays ==
  ASSUME StreamAssumption, Typed, NEW done, Closed(done), NEW p \in Prices, NEW o \in Prices,
         NEW written,
         IsUnchangedFlat(FromTick(now, p, o), CloseAt(done, Previous(done, MaxMinute + 1)))
  PROVE  Built([rows |-> done, active |-> FromTick(now, p, o), written |-> written], {p})
<1> DEFINE a == FromTick(now, p, o)
           b == [rows |-> done, active |-> a, written |-> written]
<1>1. /\ a = [minute |-> now, candle |-> a.candle, stored |-> FALSE]
      /\ WellFormed(a.candle) /\ Holds(a.candle, {p})
  BY FromTickFacts
<1>2. now \in Minutes /\ now \in Nat /\ done \in Table /\ done[now] \in Row
  BY Constants DEF Typed, Closed, Table
<1>3. /\ done[now].by # "early" => Previous(done, MaxMinute + 1) = Previous(done, now)
      /\ done[now].by = "early" => Previous(done, MaxMinute + 1) = now
  <2> DEFINE u == Previous(done, MaxMinute + 1)
  <2>1. /\ u \in Nat
        /\ done[now].by # "early" => u = Previous(done, now)
        /\ u # 0 => u <= now
        /\ done[now].complete => u # 0 /\ now <= u
    BY <1>2, LatestFacts DEF Closed
  <2>2. done[now].by = "early" => done[now].complete
    BY <1>2 DEF Closed, Early
  <2> HIDE DEF u
  <2>3. done[now].by = "early" => u = now
    BY <1>2, <2>1, <2>2
  <2> QED
    BY <2>1, <2>3 DEF u
<1>4. /\ done[now].by # "early" => IsUnchangedFlat(a, CloseAt(done, Previous(done, now)))
      /\ done[now].by = "early" => IsUnchangedFlat(a, done[now].close)
  BY <1>2, <1>3, Constants DEF CloseAt
<1>5. done[now].by = "early" => p = done[now].close
  <2>1. \A c : IsUnchangedFlat(a, c) => p = c
    BY FromTickFacts
  <2> QED
    BY <1>4, <2>1
<1>6. Covers(done, now, {p}) /\ Early(done, now, {p})
  <2>1. CASE done[now] = Missing
    BY <2>1, AtMostOne, Constants DEF Covers, Early
  <2>2. CASE done[now] # Missing /\ ~ done[now].complete
    BY <1>2, <2>2 DEF Closed, Covers, Early
  <2>3. CASE done[now].complete
    <3>1. done[now].by = "early"
      BY <1>2, <2>3 DEF Closed, Past
    <3>2. done[now].low = p /\ done[now].high = p /\ p \in Nat
      BY <1>2, <1>5, <3>1, Constants DEF Closed, Early
    <3> QED
      BY <1>2, <1>5, <2>3, <3>1, <3>2 DEF Covers, Holds, Closed, Early
  <2> QED
    BY <1>2, <2>1, <2>2, <2>3, RowFacts
<1>7. a.stored = FALSE
  BY <1>1
<1>8. b.rows = done /\ b.active = a
  OBVIOUS
<1> HIDE DEF a, b
<1>9. Built(b, {p})
  BY <1>1, <1>2, <1>4, <1>6, <1>7, <1>8 DEF Built, Closed
<1> QED
  BY <1>9 DEF a, b

-----------------------------------------------------------------------------
(* The gap before a new minute *)

\* What is verified: the provider's candles, between the latest and the new one.
LEMMA VerifiedGap ==
  ASSUME StreamAssumption, Typed, NEW done, Closed(done), NEW f, Provided(f), NEW u \in Nat
  PROVE  LET q == VerifyGap(done, u, now, f) IN
         /\ Closed(q)
         /\ \A k \in Minutes : \/ q[k] = done[k]
                               \/ u < k /\ k < now /\ q[k] # Missing /\ q[k].by = "provider"
<1> DEFINE D == {j \in DOMAIN f : u < j /\ j < now}
           g == [k \in D |-> f[k]]
<1>1. VerifyGap(done, u, now, f) = Upsert(done, g)
  BY DEF VerifyGap
<1>2. Provided(g) /\ now \in Nat
  BY ProvidedPart, Constants DEF Typed
<1>3. Closed(Upsert(done, g))
  <2>1. now \notin DOMAIN g
    BY <1>2
  <2> HIDE DEF g
  <2> QED
    BY <1>2, <2>1, ProvidedClosed
<1>4. DOMAIN g = D /\ \A k \in D : g[k] = f[k]
  OBVIOUS
<1>5. /\ \A k \in D : Upsert(done, g)[k] = g[k]
      /\ \A k \in Minutes \ D : Upsert(done, g)[k] = done[k]
  BY <1>2, <1>4, Overlay, ProvidedRows DEF Closed
<1>6. \A k \in D : u < k /\ k < now /\ f[k] # Missing /\ f[k].by = "provider"
  BY <1>2, ProvidedRows
<1> HIDE DEF D, g
<1> QED
  BY <1>1, <1>3, <1>4, <1>5, <1>6

\* What is filled: each empty minute between, with the close of the latest.
LEMMA FilledGap ==
  ASSUME StreamAssumption, Typed, NEW q, Closed(q), NEW u \in Nat, NEW connected,
         u # 0 => u \in Minutes /\ q[u] \in Candles
  PROVE  LET s == Filled(q, u, now, connected) IN
         /\ s \in Table
         /\ \A k \in Minutes :
              \/ s[k] = q[k]
              \/ /\ u # 0 /\ u < k /\ k < now /\ now - u <= ShortGap
                 /\ q[k] = Missing /\ s[k] = Quiet(q[u].close, "fill")
                 /\ \A j \in Minutes : u < j /\ j < now => s[j] # Missing
<1> DEFINE D == {j \in Minutes : u < j /\ j < now /\ q[j] = Missing}
           g == [k \in D |-> Quiet(q[u].close, "fill")]
<1>1. CASE ~ (u # 0 /\ connected /\ now - u <= ShortGap)
  BY <1>1 DEF Filled, Closed
<1>2. CASE u # 0 /\ connected /\ now - u <= ShortGap
  <2>1. Filled(q, u, now, connected) = Upsert(q, g)
    BY <1>2 DEF Filled, FillShortGap
  <2>2. q[u].close \in Prices /\ "fill" \in Sources
    BY <1>2 DEF Candles, Sources
  <2>3. DOMAIN g = D /\ \A k \in D : /\ g[k] = Quiet(q[u].close, "fill")
                                     /\ g[k] \in Row /\ g[k] # Missing
    BY <2>2, QuietRow
  <2>4. /\ Upsert(q, g) \in Table
        /\ \A k \in D : Upsert(q, g)[k] = g[k]
        /\ \A k \in Minutes \ D : Upsert(q, g)[k] = q[k]
    <3>1. q \in Table /\ D \subseteq Minutes
      BY DEF Closed
    <3> HIDE DEF g, D
    <3> QED
      BY <2>3, <3>1, Overlay
  <2> HIDE DEF g
  <2>5. \A j \in Minutes : u < j /\ j < now => Upsert(q, g)[j] # Missing
    BY <2>3, <2>4
  <2> QED
    BY <1>2, <2>1, <2>3, <2>4, <2>5
<1> QED
  BY <1>1, <1>2

\* The minute is new and its candle is written, after the gap before it.
LEMMA FirstWritten ==
  ASSUME StreamAssumption, Typed, NEW done, Closed(done), NEW p \in Prices,
         NEW connected, NEW f, Provided(f), NEW u, u = Previous(done, MaxMinute + 1),
         ~ IsUnchangedFlat(FromTick(now, p, Opening(done, u, now, p, connected)), CloseAt(done, u)),
         NEW q, q = IF u = 0 THEN done ELSE VerifyGap(done, u, now, f),
         NEW s, s = Filled(q, u, now, connected),
         NEW o \in Prices, NEW written,
         NEW a, a = FromTick(now, p, o)
  PROVE  Built([rows |-> Persist(s, a), active |-> [a EXCEPT !.stored = TRUE],
                written |-> written], {p})
<1> DEFINE t == Persist(s, a)
           b == [rows |-> t, active |-> [a EXCEPT !.stored = TRUE], written |-> written]
           w == Previous(t, now)
<1>1. /\ now \in Minutes /\ now \in Nat /\ done \in Table /\ ShortGap \in Nat
      /\ \A k \in Minutes : k \in Nat
  BY Constants DEF Typed, Closed, StreamAssumption
<1>2. /\ u \in Nat
      /\ u = now => done[now].by = "early"
      /\ u # 0 => u \in Minutes /\ u <= now /\ done[u].complete /\ done[u] \in Candles
      /\ \A k \in Minutes : done[k].complete => u # 0 /\ k <= u
  BY <1>1, LatestFacts DEF Closed
<1>3. /\ Closed(q) /\ q \in Table
      /\ \A k \in Minutes : \/ q[k] = done[k]
                            \/ u # 0 /\ u < k /\ k < now /\ q[k] # Missing /\ q[k].by = "provider"
  BY <1>2, VerifiedGap DEF Closed
<1>4. u # 0 => q[u] = done[u] /\ q[u] \in Candles
  BY <1>1, <1>2, <1>3
<1>5. /\ s \in Table
      /\ \A k \in Minutes :
           \/ s[k] = q[k]
           \/ /\ u # 0 /\ u < k /\ k < now /\ now - u <= ShortGap
              /\ q[k] = Missing /\ s[k] = Quiet(q[u].close, "fill")
              /\ \A j \in Minutes : u < j /\ j < now => s[j] # Missing
  BY <1>2, <1>3, <1>4, FilledGap
<1>6. /\ a.minute = now /\ a = [minute |-> now, candle |-> a.candle, stored |-> FALSE]
      /\ WellFormed(a.candle) /\ Holds(a.candle, {p})
      /\ a.candle \in Row /\ a.candle # Missing
      /\ \A c : IsUnchangedFlat(a, c) => p = c
  BY FromTickFacts
<1>7. t \in Table /\ t[now] = a.candle /\ \A k \in Minutes \ {now} : t[k] = s[k]
  BY <1>1, <1>5, <1>6, PutRow DEF Persist
<1>8. u # 0 => Quiet(q[u].close, "fill") \in Candles /\ Quiet(q[u].close, "fill").by = "fill"
               /\ Quiet(q[u].close, "fill").complete /\ Quiet(q[u].close, "fill") # Missing
               /\ Quiet(q[u].close, "fill").close = done[u].close
  BY <1>4, QuietRow DEF Candles, Sources
<1>9. /\ b.rows = t /\ b.active.candle = a.candle /\ b.active.stored = TRUE
      /\ b.active = [minute |-> now, candle |-> b.active.candle, stored |-> b.active.stored]
      /\ \A c : IsUnchangedFlat(b.active, c) <=> IsUnchangedFlat(a, c)
  BY <1>6 DEF IsUnchangedFlat
<1>10. t[now].by = "ticks" /\ ~ t[now].complete /\ t[now] # Missing
  BY <1>6, <1>7 DEF WellFormed
<1> HIDE DEF t, b, w
<1>10a. \A k \in Minutes : u < k /\ k < now => t[k].by # "early"
  <2>1. SUFFICES ASSUME NEW k \in Minutes, u < k, k < now, t[k].by = "early" PROVE FALSE
    OBVIOUS
  <2>2. q[k].by = "early"
    BY <1>1, <1>5, <1>7, <1>8, <2>1
  <2>3. done[k].by = "early"
    BY <1>3, <2>2
  <2>4. done[k].complete
    BY <2>3 DEF Closed, Early
  <2> QED
    BY <1>1, <1>2, <2>1, <2>4
<1>11. Fills(t)
  <2>1. SUFFICES ASSUME NEW m \in Minutes, t[m].by = "fill"
                 PROVE  /\ t[m].complete /\ Between(t, m)
                        /\ m + 1 \in Minutes /\ t[m + 1] # Missing /\ t[m + 1].by # "early"
    BY DEF Fills
  <2>2. m # now /\ t[m] = s[m]
    BY <1>7, <1>10, <2>1
  <2>3. \A k \in Minutes : q[k] # Missing => t[k] # Missing /\ (q[k].by # "fill" => t[k].by # "fill")
    BY <1>5, <1>7, <1>10
  <2>4. CASE s[m] = q[m]
    <3>1. /\ q[m].complete /\ Between(q, m)
          /\ m + 1 \in Minutes /\ q[m + 1] # Missing /\ q[m + 1].by # "early"
      BY <1>3, <2>1, <2>2, <2>4 DEF Closed, Fills
    <3>2. Between(t, m)
      BY <2>3, <3>1 DEF Between
    <3>3. t[m + 1] = q[m + 1] \/ t[m + 1].by = "ticks"
      BY <1>5, <1>7, <1>10, <3>1
    <3> QED
      BY <2>2, <2>3, <2>4, <3>1, <3>2, <3>3
  <2>5. CASE s[m] # q[m]
    <3>1. /\ u # 0 /\ u < m /\ m < now /\ now - u <= ShortGap
          /\ q[m] = Missing /\ s[m] = Quiet(q[u].close, "fill")
          /\ \A j \in Minutes : u < j /\ j < now => s[j] # Missing
      BY <1>5, <2>5
    <3>2. m + 1 \in Minutes /\ t[m + 1] # Missing /\ t[m + 1].by # "early"
      <4>1. m + 1 \in Minutes /\ u < m + 1 /\ (m + 1 = now \/ m + 1 < now)
        BY <1>1, <1>2, <3>1, Constants
      <4> QED
        BY <1>1, <1>7, <1>10, <1>10a, <3>1, <4>1
    <3>3. Between(t, m)
      <4>1. CASE done[u].by # "fill"
        <5>1. u \in Minutes /\ t[u] # Missing /\ t[u].by # "fill"
          BY <1>2, <1>4, <2>3, <3>1, <4>1, Constants
        <5> QED
          BY <1>1, <1>10, <3>1, <5>1 DEF Between
      <4>2. CASE done[u].by = "fill"
        <5>1. u \in Minutes /\ u + 1 \in Minutes /\ done[u + 1] # Missing
          BY <1>2, <3>1, <4>2 DEF Closed, Fills
        <5>2. ~ done[u + 1].complete /\ done[u + 1].by # "fill"
          BY <1>1, <1>2, <5>1 DEF Closed, Fills
        <5>3. q[u + 1] # Missing /\ q[u + 1].by # "fill"
          BY <1>3, <5>1, <5>2
        <5>4. u + 1 < m /\ now - (u + 1) <= ShortGap
          <6>1. u + 1 # m
            BY <3>1, <5>3
          <6> QED
            BY <1>1, <1>2, <3>1, <6>1
        <5>5. t[u + 1] # Missing /\ t[u + 1].by # "fill"
          BY <2>3, <5>1, <5>3
        <5> QED
          BY <1>1, <1>10, <3>1, <5>1, <5>4, <5>5 DEF Between
      <4> QED
        BY <4>1, <4>2
    <3> QED
      BY <1>8, <2>2, <3>1, <3>2, <3>3
  <2> QED
    BY <2>4, <2>5
<1>12. /\ \A m \in Minutes : m > now => t[m] = Missing
       /\ \A m \in Minutes : t[m].complete => Past(t, m)
  <2>1. \A m \in Minutes : m > now => q[m] = Missing /\ m # now
    BY <1>1, <1>3 DEF Closed
  <2>2. \A m \in Minutes : q[m].complete => m < now \/ m = now
    BY <1>3 DEF Closed, Past
  <2> QED
    BY <1>1, <1>5, <1>7, <1>10, <2>1, <2>2 DEF Past
<1>13. \A m \in Minutes : t[m] # Missing /\ ~ t[m].complete => m = now \/ m \in abandoned
  BY <1>3, <1>5, <1>7, <1>8 DEF Closed
<1>14. ASSUME NEW m \in Minutes \ {now} PROVE Covers(t, m, seen[m]) /\ Early(t, m, seen[m])
  <2>1. Covers(q, m, seen[m]) /\ Early(q, m, seen[m]) /\ seen[m] \in SUBSET Prices
    BY <1>3 DEF Closed, Typed
  <2>2. CASE s[m] = q[m]
    BY <1>7, <2>1, <2>2 DEF Covers, Early
  <2>3. CASE s[m] # q[m]
    <3>1. q[m].by = "none" /\ t[m].by = "fill"
      BY <1>5, <1>7, <1>8, <2>3, Constants
    <3> QED
      BY <1>3, <2>1, <3>1, CoversFew DEF Covers, Early
  <2> QED
    BY <2>2, <2>3
<1>15. Covers(t, now, {p}) /\ Early(t, now, {p})
  BY <1>6, <1>7, <1>10 DEF Covers, Early
<1>16. ASSUME w # 0, w + 1 = now, t[w].by = "fill", IsUnchangedFlat(a, t[w].close) PROVE FALSE
  <2>1. w \in Minutes /\ w < now /\ t[w].complete /\ t[w] = s[w]
    BY <1>1, <1>7, <1>16, PreviousFacts DEF w
  <2>1a. u # now
    <3>1. SUFFICES ASSUME u = now PROVE FALSE
      OBVIOUS
    <3>2. s[w] = q[w]
      <4>1. ~ (u < w)
        <5>1. w \in Nat /\ w < now /\ now \in Nat
          BY <1>1, <2>1
        <5> HIDE DEF w
        <5> QED
          BY <3>1, <5>1
      <4> QED
        BY <1>5, <2>1, <4>1
    <3>3. q[w + 1].by # "early"
      BY <1>3, <1>16, <2>1, <3>2 DEF Closed, Fills
    <3> QED
      BY <1>2, <1>4, <1>16, <3>1, <3>3
  <2>2. u # 0 /\ t[w].close = done[u].close
    <3>1. CASE s[w] = q[w]
      <4>1. q[w].by # "provider" /\ q[w].complete
        BY <1>16, <2>1, <3>1
      <4>2. q[w] = done[w]
        BY <1>3, <2>1, <4>1
      <4>3. u # 0 /\ w <= u
        BY <1>2, <2>1, <4>1, <4>2
      <4>4. u <= w
        <5>1. t[u].complete
          <6>1. s[u] = q[u]
            BY <1>2, <1>5, <4>3
          <6> QED
            BY <1>1, <1>2, <1>4, <1>7, <2>1a, <4>3, <6>1
        <5>2. u \in Minutes /\ u < now
          BY <1>1, <1>2, <2>1a, <4>3
        <5> QED
          BY <1>1, <1>2, <1>7, <4>3, <5>1, <5>2, PreviousFacts DEF w
      <4>5. u = w
        BY <1>1, <1>2, <2>1, <4>3, <4>4
      <4> QED
        BY <1>4, <2>1, <3>1, <4>3, <4>5
    <3>2. CASE s[w] # q[w]
      BY <1>5, <1>8, <2>1, <3>2
    <3> QED
      BY <3>1, <3>2
  <2>3. p = done[u].close
    BY <1>6, <1>16, <2>2
  <2>4. /\ Opening(done, u, now, p, connected) \in Prices
        /\ Opening(done, u, now, p, connected) = p
    <3>1. /\ Opening(done, u, now, p, connected) \in Prices
          /\ \/ Opening(done, u, now, p, connected) = p
             \/ Opening(done, u, now, p, connected) = done[u].close
      BY <1>2 DEF Opening, Candles
    <3> QED
      BY <2>3, <3>1
  <2>5. CloseAt(done, u) = p
    BY <2>2, <2>3 DEF CloseAt
  <2>6. \A first \in Prices : \A c : first = p /\ p = c => IsUnchangedFlat(FromTick(now, p, first), c)
    BY FromTickFacts
  <2>7. IsUnchangedFlat(FromTick(now, p, Opening(done, u, now, p, connected)), CloseAt(done, u))
    BY <2>4, <2>5, <2>6
  <2> QED
    BY <2>7
<1>17. Built(b, {p})
  BY <1>6, <1>7, <1>9, <1>11, <1>12, <1>13, <1>14, <1>15, <1>16 DEF Built, w
<1> QED
  BY <1>17 DEF b, t

-----------------------------------------------------------------------------
(* A tick *)

\* The candles a tick leaves that it did not find are reported, or of its minute.
Reported(before, b) ==
  \A m \in Minutes : b.rows[m] # before[m] /\ b.rows[m] # Missing => m \in b.written \cup {now}

LEMMA NewMinuteBuilt ==
  ASSUME StreamAssumption, Typed, NEW r, NEW x, Closed(Finalize(r, x)),
         \A m \in Minutes : Finalize(r, x)[m] # r[m] => m = x.minute,
         NEW p \in Prices, NEW connected, NEW f, Provided(f)
  PROVE  LET b == NewMinute(r, x, now, p, connected, f) IN Built(b, {p}) /\ Reported(r, b)
<1> DEFINE done  == Finalize(r, x)
           ended == {x.minute} \cap {k \in Minutes : done[k] # Missing}
           u     == Previous(done, MaxMinute + 1)
           first == FromTick(now, p, Opening(done, u, now, p, connected))
           q     == IF u = 0 THEN done ELSE VerifyGap(done, u, now, f)
           s     == Filled(q, u, now, connected)
           v     == Previous(s, MaxMinute + 1)
           a     == FromTick(now, p, Opening(s, v, now, p, connected))
           between == {k \in Minutes : 0 < u /\ u < k /\ k < now /\ s[k] # Missing}
           flat  == IsUnchangedFlat(first, CloseAt(done, u))
           b     == NewMinute(r, x, now, p, connected, f)
<1>1. /\ done \in Table /\ \A m \in Minutes : done[m].complete => Past(done, m)
      /\ u \in Nat
      /\ u # 0 => u \in Minutes /\ u <= now /\ done[u] \in Candles
  BY LatestFacts DEF Closed
<1>2. CASE flat
  <2>1. b = [rows |-> done, active |-> first, written |-> ended]
    BY <1>2 DEF NewMinute
  <2>2. Opening(done, u, now, p, connected) \in Prices
    <3> HIDE DEF done, u
    <3> QED
      BY <1>1 DEF Opening, Candles
  <2>3. Built([rows |-> done, active |-> first, written |-> ended], {p})
    BY <1>2, <2>2, FirstStays
  <2>4. b.rows = done /\ b.written = ended
    BY <2>1
  <2>5. Reported(r, b)
    <3> HIDE DEF b, done
    <3> QED
      BY <2>4 DEF Reported, done
  <2> QED
    BY <2>1, <2>3, <2>5
<1>3. CASE ~ flat
  <2>1. b = [rows |-> Persist(s, a), active |-> [a EXCEPT !.stored = TRUE],
             written |-> ended \cup between \cup {now}]
    BY <1>3 DEF NewMinute
  <2>2. /\ Closed(q) /\ q \in Table
        /\ \A k \in Minutes : \/ q[k] = done[k]
                              \/ u # 0 /\ u < k /\ k < now /\ q[k] # Missing /\ q[k].by = "provider"
    <3>1. Closed(done)
      OBVIOUS
    <3> HIDE DEF done, u
    <3>2. u # 0 => /\ Closed(VerifyGap(done, u, now, f))
                   /\ \A k \in Minutes :
                        LET z == VerifyGap(done, u, now, f) IN
                        \/ z[k] = done[k]
                        \/ u < k /\ k < now /\ z[k] # Missing /\ z[k].by = "provider"
      BY <1>1, <3>1, VerifiedGap
    <3> QED
      BY <3>1, <3>2 DEF Closed
  <2>3. now \in Minutes /\ now \in Nat /\ \A k \in Minutes : k \in Nat
    BY Constants DEF Typed
  <2>4. u # 0 => u \in Minutes /\ q[u] \in Candles
    <3> HIDE DEF done, u, q
    <3> QED
      BY <1>1, <2>2, <2>3
  <2>5. /\ s \in Table
        /\ \A k \in Minutes : \/ s[k] = q[k]
                              \/ /\ u # 0 /\ u < k /\ k < now /\ q[k] = Missing
                                 /\ s[k] = Quiet(q[u].close, "fill")
    <3> HIDE DEF u, q
    <3> QED
      BY <1>1, <2>2, <2>4, FilledGap
  <2>6. \A k \in Minutes : s[k].complete => Past(s, k)
    <3>1. \A k \in Minutes : q[k].complete => Past(q, k)
      BY <2>2 DEF Closed
    <3> QED
      BY <2>5, <3>1 DEF Past
  <2>7. v # 0 => s[v] \in Candles
    <3> HIDE DEF s
    <3> QED
      BY <2>5, <2>6, LatestFacts
  <2>8. Opening(s, v, now, p, connected) \in Prices
    <3> HIDE DEF s, v
    <3> QED
      BY <2>7, OpeningFacts
  <2>9. Built([rows |-> Persist(s, a), active |-> [a EXCEPT !.stored = TRUE],
               written |-> ended \cup between \cup {now}], {p})
    <3> DEFINE o == Opening(s, v, now, p, connected)
    <3>1. a = FromTick(now, p, o) /\ o \in Prices
      BY <2>8
    <3> HIDE DEF o, ended, between
    <3> QED
      BY <1>3, <3>1, FirstWritten
  <2>10. Reported(r, b)
    <3>1. b.rows = Persist(s, a) /\ b.written = ended \cup between \cup {now} /\ a.minute = now
      BY <2>1 DEF FromTick
    <3>2. \A k \in Minutes \ {now} : Persist(s, a)[k] = s[k]
      <4> HIDE DEF s
      <4> QED
        BY <2>5, <3>1 DEF Persist, Put, Table
    <3> HIDE DEF b, a, s, q, u
    <3>3. SUFFICES ASSUME NEW m \in Minutes, m # now, s[m] # r[m], s[m] # Missing
                   PROVE  m \in ended \cup between
      BY <3>1, <3>2 DEF Reported
    <3>4. CASE s[m] = done[m]
      BY <3>3, <3>4
    <3>5. CASE s[m] # done[m]
      <4>1. u # 0 /\ u < m /\ m < now
        BY <2>2, <2>5, <3>5
      <4>2. u \in Nat
        BY <1>1
      <4> HIDE DEF ended
      <4> QED
        BY <3>3, <4>1, <4>2
    <3> QED
      BY <3>4, <3>5
  <2> QED
    BY <2>1, <2>9, <2>10
<1> QED
  BY <1>2, <1>3

LEMMA ApplyRecord ==
  ASSUME NEW x, x = [minute |-> x.minute, candle |-> x.candle, stored |-> x.stored], NEW p
  PROVE  /\ Apply(x, p) = [minute |-> x.minute, candle |-> Apply(x, p).candle, stored |-> x.stored]
         /\ Apply(x, p).candle = [x.candle EXCEPT !.high = Hi(x.candle.high, p),
                                                  !.low = Lo(x.candle.low, p), !.close = p]
<1> DEFINE f(c) == [c EXCEPT !.high = Hi(c.high, p), !.low = Lo(c.low, p), !.close = p]
<1>1. Apply(x, p) = [x EXCEPT !.candle = f(x.candle)]
  BY DEF Apply
<1> HIDE DEF f
<1>2. Apply(x, p) = [minute |-> x.minute, candle |-> f(x.candle), stored |-> x.stored]
  BY <1>1
<1> QED
  BY <1>2 DEF f

LEMMA ApplyFacts ==
  ASSUME StreamAssumption, RowsInv, active.minute # 0, NEW p \in Prices
  PROVE  LET a == Apply(active, p) IN
         /\ a = [minute |-> active.minute, candle |-> a.candle, stored |-> active.stored]
         /\ WellFormed(a.candle) /\ Holds(a.candle, seen[active.minute] \cup {p})
         /\ a.candle \in Row /\ a.candle # Missing
         /\ \A c : IsUnchangedFlat(a, c) => IsUnchangedFlat(active, c)
<1> DEFINE a == Apply(active, p)
           k == active.candle
           h == Hi(k.high, p)
           l == Lo(k.low, p)
<1>1. /\ active = [minute |-> active.minute, candle |-> k, stored |-> active.stored]
      /\ WellFormed(k) /\ Holds(k, seen[active.minute])
      /\ seen[active.minute] \in SUBSET Prices
  BY BuildingFacts DEF RowsInv, Building
<1>2. /\ k.open \in Nat /\ k.high \in Nat /\ k.low \in Nat /\ k.close \in Nat /\ p \in Nat
      /\ k.low <= k.open /\ k.open <= k.high /\ k.low <= k.close /\ k.close <= k.high
      /\ k.high \in Prices /\ k.low \in Prices /\ k.open \in Prices
  BY <1>1, Constants DEF WellFormed, Candles
<1>3. /\ h \in Prices /\ l \in Prices /\ h \in Nat /\ l \in Nat
      /\ l <= k.low /\ k.high <= h /\ l <= p /\ p <= h
  BY <1>2 DEF Hi, Lo
<1>4. a.candle = [k EXCEPT !.high = h, !.low = l, !.close = p]
  BY <1>1, ApplyRecord
<1>5. a = [minute |-> active.minute, candle |-> a.candle, stored |-> active.stored]
  BY <1>1, ApplyRecord
<1> HIDE DEF a
<1>6. k \in Candles /\ ~ k.complete /\ k.by = "ticks"
  BY <1>1 DEF WellFormed
<1> HIDE DEF k, h, l
<1>7. /\ a.candle \in Candles /\ ~ a.candle.complete /\ a.candle.by = "ticks"
      /\ a.candle.open = k.open /\ a.candle.high = h /\ a.candle.low = l /\ a.candle.close = p
  BY <1>3, <1>4, <1>6 DEF Candles
<1>8. WellFormed(a.candle)
  BY <1>2, <1>3, <1>7 DEF WellFormed
<1>9. Holds(a.candle, seen[active.minute] \cup {p})
  <2>1. \A x \in seen[active.minute] : x \in Nat /\ k.low <= x /\ x <= k.high
    BY <1>1, Constants DEF Holds
  <2> QED
    BY <1>2, <1>3, <1>7, <2>1 DEF Holds
<1>10. ASSUME NEW c, IsUnchangedFlat(a, c) PROVE IsUnchangedFlat(active, c)
  <2>1. k.open = h /\ h = l /\ l = p /\ p = c
    BY <1>7, <1>10 DEF IsUnchangedFlat
  <2>2. k.high = k.open /\ k.low = k.open /\ k.close = k.open
    BY <1>2, <1>3, <2>1
  <2> QED
    BY <2>1, <2>2 DEF IsUnchangedFlat, k
<1> QED
  BY <1>5, <1>7, <1>8, <1>9, <1>10, Constants DEF Row, a

LEMMA SameMinuteBuilt ==
  ASSUME StreamAssumption, RowsInv, active.minute = now, NEW p \in Prices
  PROVE  LET b == SameMinute(rows, active, p) IN
         Built(b, seen[now] \cup {p}) /\ Reported(rows, b)
<1> DEFINE a == Apply(active, p)
           S == seen[now] \cup {p}
           w == Previous(rows, now)
           flat == IsUnchangedFlat(a, CloseAt(rows, w))
           write == a.stored \/ ~ flat
           b == SameMinute(rows, active, p)
<1>1. /\ now \in Minutes /\ now \in Nat /\ now # 0 /\ rows \in Table /\ Fills(rows)
      /\ seen[now] \in SUBSET Prices /\ S \in SUBSET Prices
  BY Constants DEF RowsInv, Typed
<1>2. /\ a = [minute |-> now, candle |-> a.candle, stored |-> active.stored]
      /\ a.minute = now /\ a.stored = active.stored
      /\ WellFormed(a.candle) /\ Holds(a.candle, S)
      /\ a.candle \in Row /\ a.candle # Missing
      /\ \A c : IsUnchangedFlat(a, c) => IsUnchangedFlat(active, c)
  <2>1. active.minute # 0
    BY <1>1
  <2>2. /\ a = [minute |-> active.minute, candle |-> a.candle, stored |-> active.stored]
        /\ WellFormed(a.candle) /\ Holds(a.candle, seen[active.minute] \cup {p})
        /\ a.candle \in Row /\ a.candle # Missing
        /\ \A c : IsUnchangedFlat(a, c) => IsUnchangedFlat(active, c)
    BY <2>1, ApplyFacts
  <2> HIDE DEF a
  <2> QED
    BY <2>2
<1>3. /\ b.rows = IF write THEN Persist(rows, a) ELSE rows
      /\ b.active = [a EXCEPT !.stored = write]
      /\ b.written = IF write THEN {now} ELSE {}
  BY <1>2 DEF SameMinute
<1>4. active.stored \in BOOLEAN /\ write \in BOOLEAN
  BY <1>2 DEF RowsInv, Typed
<1> HIDE DEF a, b
<1>5. /\ b.active = [minute |-> now, candle |-> b.active.candle, stored |-> b.active.stored]
      /\ b.active.candle = a.candle /\ b.active.stored = write
      /\ \A c : IsUnchangedFlat(b.active, c) <=> IsUnchangedFlat(a, c)
  <2> HIDE DEF write
  <2> QED
    BY <1>2, <1>3 DEF IsUnchangedFlat
<1>6. CASE write
  <2> DEFINE t == Persist(rows, a)
  <2>1. b.rows = t
    BY <1>3, <1>6
  <2>2. t \in Table /\ t[now] = a.candle /\ \A k \in Minutes \ {now} : t[k] = rows[k]
    BY <1>1, <1>2, PutRow DEF Persist
  <2> HIDE DEF t
  <2>3. t[now] # Missing /\ t[now].by = "ticks" /\ ~ t[now].complete
    BY <1>2, <2>2 DEF WellFormed
  <2>4. Fills(t)
    BY <1>1, <2>2, <2>3, FillsStay
  <2>5. Previous(t, now) = w
    BY <1>1, <2>2, PreviousSame
  <2>6. /\ w \in Nat
        /\ w # 0 => w \in Minutes /\ w < now
    BY <1>1, PreviousFacts
  <2>7. w # 0 => t[w] = rows[w]
    BY <1>1, <2>2, <2>6
  <2>8. ASSUME w # 0, w + 1 = now, t[w].by = "fill", IsUnchangedFlat(a, t[w].close) PROVE FALSE
    <3>1. IsUnchangedFlat(active, rows[w].close) /\ IsUnchangedFlat(a, rows[w].close)
      BY <1>2, <2>7, <2>8
    <3>2. active.stored
      BY <1>2, <1>6, <2>8, <3>1 DEF CloseAt
    <3> QED
      BY <1>1, <2>7, <2>8, <3>1, <3>2 DEF RowsInv, FillHolds
  <2>9. Covers(t, now, S) /\ Early(t, now, S)
    BY <1>2, <2>2, <2>3 DEF Covers, Early
  <2>10. \A m \in Minutes \ {now} : Covers(t, m, seen[m]) /\ Early(t, m, seen[m])
    BY <2>2 DEF RowsInv, Covered, Covers, Early
  <2>11. /\ \A m \in Minutes : m > now => t[m] = Missing
         /\ \A m \in Minutes : t[m].complete => Past(t, m)
         /\ \A m \in Minutes : t[m] # Missing /\ ~ t[m].complete => m = now \/ m \in abandoned
    <3>1. /\ \A m \in Minutes : m > now => rows[m] = Missing /\ m # now
          /\ \A m \in Minutes : rows[m].complete => m < now \/ m = now
          /\ \A m \in Minutes : rows[m] # Missing /\ ~ rows[m].complete => m = now \/ m \in abandoned
      BY <1>1, Constants DEF RowsInv, Present, Past, Halves
    <3> QED
      BY <2>2, <2>3, <3>1 DEF Past
  <2>12. b.active.stored = TRUE
    BY <1>5, <1>6
  <2>13. Reported(rows, b)
    BY <1>3, <1>6, <2>1, <2>2 DEF Reported
  <2>14. Built(b, S)
    <3> HIDE DEF S, w, flat, write
    <3> QED
      BY <1>2, <1>5, <2>1, <2>2, <2>3, <2>4, <2>5, <2>8, <2>9, <2>10, <2>11, <2>12 DEF Built
  <2> QED
    BY <2>13, <2>14 DEF b
<1>7. CASE ~ write
  <2>1. b.rows = rows /\ b.active.stored = FALSE /\ flat /\ ~ active.stored
    BY <1>2, <1>3, <1>5, <1>7
  <2>1a. \A c : IsUnchangedFlat(a, c) => S \subseteq {c}
    <3>1. SUFFICES ASSUME NEW c, IsUnchangedFlat(a, c), NEW x \in S PROVE x = c
      OBVIOUS
    <3>2. x \in Nat /\ a.candle.low <= x /\ x <= a.candle.high
      BY <1>1, <1>2, Constants DEF Holds
    <3>3. a.candle.low = c /\ a.candle.high = c
      BY <3>1 DEF IsUnchangedFlat
    <3>4. a.candle.low \in Nat
      BY <1>2, Constants DEF WellFormed, Candles
    <3> QED
      BY <3>2, <3>3, <3>4
  <2>1b. rows[now].by = "early" => IsUnchangedFlat(a, rows[now].close)
    <3>1. SUFFICES ASSUME rows[now].by = "early" PROVE CloseAt(rows, w) = rows[now].close
      BY <2>1
    <3>2. IsUnchangedFlat(active, rows[now].close) /\ IsUnchangedFlat(active, CloseAt(rows, w))
      BY <1>1, <1>2, <2>1, <3>1 DEF RowsInv, Building
    <3> QED
      BY <3>2 DEF IsUnchangedFlat
  <2>2. Covers(rows, now, S) /\ Early(rows, now, S)
    <3>1. /\ rows[now] \in Row /\ rows[now].complete \in BOOLEAN
          /\ rows[now].complete => rows[now].by = "early"
          /\ rows[now].by = "early" => rows[now] # Missing
      BY <1>1, RowFacts DEF RowsInv, Present, Past, Typed, Table
    <3>2. CASE rows[now] = Missing
      <4>1. Cardinality(S) <= 1
        BY <2>1, <2>1a, AtMostOne
      <4> QED
        BY <3>1, <3>2, <4>1, Constants DEF Covers, Early
    <3>3. CASE rows[now] # Missing /\ ~ rows[now].complete
      <4>1. now \in abandoned
        BY <1>1, <2>1, <3>3 DEF RowsInv, Halves
      <4>2. rows[now].by # "early"
        BY <1>1, <3>3 DEF RowsInv, Covered, Early
      <4> QED
        BY <4>1, <4>2 DEF Covers, Early
    <3>4. CASE rows[now].complete
      <4>1. S \subseteq {rows[now].close}
        BY <2>1a, <2>1b, <3>1, <3>4
      <4>2. rows[now].low = rows[now].close /\ rows[now].high = rows[now].close
        BY <1>1, <3>1, <3>4 DEF RowsInv, Covered, Early
      <4>3. Holds(rows[now], S)
        BY <1>1, <4>1, <4>2, Constants DEF Holds
      <4> QED
        BY <3>4, <4>1, <4>2, <4>3 DEF Covers, Early
    <3> QED
      BY <3>1, <3>2, <3>3, <3>4
  <2>3. /\ \A m \in Minutes : m > now => rows[m] = Missing
        /\ \A m \in Minutes : rows[m].complete => Past(rows, m)
        /\ \A m \in Minutes : rows[m] # Missing /\ ~ rows[m].complete => m \in abandoned
        /\ \A m \in Minutes \ {now} : Covers(rows, m, seen[m]) /\ Early(rows, m, seen[m])
    BY <2>1 DEF RowsInv, Present, Halves, Covered
  <2>4. /\ IsUnchangedFlat(b.active, CloseAt(rows, w))
        /\ rows[now].by = "early" => IsUnchangedFlat(b.active, rows[now].close)
    BY <1>5, <2>1, <2>1b
  <2>5. Reported(rows, b)
    BY <2>1 DEF Reported
  <2>6. Built(b, S)
    <3> HIDE DEF S, flat, write
    <3> QED
      BY <1>1, <1>2, <1>5, <2>1, <2>2, <2>3, <2>4 DEF Built
  <2> QED
    BY <2>5, <2>6 DEF b
<1> QED
  BY <1>6, <1>7

\* Whatever the history answers, a tick that counts builds its minute.
LEMMA OutcomeBuilt ==
  ASSUME StreamAssumption, RowsInv, ~ managed, NEW p \in Prices, NEW fails,
         NEW out \in Outcomes(p, fails)
  PROVE  Built(out.built, seen[now] \cup {p}) /\ Reported(out.left, out.built)
<1>1. /\ now \in Minutes /\ now \in Nat /\ now # 0 /\ Typed
      /\ feed.changed \in 0 .. now
      /\ active.minute # 0 => active.minute <= feed.changed /\ active.minute \in 0 .. now
  BY Constants DEF RowsInv, Typed, Building
<1>2. active.minute # now => seen[now] \cup {p} = {p}
  BY <1>1 DEF RowsInv, Present
<1>3. PICK fetched \in Answers :
        out = IF Recovering(feed)
              THEN LET r == Recover(fetched, fails) IN
                   [left |-> r.rows, built |-> Ingest(r.rows, NoActive, now, p, r.connected, fetched)]
              ELSE [left |-> rows, built |-> Ingest(rows, active, now, p, TRUE, fetched)]
  BY DEF Outcomes
<1>4. Provided(fetched)
  BY <1>1, HistoryProvided
<1>5. CASE Recovering(feed)
  <2> DEFINE r == Recover(fetched, fails)
             done == Finalize(rows, active)
             gap == {k \in Minutes : feed.changed < k /\ k < now}
             D == DOMAIN fetched \cap (IF gap = {} THEN {} ELSE gap \cup {now})
             got == [k \in D |-> fetched[k]]
  <2>1. active.minute # now
    BY <1>1, <1>5, StateFacts
  <2>2. /\ Closed(done)
        /\ \A m \in Minutes : done[m] # rows[m] => m = active.minute
    BY <2>1, FinalizedClosed
  <2>3. Provided(got)
    BY <1>4, ProvidedPart
  <2>4. r.rows = done \/ r.rows = Upsert(done, got)
    BY DEF Recover
  <2>4a. feed.changed < now
    <3>1. feed.changed # now
      BY <1>1, <1>5, StateFacts
    <3> QED
      BY <1>1, <3>1
  <2>4b. done[now] = Missing /\ seen[now] = {}
    <3>1. ticked.changed < now
      BY <1>1, <2>4a DEF RowsInv, Typed, Present
    <3>2. rows[now] = Missing /\ seen[now] = {}
      BY <1>1, <2>1, <3>1 DEF RowsInv, Present
    <3> QED
      BY <1>1, <2>1, <2>2, <3>2
  <2> HIDE DEF r, done, got
  <2>5. Closed(r.rows)
    BY <1>1, <2>2, <2>3, <2>4, <2>4b, ProvidedClosed
  <2>6. Finalize(r.rows, NoActive) = r.rows /\ NoActive.minute # now
    BY <1>1 DEF Finalize, NoActive
  <2>7. LET b == NewMinute(r.rows, NoActive, now, p, r.connected, fetched) IN
        Built(b, {p}) /\ Reported(r.rows, b)
    BY <1>1, <1>4, <2>5, <2>6, NewMinuteBuilt
  <2>8. out = [left |-> r.rows,
               built |-> NewMinute(r.rows, NoActive, now, p, r.connected, fetched)]
    BY <1>3, <1>5, <2>6 DEF Ingest, r
  <2> QED
    BY <1>2, <2>1, <2>7, <2>8
<1>6. CASE ~ Recovering(feed) /\ active.minute # now
  <2>1. LET b == NewMinute(rows, active, now, p, TRUE, fetched) IN
        Built(b, {p}) /\ Reported(rows, b)
    BY <1>1, <1>4, <1>6, FinalizedClosed, NewMinuteBuilt
  <2>2. out = [left |-> rows, built |-> NewMinute(rows, active, now, p, TRUE, fetched)]
    BY <1>3, <1>6 DEF Ingest
  <2> QED
    BY <1>2, <1>6, <2>1, <2>2
<1>7. CASE ~ Recovering(feed) /\ active.minute = now
  <2>1. out = [left |-> rows, built |-> SameMinute(rows, active, p)]
    BY <1>3, <1>7 DEF Ingest
  <2> QED
    BY <1>7, <2>1, SameMinuteBuilt
<1> QED
  BY <1>5, <1>6, <1>7

-----------------------------------------------------------------------------
(* The rows are as the invariant says *)

LEMMA RowsInit ==
  ASSUME StreamAssumption
  PROVE  Init => RowsInv
<1> SUFFICES ASSUME Init PROVE RowsInv
  OBVIOUS
<1>1. /\ now = 1 /\ managed \in BOOLEAN /\ ticked = Never /\ feed = Seeded(Never)
      /\ rows = [m \in Minutes |-> Missing] /\ active = NoActive
      /\ seen = [m \in Minutes |-> {}] /\ abandoned = {}
  BY DEF Init
<1>2. 1 \in Minutes /\ \A m \in Minutes : rows[m] = Missing /\ seen[m] = {}
  BY <1>1, Constants DEF StreamAssumption
<1>3. Typed
  BY <1>1, <1>2 DEF Typed, Never, Seeded, NoActive, States, Table, Row
<1>4. \A m \in Minutes : Covers(rows, m, seen[m]) /\ Early(rows, m, seen[m])
  BY <1>2, Constants DEF Covers, Early, Holds
<1>5. Fills(rows) /\ Halves /\ Building /\ FillHolds
  BY <1>1, <1>2, Constants DEF Fills, Halves, Building, FillHolds, NoActive
<1>6. Present
  <2>1. ticked.changed = 0 /\ feed.changed = 0
    BY <1>1 DEF Never, Seeded
  <2>2. \A m \in Minutes : ~ rows[m].complete
    BY <1>2, Constants
  <2> QED
    BY <1>2, <2>1, <2>2 DEF Present
<1> QED
  BY <1>3, <1>4, <1>5, <1>6 DEF RowsInv, Covered

\* What a tick built is the next state.
LEMMA BuiltRows ==
  ASSUME StreamAssumption, RowsInv, ~ managed, NEW p \in Prices, NEW b,
         Built(b, seen[now] \cup {p}),
         rows' = b.rows, active' = b.active, seen' = [seen EXCEPT ![now] = @ \cup {p}],
         ticked' = [changed |-> now, price |-> p],
         feed' \in [state : States, changed : 0 .. now, price : {0} \cup Prices],
         feed'.changed = now,
         UNCHANGED <<now, managed, abandoned>>
  PROVE  RowsInv'
<1>1. /\ now \in Minutes /\ now \in Nat /\ now # 0 /\ now' = now
      /\ seen \in [Minutes -> SUBSET Prices]
  BY Constants DEF RowsInv, Typed
<1>2. /\ seen' \in [Minutes -> SUBSET Prices]
      /\ seen'[now] = seen[now] \cup {p} /\ \A m \in Minutes \ {now} : seen'[m] = seen[m]
  BY <1>1
<1>3. active' = [minute |-> now, candle |-> active'.candle, stored |-> active'.stored]
      /\ active'.stored \in BOOLEAN
  BY DEF Built
<1>4. active'.minute = now
  BY <1>3
<1>5. Typed'
  <2>1. rows' \in Table /\ managed' \in BOOLEAN
    BY DEF Built, RowsInv, Typed
  <2>2. ticked' \in [changed : 0 .. now, price : {0} \cup Prices]
    BY <1>1
  <2> QED
    BY <1>1, <1>2, <1>3, <1>4, <2>1, <2>2 DEF Typed, Table, Row
<1>6. Building'
  <2>1. WellFormed(active'.candle) /\ Holds(active'.candle, seen'[now])
    BY <1>2 DEF Built
  <2>2. /\ active'.stored => rows'[now] = active'.candle
        /\ ~ active'.stored /\ rows'[now].by # "early" =>
             IsUnchangedFlat(active', CloseAt(rows', Previous(rows', now)))
        /\ ~ active'.stored /\ rows'[now].by = "early" => IsUnchangedFlat(active', rows'[now].close)
        /\ \A m \in Minutes : m > now => rows'[m] = Missing
    BY DEF Built
  <2>3. active'.minute # 0 /\ ~ managed' /\ active'.minute <= feed'.changed
    BY <1>1, <1>4
  <2>4. active' = [minute |-> active'.minute, candle |-> active'.candle, stored |-> active'.stored]
    BY <1>3, <1>4
  <2>5. Holds(active'.candle, seen'[active'.minute])
    BY <1>4, <2>1
  <2>6. active'.stored => rows'[active'.minute] = active'.candle
    BY <1>4, <2>2
  <2>7. /\ ~ active'.stored /\ rows'[active'.minute].by # "early" =>
             IsUnchangedFlat(active', CloseAt(rows', Previous(rows', active'.minute)))
        /\ ~ active'.stored /\ rows'[active'.minute].by = "early" =>
             IsUnchangedFlat(active', rows'[active'.minute].close)
    BY <1>4, <2>2
  <2>8. \A m \in Minutes : m > active'.minute => rows'[m] = Missing
    BY <1>4, <2>2
  <2> QED
    BY <2>1, <2>3, <2>4, <2>5, <2>6, <2>7, <2>8 DEF Building
<1>7. FillHolds'
  <2>1. active'.stored /\ Previous(rows', now) # 0 /\ Previous(rows', now) + 1 = now
        /\ rows'[Previous(rows', now)].by = "fill" =>
          ~ IsUnchangedFlat(active', rows'[Previous(rows', now)].close)
    BY DEF Built
  <2> QED
    BY <1>4, <2>1 DEF FillHolds
<1>8. Present'
  <2>1. \A m \in Minutes : m > now => seen'[m] = {}
    <3>1. \A m \in Minutes : m > now => m # now /\ seen[m] = {}
      BY <1>1, Constants DEF RowsInv, Present
    <3> QED
      BY <1>2, <3>1
  <2>2. /\ \A m \in Minutes : m > now => rows'[m] = Missing
        /\ \A m \in Minutes : rows'[m].complete => Past(rows', m)
    BY DEF Built
  <2>3. \A m \in Minutes : rows'[m].complete => Past(rows, m)'
    BY <1>1, <2>2 DEF Past
  <2>4. ticked'.changed = now /\ feed'.changed = now
    OBVIOUS
  <2> QED
    BY <1>1, <1>4, <2>1, <2>2, <2>3, <2>4 DEF Present
<1>9. Halves'
  BY <1>4 DEF Halves, Built
<1>10. Covered'
  <2>1. ASSUME NEW m \in Minutes PROVE Covers(rows, m, seen[m])' /\ Early(rows, m, seen[m])'
    <3>1. Covers(b.rows, m, seen'[m]) /\ Early(b.rows, m, seen'[m])
      BY <1>2 DEF Built
    <3> QED
      BY <3>1 DEF Covers, Early
  <2> QED
    BY <2>1 DEF Covered
<1>11. Fills(rows')
  BY DEF Built
<1> QED
  BY <1>5, <1>6, <1>7, <1>8, <1>9, <1>10, <1>11 DEF RowsInv, Fills, Between

LEMMA TickRows ==
  ASSUME StreamAssumption, RowsInv, NEW p \in Prices, NEW fails, Tick(p, fails)
  PROVE  RowsInv'
<1>1. Typed /\ now \in Nat
  BY Constants DEF RowsInv, Typed
<1>2. CASE p = feed.price \/ ~ Authoritative
  <2>1. feed' = Observed(p) /\ UNCHANGED <<now, managed, ticked, rows, active, seen, abandoned>>
    BY <1>2 DEF Tick
  <2>2. /\ feed' \in [state : States, changed : 0 .. now, price : {0} \cup Prices]
        /\ feed.changed <= feed'.changed
    BY <1>1, <2>1, ObservedType
  <2>3. Typed'
    BY <1>1, <2>1, <2>2 DEF Typed
  <2>4. Building'
    <3>1. active.minute \in Nat /\ feed.changed \in Nat /\ feed'.changed \in Nat
      BY <1>1, <2>2 DEF Typed
    <3> QED
      BY <2>1, <2>2, <3>1 DEF RowsInv, Building
  <2>5. Present'
    <3>1. ticked.changed \in Nat /\ feed.changed \in Nat /\ feed'.changed \in Nat
      BY <1>1, <2>2 DEF Typed
    <3> QED
      BY <2>1, <2>2, <3>1 DEF RowsInv, Present, Past
  <2> QED
    BY <2>1, <2>3, <2>4, <2>5 DEF RowsInv, FillHolds, Halves, Covered, Covers, Early
<1>3. CASE ~ (p = feed.price \/ ~ Authoritative)
  <2>1. /\ ~ managed
        /\ feed' = IF Recovering(feed) THEN CompleteRecovery(Observed(p)) ELSE Observed(p)
        /\ \E out \in Outcomes(p, fails) : Serve(p, out.left, out.built)
        /\ UNCHANGED <<now, managed, abandoned>>
    BY <1>3 DEF Tick
  <2>2. PICK out \in Outcomes(p, fails) : Serve(p, out.left, out.built)
    BY <2>1
  <2>3. Built(out.built, seen[now] \cup {p})
    BY <2>1, OutcomeBuilt
  <2>4. /\ feed' \in [state : States, changed : 0 .. now, price : {0} \cup Prices]
        /\ feed'.changed = now
    BY <1>1, <1>3, <2>1, ObservedType
  <2>5. /\ rows' = out.built.rows /\ active' = out.built.active
        /\ seen' = [seen EXCEPT ![now] = @ \cup {p}]
        /\ ticked' = [changed |-> now, price |-> p]
    BY <2>2 DEF Serve
  <2> QED
    BY <2>1, <2>3, <2>4, <2>5, BuiltRows
<1> QED
  BY <1>2, <1>3

\* A stopped worker leaves the table as it is.
LEMMA FlushedRows ==
  ASSUME StreamAssumption, RowsInv
  PROVE  Flush(rows, active) = rows
<1>1. CASE ~ active.stored
  BY <1>1 DEF Flush
<1>2. CASE active.stored
  <2>1. active.minute # 0
    BY <1>2 DEF RowsInv, Building, NoActive
  <2>2. rows[active.minute] = active.candle /\ rows \in Table
    BY <1>2, <2>1 DEF RowsInv, Building, Typed
  <2> QED
    BY <1>2, <2>2 DEF Flush, Persist, Put, Table
<1> QED
  BY <1>1, <1>2

LEMMA RestartRows ==
  ASSUME StreamAssumption, RowsInv, Restart
  PROVE  RowsInv'
<1>1. /\ rows' = rows /\ active' = NoActive /\ feed' = Seeded(ticked)
      /\ abandoned' = abandoned \cup (IF active.stored THEN {active.minute} ELSE {})
      /\ seen' = [seen EXCEPT ![now] = {}]
      /\ UNCHANGED <<now, managed, ticked>>
  BY FlushedRows DEF Restart
<1>2. /\ now \in Minutes /\ now \in Nat /\ seen \in [Minutes -> SUBSET Prices]
      /\ rows \in Table
  BY Constants DEF RowsInv, Typed
<1>3. /\ seen' \in [Minutes -> SUBSET Prices] /\ seen'[now] = {}
      /\ \A m \in Minutes : m # now => seen'[m] = seen[m]
  BY <1>1, <1>2
<1>4. Typed'
  <2>1. feed' \in [state : States, changed : 0 .. now, price : {0} \cup Prices]
    BY <1>1 DEF RowsInv, Typed, Seeded, States
  <2>2. active'.minute \in 0 .. now /\ active'.stored = FALSE
    BY <1>1, <1>2 DEF NoActive
  <2> QED
    BY <1>1, <1>3, <2>1, <2>2 DEF RowsInv, Typed
<1>5. Building' /\ FillHolds'
  BY <1>1 DEF Building, FillHolds, NoActive
<1>6. Present'
  <2>1. feed'.changed = ticked.changed /\ ticked.changed \in Nat
    BY <1>1, <1>2 DEF Seeded, RowsInv, Typed
  <2> QED
    BY <1>1, <1>3, <2>1 DEF RowsInv, Present, Past
<1>7. Halves'
  BY <1>1 DEF RowsInv, Halves
<1>8. Covered'
  <2>1. ASSUME NEW m \in Minutes PROVE Covers(rows, m, seen[m])' /\ Early(rows, m, seen[m])'
    <3>1. Covers(rows, m, seen[m]) /\ Early(rows, m, seen[m]) /\ m \in abandoned => m \in abandoned'
      BY <1>1 DEF RowsInv, Covered
    <3>2. CASE m = now
      <4>1. Early(rows, m, seen[m])
        BY DEF RowsInv, Covered
      <4> QED
        BY <1>1, <1>3, <3>2, <4>1 DEF Covers, Early, Holds
    <3>3. CASE m # now
      BY <1>1, <1>3, <3>1, <3>3 DEF RowsInv, Covered, Covers, Early
    <3> QED
      BY <3>2, <3>3
  <2> QED
    BY <2>1 DEF Covered
<1>9. Fills(rows)'
  BY <1>1 DEF RowsInv, Fills, Between
<1> QED
  BY <1>4, <1>5, <1>6, <1>7, <1>8, <1>9 DEF RowsInv

LEMMA AdvanceRows ==
  ASSUME StreamAssumption, RowsInv, Advance
  PROVE  RowsInv'
<1>1. /\ now' = now + 1 /\ now < MaxMinute /\ now \in Nat /\ now \in Minutes
      /\ UNCHANGED <<managed, feed, ticked, rows, active, seen, abandoned>>
  BY Constants DEF RowsInv, Typed, Advance
<1>2. Typed'
  BY <1>1, Constants DEF RowsInv, Typed
<1>3. Present'
  <2>1. \A m \in Minutes : m \in Nat /\ (m > now + 1 => m > now) /\ (m < now => m < now + 1)
                           /\ (m = now + 1 => m > now)
    BY <1>1, Constants
  <2> QED
    BY <1>1, <2>1 DEF RowsInv, Present, Past
<1>4. Building' /\ FillHolds' /\ Halves' /\ Covered' /\ Fills(rows)'
  BY <1>1 DEF RowsInv, Building, FillHolds, Halves, Covered, Covers, Early, Fills, Between
<1> QED
  BY <1>2, <1>3, <1>4 DEF RowsInv

LEMMA ImportRows ==
  ASSUME StreamAssumption, RowsInv, NEW bars \in History(0, now), Import(bars)
  PROVE  RowsInv'
<1>1. /\ managed /\ rows' = Upsert(rows, bars)
      /\ UNCHANGED <<now, managed, feed, ticked, active, seen, abandoned>>
  BY DEF Import
<1>2. active = NoActive /\ active.minute = 0 /\ Typed /\ active.stored = FALSE
  BY <1>1 DEF RowsInv, Building, NoActive
<1>3. now # 0 /\ Provided(bars) /\ now \notin DOMAIN bars
  BY <1>2, HistoryProvided, Constants DEF Typed
<1>4. Closed(rows)
  BY <1>2 DEF RowsInv, Typed, Halves, Present, Covered, Closed
<1>5. Closed(Upsert(rows, bars))
  BY <1>2, <1>3, <1>4, ProvidedClosed
<1>6. Typed'
  BY <1>1, <1>5 DEF RowsInv, Typed, Closed
<1>7. Building' /\ FillHolds'
  BY <1>1, <1>2 DEF Building, FillHolds
<1>8. Present' /\ Halves'
  BY <1>1, <1>5 DEF RowsInv, Present, Past, Halves, Closed
<1>9. Covered' /\ Fills(rows)'
  BY <1>1, <1>5 DEF Closed, Covered, Covers, Early, Fills, Between
<1> QED
  BY <1>6, <1>7, <1>8, <1>9 DEF RowsInv

LEMMA BridgeTickRows ==
  ASSUME StreamAssumption, RowsInv, NEW p \in Prices, BridgeTick(p)
  PROVE  RowsInv'
<1>1. managed /\ feed' = Observed(p) /\ UNCHANGED <<now, managed, ticked, rows, active, seen, abandoned>>
  BY DEF BridgeTick
<1>2. Typed /\ active.minute = 0
  BY <1>1 DEF RowsInv, Typed, Building
<1>3. feed' \in [state : States, changed : 0 .. now, price : {0} \cup Prices]
  BY <1>1, <1>2, ObservedType
<1>4. Typed'
  BY <1>1, <1>2, <1>3 DEF Typed
<1> QED
  BY <1>1, <1>2, <1>4 DEF RowsInv, Building, FillHolds, Present, Past, Halves, Covered, Covers, Early

LEMMA RowsNext ==
  ASSUME StreamAssumption
  PROVE  RowsInv /\ [Next]_vars => RowsInv'
<1> SUFFICES ASSUME RowsInv, [Next]_vars PROVE RowsInv'
  OBVIOUS
<1>1. CASE RivalTicks
  BY <1>1 DEF RivalTicks, RowsInv, Typed, Building, FillHolds, Present, Past, Halves, Covered, Covers, Early
<1>2. CASE UNCHANGED vars
  BY <1>2 DEF vars, RowsInv, Typed, Building, FillHolds, Present, Past, Halves, Covered, Covers, Early
<1> QED
  BY <1>1, <1>2, TickRows, RestartRows, AdvanceRows, ImportRows, BridgeTickRows DEF Next

-----------------------------------------------------------------------------
(* The aggregates *)

\* A bucket is built from the rows in it.
LEMMA BuildSame ==
  ASSUME StreamAssumption, NEW r \in Table, NEW q \in Table, NEW b,
         \A m \in Minutes : BucketStart(m) = b => q[m] = r[m]
  PROVE  /\ Source(q, b) = Source(r, b)
         /\ Build(q, Source(q, b)) = Build(r, Source(r, b))
<1> DEFINE S == Source(r, b)
<1>1. Source(q, b) = S /\ \A m \in S : q[m] = r[m]
  BY DEF Source
<1>2. S \in SUBSET (0 .. MaxMinute) /\ MaxMinute \in Nat /\ S \in SUBSET Nat
  BY Constants DEF Source
<1> HIDE DEF S
<1>3. ASSUME S = {} PROVE Build(q, S) = Build(r, S)
  BY <1>3 DEF Build
<1>4. ASSUME S # {} PROVE Build(q, S) = Build(r, S)
  <2>1. Min(S) \in S /\ Max(S) \in S
    BY <1>2, <1>4, MinOf, MaxOf
  <2>2. {q[m].high : m \in S} = {r[m].high : m \in S} /\ {q[m].low : m \in S} = {r[m].low : m \in S}
    BY <1>1
  <2>3. q[Min(S)] = r[Min(S)] /\ q[Max(S)] = r[Max(S)]
    BY <1>1, <2>1
  <2>4. (\A m \in S : q[m].complete) = (\A m \in S : r[m].complete)
    BY <1>1
  <2> QED
    BY <1>4, <2>2, <2>3, <2>4 DEF Build
<1>5. Build(q, S) = Build(r, S)
  BY <1>3, <1>4
<1> QED
  BY <1>1, <1>5 DEF S

\* What is said of a bucket.
Follows(b) ==
  \/ \E m \in unreported : BucketStart(m) = b
  \/ agg[b] = Missing \/ agg[b] = Build(rows, Source(rows, b))

Aggregates == unreported \subseteq Minutes /\ \A b \in Buckets : Follows(b)

\* What a refresh leaves of a bucket.
LEMMA RefreshFacts ==
  ASSUME NEW r, NEW times, NEW b \in Buckets
  PROVE  Refresh(agg, r, times)[b] =
           IF b \in Touched(r, times) THEN Build(r, Source(r, b)) ELSE agg[b]
BY DEF Refresh

LEMMA TickFollows ==
  ASSUME StreamAssumption, RowsInv, RowsInv', Aggregates, NEW p \in Prices,
         NEW left, NEW t, Serve(p, left, t), Reported(left, t),
         UNCHANGED now
  PROVE  Aggregates'
<1> DEFINE times == {now} \cup t.written
           touched == Touched(t.rows, times)
           removed == {m \in Changed(left, t.rows) : t.rows[m] = Missing}
<1>1. /\ rows' = t.rows
      /\ agg' = Refresh(agg, t.rows, times)
      /\ unreported' = {m \in unreported \cup Changed(rows, left) \cup removed :
                          BucketStart(m) \notin touched}
  BY DEF Serve, RefreshTimes
<1> HIDE DEF touched, times
<1>2. unreported' \subseteq Minutes
  BY <1>1 DEF Aggregates, Changed
<1>3. ASSUME NEW b \in Buckets PROVE Follows(b)'
  <2>1. agg'[b] = IF b \in touched THEN Build(t.rows, Source(t.rows, b)) ELSE agg[b]
    BY <1>1, RefreshFacts DEF touched
  <2>2. CASE b \in touched
    BY <1>1, <2>1, <2>2 DEF Follows
  <2>3. CASE b \notin touched /\ \E m \in Minutes : BucketStart(m) = b /\ t.rows[m] # rows[m]
    <3>1. PICK m \in Minutes : BucketStart(m) = b /\ t.rows[m] # rows[m]
      BY <2>3
    <3>2. CASE left[m] # rows[m]
      <4>1. m \in unreported'
        BY <1>1, <2>3, <3>1, <3>2 DEF Changed
      <4> QED
        BY <3>1, <4>1 DEF Follows
    <3>3. CASE t.rows[m] # left[m] /\ t.rows[m] = Missing
      <4>1. m \in unreported'
        BY <1>1, <2>3, <3>1, <3>3 DEF Changed
      <4> QED
        BY <3>1, <4>1 DEF Follows
    <3>4. CASE t.rows[m] # left[m] /\ t.rows[m] # Missing
      <4>1. m \in times
        BY <3>4 DEF Reported, times
      <4>2. m \in Source(t.rows, b)
        BY <3>1, <3>4 DEF Source
      <4>3. b \in touched
        BY <3>1, <4>1, <4>2 DEF touched, Touched
      <4> QED
        BY <2>3, <4>3
    <3> QED
      BY <3>1, <3>2, <3>3, <3>4
  <2>4. CASE b \notin touched /\ \A m \in Minutes : BucketStart(m) = b => t.rows[m] = rows[m]
    <3>1. Build(rows', Source(rows', b)) = Build(rows, Source(rows, b))
      BY <1>1, <2>4, BuildSame DEF RowsInv, Typed
    <3>2. agg'[b] = agg[b]
      BY <2>1, <2>4
    <3>3. CASE \E m \in unreported : BucketStart(m) = b
      BY <1>1, <2>4, <3>3 DEF Follows
    <3>4. CASE ~ \E m \in unreported : BucketStart(m) = b
      <4>1. agg[b] = Missing \/ agg[b] = Build(rows, Source(rows, b))
        BY <3>4 DEF Aggregates, Follows
      <4> QED
        BY <3>1, <3>2, <4>1 DEF Follows
    <3> QED
      BY <3>3, <3>4
  <2> QED
    BY <2>2, <2>3, <2>4
<1> QED
  BY <1>2, <1>3 DEF Aggregates

LEMMA ImportFollows ==
  ASSUME StreamAssumption, RowsInv, RowsInv', OpenBuckets, Aggregates,
         NEW bars \in History(0, now), Import(bars)
  PROVE  OpenBuckets' /\ Aggregates'
<1> DEFINE times == {m \in DOMAIN bars : (BucketStart(m) + 1) * BucketSize < now}
           touched == Touched(rows', times)
<1>1. /\ managed /\ managed' = managed /\ now' = now /\ unreported' = unreported
      /\ rows' = Upsert(rows, bars)
      /\ agg' = Refresh(agg, rows', times)
  BY DEF Import, FinalizeClosed
<1>2. Provided(bars) /\ rows \in Table
  BY HistoryProvided DEF RowsInv, Typed
<1>3. /\ \A k \in DOMAIN bars : rows'[k] = bars[k] /\ bars[k] # Missing
      /\ \A k \in Minutes \ DOMAIN bars : rows'[k] = rows[k]
  BY <1>1, <1>2, Overlay, ProvidedRows
<1> HIDE DEF touched, times
<1>4. ASSUME NEW b \in Buckets
      PROVE  /\ agg'[b] # Missing => (b + 1) * BucketSize < now
             /\ Follows(b)'
  <2>1. agg'[b] = IF b \in touched THEN Build(rows', Source(rows', b)) ELSE agg[b]
    BY <1>1, RefreshFacts DEF touched
  <2>2. CASE b \in touched
    <3>1. (b + 1) * BucketSize < now
      BY <2>2 DEF touched, Touched, times
    <3> QED
      BY <2>1, <2>2, <3>1 DEF Follows
  <2>3. CASE b \notin touched /\ \E m \in Minutes : BucketStart(m) = b /\ rows'[m] # rows[m]
    <3>1. PICK m \in Minutes : BucketStart(m) = b /\ rows'[m] # rows[m]
      BY <2>3
    <3>2. m \in DOMAIN bars /\ m \in Source(rows', b)
      BY <1>3, <3>1 DEF Source
    <3>3. ~ ((b + 1) * BucketSize < now)
      BY <2>3, <3>1, <3>2 DEF touched, Touched, times
    <3>4. agg[b] = Missing
      BY <1>1, <3>3 DEF OpenBuckets
    <3> QED
      BY <2>1, <2>3, <3>4 DEF Follows
  <2>4. CASE b \notin touched /\ \A m \in Minutes : BucketStart(m) = b => rows'[m] = rows[m]
    <3>1. Build(rows', Source(rows', b)) = Build(rows, Source(rows, b))
      BY <2>4, BuildSame DEF RowsInv, Typed
    <3>2. agg'[b] = agg[b]
      BY <2>1, <2>4
    <3> QED
      BY <1>1, <3>1, <3>2 DEF Aggregates, Follows, OpenBuckets
  <2> QED
    BY <2>2, <2>3, <2>4
<1> QED
  BY <1>1, <1>4 DEF Aggregates, OpenBuckets

IInv == RowsInv /\ OpenBuckets /\ Aggregates

LEMMA InitInv ==
  ASSUME StreamAssumption
  PROVE  Init => IInv
<1> SUFFICES ASSUME Init PROVE IInv
  OBVIOUS
<1>1. agg = [b \in Buckets |-> Missing] /\ unreported = {}
  BY DEF Init
<1> QED
  BY <1>1, RowsInit DEF IInv, OpenBuckets, Aggregates, Follows

LEMMA NextInv ==
  ASSUME StreamAssumption
  PROVE  IInv /\ [Next]_vars => IInv'
<1> SUFFICES ASSUME IInv, [Next]_vars PROVE OpenBuckets' /\ Aggregates'
  BY RowsNext DEF IInv
<1> USE DEF IInv
<1>1. RowsInv' /\ now \in Nat /\ BucketSize \in Nat
  BY RowsNext, Constants DEF RowsInv, Typed, StreamAssumption
<1>2. ASSUME UNCHANGED <<managed, rows, agg, unreported>>, now' = now
      PROVE  OpenBuckets' /\ Aggregates'
  BY <1>2 DEF OpenBuckets, Aggregates, Follows
<1>3. CASE Advance
  <2>1. UNCHANGED <<managed, rows, agg, unreported>> /\ now' = now + 1
    BY <1>3 DEF Advance
  <2>2. ASSUME NEW b \in Buckets, (b + 1) * BucketSize < now PROVE (b + 1) * BucketSize < now'
    <3>1. b \in Nat
      BY DEF Buckets
    <3> DEFINE e == (b + 1) * BucketSize
    <3>2. e \in Nat
      BY <1>1, <3>1
    <3> HIDE DEF e
    <3>3. e < now => e < now'
      BY <1>1, <2>1, <3>2
    <3> QED
      BY <2>2, <3>3 DEF e
  <2> QED
    BY <2>1, <2>2 DEF OpenBuckets, Aggregates, Follows
<1>4. CASE Restart
  <2>1. rows' = rows /\ UNCHANGED <<managed, agg, unreported>> /\ now' = now
    BY <1>4, FlushedRows DEF Restart
  <2> QED
    BY <1>2, <2>1
<1>5. ASSUME NEW p \in Prices, NEW fails, Tick(p, fails) PROVE OpenBuckets' /\ Aggregates'
  <2>1. ~ managed /\ UNCHANGED <<now, managed>>
    BY <1>5 DEF Tick
  <2>2. CASE p = feed.price \/ ~ Authoritative
    BY <1>2, <1>5, <2>1, <2>2 DEF Tick
  <2>3. CASE ~ (p = feed.price \/ ~ Authoritative)
    <3>1. PICK out \in Outcomes(p, fails) : Serve(p, out.left, out.built)
      BY <1>5, <2>3 DEF Tick
    <3>2. Reported(out.left, out.built)
      BY <2>1, OutcomeBuilt
    <3> QED
      BY <1>1, <2>1, <3>1, <3>2, TickFollows DEF OpenBuckets
  <2> QED
    BY <2>2, <2>3
<1>6. ASSUME NEW bars \in History(0, now), Import(bars) PROVE OpenBuckets' /\ Aggregates'
  BY <1>1, <1>6, ImportFollows
<1>7. CASE RivalTicks
  BY <1>2, <1>7 DEF RivalTicks
<1>8. ASSUME NEW p \in Prices, BridgeTick(p) PROVE OpenBuckets' /\ Aggregates'
  BY <1>2, <1>8 DEF BridgeTick
<1>9. CASE UNCHANGED vars
  BY <1>2, <1>9 DEF vars
<1> QED
  BY <1>3, <1>4, <1>5, <1>6, <1>7, <1>8, <1>9 DEF Next

\* The invariant holds of every behaviour.
THEOREM Invariance ==
  ASSUME StreamAssumption
  PROVE  Spec => []IInv
<1>1. Init => IInv
  BY InitInv
<1>2. IInv /\ [Next]_vars => IInv'
  BY NextInv
<1> QED
  BY <1>1, <1>2, PTL DEF Spec

-----------------------------------------------------------------------------
(* The properties *)

LEMMA TypeHolds ==
  ASSUME StreamAssumption, IInv
  PROVE  TypeOK
BY DEF IInv, RowsInv, Typed, TypeOK, Table, Row, States

LEMMA HalvesHold ==
  ASSUME StreamAssumption, IInv
  PROVE  NoHalfCandles
BY DEF IInv, RowsInv, Halves, Covered, Early, NoHalfCandles

LEMMA GapsHold ==
  ASSUME StreamAssumption, IInv
  PROVE  ShortGapsOnly
BY DEF IInv, RowsInv, Fills, Between, ShortGapsOnly

LEMMA TicksHold ==
  ASSUME StreamAssumption, IInv
  PROVE  TicksCovered
BY DEF IInv, RowsInv, Covered, Covers, Holds, TicksCovered

LEMMA AggregatesHold ==
  ASSUME StreamAssumption, IInv
  PROVE  AggregatesFollow
BY DEF IInv, Aggregates, Follows, AggregatesFollow

\* runtime.py and feed.py: every variable has its type in every state.
THEOREM StreamTyped ==
  ASSUME StreamAssumption
  PROVE  Spec => []TypeOK
BY Invariance, TypeHolds, PTL

\* candle_builder.py and runtime.py:145: the rows of minutes that are over are
\* complete, but for those a stopped worker left behind, and no built tick differs
\* from a bar that a recovery read before its minute was over.
THEOREM RowsComplete ==
  ASSUME StreamAssumption
  PROVE  Spec => []NoHalfCandles
BY Invariance, HalvesHold, PTL

\* candle_builder.py:74: minutes are synthesized only between candles that are at
\* most ShortGap minutes apart, and never next to each other without one.
THEOREM GapsShort ==
  ASSUME StreamAssumption
  PROVE  Spec => []ShortGapsOnly
BY Invariance, GapsHold, PTL

\* runtime.py: no tick that was built is missing from the row of its minute.
THEOREM TicksKept ==
  ASSUME StreamAssumption
  PROVE  Spec => []TicksCovered
BY Invariance, TicksHold, PTL

\* aggregation.py: an aggregate row is the aggregate of the rows below it.
THEOREM AggregatesKept ==
  ASSUME StreamAssumption
  PROVE  Spec => []AggregatesFollow
BY Invariance, AggregatesHold, PTL
==============================================================================
