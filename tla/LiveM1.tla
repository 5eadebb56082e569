------------------------------- MODULE LiveM1 -------------------------------
(***************************************************************************)
(* LiveM1CommandScheduler (live_m1.py) for one provider: the request for   *)
(* the last two completed minutes, one symbol at a time, taken in turn.    *)
(***************************************************************************)
EXTENDS Naturals

CONSTANTS
  Symbols,     \* bound: number of configured symbols
  LiveIds,     \* ids of routine requests ("live-" and a uuid)
  NoLive       \* the absence of one

VARIABLES
  live,      \* _active[provider].request_id, or NoLive
  target,    \* _active[provider].provider_symbol
  fresh,     \* _active[provider].end is the last completed minute
  due,       \* symbols whose _last_completed_minute is not that minute
  cursor     \* _cursor[provider]

liveVars == <<live, target, fresh, due, cursor>>

Init ==
  /\ live = NoLive /\ target = 0 /\ fresh = FALSE
  /\ due = 1 .. Symbols /\ cursor = 0

\* The symbol at offset k from the cursor.
At(k) == 1 + ((cursor + k) % Symbols)

\* Mutant: the cursor stays where it is.
AlwaysFromTheStart(id) ==
  /\ live = NoLive
  /\ \E k \in 0 .. Symbols - 1 :
       /\ At(k) \in due /\ \A j \in 0 .. k - 1 : At(j) \notin due
       /\ target' = At(k)
  /\ live' = id /\ fresh' = TRUE
  /\ UNCHANGED <<due, cursor>>

\* Mutant: the cursor is moved one symbol too far.
CursorTooFar(id) ==
  /\ live = NoLive
  /\ \E k \in 0 .. Symbols - 1 :
       /\ At(k) \in due /\ \A j \in 0 .. k - 1 : At(j) \notin due
       /\ target' = At(k) /\ cursor' = At(k) + 1
  /\ live' = id /\ fresh' = TRUE
  /\ UNCHANGED due

\* next_command picks the first symbol from the cursor that is due.
IssueLive(id) ==
  /\ live = NoLive
  /\ \E k \in 0 .. Symbols - 1 :
       /\ At(k) \in due /\ \A j \in 0 .. k - 1 : At(j) \notin due
       /\ target' = At(k) /\ cursor' = At(k)
  /\ live' = id /\ fresh' = TRUE
  /\ UNCHANGED due

\* next_command while a request is active returns that request again.
Reissue(id) == live # NoLive /\ id = live /\ UNCHANGED liveVars

NothingDue == live = NoLive /\ due = {} /\ UNCHANGED liveVars

\* complete, for a request that was carried out.
Stored(id) ==
  /\ live # NoLive /\ id = live
  /\ due' = IF fresh THEN due \ {target} ELSE due
  /\ live' = NoLive /\ target' = 0 /\ fresh' = FALSE
  /\ UNCHANGED cursor

\* complete, for one that failed: it stays active.
Retry(id) == live # NoLive /\ id = live /\ UNCHANGED liveVars

\* A minute is completed.
Minute ==
  /\ due' = 1 .. Symbols /\ fresh' = FALSE
  /\ UNCHANGED <<live, target, cursor>>

\* The process stops.
Reset ==
  /\ live' = NoLive /\ target' = 0 /\ fresh' = FALSE
  /\ due' = 1 .. Symbols /\ cursor' = 0

LiveType ==
  /\ live \in LiveIds \cup {NoLive} /\ target \in 0 .. Symbols
  /\ fresh \in BOOLEAN /\ due \subseteq 1 .. Symbols /\ cursor \in 0 .. Symbols
=============================================================================
