--------------------------- MODULE TerminalClock ---------------------------
(***************************************************************************)
(* Mt5TerminalClockCoordinator (mt5_terminal_clock.py) for one terminal.   *)
(*                                                                         *)
(* A CopyRates command is held back until the terminal has told its clock  *)
(* in answer to a TIME command; it is then translated by the offset        *)
(* measured, and the offset is kept under the command's request id to      *)
(* translate the returned bars back.  A handshake older than the timeout   *)
(* is begun again under a new clock id, the command stays.                 *)
(*                                                                         *)
(* An offset is the difference between the reading of the terminal and the *)
(* moment the server handles it, rounded to minutes: it is "true" when the *)
(* reading is younger than the timeout, "skewed" when it may be older.     *)
(***************************************************************************)
CONSTANTS
  Ids, NoId,         \* request ids of commands, and the absence of one
  ClockIds, NoClock  \* ids of TIME commands, and the absence of one

VARIABLES
  held,      \* request id of _pending[key].command, or NoId
  clock,     \* _pending[key].clock_request_id
  overdue,   \* now - _pending[key].created_utc > timeout
  measured,  \* _pending[key].terminal_offset
  offsets    \* the keys of _request_offsets

clockVars == <<held, clock, overdue, measured, offsets>>

Init ==
  /\ held = NoId /\ clock = NoClock
  /\ overdue = FALSE /\ measured = "none"
  /\ offsets = {}

Handshake(id, c) ==
  /\ held' = id /\ clock' = c
  /\ overdue' = FALSE /\ measured' = "none"
  /\ UNCHANGED offsets

\* Mutant: the offset of the handshake that timed out is kept.
KeepsOffset(c) ==
  /\ held # NoId /\ overdue
  /\ clock' = c /\ overdue' = FALSE
  /\ UNCHANGED <<held, measured, offsets>>

\* prepare with an overdue handshake; c is fresh.
Renew(c) == held # NoId /\ overdue /\ Handshake(held, c)

\* prepare with nothing pending and the command of request id; c is fresh.
Hold(id, c) == held = NoId /\ id # NoId /\ Handshake(id, c)

\* prepare while the terminal has not told its clock.
Repeat == held # NoId /\ ~ overdue /\ measured = "none" /\ UNCHANGED clockVars

\* Mutant: the offset is kept under the wrong id.
ReleaseUnderClock(id) ==
  /\ id \in Ids /\ held = id /\ ~ overdue /\ measured # "none"
  /\ offsets' = offsets \cup {clock}
  /\ held' = NoId /\ clock' = NoClock /\ measured' = "none"
  /\ UNCHANGED overdue

\* prepare with a finished handshake: the command of request id is returned.
Release(id) ==
  /\ id \in Ids /\ held = id /\ ~ overdue /\ measured # "none"
  /\ offsets' = offsets \cup {id}
  /\ held' = NoId /\ clock' = NoClock /\ measured' = "none"
  /\ UNCHANGED overdue

\* prepare with nothing pending and no command.
Pass(id) == held = NoId /\ id = NoId /\ UNCHANGED clockVars

\* Mutant: the clock id of the report is not compared.
AcceptsAnyReport(c) ==
  /\ held # NoId
  /\ measured' = IF c = clock /\ ~ overdue THEN "true" ELSE "skewed"
  /\ UNCHANGED <<held, clock, overdue, offsets>>

\* record_terminal_time handles a reading taken for clock id c.
RecordTime(c) ==
  /\ held # NoId /\ c = clock
  /\ measured' = IF c = clock /\ ~ overdue THEN "true" ELSE "skewed"
  /\ UNCHANGED <<held, clock, overdue, offsets>>

RejectTime(c) == ~ (held # NoId /\ c = clock) /\ UNCHANGED clockVars

\* normalize_returned_timestamp translates with the offset of the request; an
\* unknown request has offset zero.
Translates(id) == id \in offsets

\* Mutant: the offset of a finished request is kept.
ForgetsNothing(id) == UNCHANGED clockVars

\* complete
Complete(id) == offsets' = offsets \ {id} /\ UNCHANGED <<held, clock, overdue, measured>>

\* The timeout passes.
Expire ==
  /\ held # NoId /\ ~ overdue /\ overdue' = TRUE
  /\ UNCHANGED <<held, clock, measured, offsets>>

\* The process stops.
Reset ==
  /\ held' = NoId /\ clock' = NoClock
  /\ overdue' = FALSE /\ measured' = "none"
  /\ offsets' = {}

Next ==
  \/ \E c \in ClockIds : Renew(c) \/ \E id \in Ids : Hold(id, c)
  \/ Repeat \/ Expire \/ Reset
  \/ \E id \in Ids : Release(id) \/ Complete(id)
  \/ \E id \in Ids \cup {NoId} : Pass(id)
  \/ \E c \in ClockIds : RecordTime(c) \/ RejectTime(c)

Spec == Init /\ [][Next]_clockVars

ClockType ==
  /\ held \in Ids \cup {NoId} /\ clock \in ClockIds \cup {NoClock}
  /\ overdue \in BOOLEAN /\ measured \in {"none", "true", "skewed"}
  /\ offsets \subseteq Ids

\* Rounding to minutes removes the latency of the report only while that is
\* short: no offset that prepare would use was measured from a reading older
\* than the timeout.  record_terminal_time itself does not look at the age.
OffsetInTime == held # NoId /\ ~ overdue => measured # "skewed"
=============================================================================
