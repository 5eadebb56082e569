-------------------------- MODULE HistoryRequests --------------------------
(***************************************************************************)
(* What the history coordinator promises the command plane of a provider,  *)
(* and may expect of it: at most one request is outstanding; it is handed  *)
(* out again only while it is; it is closed by an answer that was under    *)
(* way for it, or with the process; and the id of a closed request never   *)
(* becomes outstanding again while anything under way refers to it.        *)
(***************************************************************************)
CONSTANTS Ids, NoId

VARIABLES
  outstanding,   \* the id of the outstanding request, or NoId
  commands,      \* ids of the commands under way to be executed
  answers,       \* ids of the answers under way
  taken          \* ids of the answers the process is handling

hrVars == <<outstanding, commands, answers, taken>>

Init == outstanding = NoId /\ commands = {} /\ answers = {} /\ taken = {}

Issue(id) ==
  /\ outstanding = NoId /\ id \notin commands \cup answers \cup taken
  /\ outstanding' = id
  /\ commands' = commands \cup {id}
  /\ UNCHANGED <<answers, taken>>

Resend ==
  /\ outstanding # NoId
  /\ commands' = commands \cup {outstanding}
  /\ UNCHANGED <<outstanding, answers, taken>>

\* A command is executed and answered, an answer is taken; anything under way may
\* be lost, or arrive without effect.
Travel ==
  /\ commands' \subseteq commands
  /\ answers' \cup taken' \subseteq answers \cup taken \cup commands
  /\ UNCHANGED outstanding

Answer ==
  /\ outstanding \in answers \cup taken
  /\ outstanding' = NoId
  /\ answers' \cup taken' \subseteq answers \cup taken
  /\ UNCHANGED commands

\* The process stops, with it what it held and was handling.  Whoever sent what it
\* was handling may send it again; the answers under way are not touched.
Forget ==
  /\ outstanding' = NoId
  /\ commands' \subseteq commands
  /\ answers \subseteq answers' /\ answers' \subseteq answers \cup taken
  /\ taken' = {}

Next == (\E id \in Ids : Issue(id)) \/ Resend \/ Travel \/ Answer \/ Forget

Spec == Init /\ [][Next]_hrVars
=============================================================================
