------------------------- MODULE FullHistoryProofs -------------------------
(***************************************************************************)
(* The safety properties of FullHistory, proved for any number of          *)
(* instruments, ranges, request ids, reports under way and journal faults. *)
(*                                                                         *)
(* None of them is inductive alone: that a late report cannot reach the    *)
(* wrong range rests on what the outstanding command was formatted from,   *)
(* which rests on nobody touching an item that waits for an answer, which  *)
(* rests on the order in which instruments are worked through.  IInv ties  *)
(* these together.                                                         *)
(***************************************************************************)
EXTENDS FullHistory, TLAPS

\* What an item waits for agrees with where it stands.
Stages ==
  \A i \in Items :
    /\ request[i] # NoId => phase[i] \in {"discovery", "download"}
    /\ status[i] = "verifying" => phase[i] = "verifying"
    /\ phase[i] = "discovery" => discovered[i] < Timeframes

\* A command or report that carries the outstanding request id was made for
\* the place the item is in now.
CommandsFit ==
  \A c \in wire, i \in Items : c.id = request[i] => c = Command(request[i], i)

ReportsFit ==
  \A p \in posts, i \in Items : p.id = request[i] =>
    /\ p.to = Command(request[i], i).to
    /\ p.report \in DiscoverReports => phase[i] = "discovery"
    /\ BadSymbols = {} /\ phase[i] = "discovery" => p.report \in DiscoverReports

\* The passes of a job, and which of them the hierarchy repair follows.
PassBound ==
  /\ workflow = "recent_m1" => pass <= 3
  /\ workflow = "startup_m1" => pass = 0
  /\ repairer = "hierarchy" => ~ RefreshesRecent

\* The ranges before the position in the plan are settled.
Progress ==
  BadSymbols = {} =>
    \A i \in 1 .. size :
      /\ phase[i] = "discovery" => next[i] = 0
      /\ phase[i] # "discovery" => 1 .. next[i] \subseteq settled[i]
      /\ phase[i] \in {"verifying", "completed"} => 1 .. planned[i] \subseteq settled[i]

IInv ==
  /\ TypeOK
  /\ OneInFlight
  /\ InOrder
  /\ ThreadsOwnTheJob
  /\ WaitHasThreadUnlessFault
  /\ PassesDone
  /\ Stages
  /\ CommandsFit
  /\ ReportsFit
  /\ PassBound
  /\ Progress

\* The facts about types that every step below needs.
Basics ==
  /\ Items = 1 .. MaxItems
  /\ MaxItems \in Nat \ {0} /\ MaxRanges \in Nat \ {0} /\ MaxFaults \in Nat
  /\ NoId \notin Ids
  /\ size \in 0 .. MaxItems /\ active \in 1 .. size + 1
  /\ \A i \in 1 .. size : i \in Items
  /\ \A i \in Items : i # 0
  /\ \A c \in wire : c.id \in Ids /\ c.id # NoId
  /\ \A p \in posts : p.id \in Ids /\ p.id # NoId

\* TypeOK gives the facts above.
LEMMA Facts == TypeOK => Basics
BY ConstantsAssumption DEF Basics, TypeOK, JobType, NetType, Items, Commands, Posts

\* _format_request yields a command of the declared type.
LEMMA CommandType ==
  ASSUME TypeOK, NEW i \in Items, NEW id \in Ids
  PROVE  Command(id, i) \in Commands
<1>1. Range(i) \in 0 .. MaxRanges + 1 /\ 0 \in 0 .. MaxRanges + 1
  <2>1. next[i] \in 0 .. MaxRanges /\ MaxRanges \in Nat
    BY Facts DEF Basics, TypeOK, ItemType
  <2> QED
    BY <2>1 DEF Range
<1>2. [item |-> i, range |-> Range(i)] \in Targets /\ [item |-> i, range |-> 0] \in Targets
  BY <1>1 DEF Targets
<1> QED
  BY <1>2 DEF Command, Commands

\* What travels stays fitting as long as nothing new is sent and the items
\* that wait for an answer stay where they are.
LEMMA FitStays ==
  ASSUME TypeOK, CommandsFit, ReportsFit,
         wire' \subseteq wire, posts' \subseteq posts,
         \A i \in Items : request'[i] # NoId =>
            request'[i] = request[i] /\ phase'[i] = phase[i] /\ next'[i] = next[i]
  PROVE  CommandsFit' /\ ReportsFit'
<1>1. \A i \in Items : request'[i] # NoId => Command(request[i], i) = Command(request[i], i)'
  BY DEF Command, Range
<1>2. CommandsFit'
  BY <1>1, Facts DEF Basics, CommandsFit, Command, Range
<1>3. ReportsFit'
  BY <1>1, Facts DEF Basics, ReportsFit, Command, Range
<1> QED
  BY <1>2, <1>3

\* The order of the instruments stays as long as only the active one changes.
LEMMA InOrderStays ==
  ASSUME Basics, InOrder, UNCHANGED <<jobStatus, active, size>>,
         \A k \in Items \ {active} :
           status'[k] = status[k] /\ next'[k] = next[k] /\ settled'[k] = settled[k]
  PROVE  InOrder'
<1>1. \A k \in 1 .. active - 1 : k \in Items \ {active}
  BY DEF Basics
<1>2. \A k \in active + 1 .. size : k \in Items \ {active}
  BY DEF Basics
<1>3. jobStatus = "running" => \A k \in 1 .. active - 1 : status'[k] = "completed"
  BY <1>1 DEF InOrder
<1>4. jobStatus = "running" =>
        \A k \in active + 1 .. size : status'[k] = "queued" /\ next'[k] = 0 /\ settled'[k] = {}
  BY <1>2 DEF InOrder
<1> QED
  BY <1>3, <1>4 DEF InOrder

\* What a report that is not ignored finds.
LEMMA ActiveFacts ==
  ASSUME IInv, NEW p \in posts, NEW i \in Items, Current(p, i)
  PROVE  /\ jobStatus = "running" /\ i = active /\ i <= size
         /\ request[i] = p.id /\ request[i] # NoId
         /\ phase[i] \in {"discovery", "download"} /\ status[i] \in {"probing", "importing"}
         /\ verifier = 0 /\ repairer = "none"
         /\ p.to = Command(request[i], i).to
         /\ p.report \in DiscoverReports => phase[i] = "discovery"
         /\ BadSymbols = {} /\ phase[i] = "discovery" => p.report \in DiscoverReports
<1>1. Basics /\ TypeOK
  BY Facts DEF IInv
<1>2. /\ jobStatus = "running" /\ i = active /\ i <= size
      /\ request[i] = p.id /\ request[i] # NoId
  BY <1>1 DEF Current, Basics
<1> QED
  BY <1>1, <1>2 DEF IInv, OneInFlight, Stages, ThreadsOwnTheJob, ReportsFit

\* A fresh job satisfies the invariant, whatever travels from the old one.
LEMMA NewJobInv ==
  ASSUME IInv, NEW st \in {"none", "running"}, NEW n \in 0 .. MaxItems, NEW wf \in Workflows,
         NEW ph \in {"discovery", "download"}, NEW len \in 0 .. MaxRanges,
         UNCHANGED <<net, faults>>, verifier' = 0, repairer' = "none",
         NewJob(st, n, wf, ph, len)
  PROVE  IInv'
<1>0. Basics
  BY Facts DEF IInv
<1> USE <1>0 DEF IInv, Basics, NewJob, job, work, net, threads
<1>1. TypeOK'
  <2>1. JobType'
    <3>1. size' \in 0 .. MaxItems /\ active' \in 1 .. size' + 1 /\ pass' \in 0 .. 4
      OBVIOUS
    <3>2. verifier' \in 0 .. MaxItems /\ faults' \in 0 .. MaxFaults
      BY DEF TypeOK, JobType
    <3>3. found' \in BOOLEAN /\ leased' \in BOOLEAN
      BY DEF TypeOK, JobType
    <3> QED
      BY <3>1, <3>2, <3>3 DEF JobType
  <2>2. ItemType'
    BY DEF TypeOK, ItemType, Timeframes
  <2>3. NetType'
    BY DEF TypeOK, NetType
  <2> QED
    BY <2>1, <2>2, <2>3 DEF TypeOK
<1>2. OneInFlight'
  BY DEF OneInFlight, TypeOK, JobType, ItemType
<1>3. InOrder'
  BY DEF InOrder, OneInFlight, TypeOK, JobType, ItemType
<1>4. ThreadsOwnTheJob'
  BY DEF ThreadsOwnTheJob, TypeOK, JobType, ItemType
<1>5. WaitHasThreadUnlessFault'
  BY DEF WaitHasThreadUnlessFault, WaitHasThread, ThreadsOwnTheJob, TypeOK, JobType, ItemType
<1>6. PassesDone'
  BY DEF PassesDone, PassBound, TypeOK, JobType
<1>7. Stages'
  BY DEF Stages, TypeOK, Timeframes
<1>8. CommandsFit'
  BY FitStays
<1>9. ReportsFit'
  BY FitStays
<1>10. PassBound'
  BY DEF PassBound, RefreshesRecent, TypeOK, JobType
<1>11. Progress'
  BY DEF Progress, TypeOK, JobType, ItemType
<1> QED
  BY <1>1, <1>2, <1>3, <1>4, <1>5, <1>6, <1>7, <1>8, <1>9, <1>10, <1>11 DEF IInv

\* FullHistoryBackfillManager.start.
LEMMA StartInv ==
  ASSUME IInv, Start
  PROVE  IInv'
<1>1. verifier = 0 /\ repairer = "none"
  BY DEF IInv, ThreadsOwnTheJob, Start, Busy
<1>2. "full" \in Workflows /\ 0 \in 0 .. MaxRanges
  BY ConstantsAssumption DEF Workflows
<1>3. PICK n \in 0 .. MaxItems : NewJob("running", n, "full", "discovery", 0)
  BY DEF Start
<1> QED
  BY <1>1, <1>2, <1>3, NewJobInv DEF Start, threads

\* FullHistoryBackfillManager.start_targeted.
LEMMA StartTargetedInv ==
  ASSUME IInv, StartTargeted
  PROVE  IInv'
<1>1. verifier = 0 /\ repairer = "none"
  BY DEF IInv, ThreadsOwnTheJob, StartTargeted, Busy
<1>2. 1 \in 0 .. MaxRanges /\ Items \subseteq 0 .. MaxItems
  BY ConstantsAssumption DEF Items
<1>3. PICK n \in Items, wf \in {"recent_m1", "startup_m1"} : NewJob("running", n, wf, "download", 1)
  BY DEF StartTargeted
<1>4. wf \in Workflows
  BY DEF Workflows
<1> QED
  BY <1>1, <1>2, <1>3, <1>4, NewJobInv DEF StartTargeted, threads

\* The process stops and starts again.
LEMMA RestartInv ==
  ASSUME IInv, Restart
  PROVE  IInv'
<1>1. "full" \in Workflows /\ 0 \in 0 .. MaxRanges /\ 0 \in 0 .. MaxItems
  BY ConstantsAssumption DEF Workflows
<1> QED
  BY <1>1, NewJobInv DEF Restart

\* Time passes the lease of the outstanding request.
LEMMA LeaseExpiresInv ==
  ASSUME IInv, LeaseExpires
  PROVE  IInv'
<1>0. Basics
  BY Facts DEF IInv
<1> USE <1>0 DEF IInv, Basics, LeaseExpires, job, work, net, threads
<1>1. TypeOK'
  <2>1. JobType'
    BY DEF TypeOK, JobType
  <2>2. ItemType'
    BY DEF TypeOK, ItemType
  <2>3. NetType'
    BY DEF TypeOK, NetType
  <2> QED
    BY <2>1, <2>2, <2>3 DEF TypeOK
<1>2. OneInFlight'
  BY DEF OneInFlight, TypeOK, JobType, ItemType
<1>3. InOrder'
  BY DEF InOrder, OneInFlight, TypeOK, JobType, ItemType
<1>4. ThreadsOwnTheJob'
  BY DEF ThreadsOwnTheJob, TypeOK, JobType, ItemType
<1>5. WaitHasThreadUnlessFault'
  BY DEF WaitHasThreadUnlessFault, WaitHasThread, ThreadsOwnTheJob, TypeOK, JobType, ItemType
<1>6. PassesDone'
  BY DEF PassesDone, PassBound, TypeOK, JobType
<1>7. Stages'
  BY DEF Stages, TypeOK, ItemType
<1>8. CommandsFit'
  BY FitStays
<1>9. ReportsFit'
  BY FitStays
<1>10. PassBound'
  BY DEF PassBound, RefreshesRecent, TypeOK, JobType
<1>11. Progress'
  BY DEF Progress, TypeOK, JobType, ItemType
<1> QED
  BY <1>1, <1>2, <1>3, <1>4, <1>5, <1>6, <1>7, <1>8, <1>9, <1>10, <1>11 DEF IInv

\* A command or a report is lost.
LEMMA LoseInv ==
  ASSUME IInv, Lose
  PROVE  IInv'
<1>0. Basics
  BY Facts DEF IInv
<1> USE <1>0 DEF IInv, Basics, Lose, job, work, net, threads
<1>1. TypeOK'
  <2>1. JobType'
    BY DEF TypeOK, JobType
  <2>2. ItemType'
    BY DEF TypeOK, ItemType
  <2>3. NetType'
    BY DEF TypeOK, NetType
  <2> QED
    BY <2>1, <2>2, <2>3 DEF TypeOK
<1>2. OneInFlight'
  BY DEF OneInFlight, TypeOK, JobType, ItemType
<1>3. InOrder'
  BY DEF InOrder, OneInFlight, TypeOK, JobType, ItemType
<1>4. ThreadsOwnTheJob'
  BY DEF ThreadsOwnTheJob, TypeOK, JobType, ItemType
<1>5. WaitHasThreadUnlessFault'
  BY DEF WaitHasThreadUnlessFault, WaitHasThread, ThreadsOwnTheJob, TypeOK, JobType, ItemType
<1>6. PassesDone'
  BY DEF PassesDone, PassBound, TypeOK, JobType
<1>7. Stages'
  BY DEF Stages, TypeOK, ItemType
<1>8. CommandsFit'
  BY FitStays
<1>9. ReportsFit'
  BY FitStays
<1>10. PassBound'
  BY DEF PassBound, RefreshesRecent, TypeOK, JobType
<1>11. Progress'
  BY DEF Progress, TypeOK, JobType, ItemType
<1> QED
  BY <1>1, <1>2, <1>3, <1>4, <1>5, <1>6, <1>7, <1>8, <1>9, <1>10, <1>11 DEF IInv

\* The repair thread dies of a journal fault.
LEMMA RepairDiesInv ==
  ASSUME IInv, RepairDies
  PROVE  IInv'
<1>0. Basics
  BY Facts DEF IInv
<1> USE <1>0 DEF IInv, Basics, RepairDies, JournalFails, job, work, net, threads
<1>1. TypeOK'
  <2>1. JobType'
    BY DEF TypeOK, JobType
  <2>2. ItemType'
    BY DEF TypeOK, ItemType
  <2>3. NetType'
    BY DEF TypeOK, NetType
  <2> QED
    BY <2>1, <2>2, <2>3 DEF TypeOK
<1>2. OneInFlight'
  BY DEF OneInFlight, TypeOK, JobType, ItemType
<1>3. InOrder'
  BY DEF InOrder, OneInFlight, TypeOK, JobType, ItemType
<1>4. ThreadsOwnTheJob'
  BY DEF ThreadsOwnTheJob, TypeOK, JobType, ItemType
<1>5. WaitHasThreadUnlessFault'
  BY DEF WaitHasThreadUnlessFault, WaitHasThread, ThreadsOwnTheJob, TypeOK, JobType, ItemType
<1>6. PassesDone'
  BY DEF PassesDone, PassBound, TypeOK, JobType
<1>7. Stages'
  BY DEF Stages, TypeOK, ItemType
<1>8. CommandsFit'
  BY FitStays
<1>9. ReportsFit'
  BY FitStays
<1>10. PassBound'
  BY DEF PassBound, RefreshesRecent, TypeOK, JobType
<1>11. Progress'
  BY DEF Progress, TypeOK, JobType, ItemType
<1> QED
  BY <1>1, <1>2, <1>3, <1>4, <1>5, <1>6, <1>7, <1>8, <1>9, <1>10, <1>11 DEF IInv

\* complete_repair; PassesDone asks for the last pass.
LEMMA CompleteRepairInv ==
  ASSUME IInv, NEW result \in {"completed", "failed"}, jobStatus = "repairing",
         result = "completed" /\ size > 0 => \/ workflow = "full" /\ pass = 4
                                             \/ workflow = "recent_m1" /\ pass = 3
                                             \/ workflow = "startup_m1",
         CompleteRepair(result)
  PROVE  IInv'
<1>0. Basics
  BY Facts DEF IInv
<1> USE <1>0 DEF IInv, Basics, CompleteRepair, job, work, net, threads
<1>1. TypeOK'
  <2>1. JobType'
    BY DEF TypeOK, JobType
  <2>2. ItemType'
    BY DEF TypeOK, ItemType
  <2>3. NetType'
    BY DEF TypeOK, NetType
  <2> QED
    BY <2>1, <2>2, <2>3 DEF TypeOK
<1>2. OneInFlight'
  BY DEF OneInFlight, TypeOK, JobType, ItemType
<1>3. InOrder'
  BY DEF InOrder, OneInFlight, TypeOK, JobType, ItemType
<1>4. ThreadsOwnTheJob'
  BY DEF ThreadsOwnTheJob, TypeOK, JobType, ItemType
<1>5. WaitHasThreadUnlessFault'
  BY DEF WaitHasThreadUnlessFault, WaitHasThread, ThreadsOwnTheJob, TypeOK, JobType, ItemType
<1>6. PassesDone'
  BY DEF PassesDone, PassBound, TypeOK, JobType
<1>7. Stages'
  BY DEF Stages, TypeOK, ItemType
<1>8. CommandsFit'
  BY FitStays
<1>9. ReportsFit'
  BY FitStays
<1>10. PassBound'
  BY DEF PassBound, RefreshesRecent, TypeOK, JobType
<1>11. Progress'
  BY DEF Progress, TypeOK, JobType, ItemType
<1> QED
  BY <1>1, <1>2, <1>3, <1>4, <1>5, <1>6, <1>7, <1>8, <1>9, <1>10, <1>11 DEF IInv

\* resume_targeted_after_repair starts every instrument over.
LEMMA ResumeInv ==
  ASSUME IInv, jobStatus = "repairing", repairer # "none", pass < 4,
         workflow # "startup_m1", workflow = "recent_m1" => pass < 3,
         Resume
  PROVE  IInv'
<1>0. Basics
  BY Facts DEF IInv
<1> USE <1>0 DEF IInv, Basics, Resume, job, work, net, threads
<1>1. TypeOK'
  <2>1. JobType'
    BY DEF TypeOK, JobType
  <2>2. ItemType'
    BY DEF TypeOK, ItemType
  <2>3. NetType'
    BY DEF TypeOK, NetType
  <2> QED
    BY <2>1, <2>2, <2>3 DEF TypeOK
<1>2. OneInFlight'
  BY DEF OneInFlight, TypeOK, JobType, ItemType
<1>3. InOrder'
  BY DEF InOrder, OneInFlight, TypeOK, JobType, ItemType
<1>4. ThreadsOwnTheJob'
  BY DEF ThreadsOwnTheJob, TypeOK, JobType, ItemType
<1>5. WaitHasThreadUnlessFault'
  BY DEF WaitHasThreadUnlessFault, WaitHasThread, ThreadsOwnTheJob, TypeOK, JobType, ItemType
<1>6. PassesDone'
  BY DEF PassesDone, PassBound, TypeOK, JobType
<1>7. Stages'
  BY DEF Stages, OneInFlight, TypeOK, ItemType, JobType
<1>8. CommandsFit'
  BY FitStays
<1>9. ReportsFit'
  BY FitStays
<1>10. PassBound'
  BY DEF PassBound, RefreshesRecent, TypeOK, JobType
<1>11. Progress'
  BY DEF Progress, TypeOK, JobType, ItemType
<1> QED
  BY <1>1, <1>2, <1>3, <1>4, <1>5, <1>6, <1>7, <1>8, <1>9, <1>10, <1>11 DEF IInv

\* repair_full_history decides between refresh, completion and hierarchy repair.
LEMMA RepairBranchInv ==
  ASSUME IInv, RepairBranch
  PROVE  IInv'
<1>0. Basics /\ jobStatus = "repairing" /\ repairer = "entered" /\ workflow \in Workflows
      /\ pass \in 0 .. 4
  BY Facts DEF IInv, RepairBranch, TypeOK, JobType
<1>1. CASE RefreshesRecent /\ size > 0 /\ pass < LastPass
  <2>1. pass < 4 /\ workflow # "startup_m1" /\ (workflow = "recent_m1" => pass < 3) /\ Resume
    BY <1>0, <1>1 DEF IInv, PassBound, RefreshesRecent, LastPass, RepairBranch
  <2> QED
    BY <1>0, <2>1, ResumeInv
<1>2. CASE RefreshesRecent /\ ~ (size > 0 /\ pass < LastPass)
  <2>1. CompleteRepair("completed")
    BY <1>2 DEF RepairBranch
  <2>2. size > 0 => \/ workflow = "full" /\ pass = 4
                    \/ workflow = "recent_m1" /\ pass = 3
                    \/ workflow = "startup_m1"
    BY <1>0, <1>2 DEF IInv, PassBound, LastPass, Workflows
  <2> QED
    BY <1>0, <2>1, <2>2, CompleteRepairInv
<1>3. CASE ~ RefreshesRecent
  <2> USE <1>0, <1>3 DEF RepairBranch, IInv, Basics, job, work, net, threads
  <2>1. TypeOK'
    <3>1. JobType'
      BY DEF TypeOK, JobType
    <3>2. ItemType'
      BY DEF TypeOK, ItemType
    <3>3. NetType'
      BY DEF TypeOK, NetType
    <3> QED
      BY <3>1, <3>2, <3>3 DEF TypeOK
  <2>2. OneInFlight'
    BY DEF OneInFlight, TypeOK, JobType, ItemType
  <2>3. InOrder'
    BY DEF InOrder, OneInFlight, TypeOK, JobType, ItemType
  <2>4. ThreadsOwnTheJob'
    BY DEF ThreadsOwnTheJob, TypeOK, JobType, ItemType
  <2>5. WaitHasThreadUnlessFault'
    BY DEF WaitHasThreadUnlessFault, WaitHasThread, ThreadsOwnTheJob, TypeOK, JobType, ItemType
  <2>6. PassesDone'
    BY DEF PassesDone, PassBound, TypeOK, JobType
  <2>7. Stages'
    BY DEF Stages, TypeOK, ItemType
  <2>8. CommandsFit'
    BY FitStays
  <2>9. ReportsFit'
    BY FitStays
  <2>10. PassBound'
    BY DEF PassBound, RefreshesRecent, TypeOK, JobType
  <2>11. Progress'
    BY DEF Progress, TypeOK, JobType, ItemType
  <2> QED
    BY <2>1, <2>2, <2>3, <2>4, <2>5, <2>6, <2>7, <2>8, <2>9, <2>10, <2>11 DEF IInv
<1> QED
  BY <1>1, <1>2, <1>3

\* The hierarchy repair returned or raised.
LEMMA RepairReturnsInv ==
  ASSUME IInv, RepairReturns
  PROVE  IInv'
<1>0. /\ Basics /\ jobStatus = "repairing" /\ repairer = "hierarchy" /\ workflow \in Workflows
      /\ pass = 0 /\ workflow # "recent_m1"
  BY Facts DEF IInv, RepairReturns, TypeOK, JobType, PassBound, RefreshesRecent
<1>1. CASE CompleteRepair("failed")
  BY <1>0, <1>1, CompleteRepairInv
<1>2. CASE workflow = "full" /\ size > 0 /\ Resume
  BY <1>0, <1>2, ResumeInv
<1>3. CASE ~ (workflow = "full" /\ size > 0) /\ CompleteRepair("completed")
  BY <1>0, <1>3, CompleteRepairInv DEF Workflows
<1> QED
  BY <1>1, <1>2, <1>3 DEF RepairReturns

\* instrument_verified, called from the verification thread.
LEMMA VerifiedInv ==
  ASSUME IInv, Verified
  PROVE  IInv'
<1>0. Basics
  BY Facts DEF IInv
<1> USE <1>0 DEF IInv, Basics, JournalFails, job, work, net, threads
<1>a. /\ verifier \in Items /\ jobStatus = "running" /\ verifier = active /\ verifier <= size
      /\ status[verifier] = "verifying" /\ request[verifier] = NoId
      /\ phase[verifier] = "verifying"
  BY DEF Verified, TypeOK, JobType, ThreadsOwnTheJob, OneInFlight, Stages
<1>b. /\ UNCHANGED <<job, request, retry, discovered, found, planned, next, anyBars, leased,
                     repairer, net, settled>>
      /\ verifier' = 0
  BY DEF Verified
<1>c. CASE /\ status' = [status EXCEPT ![active] = "completed"]
           /\ phase' = [phase EXCEPT ![active] = "completed"]
           /\ UNCHANGED faults
  <2>1. TypeOK'
    <3>1. JobType'
      BY <1>a, <1>b, <1>c DEF TypeOK, JobType
    <3>2. ItemType'
      BY <1>a, <1>b, <1>c DEF TypeOK, ItemType
    <3>3. NetType'
      BY <1>a, <1>b, <1>c DEF TypeOK, NetType
    <3> QED
      BY <3>1, <3>2, <3>3 DEF TypeOK
  <2>2. OneInFlight'
    BY <1>a, <1>b, <1>c DEF OneInFlight, TypeOK, JobType, ItemType
  <2>3. InOrder'
    <3>1. \A k \in Items \ {active} :
            status'[k] = status[k] /\ next'[k] = next[k] /\ settled'[k] = settled[k]
      BY <1>b, <1>c DEF TypeOK, ItemType
    <3> QED
      BY <1>b, <3>1, InOrderStays
  <2>4. ThreadsOwnTheJob'
    BY <1>a, <1>b, <1>c DEF ThreadsOwnTheJob, TypeOK, JobType, ItemType
  <2>5. WaitHasThreadUnlessFault'
    BY <1>a, <1>b, <1>c DEF WaitHasThreadUnlessFault, WaitHasThread, ThreadsOwnTheJob, TypeOK,
       JobType, ItemType
  <2>6. PassesDone'
    BY <1>a, <1>b, <1>c DEF PassesDone, PassBound, TypeOK, JobType
  <2>7. Stages'
    BY <1>a, <1>b, <1>c DEF Stages, TypeOK, ItemType
  <2>8. CommandsFit'
    BY <1>a, <1>b, <1>c, FitStays
  <2>9. ReportsFit'
    BY <1>a, <1>b, <1>c, FitStays
  <2>10. PassBound'
    BY <1>a, <1>b, <1>c DEF PassBound, RefreshesRecent, TypeOK, JobType
  <2>11. Progress'
    BY <1>a, <1>b, <1>c DEF Progress, TypeOK, JobType, ItemType
  <2> QED
    BY <2>1, <2>2, <2>3, <2>4, <2>5, <2>6, <2>7, <2>8, <2>9, <2>10, <2>11 DEF IInv
<1>d. CASE JournalFails /\ UNCHANGED <<status, phase>>
  <2>1. TypeOK'
    <3>1. JobType'
      BY <1>a, <1>b, <1>d DEF TypeOK, JobType
    <3>2. ItemType'
      BY <1>a, <1>b, <1>d DEF TypeOK, ItemType
    <3>3. NetType'
      BY <1>a, <1>b, <1>d DEF TypeOK, NetType
    <3> QED
      BY <3>1, <3>2, <3>3 DEF TypeOK
  <2>2. OneInFlight'
    BY <1>a, <1>b, <1>d DEF OneInFlight, TypeOK, JobType, ItemType
  <2>3. InOrder'
    BY <1>a, <1>b, <1>d DEF InOrder, OneInFlight, TypeOK, JobType, ItemType
  <2>4. ThreadsOwnTheJob'
    BY <1>a, <1>b, <1>d DEF ThreadsOwnTheJob, TypeOK, JobType, ItemType
  <2>5. WaitHasThreadUnlessFault'
    BY <1>a, <1>b, <1>d DEF WaitHasThreadUnlessFault, WaitHasThread, ThreadsOwnTheJob, TypeOK,
       JobType, ItemType
  <2>6. PassesDone'
    BY <1>a, <1>b, <1>d DEF PassesDone, PassBound, TypeOK, JobType
  <2>7. Stages'
    BY <1>a, <1>b, <1>d DEF Stages, TypeOK, ItemType
  <2>8. CommandsFit'
    BY <1>a, <1>b, <1>d, FitStays
  <2>9. ReportsFit'
    BY <1>a, <1>b, <1>d, FitStays
  <2>10. PassBound'
    BY <1>a, <1>b, <1>d DEF PassBound, RefreshesRecent, TypeOK, JobType
  <2>11. Progress'
    BY <1>a, <1>b, <1>d DEF Progress, TypeOK, JobType, ItemType
  <2> QED
    BY <2>1, <2>2, <2>3, <2>4, <2>5, <2>6, <2>7, <2>8, <2>9, <2>10, <2>11 DEF IInv
<1> QED
  BY <1>a, <1>c, <1>d DEF Verified

\* The bridge executes a command; its report inherits the command's target.
LEMMA ExecuteInv ==
  ASSUME IInv, NEW id \in Ids, Execute(id)
  PROVE  IInv'
<1>0. Basics
  BY Facts DEF IInv
<1> USE <1>0 DEF IInv, Basics, job, work, net, threads
<1>e. PICK c \in wire : \E r \in Answers(c) :
        /\ c.id = id
        /\ wire' = wire \ {c}
        /\ posts' = posts \cup {[id |-> id, report |-> r, to |-> c.to]}
  BY DEF Execute
<1>a. PICK r \in Answers(c) :
        /\ c.id = id
        /\ wire' = wire \ {c}
        /\ posts' = posts \cup {[id |-> id, report |-> r, to |-> c.to]}
  BY <1>e
<1>b. UNCHANGED <<job, status, request, retry, work, leased, threads, settled, faults>>
  BY DEF Execute
<1>c. /\ c \in Commands /\ c.to \in Targets /\ c.kind \in {"DISCOVER", "BACKFILL"}
      /\ r \in BatchReports \cup DiscoverReports
      /\ c.kind = "BACKFILL" => r \notin DiscoverReports
      /\ BadSymbols = {} /\ c.kind = "DISCOVER" => r \in DiscoverReports
  BY ConstantsAssumption DEF TypeOK, NetType, Commands, Answers, BatchReports, DiscoverReports
<1>1. TypeOK'
  <2>1. JobType'
    BY <1>a, <1>b, <1>c DEF TypeOK, JobType
  <2>2. ItemType'
    BY <1>a, <1>b, <1>c DEF TypeOK, ItemType
  <2>3. NetType'
    BY <1>a, <1>b, <1>c DEF TypeOK, NetType, Posts
  <2> QED
    BY <2>1, <2>2, <2>3 DEF TypeOK
<1>2. OneInFlight'
  BY <1>a, <1>b, <1>c DEF OneInFlight, TypeOK, JobType, ItemType
<1>3. InOrder'
  BY <1>a, <1>b, <1>c DEF InOrder, OneInFlight, TypeOK, JobType, ItemType
<1>4. ThreadsOwnTheJob'
  BY <1>a, <1>b, <1>c DEF ThreadsOwnTheJob, TypeOK, JobType, ItemType
<1>5. WaitHasThreadUnlessFault'
  BY <1>a, <1>b, <1>c DEF WaitHasThreadUnlessFault, WaitHasThread, ThreadsOwnTheJob, TypeOK,
     JobType, ItemType
<1>6. PassesDone'
  BY <1>a, <1>b, <1>c DEF PassesDone, PassBound, TypeOK, JobType
<1>7. Stages'
  BY <1>a, <1>b, <1>c DEF Stages, TypeOK, ItemType
<1>8. CommandsFit'
  BY <1>a, <1>b, <1>c DEF CommandsFit, Command, Range
<1>9. ReportsFit'
  BY <1>a, <1>b, <1>c DEF ReportsFit, CommandsFit, Command, Range
<1>10. PassBound'
  BY <1>a, <1>b, <1>c DEF PassBound, RefreshesRecent, TypeOK, JobType
<1>11. Progress'
  BY <1>a, <1>b, <1>c DEF Progress, TypeOK, JobType, ItemType
<1> QED
  BY <1>1, <1>2, <1>3, <1>4, <1>5, <1>6, <1>7, <1>8, <1>9, <1>10, <1>11 DEF IInv

\* A report that answers no outstanding request changes nothing else.
LEMMA IgnoreInv ==
  ASSUME IInv, NEW p \in posts, Ignore(p)
  PROVE  IInv'
<1>0. Basics
  BY Facts DEF IInv
<1> USE <1>0 DEF IInv, Basics, Ignore, job, work, net, threads
<1>1. TypeOK'
  <2>1. JobType'
    BY DEF TypeOK, JobType
  <2>2. ItemType'
    BY DEF TypeOK, ItemType
  <2>3. NetType'
    BY DEF TypeOK, NetType
  <2> QED
    BY <2>1, <2>2, <2>3 DEF TypeOK
<1>2. OneInFlight'
  BY DEF OneInFlight, TypeOK, JobType, ItemType
<1>3. InOrder'
  BY DEF InOrder, OneInFlight, TypeOK, JobType, ItemType
<1>4. ThreadsOwnTheJob'
  BY DEF ThreadsOwnTheJob, TypeOK, JobType, ItemType
<1>5. WaitHasThreadUnlessFault'
  BY DEF WaitHasThreadUnlessFault, WaitHasThread, ThreadsOwnTheJob, TypeOK, JobType, ItemType
<1>6. PassesDone'
  BY DEF PassesDone, PassBound, TypeOK, JobType
<1>7. Stages'
  BY DEF Stages, TypeOK, ItemType
<1>8. CommandsFit'
  BY FitStays
<1>9. ReportsFit'
  BY FitStays
<1>10. PassBound'
  BY DEF PassBound, RefreshesRecent, TypeOK, JobType
<1>11. Progress'
  BY DEF Progress, TypeOK, JobType, ItemType
<1> QED
  BY <1>1, <1>2, <1>3, <1>4, <1>5, <1>6, <1>7, <1>8, <1>9, <1>10, <1>11 DEF IInv

\* _advance_download settles the range the answered request was made for.
LEMMA AdvanceInv ==
  ASSUME IInv, NEW p \in posts, NEW i \in Items, Current(p, i), p.report \notin DiscoverReports,
         posts' = posts \ {p}, AdvanceDownload(i),
         retry' \in [Items -> Nat], anyBars' \in [Items -> BOOLEAN],
         UNCHANGED <<job, phase, discovered, found, planned, leased, threads, wire, faults>>
  PROVE  IInv'
<1>a. /\ jobStatus = "running" /\ i = active /\ i <= size /\ request[i] # NoId
      /\ phase[i] \in {"discovery", "download"} /\ status[i] \in {"probing", "importing"}
      /\ verifier = 0 /\ repairer = "none"
      /\ BadSymbols = {} => phase[i] = "download"
  BY ActiveFacts
<1>0. Basics
  BY Facts DEF IInv
<1> USE <1>0 DEF IInv, Basics, AdvanceDownload, ClearRequest, Range, job, work, net, threads
<1>b. /\ Saturate(next[i] + 1) \in 0 .. MaxRanges /\ Saturate(next[i] + 1) <= next[i] + 1
      /\ next[i] + 1 \in 1 .. MaxRanges + 1
  <2>1. next[i] \in 0 .. MaxRanges
    BY DEF TypeOK, ItemType
  <2> QED
    BY <2>1 DEF Saturate
<1>c. \A k \in Items : request'[k] = NoId
  BY <1>a DEF OneInFlight, TypeOK, ItemType
<1>d. /\ \A k \in Items \ {i} :
           status'[k] = status[k] /\ next'[k] = next[k] /\ settled'[k] = settled[k]
      /\ next'[i] = Saturate(next[i] + 1) /\ settled'[i] = settled[i] \cup {next[i] + 1}
  BY DEF TypeOK, ItemType
<1>1. TypeOK'
  <2>1. JobType'
    BY <1>a, <1>b DEF TypeOK, JobType
  <2>2. ItemType'
    BY <1>a, <1>b DEF TypeOK, ItemType
  <2>3. NetType'
    BY <1>a, <1>b DEF TypeOK, NetType
  <2> QED
    BY <2>1, <2>2, <2>3 DEF TypeOK
<1>2. OneInFlight'
  BY <1>a, <1>b DEF OneInFlight, TypeOK, JobType, ItemType
<1>3. InOrder'
  <2>1. \A k \in Items \ {active} :
          status'[k] = status[k] /\ next'[k] = next[k] /\ settled'[k] = settled[k]
    BY <1>a, <1>d
  <2> QED
    BY <2>1, InOrderStays
<1>4. ThreadsOwnTheJob'
  BY <1>a, <1>b DEF ThreadsOwnTheJob, TypeOK, JobType, ItemType
<1>5. WaitHasThreadUnlessFault'
  BY <1>a, <1>b DEF WaitHasThreadUnlessFault, WaitHasThread, ThreadsOwnTheJob, TypeOK,
     JobType, ItemType
<1>6. PassesDone'
  BY <1>a, <1>b DEF PassesDone, PassBound, TypeOK, JobType
<1>7. Stages'
  BY <1>a, <1>b DEF Stages, TypeOK, ItemType
<1>8. CommandsFit'
  BY <1>a, <1>b, <1>c, FitStays
<1>9. ReportsFit'
  BY <1>a, <1>b, <1>c, FitStays
<1>10. PassBound'
  BY <1>a, <1>b DEF PassBound, RefreshesRecent, TypeOK, JobType
<1>11. Progress'
  <2> SUFFICES ASSUME BadSymbols = {}, NEW k \in 1 .. size
               PROVE  /\ phase[k] = "discovery" => next'[k] = 0
                      /\ phase[k] # "discovery" => 1 .. next'[k] \subseteq settled'[k]
                      /\ phase[k] \in {"verifying", "completed"}
                            => 1 .. planned[k] \subseteq settled'[k]
    BY DEF Progress
  <2>1. CASE k = i
    <3>1. phase[i] = "download" /\ i \in 1 .. size
      BY <1>a
    <3>2. 1 .. next[i] \subseteq settled[i]
      BY <3>1 DEF Progress
    <3>3. next[i] \in 0 .. MaxRanges
      BY DEF TypeOK, ItemType
    <3>4. ASSUME NEW x \in 1 .. next'[i]
          PROVE  x \in 1 .. next[i] \/ x = next[i] + 1
      BY <1>b, <1>d, <3>3
    <3>5. 1 .. next'[i] \subseteq settled'[i]
      BY <1>d, <3>2, <3>4
    <3>6. phase[i] # "discovery" /\ phase[i] \notin {"verifying", "completed"}
      BY <3>1
    <3> QED
      BY <2>1, <3>5, <3>6
  <2>2. CASE k # i
    BY <2>2, <1>d DEF Progress
  <2> QED
    BY <2>1, <2>2
<1> QED
  BY <1>1, <1>2, <1>3, <1>4, <1>5, <1>6, <1>7, <1>8, <1>9, <1>10, <1>11 DEF IInv

\* A failed attempt below the limit keeps the position in the plan.
LEMMA AttemptInv ==
  ASSUME IInv, NEW p \in posts, NEW i \in Items, Current(p, i), posts' = posts \ {p},
         request' = request \/ ClearRequest(i),
         retry' \in [Items -> Nat], anyBars' \in [Items -> BOOLEAN], 
         faults' = faults \/ JournalFails,
         UNCHANGED <<job, status, next, settled, phase, discovered, found, planned, leased,
                     threads, wire>>
  PROVE  IInv'
<1>a. /\ jobStatus = "running" /\ i = active /\ i <= size /\ request[i] # NoId
      /\ verifier = 0 /\ repairer = "none"
  BY ActiveFacts
<1>0. Basics
  BY Facts DEF IInv
<1> USE <1>0 DEF IInv, Basics, ClearRequest, JournalFails, job, work, net, threads
<1>b. \A k \in Items : k # i => request'[k] = NoId
  BY <1>a DEF OneInFlight, TypeOK, ItemType
<1>c. request'[i] \in {NoId, request[i]}
  BY DEF TypeOK, ItemType
<1>1. TypeOK'
  <2>1. JobType'
    BY <1>a DEF TypeOK, JobType
  <2>2. ItemType'
    BY <1>a DEF TypeOK, ItemType
  <2>3. NetType'
    BY <1>a DEF TypeOK, NetType
  <2> QED
    BY <2>1, <2>2, <2>3 DEF TypeOK
<1>2. OneInFlight'
  BY <1>a DEF OneInFlight, TypeOK, JobType, ItemType
<1>3. InOrder'
  BY <1>a DEF InOrder, OneInFlight, TypeOK, JobType, ItemType
<1>4. ThreadsOwnTheJob'
  BY <1>a DEF ThreadsOwnTheJob, TypeOK, JobType, ItemType
<1>5. WaitHasThreadUnlessFault'
  BY <1>a DEF WaitHasThreadUnlessFault, WaitHasThread, ThreadsOwnTheJob, TypeOK, JobType,
     ItemType
<1>6. PassesDone'
  BY <1>a DEF PassesDone, PassBound, TypeOK, JobType
<1>7. Stages'
  BY <1>a DEF Stages, TypeOK, ItemType
<1>8. CommandsFit'
  BY <1>a, <1>b, <1>c, FitStays
<1>9. ReportsFit'
  BY <1>a, <1>b, <1>c, FitStays
<1>10. PassBound'
  BY <1>a DEF PassBound, RefreshesRecent, TypeOK, JobType
<1>11. Progress'
  BY <1>a DEF Progress, TypeOK, JobType, ItemType
<1> QED
  BY <1>1, <1>2, <1>3, <1>4, <1>5, <1>6, <1>7, <1>8, <1>9, <1>10, <1>11 DEF IInv

\* batch_result, unavailable.
LEMMA BatchUnavailableInv ==
  ASSUME IInv, NEW p \in posts, NEW i \in Items, BatchUnavailable(p, i)
  PROVE  IInv'
<1>1. retry \in [Items -> Nat] /\ anyBars \in [Items -> BOOLEAN]
  BY DEF IInv, TypeOK, ItemType
<1>2. p.report \notin DiscoverReports /\ Current(p, i)
  BY DEF BatchUnavailable, DiscoverReports
<1>3. CASE AdvanceDownload(i) /\ UNCHANGED faults
  BY <1>1, <1>2, <1>3, AdvanceInv DEF BatchUnavailable
<1>4. CASE JournalFails /\ UNCHANGED <<request, next, status, settled>>
  BY <1>1, <1>2, <1>4, AttemptInv DEF BatchUnavailable
<1> QED
  BY <1>3, <1>4 DEF BatchUnavailable, RecordThenAdvance

\* batch_result, failed.
LEMMA BatchFailedInv ==
  ASSUME IInv, NEW p \in posts, NEW i \in Items, BatchFailed(p, i)
  PROVE  IInv'
<1>1. /\ retry' \in [Items -> Nat] /\ anyBars' \in [Items -> BOOLEAN]
  BY DEF IInv, TypeOK, ItemType, BatchFailed
<1>2. p.report \notin DiscoverReports /\ Current(p, i)
  BY DEF BatchFailed, DiscoverReports
<1>3. CASE AdvanceDownload(i) /\ UNCHANGED faults
  BY <1>1, <1>2, <1>3, AdvanceInv DEF BatchFailed
<1>4. CASE /\ ClearRequest(i) /\ UNCHANGED <<next, status, settled>>
           /\ UNCHANGED faults \/ JournalFails
  BY <1>1, <1>2, <1>4, AttemptInv DEF BatchFailed
<1> QED
  BY <1>3, <1>4 DEF BatchFailed

\* batch_result, completed.
LEMMA BatchCompletedInv ==
  ASSUME IInv, NEW p \in posts, NEW i \in Items, BatchCompleted(p, i)
  PROVE  IInv'
<1>1. /\ retry' \in [Items -> Nat] /\ anyBars' \in [Items -> BOOLEAN]
  BY DEF IInv, TypeOK, ItemType, BatchCompleted
<1>2. p.report \notin DiscoverReports /\ Current(p, i)
  BY DEF BatchCompleted, DiscoverReports
<1>3. CASE AdvanceDownload(i) /\ UNCHANGED faults
  BY <1>1, <1>2, <1>3, AdvanceInv DEF BatchCompleted
<1>4. CASE JournalFails /\ UNCHANGED <<request, next, status, settled>>
  BY <1>1, <1>2, <1>4, AttemptInv DEF BatchCompleted
<1> QED
  BY <1>3, <1>4 DEF BatchCompleted, RecordThenAdvance

\* availability_result: the next timeframe, or the plan of the instrument.
LEMMA AvailabilityResultInv ==
  ASSUME IInv, NEW p \in posts, NEW i \in Items, AvailabilityResult(p, i)
  PROVE  IInv'
<1>a. /\ jobStatus = "running" /\ i = active /\ i <= size /\ request[i] # NoId
      /\ phase[i] = "discovery" /\ status[i] \in {"probing", "importing"}
      /\ verifier = 0 /\ repairer = "none"
  BY ActiveFacts DEF AvailabilityResult
<1>0. Basics
  BY Facts DEF IInv
<1> USE <1>0 DEF IInv, Basics, ClearRequest, job, work, net, threads
<1>b. /\ posts' = posts \ {p} /\ request' = [request EXCEPT ![i] = NoId]
      /\ discovered' = [discovered EXCEPT ![i] = @ + 1]
      /\ status' = [status EXCEPT ![i] = "queued"]
      /\ UNCHANGED <<job, retry, next, anyBars, leased, threads, wire, faults>>
  BY DEF AvailabilityResult, HandleDiscovery, PlanLengths
<1>c. discovered[i] \in 0 .. 2
  BY <1>a DEF Stages, TypeOK, ItemType, Timeframes
<1>d. CASE /\ discovered[i] + 1 < Timeframes
           /\ found' = (found \/ p.report = "history")
           /\ UNCHANGED <<phase, planned, settled>>
  <2>1. TypeOK'
    <3>1. JobType'
      BY <1>a, <1>b, <1>c, <1>d DEF TypeOK, JobType
    <3>2. ItemType'
      <4>1. discovered' \in [Items -> 0 .. Timeframes]
        <5>1. discovered[i] + 1 \in 0 .. Timeframes
          BY <1>c DEF Timeframes
        <5>2. discovered \in [Items -> 0 .. Timeframes]
          BY DEF TypeOK, ItemType
        <5> HIDE DEF IInv, Basics
        <5> QED
          BY <1>b, <5>1, <5>2
      <4>2. /\ status' \in [Items -> {"queued", "probing", "importing", "verifying", "completed"}]
            /\ request' \in [Items -> Ids \cup {NoId}]
        BY <1>b DEF TypeOK, ItemType
      <4> QED
        BY <1>b, <1>d, <4>1, <4>2 DEF TypeOK, ItemType
    <3>3. NetType'
      BY <1>a, <1>b, <1>c, <1>d DEF TypeOK, NetType
    <3> QED
      BY <3>1, <3>2, <3>3 DEF TypeOK
  <2>2. OneInFlight'
    BY <1>a, <1>b, <1>c, <1>d DEF OneInFlight, TypeOK, JobType, ItemType
  <2>3. InOrder'
    <3>1. \A k \in Items \ {active} :
            status'[k] = status[k] /\ next'[k] = next[k] /\ settled'[k] = settled[k]
      BY <1>a, <1>b, <1>d DEF TypeOK, ItemType
    <3> QED
      BY <1>b, <3>1, InOrderStays
  <2>4. ThreadsOwnTheJob'
    BY <1>a, <1>b, <1>c, <1>d DEF ThreadsOwnTheJob, TypeOK, JobType, ItemType
  <2>5. WaitHasThreadUnlessFault'
    BY <1>a, <1>b, <1>c, <1>d DEF WaitHasThreadUnlessFault, WaitHasThread, ThreadsOwnTheJob,
       TypeOK, JobType, ItemType
  <2>6. PassesDone'
    BY <1>a, <1>b, <1>c, <1>d DEF PassesDone, PassBound, TypeOK, JobType
  <2>7. Stages'
    BY <1>a, <1>b, <1>c, <1>d DEF Stages, TypeOK, ItemType, Timeframes
  <2>8. CommandsFit'
    BY <1>a, <1>b, <1>c, <1>d, FitStays
  <2>9. ReportsFit'
    BY <1>a, <1>b, <1>c, <1>d, FitStays
  <2>10. PassBound'
    BY <1>a, <1>b, <1>c, <1>d DEF PassBound, RefreshesRecent, TypeOK, JobType
  <2>11. Progress'
    BY <1>a, <1>b, <1>c, <1>d DEF Progress, TypeOK, JobType, ItemType
  <2> QED
    BY <2>1, <2>2, <2>3, <2>4, <2>5, <2>6, <2>7, <2>8, <2>9, <2>10, <2>11 DEF IInv
<1>e. ASSUME phase' = [phase EXCEPT ![i] = "download"],
             NEW n \in 0 .. MaxRanges, planned' = [planned EXCEPT ![i] = n],
             found' = FALSE,
             settled' = [settled EXCEPT ![i] = {}]
      PROVE  IInv'
  <2>a. /\ \A k \in Items \ {i} : /\ status'[k] = status[k] /\ settled'[k] = settled[k]
                                   /\ phase'[k] = phase[k] /\ planned'[k] = planned[k]
        /\ phase'[i] = "download"
    BY <1>b, <1>e DEF TypeOK, ItemType
  <2>b. \A k \in Items : request'[k] = NoId
    BY <1>a, <1>b DEF OneInFlight, TypeOK, ItemType
  <2>1. TypeOK'
    <3>1. JobType'
      BY <1>a, <1>b, <1>c, <1>e DEF TypeOK, JobType
    <3>2. ItemType'
      <4>1. discovered' \in [Items -> 0 .. 3]
        <5>1. discovered \in [Items -> 0 .. 3]
          BY DEF TypeOK, ItemType, Timeframes
        <5> QED
          BY <1>b, <1>c, <5>1
      <4>2. /\ planned' \in [Items -> 0 .. MaxRanges]
            /\ settled' \in [Items -> SUBSET (1 .. MaxRanges + 1)]
        BY <1>e DEF TypeOK, ItemType
      <4> QED
        BY <1>b, <1>e, <4>1, <4>2 DEF TypeOK, ItemType, Timeframes
    <3>3. NetType'
      BY <1>a, <1>b, <1>c, <1>e DEF TypeOK, NetType
    <3> QED
      BY <3>1, <3>2, <3>3 DEF TypeOK
  <2>2. OneInFlight'
    BY <1>a, <1>b, <1>c, <1>e DEF OneInFlight, TypeOK, JobType, ItemType
  <2>3. InOrder'
    BY <1>a, <1>b, <1>c, <1>e, <2>a DEF InOrder
  <2>4. ThreadsOwnTheJob'
    BY <1>a, <1>b, <1>c, <1>e DEF ThreadsOwnTheJob, TypeOK, JobType, ItemType
  <2>5. WaitHasThreadUnlessFault'
    BY <1>a, <1>b, <1>c, <1>e DEF WaitHasThreadUnlessFault, WaitHasThread, ThreadsOwnTheJob,
       TypeOK, JobType, ItemType
  <2>6. PassesDone'
    BY <1>a, <1>b, <1>c, <1>e DEF PassesDone, PassBound, TypeOK, JobType
  <2>7. Stages'
    BY <1>a, <1>b, <1>c, <1>e DEF Stages, TypeOK, ItemType
  <2>8. CommandsFit'
    BY <1>a, <1>b, <1>c, <1>e, <2>b, FitStays
  <2>9. ReportsFit'
    BY <1>a, <1>b, <1>c, <1>e, <2>b, FitStays
  <2>10. PassBound'
    BY <1>a, <1>b, <1>c, <1>e DEF PassBound, RefreshesRecent, TypeOK, JobType
  <2>11. Progress'
    <3>1. settled'[i] = {} /\ phase[i] = "discovery" /\ next' = next /\ i \in 1 .. size
      BY <1>a, <1>b, <1>e DEF TypeOK, ItemType
    <3> SUFFICES ASSUME BadSymbols = {}, NEW k \in 1 .. size
                 PROVE  /\ phase'[k] = "discovery" => next[k] = 0
                        /\ phase'[k] # "discovery" => 1 .. next[k] \subseteq settled'[k]
                        /\ phase'[k] \in {"verifying", "completed"}
                              => 1 .. planned'[k] \subseteq settled'[k]
      BY <1>b, <3>1 DEF Progress
    <3>2. CASE k = i
      BY <3>1, <3>2, <2>a DEF Progress
    <3>3. CASE k # i
      BY <3>3, <2>a DEF Progress
    <3> QED
      BY <3>2, <3>3
  <2> QED
    BY <2>1, <2>2, <2>3, <2>4, <2>5, <2>6, <2>7, <2>8, <2>9, <2>10, <2>11 DEF IInv
<1>f. CASE discovered[i] + 1 < Timeframes
  BY <1>d, <1>f DEF AvailabilityResult, HandleDiscovery, PlanLengths
<1>g. CASE ~ (discovered[i] + 1 < Timeframes)
  BY <1>e, <1>g DEF AvailabilityResult, HandleDiscovery, PlanLengths
<1> QED
  BY <1>f, <1>g

\* Any report the server handles.
LEMMA DeliverInv ==
  ASSUME IInv, NEW id \in Ids, Deliver(id)
  PROVE  IInv'
<1>1. PICK p \in posts :
        \/ Ignore(p)
        \/ \E i \in Items : \/ AvailabilityResult(p, i)
                            \/ BatchUnavailable(p, i)
                            \/ BatchFailed(p, i)
                            \/ BatchCompleted(p, i)
  BY DEF Deliver
<1> QED
  BY <1>1, IgnoreInv, AvailabilityResultInv, BatchUnavailableInv, BatchFailedInv, BatchCompletedInv

\* What a poll finds at the instrument it has advanced to.
LEMMA PollFacts ==
  ASSUME IInv, jobStatus = "running", NEW i \in Items, AdvancesTo(status, i), i <= size
  PROVE  /\ i = active \/ (i = active + 1 /\ status[active] = "completed")
         /\ \A k \in 1 .. i - 1 : status[k] = "completed"
         /\ \A k \in i + 1 .. size : status[k] = "queued" /\ next[k] = 0 /\ settled[k] = {}
         /\ request[i] # NoId => i = active
         /\ repairer = "none"
         /\ verifier # 0 => verifier = i /\ phase[i] = "verifying" /\ request[i] = NoId
<1>1. Basics
  BY Facts DEF IInv
<1>2. /\ \A k \in active .. i - 1 : status[k] = "completed"
      /\ i >= active /\ active <= size /\ status[i] # "completed"
  BY <1>1 DEF AdvancesTo, Basics
<1>3. i > active => status[active] = "completed"
  BY <1>1, <1>2 DEF Basics
<1>4. i <= active + 1
  BY <1>1, <1>2 DEF IInv, InOrder, Basics
<1>5. \A k \in 1 .. i - 1 : status[k] = "completed"
  BY <1>1, <1>2 DEF IInv, InOrder, Basics
<1>6. \A k \in i + 1 .. size : status[k] = "queued" /\ next[k] = 0 /\ settled[k] = {}
  BY <1>1, <1>2 DEF IInv, InOrder, Basics
<1>7. request[i] # NoId => i = active
  BY <1>1, <1>2 DEF IInv, OneInFlight, Basics
<1>8. repairer = "none"
  BY DEF IInv, ThreadsOwnTheJob
<1>9. verifier # 0 => verifier = i /\ phase[i] = "verifying" /\ request[i] = NoId
  BY <1>1, <1>2, <1>3, <1>4 DEF IInv, ThreadsOwnTheJob, OneInFlight, Stages, Basics
<1> QED
  BY <1>1, <1>2, <1>3, <1>4, <1>5, <1>6, <1>7, <1>8, <1>9 DEF Basics

\* Dispatching the first request of item j, after items were completed.
LEMMA IssueInv ==
  ASSUME IInv, jobStatus = "running", verifier = 0, repairer = "none",
         NEW st \in [Items -> {"queued", "probing", "importing", "verifying", "completed"}],
         \A k \in Items : st[k] # status[k] => st[k] = "completed",
         phase' \in [Items -> {"discovery", "download", "verifying", "completed"}],
         \A k \in Items : phase'[k] # phase[k] =>
           /\ phase'[k] = "completed" /\ st[k] = "completed" /\ request[k] = NoId
           /\ phase[k] = "download" /\ next[k] >= planned[k],
         \A k \in Items : request[k] = NoId,
         NEW j \in Items, j <= size, HasWork(j), phase'[j] = phase[j],
         \A k \in 1 .. j - 1 : st[k] = "completed",
         \A k \in j + 1 .. size : st[k] = "queued" /\ next[k] = 0 /\ settled[k] = {},
         Issue(st, j),
         UNCHANGED <<jobStatus, workflow, size, pass, retry, discovered, found, planned, next,
                     anyBars, threads, posts, settled, faults>>
  PROVE  IInv'
<1>0. Basics
  BY Facts DEF IInv
<1> USE <1>0 DEF IInv, Basics, job, work, net, threads
<1>a. PICK id \in Ids \ InUse :
        /\ request' = [request EXCEPT ![j] = id]
        /\ status' = [st EXCEPT ![j] = IF phase[j] = "discovery" THEN "probing" ELSE "importing"]
        /\ wire' = wire \cup {Command(id, j)}
        /\ leased' = TRUE
        /\ active' = j
  BY DEF Issue
<1>b. /\ id \in Ids /\ id # NoId
      /\ \A c \in wire : c.id # id
      /\ \A p \in posts : p.id # id
  BY DEF InUse
<1>c. Command(id, j) \in Commands
  BY CommandType
<1>d. /\ request'[j] = id
      /\ \A k \in Items \ {j} : request'[k] = NoId /\ status'[k] = st[k]
      /\ status'[j] \in {"probing", "importing"}
  BY <1>a DEF TypeOK, ItemType
<1>e. phase[j] \in {"discovery", "download"}
  BY DEF HasWork
<1>1. TypeOK'
  <2>1. JobType'
    BY <1>a, <1>b, <1>d, <1>e DEF TypeOK, JobType
  <2>2. ItemType'
    <3>1. status' \in [Items -> {"queued", "probing", "importing", "verifying", "completed"}]
      BY <1>a
    <3>2. request' \in [Items -> Ids \cup {NoId}]
      BY <1>a, <1>b DEF TypeOK, ItemType
    <3> QED
      BY <3>1, <3>2 DEF TypeOK, ItemType
  <2>3. NetType'
    BY <1>a, <1>b, <1>d, <1>e, <1>c DEF TypeOK, NetType
  <2> QED
    BY <2>1, <2>2, <2>3 DEF TypeOK
<1>2. OneInFlight'
  BY <1>a, <1>b, <1>d, <1>e DEF OneInFlight, TypeOK, JobType, ItemType
<1>3. InOrder'
  <2>1. /\ \A k \in 1 .. j - 1 : k \in Items \ {j}
        /\ \A k \in j + 1 .. size : k \in Items \ {j}
    BY DEF Basics
  <2>2. \A k \in 1 .. j - 1 : status'[k] = "completed"
    BY <1>d, <2>1
  <2>3. \A k \in j + 1 .. size : status'[k] = "queued" /\ next'[k] = 0 /\ settled'[k] = {}
    BY <1>d, <2>1
  <2> QED
    BY <1>a, <2>2, <2>3 DEF InOrder
<1>4. ThreadsOwnTheJob'
  BY <1>a, <1>b, <1>d, <1>e DEF ThreadsOwnTheJob, TypeOK, JobType, ItemType
<1>5. WaitHasThreadUnlessFault'
  <2>1. jobStatus' = "running" /\ UNCHANGED <<size, faults>>
    OBVIOUS
  <2>2. ASSUME NEW k \in 1 .. size PROVE status'[k] # "verifying"
    <3>1. k \in Items /\ (k = j \/ k \in 1 .. j - 1 \/ k \in j + 1 .. size)
      BY DEF Basics
    <3>2. k # j => status'[k] \in {"completed", "queued"}
      BY <1>d, <3>1
    <3> QED
      BY <1>d, <3>2
  <2> QED
    BY <2>1, <2>2 DEF WaitHasThreadUnlessFault, WaitHasThread
<1>6. PassesDone'
  BY <1>a, <1>b, <1>d, <1>e DEF PassesDone, PassBound, TypeOK, JobType
<1>7. Stages'
  <2> SUFFICES ASSUME NEW k \in Items
               PROVE  /\ request'[k] # NoId => phase'[k] \in {"discovery", "download"}
                      /\ status'[k] = "verifying" => phase'[k] = "verifying"
                      /\ phase'[k] = "discovery" => discovered[k] < Timeframes
    BY DEF Stages
  <2>1. CASE k = j
    BY <2>1, <1>d, <1>e DEF Stages
  <2>2. CASE k # j /\ phase'[k] = phase[k]
    BY <2>2, <1>d DEF Stages
  <2>3. CASE k # j /\ phase'[k] # phase[k]
    BY <2>3, <1>d
  <2> QED
    BY <2>1, <2>2, <2>3
<1>8. CommandsFit'
  <2>1. Command(id, j) = Command(id, j)'
    BY DEF Command, Range
  <2>2. (Command(id, j)').id = id /\ Command(id, j).id = id
    BY DEF Command
  <2>3. ASSUME NEW c \in wire', NEW k \in Items, c.id = request'[k]
        PROVE  c = Command(request[k], k)'
    <3>1. c = Command(id, j) /\ k = j
      BY <1>a, <1>b, <1>d, <2>2, <2>3
    <3> QED
      BY <1>d, <2>1, <3>1 DEF Command, Range
  <2> QED
    BY <2>3 DEF CommandsFit
<1>9. ReportsFit'
  BY <1>a, <1>b, <1>d, <1>e DEF ReportsFit
<1>10. PassBound'
  BY <1>a, <1>b, <1>d, <1>e DEF PassBound, RefreshesRecent, TypeOK, JobType
<1>11. Progress'
  <2> SUFFICES ASSUME BadSymbols = {}, NEW k \in 1 .. size
               PROVE  /\ phase'[k] = "discovery" => next[k] = 0
                      /\ phase'[k] # "discovery" => 1 .. next[k] \subseteq settled[k]
                      /\ phase'[k] \in {"verifying", "completed"}
                            => 1 .. planned[k] \subseteq settled[k]
    BY DEF Progress
  <2>1. CASE phase'[k] = phase[k]
    BY <2>1 DEF Progress
  <2>2. CASE phase'[k] # phase[k]
    <3>1. next[k] \in 0 .. MaxRanges /\ planned[k] \in 0 .. MaxRanges
      BY DEF TypeOK, ItemType
    <3>2. next[k] >= planned[k] /\ 1 .. next[k] \subseteq settled[k] /\ phase'[k] = "completed"
      BY <2>2 DEF Progress
    <3> QED
      BY <3>1, <3>2
  <2> QED
    BY <2>1, <2>2
<1> QED
  BY <1>1, <1>2, <1>3, <1>4, <1>5, <1>6, <1>7, <1>8, <1>9, <1>10, <1>11 DEF IInv

\* next_request issues a new request.
LEMMA PollIssueInv ==
  ASSUME IInv, PollIssue
  PROVE  IInv'
<1>1. Basics /\ jobStatus = "running"
  BY Facts DEF IInv, PollIssue
<1>2. PICK i \in Items :
        AdvancesTo(status, i) /\ i <= size /\ request[i] = NoId /\ HasWork(i) /\ Issue(status, i)
  BY DEF PollIssue
<1>3. UNCHANGED <<jobStatus, workflow, size, pass, retry, work, threads, posts, settled, faults>>
  BY DEF PollIssue
<1>4. /\ repairer = "none"
      /\ \A k \in 1 .. i - 1 : status[k] = "completed"
      /\ \A k \in i + 1 .. size : status[k] = "queued" /\ next[k] = 0 /\ settled[k] = {}
      /\ verifier # 0 => phase[i] = "verifying"
      /\ i = active \/ (i = active + 1 /\ status[active] = "completed")
  BY <1>1, <1>2, PollFacts
<1>5. verifier = 0
  BY <1>2, <1>4 DEF HasWork
<1>6. \A k \in Items : request[k] = NoId
  BY <1>1, <1>2, <1>4 DEF IInv, OneInFlight
<1>7. /\ status \in [Items -> {"queued", "probing", "importing", "verifying", "completed"}]
      /\ phase \in [Items -> {"discovery", "download", "verifying", "completed"}]
  BY DEF IInv, TypeOK, ItemType
<1> QED
  BY <1>1, <1>2, <1>3, <1>4, <1>5, <1>6, <1>7, IssueInv DEF work

\* next_request hands the outstanding request out again.
LEMMA PollRedeliverInv ==
  ASSUME IInv, PollRedeliver
  PROVE  IInv'
<1>0. Basics
  BY Facts DEF IInv
<1> USE <1>0 DEF IInv, Basics, job, work, net, threads
<1>a. jobStatus = "running"
  BY DEF PollRedeliver
<1>b. PICK i \in Items :
        /\ AdvancesTo(status, i) /\ i <= size /\ request[i] # NoId
        /\ wire' = wire \cup {Command(request[i], i)}
        /\ active' = i
  BY DEF PollRedeliver
<1>c. i = active
  BY <1>a, <1>b, PollFacts
<1>d. /\ leased' = TRUE /\ active' = active
      /\ UNCHANGED <<jobStatus, workflow, size, pass, status, request, retry, work, threads,
                     posts, settled, faults>>
  BY <1>b, <1>c DEF PollRedeliver
<1>e. request[i] \in Ids
  BY <1>b DEF TypeOK, ItemType
<1>f. Command(request[i], i) \in Commands
  BY <1>e, CommandType
<1>g. \A k \in Items : request[k] # NoId => k = i
  BY <1>c DEF OneInFlight
<1>1. TypeOK'
  <2>1. JobType'
    BY <1>a, <1>d DEF TypeOK, JobType
  <2>2. ItemType'
    BY <1>a, <1>d DEF TypeOK, ItemType
  <2>3. NetType'
    BY <1>a, <1>d, <1>b, <1>f DEF TypeOK, NetType
  <2> QED
    BY <2>1, <2>2, <2>3 DEF TypeOK
<1>2. OneInFlight'
  BY <1>a, <1>d DEF OneInFlight, TypeOK, JobType, ItemType
<1>3. InOrder'
  BY <1>a, <1>d DEF InOrder, OneInFlight, TypeOK, JobType, ItemType
<1>4. ThreadsOwnTheJob'
  BY <1>a, <1>d DEF ThreadsOwnTheJob, TypeOK, JobType, ItemType
<1>5. WaitHasThreadUnlessFault'
  BY <1>a, <1>d DEF WaitHasThreadUnlessFault, WaitHasThread, ThreadsOwnTheJob, TypeOK,
     JobType, ItemType
<1>6. PassesDone'
  BY <1>a, <1>d DEF PassesDone, PassBound, TypeOK, JobType
<1>7. Stages'
  BY <1>a, <1>d DEF Stages, TypeOK, ItemType
<1>8. CommandsFit'
  <2>1. \A k \in Items : Command(request[k], k) = Command(request[k], k)'
    BY <1>d DEF Command, Range
  <2>2. Command(request[i], i).id = request[i]
    BY DEF Command
  <2> QED
    BY <1>b, <1>d, <1>e, <1>g, <2>1, <2>2 DEF CommandsFit
<1>9. ReportsFit'
  BY <1>a, <1>d, <1>d DEF ReportsFit, Command, Range
<1>10. PassBound'
  BY <1>a, <1>d DEF PassBound, RefreshesRecent, TypeOK, JobType
<1>11. Progress'
  BY <1>a, <1>d DEF Progress, TypeOK, JobType, ItemType
<1> QED
  BY <1>1, <1>2, <1>3, <1>4, <1>5, <1>6, <1>7, <1>8, <1>9, <1>10, <1>11 DEF IInv

\* Turning to the repair after the last item, or losing that step.
LEMMA FinishInv ==
  ASSUME IInv, jobStatus = "running", verifier = 0, repairer = "none",
         NEW st \in [Items -> {"queued", "probing", "importing", "verifying", "completed"}],
         \A k \in Items : st[k] # status[k] => st[k] = "completed",
         phase' \in [Items -> {"discovery", "download", "verifying", "completed"}],
         \A k \in Items : phase'[k] # phase[k] =>
           /\ phase'[k] = "completed" /\ st[k] = "completed" /\ request[k] = NoId
           /\ phase[k] = "download" /\ next[k] >= planned[k],
         \A k \in Items : request[k] = NoId,
         \A k \in 1 .. size : st[k] = "completed",
         FinishDownloads(st),
         UNCHANGED <<workflow, size, pass, request, retry, discovered, found, planned, next,
                     anyBars, leased, verifier, net, settled>>
  PROVE  IInv'
<1>0. Basics
  BY Facts DEF IInv
<1> USE <1>0 DEF IInv, Basics, job, work, net, threads
<1>a. /\ active' = size + 1 /\ status' = st
      /\ \/ jobStatus' = "repairing" /\ repairer' = "entered" /\ UNCHANGED faults
         \/ /\ jobStatus' \in {"repairing", "running"} /\ repairer' = "none"
            /\ faults < MaxFaults /\ faults' = faults + 1
  BY DEF FinishDownloads, JournalFails
<1>1. TypeOK'
  <2>1. JobType'
    BY <1>a DEF TypeOK, JobType
  <2>2. ItemType'
    BY <1>a DEF TypeOK, ItemType
  <2>3. NetType'
    BY <1>a DEF TypeOK, NetType
  <2> QED
    BY <2>1, <2>2, <2>3 DEF TypeOK
<1>2. OneInFlight'
  BY <1>a DEF OneInFlight, TypeOK, JobType, ItemType
<1>3. InOrder'
  BY <1>a DEF InOrder, OneInFlight, TypeOK, JobType, ItemType
<1>4. ThreadsOwnTheJob'
  BY <1>a DEF ThreadsOwnTheJob, TypeOK, JobType, ItemType
<1>5. WaitHasThreadUnlessFault'
  BY <1>a DEF WaitHasThreadUnlessFault, WaitHasThread, ThreadsOwnTheJob, TypeOK, JobType,
     ItemType
<1>6. PassesDone'
  BY <1>a DEF PassesDone, PassBound, TypeOK, JobType
<1>7. Stages'
  <2> SUFFICES ASSUME NEW k \in Items
               PROVE  /\ request[k] # NoId => phase'[k] \in {"discovery", "download"}
                      /\ st[k] = "verifying" => phase'[k] = "verifying"
                      /\ phase'[k] = "discovery" => discovered[k] < Timeframes
    BY <1>a DEF Stages
  <2>1. CASE phase'[k] = phase[k]
    BY <2>1 DEF Stages
  <2>2. CASE phase'[k] # phase[k]
    BY <2>2
  <2> QED
    BY <2>1, <2>2
<1>8. CommandsFit'
  BY <1>a, FitStays
<1>9. ReportsFit'
  BY <1>a, FitStays
<1>10. PassBound'
  BY <1>a DEF PassBound, RefreshesRecent, TypeOK, JobType
<1>11. Progress'
  <2> SUFFICES ASSUME BadSymbols = {}, NEW k \in 1 .. size
               PROVE  /\ phase'[k] = "discovery" => next[k] = 0
                      /\ phase'[k] # "discovery" => 1 .. next[k] \subseteq settled[k]
                      /\ phase'[k] \in {"verifying", "completed"}
                            => 1 .. planned[k] \subseteq settled[k]
    BY DEF Progress
  <2>1. CASE phase'[k] = phase[k]
    BY <2>1 DEF Progress
  <2>2. CASE phase'[k] # phase[k]
    <3>1. next[k] \in 0 .. MaxRanges /\ planned[k] \in 0 .. MaxRanges
      BY DEF TypeOK, ItemType
    <3>2. next[k] >= planned[k] /\ 1 .. next[k] \subseteq settled[k] /\ phase'[k] = "completed"
      BY <2>2 DEF Progress
    <3> QED
      BY <3>1, <3>2
  <2> QED
    BY <2>1, <2>2
<1> QED
  BY <1>1, <1>2, <1>3, <1>4, <1>5, <1>6, <1>7, <1>8, <1>9, <1>10, <1>11 DEF IInv

\* Marking an item completed without looking for the next one.
LEMMA MarkInv ==
  ASSUME IInv, jobStatus = "running", verifier = 0, repairer = "none",
         NEW st \in [Items -> {"queued", "probing", "importing", "verifying", "completed"}],
         \A k \in Items : st[k] # status[k] => st[k] = "completed",
         phase' \in [Items -> {"discovery", "download", "verifying", "completed"}],
         \A k \in Items : phase'[k] # phase[k] =>
           /\ phase'[k] = "completed" /\ st[k] = "completed" /\ request[k] = NoId
           /\ phase[k] = "download" /\ next[k] >= planned[k],
         \A k \in Items : request[k] = NoId,
         NEW j \in Items, j <= size, st[j] = "completed",
         \A k \in 1 .. j - 1 : st[k] = "completed",
         \A k \in j + 1 .. size : st[k] = "queued" /\ next[k] = 0 /\ settled[k] = {},
         active' = j, status' = st, JournalFails,
         UNCHANGED <<jobStatus, workflow, size, pass, request, retry, discovered, found, planned,
                     next, anyBars, leased, threads, net, settled>>
  PROVE  IInv'
<1>0. Basics
  BY Facts DEF IInv
<1> USE <1>0 DEF IInv, Basics, JournalFails, job, work, net, threads
<1>a. status' = st
  OBVIOUS
<1>1. TypeOK'
  <2>1. JobType'
    BY DEF TypeOK, JobType
  <2>2. ItemType'
    BY DEF TypeOK, ItemType
  <2>3. NetType'
    BY DEF TypeOK, NetType
  <2> QED
    BY <2>1, <2>2, <2>3 DEF TypeOK
<1>2. OneInFlight'
  BY DEF OneInFlight, TypeOK, JobType, ItemType
<1>3. InOrder'
  BY DEF InOrder, OneInFlight, TypeOK, JobType, ItemType
<1>4. ThreadsOwnTheJob'
  BY DEF ThreadsOwnTheJob, TypeOK, JobType, ItemType
<1>5. WaitHasThreadUnlessFault'
  BY DEF WaitHasThreadUnlessFault, WaitHasThread, ThreadsOwnTheJob, TypeOK, JobType, ItemType
<1>6. PassesDone'
  BY DEF PassesDone, PassBound, TypeOK, JobType
<1>7. Stages'
  <2> SUFFICES ASSUME NEW k \in Items
               PROVE  /\ request[k] # NoId => phase'[k] \in {"discovery", "download"}
                      /\ st[k] = "verifying" => phase'[k] = "verifying"
                      /\ phase'[k] = "discovery" => discovered[k] < Timeframes
    BY <1>a DEF Stages
  <2>1. CASE phase'[k] = phase[k]
    BY <2>1 DEF Stages
  <2>2. CASE phase'[k] # phase[k]
    BY <2>2
  <2> QED
    BY <2>1, <2>2
<1>8. CommandsFit'
  BY FitStays
<1>9. ReportsFit'
  BY FitStays
<1>10. PassBound'
  BY DEF PassBound, RefreshesRecent, TypeOK, JobType
<1>11. Progress'
  <2> SUFFICES ASSUME BadSymbols = {}, NEW k \in 1 .. size
               PROVE  /\ phase'[k] = "discovery" => next[k] = 0
                      /\ phase'[k] # "discovery" => 1 .. next[k] \subseteq settled[k]
                      /\ phase'[k] \in {"verifying", "completed"}
                            => 1 .. planned[k] \subseteq settled[k]
    BY DEF Progress
  <2>1. CASE phase'[k] = phase[k]
    BY <2>1 DEF Progress
  <2>2. CASE phase'[k] # phase[k]
    <3>1. next[k] \in 0 .. MaxRanges /\ planned[k] \in 0 .. MaxRanges
      BY DEF TypeOK, ItemType
    <3>2. next[k] >= planned[k] /\ 1 .. next[k] \subseteq settled[k] /\ phase'[k] = "completed"
      BY <2>2 DEF Progress
    <3> QED
      BY <3>1, <3>2
  <2> QED
    BY <2>1, <2>2
<1> QED
  BY <1>1, <1>2, <1>3, <1>4, <1>5, <1>6, <1>7, <1>8, <1>9, <1>10, <1>11 DEF IInv

\* next_request ends the download phase.
LEMMA PollEndInv ==
  ASSUME IInv, PollEnd
  PROVE  IInv'
<1>1. Basics /\ jobStatus = "running" /\ repairer = "none"
  BY Facts DEF IInv, PollEnd, ThreadsOwnTheJob
<1>2. \A k \in 1 .. size : status[k] = "completed"
  BY <1>1 DEF PollEnd, AdvancesTo, IInv, InOrder, Basics
<1>3. verifier = 0 /\ \A k \in Items : request[k] = NoId
  BY <1>1, <1>2 DEF IInv, OneInFlight, ThreadsOwnTheJob, Basics
<1>4. /\ status \in [Items -> {"queued", "probing", "importing", "verifying", "completed"}]
      /\ phase \in [Items -> {"discovery", "download", "verifying", "completed"}]
  BY DEF IInv, TypeOK, ItemType
<1>5. /\ FinishDownloads(status)
      /\ UNCHANGED <<workflow, size, pass, request, retry, work, leased, verifier, net, settled>>
  BY DEF PollEnd
<1> QED
  BY <1>1, <1>2, <1>3, <1>4, <1>5, FinishInv DEF work

\* The item whose plan is used up.
LEMMA ExhaustedFacts ==
  ASSUME IInv, NEW i \in Items, Exhausted(i)
  PROVE  /\ jobStatus = "running" /\ i <= size /\ AdvancesTo(status, i)
         /\ repairer = "none" /\ verifier = 0
         /\ phase[i] = "download" /\ next[i] >= planned[i] /\ status[i] # "completed"
         /\ \A k \in Items : request[k] = NoId
         /\ \A k \in 1 .. i - 1 : status[k] = "completed"
         /\ \A k \in i + 1 .. size : status[k] = "queued" /\ next[k] = 0 /\ settled[k] = {}
<1>1. /\ jobStatus = "running" /\ i <= size /\ AdvancesTo(status, i) /\ request[i] = NoId
      /\ phase[i] = "download" /\ next[i] >= planned[i] /\ status[i] # "completed"
  BY DEF Exhausted, AdvancesTo
<1>2. /\ repairer = "none"
      /\ i = active \/ (i = active + 1 /\ status[active] = "completed")
      /\ verifier # 0 => phase[i] = "verifying"
      /\ \A k \in 1 .. i - 1 : status[k] = "completed"
      /\ \A k \in i + 1 .. size : status[k] = "queued" /\ next[k] = 0 /\ settled[k] = {}
  BY <1>1, PollFacts
<1>3. \A k \in Items : request[k] = NoId
  BY <1>1, <1>2 DEF IInv, OneInFlight
<1> QED
  BY <1>1, <1>2, <1>3

\* _prepare_next completes an item and looks for the next one.
LEMMA PollFinishItemInv ==
  ASSUME IInv, NEW i \in Items, PollFinishItem(i)
  PROVE  IInv'
<1> DEFINE st == [status EXCEPT ![i] = "completed"]
<1>1. /\ jobStatus = "running" /\ i <= size /\ AdvancesTo(status, i)
      /\ repairer = "none" /\ verifier = 0
      /\ phase[i] = "download" /\ next[i] >= planned[i] /\ status[i] # "completed"
      /\ \A k \in Items : request[k] = NoId
      /\ \A k \in 1 .. i - 1 : status[k] = "completed"
      /\ \A k \in i + 1 .. size : status[k] = "queued" /\ next[k] = 0 /\ settled[k] = {}
  BY ExhaustedFacts DEF PollFinishItem
<1>2. Basics /\ TypeOK
  BY Facts DEF IInv
<1>3. /\ phase' = [phase EXCEPT ![i] = "completed"]
      /\ UNCHANGED <<workflow, size, pass, retry, discovered, found, planned, next, anyBars,
                     verifier, posts, settled>>
  BY DEF PollFinishItem
<1>4. /\ st \in [Items -> {"queued", "probing", "importing", "verifying", "completed"}]
      /\ st[i] = "completed" /\ \A k \in Items \ {i} : st[k] = status[k]
      /\ phase' \in [Items -> {"discovery", "download", "verifying", "completed"}]
      /\ phase'[i] = "completed" /\ \A k \in Items \ {i} : phase'[k] = phase[k]
  BY <1>2, <1>3 DEF TypeOK, ItemType
<1>5. /\ \A k \in Items : st[k] # status[k] => st[k] = "completed"
      /\ \A k \in Items : phase'[k] # phase[k] =>
           /\ phase'[k] = "completed" /\ st[k] = "completed" /\ request[k] = NoId
           /\ phase[k] = "download" /\ next[k] >= planned[k]
      /\ \A k \in 1 .. i : st[k] = "completed"
      /\ \A k \in i + 1 .. size : st[k] = "queued" /\ next[k] = 0 /\ settled[k] = {}
  BY <1>1, <1>2, <1>4 DEF Basics
<1> HIDE DEF st
<1>6. ASSUME NEW j \in Items, AdvancesTo(st, j), j <= size, HasWork(j), Issue(st, j),
             UNCHANGED <<jobStatus, repairer, faults>>
      PROVE  IInv'
  <2>1. /\ \A k \in active .. j - 1 : st[k] = "completed"
        /\ j >= active /\ st[j] # "completed"
    BY <1>2, <1>6 DEF AdvancesTo, Basics
  <2>a. /\ i = active \/ i = active + 1
        /\ i \in Nat /\ j \in Nat /\ active \in Nat /\ size \in Nat /\ active >= 1
    BY <1>1, <1>2, PollFacts DEF Basics
  <2>b. j > i
    BY <1>5, <2>1, <2>a
  <2>c. st[i + 1] = "queued"
    BY <1>5, <1>6, <2>a, <2>b
  <2>2. j = i + 1
    BY <2>1, <2>a, <2>b, <2>c
  <2>3. /\ \A k \in 1 .. j - 1 : st[k] = "completed"
        /\ \A k \in j + 1 .. size : st[k] = "queued" /\ next[k] = 0 /\ settled[k] = {}
    BY <1>2, <1>5, <2>2 DEF Basics
  <2>4. phase'[j] = phase[j]
    BY <1>4, <2>2
  <2> QED
    BY <1>1, <1>3, <1>4, <1>5, <1>6, <2>3, <2>4, IssueInv DEF threads
<1>7. CASE AdvancesTo(st, size + 1) /\ FinishDownloads(st) /\ UNCHANGED <<request, wire, leased>>
  <2>1. \A k \in 1 .. size : st[k] = "completed"
    BY <1>2, <1>5, <1>7, <1>1 DEF AdvancesTo, Basics
  <2> QED
    BY <1>1, <1>3, <1>4, <1>5, <1>7, <2>1, FinishInv DEF net
<1>8. CASE /\ JournalFails /\ active' = i /\ status' = st
           /\ UNCHANGED <<jobStatus, repairer, request, wire, leased>>
  <2>1. \A k \in 1 .. i - 1 : st[k] = "completed"
    BY <1>2, <1>5 DEF Basics
  <2> QED
    BY <1>1, <1>3, <1>4, <1>5, <1>8, <2>1, MarkInv DEF net, threads
<1> QED
  BY <1>6, <1>7, <1>8 DEF PollFinishItem, st

\* _prepare_next hands an item over to its verification.
LEMMA PollVerifyInv ==
  ASSUME IInv, NEW i \in Items, PollVerify(i)
  PROVE  IInv'
<1>a. /\ jobStatus = "running" /\ i <= size /\ AdvancesTo(status, i)
      /\ repairer = "none" /\ verifier = 0
      /\ phase[i] = "download" /\ next[i] >= planned[i] /\ status[i] # "completed"
      /\ \A k \in Items : request[k] = NoId
      /\ \A k \in 1 .. i - 1 : status[k] = "completed"
      /\ \A k \in i + 1 .. size : status[k] = "queued" /\ next[k] = 0 /\ settled[k] = {}
  BY ExhaustedFacts DEF PollVerify
<1>0. Basics
  BY Facts DEF IInv
<1> USE <1>0 DEF IInv, Basics, JournalFails, job, work, net, threads
<1>b. /\ phase' = [phase EXCEPT ![i] = "verifying"]
      /\ status' = [status EXCEPT ![i] = "verifying"]
      /\ active' = i
      /\ UNCHANGED <<jobStatus, workflow, size, pass, request, retry, discovered, found, planned,
                     next, anyBars, leased, repairer, net, settled>>
  BY DEF PollVerify
<1>c. \/ verifier' = i /\ UNCHANGED faults
      \/ JournalFails /\ verifier' = verifier
  BY DEF PollVerify
<1>d. /\ phase'[i] = "verifying" /\ status'[i] = "verifying"
      /\ \A k \in Items \ {i} : phase'[k] = phase[k] /\ status'[k] = status[k]
  BY <1>b DEF TypeOK, ItemType
<1>1. TypeOK'
  <2>1. JobType'
    BY <1>a, <1>b, <1>c DEF TypeOK, JobType
  <2>2. ItemType'
    BY <1>a, <1>b, <1>c DEF TypeOK, ItemType
  <2>3. NetType'
    BY <1>a, <1>b, <1>c DEF TypeOK, NetType
  <2> QED
    BY <2>1, <2>2, <2>3 DEF TypeOK
<1>2. OneInFlight'
  BY <1>a, <1>b, <1>c DEF OneInFlight, TypeOK, JobType, ItemType
<1>3. InOrder'
  BY <1>a, <1>b, <1>c, <1>d DEF InOrder
<1>4. ThreadsOwnTheJob'
  BY <1>a, <1>b, <1>c DEF ThreadsOwnTheJob, TypeOK, JobType, ItemType
<1>5. WaitHasThreadUnlessFault'
  BY <1>a, <1>b, <1>c, <1>d DEF WaitHasThreadUnlessFault, WaitHasThread, TypeOK, JobType
<1>6. PassesDone'
  BY <1>a, <1>b, <1>c DEF PassesDone, PassBound, TypeOK, JobType
<1>7. Stages'
  BY <1>a, <1>b, <1>c, <1>d DEF Stages
<1>8. CommandsFit'
  BY <1>a, <1>b, <1>c, FitStays
<1>9. ReportsFit'
  BY <1>a, <1>b, <1>c, FitStays
<1>10. PassBound'
  BY <1>a, <1>b, <1>c DEF PassBound, RefreshesRecent, TypeOK, JobType
<1>11. Progress'
  <2> SUFFICES ASSUME BadSymbols = {}, NEW k \in 1 .. size
               PROVE  /\ phase'[k] = "discovery" => next[k] = 0
                      /\ phase'[k] # "discovery" => 1 .. next[k] \subseteq settled[k]
                      /\ phase'[k] \in {"verifying", "completed"}
                            => 1 .. planned[k] \subseteq settled[k]
    BY <1>b DEF Progress
  <2>1. CASE k # i
    BY <2>1, <1>d DEF Progress
  <2>2. CASE k = i
    <3>1. next[k] \in 0 .. MaxRanges /\ planned[k] \in 0 .. MaxRanges
      BY DEF TypeOK, ItemType
    <3>2. 1 .. next[k] \subseteq settled[k]
      BY <1>a, <2>2 DEF Progress
    <3> QED
      BY <1>a, <1>d, <2>2, <3>1, <3>2
  <2> QED
    BY <2>1, <2>2
<1> QED
  BY <1>1, <1>2, <1>3, <1>4, <1>5, <1>6, <1>7, <1>8, <1>9, <1>10, <1>11 DEF IInv

\* A step that changes nothing.
LEMMA StutterInv ==
  ASSUME IInv, UNCHANGED vars
  PROVE  IInv'
<1>0. Basics
  BY Facts DEF IInv
<1> USE <1>0 DEF IInv, Basics, vars, job, work, net, threads
<1>1. TypeOK'
  <2>1. JobType'
    BY DEF TypeOK, JobType
  <2>2. ItemType'
    BY DEF TypeOK, ItemType
  <2>3. NetType'
    BY DEF TypeOK, NetType
  <2> QED
    BY <2>1, <2>2, <2>3 DEF TypeOK
<1>2. OneInFlight'
  BY DEF OneInFlight, TypeOK, JobType, ItemType
<1>3. InOrder'
  BY DEF InOrder, OneInFlight, TypeOK, JobType, ItemType
<1>4. ThreadsOwnTheJob'
  BY DEF ThreadsOwnTheJob, TypeOK, JobType, ItemType
<1>5. WaitHasThreadUnlessFault'
  BY DEF WaitHasThreadUnlessFault, WaitHasThread, ThreadsOwnTheJob, TypeOK, JobType, ItemType
<1>6. PassesDone'
  BY DEF PassesDone, PassBound, TypeOK, JobType
<1>7. Stages'
  BY DEF Stages, TypeOK, ItemType
<1>8. CommandsFit'
  BY FitStays
<1>9. ReportsFit'
  BY FitStays
<1>10. PassBound'
  BY DEF PassBound, RefreshesRecent, TypeOK, JobType
<1>11. Progress'
  BY DEF Progress, TypeOK, JobType, ItemType
<1> QED
  BY <1>1, <1>2, <1>3, <1>4, <1>5, <1>6, <1>7, <1>8, <1>9, <1>10, <1>11 DEF IInv

\* The manager's initial state satisfies the invariant.
LEMMA InitInv == Init => IInv
<1> SUFFICES ASSUME Init
             PROVE  IInv
  OBVIOUS
<1>1. MaxItems \in Nat \ {0} /\ MaxRanges \in Nat \ {0} /\ MaxFaults \in Nat /\ NoId \notin Ids
      /\ Items = 1 .. MaxItems
  BY ConstantsAssumption DEF Items
<1> USE <1>1 DEF Init
<1>2. TypeOK
  <2>1. JobType
    <3>1. size \in 0 .. MaxItems /\ active \in 1 .. size + 1 /\ pass \in 0 .. 4
          /\ verifier \in 0 .. MaxItems /\ faults \in 0 .. MaxFaults
      OBVIOUS
    <3>2. found \in BOOLEAN /\ leased \in BOOLEAN
      OBVIOUS
    <3> QED
      BY <3>1, <3>2 DEF JobType, Workflows
  <2>2. ItemType
    BY DEF ItemType, Timeframes
  <2>3. NetType
    BY DEF NetType
  <2> QED
    BY <2>1, <2>2, <2>3 DEF TypeOK
<1>3. OneInFlight /\ InOrder /\ ThreadsOwnTheJob /\ WaitHasThreadUnlessFault /\ PassesDone
  BY DEF OneInFlight, InOrder, ThreadsOwnTheJob, WaitHasThreadUnlessFault, WaitHasThread, PassesDone
<1>4. Stages /\ CommandsFit /\ ReportsFit /\ PassBound /\ Progress
  BY DEF Stages, CommandsFit, ReportsFit, PassBound, RefreshesRecent, Progress, Timeframes
<1> QED
  BY <1>2, <1>3, <1>4 DEF IInv

\* Every step of the manager, its threads and the bridge preserves it.
LEMMA StepInv == IInv /\ [Next]_vars => IInv'
<1> SUFFICES ASSUME IInv, [Next]_vars
             PROVE  IInv'
  OBVIOUS
<1>1. CASE Start \/ StartTargeted \/ Restart
  BY <1>1, StartInv, StartTargetedInv, RestartInv
<1>2. CASE PollIssue \/ PollRedeliver \/ PollEnd
  BY <1>2, PollIssueInv, PollRedeliverInv, PollEndInv
<1>3. CASE \E i \in Items : PollFinishItem(i) \/ PollVerify(i)
  BY <1>3, PollFinishItemInv, PollVerifyInv
<1>4. CASE LeaseExpires \/ Lose
  BY <1>4, LeaseExpiresInv, LoseInv
<1>5. CASE \E id \in Ids : Execute(id) \/ Deliver(id)
  BY <1>5, ExecuteInv, DeliverInv
<1>6. CASE Verified \/ RepairBranch \/ RepairReturns \/ RepairDies
  BY <1>6, VerifiedInv, RepairBranchInv, RepairReturnsInv, RepairDiesInv
<1>7. CASE UNCHANGED vars
  BY <1>7, StutterInv
<1> QED
  BY <1>1, <1>2, <1>3, <1>4, <1>5, <1>6, <1>7 DEF Next, Poll

\* The invariant holds of every state FullHistoryBackfillManager reaches.
THEOREM Invariance == Spec => []IInv
<1> QED
  BY InitInv, StepInv, PTL DEF Spec

\* Every variable of the manager, its threads and its channel keeps its type;
\* in particular discovery never probes a fourth timeframe and no job runs a
\* fifth refresh pass.
THEOREM TypeCorrect == Spec => []TypeOK
<1>1. IInv => TypeOK
  BY DEF IInv
<1> QED
  BY <1>1, Invariance, PTL

\* One provider request in flight at a time (full_history.py, class docstring).
THEOREM SingleRequest == Spec => []OneInFlight
<1>1. IInv => OneInFlight
  BY DEF IInv
<1> QED
  BY <1>1, Invariance, PTL

\* _advance_completed walks the instruments in order.
THEOREM Sequential == Spec => []InOrder
<1>1. IInv => InOrder
  BY DEF IInv
<1> QED
  BY <1>1, Invariance, PTL

\* The threads web.py starts act on the job state they were started for.
THEOREM ThreadsCurrent == Spec => []ThreadsOwnTheJob
<1>1. IInv => ThreadsOwnTheJob
  BY DEF IInv
<1> QED
  BY <1>1, Invariance, PTL

\* A job waits for a thread only while that thread lives, until a write of the
\* event journal fails.
THEOREM WaitsAreBacked == Spec => []WaitHasThreadUnlessFault
<1>1. IInv => WaitHasThreadUnlessFault
  BY DEF IInv
<1> QED
  BY <1>1, Invariance, PTL

\* "completed" means that every refresh pass of the workflow was run.
THEOREM AllPassesRun == Spec => []PassesDone
<1>1. IInv => PassesDone
  BY DEF IInv
<1> QED
  BY <1>1, Invariance, PTL

\* Where every symbol can be selected by the terminal, no planned range is
\* skipped, whatever is lost, repeated, redelivered or restarted.
THEOREM NothingSkipped ==
  ASSUME BadSymbols = {}
  PROVE  Spec => []RangesAccounted
<1>1. IInv => RangesAccounted
  BY DEF IInv, Progress, RangesAccounted
<1> QED
  BY <1>1, Invariance, PTL

\* Only the AdvanceDownload of a batch report moves the position in a plan.
LEMMA MoveNeedsReport ==
  ASSUME BadSymbols = {}, IInv, [Next]_vars, NEW i \in Items, next'[i] = next[i] + 1
  PROVE  \E p \in posts : p.to = [item |-> i, range |-> Range(i)] /\ p \notin posts'
<1>0. Basics /\ next[i] \in 0 .. MaxRanges
  BY Facts DEF IInv, TypeOK, ItemType
<1>1. next' # next /\ next'[i] # 0
  BY <1>0 DEF Basics
<1>3. ~ (Start \/ StartTargeted \/ Restart)
  BY <1>1 DEF Start, StartTargeted, Restart, NewJob
<1>4. ~ Resume
  BY <1>0, <1>1 DEF Resume
<1>5. ~ (RepairBranch \/ RepairReturns \/ RepairDies \/ Verified)
  BY <1>1, <1>4 DEF RepairBranch, RepairReturns, RepairDies, Verified, CompleteRepair, work
<1>6. ~ (Lose \/ LeaseExpires \/ PollIssue \/ PollRedeliver \/ PollEnd)
  BY <1>1 DEF Lose, LeaseExpires, PollIssue, PollRedeliver, PollEnd, work
<1>7. ~ \E k \in Items : PollFinishItem(k) \/ PollVerify(k)
  BY <1>1 DEF PollFinishItem, PollVerify
<1>8. ~ \E id \in Ids : Execute(id)
  BY <1>1 DEF Execute, work
<1>9. ~ UNCHANGED vars
  BY <1>1 DEF vars, work
<1>10. PICK id \in Ids : Deliver(id)
  BY <1>3, <1>5, <1>6, <1>7, <1>8, <1>9 DEF Next, Poll
<1>11. PICK p \in posts, k \in Items :
         \/ Ignore(p) \/ AvailabilityResult(p, k) \/ BatchUnavailable(p, k)
         \/ BatchFailed(p, k) \/ BatchCompleted(p, k)
  BY <1>10 DEF Deliver
<1>12. ~ Ignore(p) /\ ~ AvailabilityResult(p, k)
  BY <1>1 DEF Ignore, AvailabilityResult, work
<1>13. /\ Current(p, k) /\ AdvanceDownload(k) /\ posts' = posts \ {p}
       /\ p.report \notin DiscoverReports
  BY <1>1, <1>11, <1>12 DEF BatchUnavailable, BatchFailed, BatchCompleted, RecordThenAdvance,
                            DiscoverReports
<1>14. k = i
  BY <1>0, <1>13 DEF AdvanceDownload, IInv, TypeOK, ItemType
<1>15. p.to = Command(request[k], k).to /\ phase[k] = "download"
  BY <1>13, ActiveFacts
<1> QED
  BY <1>13, <1>14, <1>15 DEF Command

\* A late, repeated or foreign report never moves another range on.
THEOREM ReportsSettleTheirRange ==
  ASSUME BadSymbols = {}
  PROVE  Spec => SettledByItsReport
<1>1. IInv /\ [Next]_vars =>
        [\A i \in Items : next'[i] = next[i] + 1 =>
           \E p \in posts : p.to = [item |-> i, range |-> Range(i)] /\ p \notin posts']_vars
  BY MoveNeedsReport
<1> QED
  BY <1>1, Invariance, PTL DEF Spec, SettledByItsReport

-----------------------------------------------------------------------------
(* The coordinator implements HistoryRequests.  Its step lemmas name the     *)
(* abstract step.                                                            *)

\* Who waits for an answer is the active item.
LEMMA OutstandingFacts ==
  ASSUME IInv
  PROVE  /\ \A i \in Items : request[i] # NoId => i = active /\ Outstanding = request[i]
         /\ Outstanding \in Ids \cup {NoId}
         /\ jobStatus # "running" => Outstanding = NoId
         /\ Outstanding = NoId => \A i \in Items : request[i] = NoId
BY DEF IInv, OneInFlight, Outstanding, TypeOK, ItemType

\* No request before and none after, and nothing new under way.
LEMMA QuietStep ==
  ASSUME IInv, Outstanding = NoId, \A i \in Items : request'[i] \in {request[i], NoId},
         UNCHANGED <<wire, posts>>
  PROVE  UNCHANGED Requests!hrVars
BY OutstandingFacts DEF Outstanding, Sent, Returning, Requests!hrVars

\* The request stays, something under way may be lost.
LEMMA TravelStep ==
  ASSUME UNCHANGED <<active, request>>, wire' \subseteq wire, posts' \subseteq posts
  PROVE  Requests!Next
BY DEF Requests!Next, Requests!Travel, Outstanding, Sent, Returning

\* A command handed out is under way under its id.
LEMMA HandedOut ==
  ASSUME NEW id, NEW j \in Items, wire' = wire \cup {Command(id, j)}
  PROVE  Sent' = Sent \cup {id}
<1>1. Command(id, j).id = id
  BY DEF Command
<1> QED
  BY <1>1 DEF Sent

\* _new_request issues.
LEMMA IssueStep ==
  ASSUME IInv, Outstanding = NoId, NEW st, NEW j \in Items, Issue(st, j), posts' = posts
  PROVE  Requests!Next
<1>1. PICK id \in Ids \ InUse :
        /\ request' = [request EXCEPT ![j] = id] /\ active' = j
        /\ wire' = wire \cup {Command(id, j)}
  BY DEF Issue
<1>2. Outstanding' = id
  BY <1>1 DEF Outstanding, IInv, TypeOK, ItemType
<1>3. Sent' = Sent \cup {id} /\ UNCHANGED Returning
  BY <1>1, HandedOut DEF Returning
<1>4. id \notin Sent \cup Returning
  BY <1>1 DEF Sent, Returning, InUse
<1> QED
  BY <1>1, <1>2, <1>3, <1>4 DEF Requests!Next, Requests!Issue

\* A poll without outstanding request issues one or is not seen.
LEMMA PollStep ==
  ASSUME IInv, Poll
  PROVE  Requests!Next \/ UNCHANGED Requests!hrVars
<1>1. ASSUME NEW st, NEW j \in Items, AdvancesTo(status, j), request[j] = NoId
      PROVE  Outstanding = NoId
  <2>1. ASSUME Outstanding # NoId
        PROVE  FALSE
    <3>1. active \in Items /\ request[active] # NoId
      BY <2>1 DEF Outstanding
    <3>2. status[active] \in {"probing", "importing"} /\ active \in 1 .. MaxItems
      BY <3>1 DEF IInv, OneInFlight, Items
    <3>3. j > active
      BY <1>1, <3>1, <3>2 DEF AdvancesTo, Items
    <3> QED
      BY <1>1, <3>2, <3>3 DEF AdvancesTo, Items
  <2> QED
    BY <2>1
<1>2. CASE PollIssue
  BY <1>1, <1>2, IssueStep DEF PollIssue
<1>3. CASE PollRedeliver
  <2>1. PICK i \in Items : /\ request[i] # NoId /\ active' = i
                           /\ wire' = wire \cup {Command(request[i], i)}
    BY <1>3 DEF PollRedeliver
  <2>2. Outstanding = request[i] /\ request' = request /\ posts' = posts
    BY <1>3, <2>1, OutstandingFacts DEF PollRedeliver
  <2>3. Sent' = Sent \cup {Outstanding}
    BY <2>1, <2>2, HandedOut
  <2>4. UNCHANGED <<Outstanding, Returning>>
    BY <2>1, <2>2 DEF Outstanding, Returning
  <2> QED
    BY <2>1, <2>2, <2>3, <2>4 DEF Requests!Next, Requests!Resend
<1>4. CASE PollEnd
  <2>1. Outstanding = NoId
    <3>1. ASSUME NEW i \in Items
          PROVE  request[i] = NoId
      BY <1>4 DEF PollEnd, AdvancesTo, IInv, OneInFlight, TypeOK, JobType, Items
    <3> QED
      BY <3>1 DEF Outstanding
  <2> QED
    BY <1>4, <2>1, QuietStep DEF PollEnd, net
<1>5. ASSUME NEW i \in Items, PollFinishItem(i) \/ PollVerify(i)
      PROVE  Requests!Next \/ UNCHANGED Requests!hrVars
  <2>1. Outstanding = NoId
    BY <1>1, <1>5 DEF PollFinishItem, PollVerify, Exhausted
  <2>2. CASE UNCHANGED <<request, wire, posts>>
    BY <2>1, <2>2, QuietStep
  <2>3. CASE \E st : \E j \in Items : Issue(st, j) /\ posts' = posts
    BY <2>1, <2>3, IssueStep
  <2> QED
    BY <1>5, <2>2, <2>3 DEF PollFinishItem, PollVerify, net
<1> QED
  BY <1>2, <1>3, <1>4, <1>5 DEF Poll

\* What the server does with a report closes the request or is not seen.
LEMMA DeliverStep ==
  ASSUME IInv, NEW id \in Ids, Deliver(id)
  PROVE  Requests!Next
<1>1. PICK p \in posts, i \in Items :
        \/ Ignore(p) \/ AvailabilityResult(p, i) \/ BatchUnavailable(p, i)
        \/ BatchFailed(p, i) \/ BatchCompleted(p, i)
  <2>1. 1 \in Items
    BY ConstantsAssumption DEF Items
  <2> QED
    BY <2>1 DEF Deliver
<1>2. CASE UNCHANGED request
  BY <1>1, <1>2, TravelStep DEF Ignore, AvailabilityResult, BatchUnavailable, BatchFailed,
                                BatchCompleted, job
<1>3. CASE ~ UNCHANGED request
  <2>1. /\ Current(p, i) /\ ClearRequest(i) /\ posts' = posts \ {p}
        /\ UNCHANGED <<active, wire>>
    BY <1>1, <1>3 DEF Ignore, AvailabilityResult, BatchUnavailable, BatchFailed,
                      BatchCompleted, RecordThenAdvance, AdvanceDownload, job
  <2>2. Outstanding = p.id /\ Outstanding' = NoId
    BY <2>1, OutstandingFacts DEF Current, ClearRequest, Outstanding, IInv, TypeOK, ItemType
  <2>3. Outstanding \in Returning /\ Returning' \subseteq Returning /\ UNCHANGED Sent
    BY <2>1, <2>2 DEF Sent, Returning
  <2> QED
    BY <2>2, <2>3 DEF Requests!Next, Requests!Answer
<1> QED
  BY <1>2, <1>3

\* Executing a command turns it into an answer.
LEMMA ExecuteStep ==
  ASSUME NEW id \in Ids, Execute(id)
  PROVE  Requests!Next
<1>1. PICK c \in wire, r \in BatchReports \cup DiscoverReports :
        /\ c.id = id /\ wire' = wire \ {c}
        /\ posts' = posts \cup {[id |-> id, report |-> r, to |-> c.to]}
  BY ConstantsAssumption DEF Execute, Answers, BatchReports, DiscoverReports
<1>2. Sent' \subseteq Sent /\ id \in Sent
  BY <1>1 DEF Sent
<1>3. Returning' = Returning \cup {id}
  <2>1. [id |-> id, report |-> r, to |-> c.to].id = id
    OBVIOUS
  <2> QED
    BY <1>1, <2>1 DEF Returning
<1>4. UNCHANGED Outstanding
  BY DEF Execute, Outstanding, job
<1> QED
  BY <1>2, <1>3, <1>4 DEF Requests!Next, Requests!Travel

\* Every step of the coordinator is a step of HistoryRequests or not seen.
LEMMA StepRefines ==
  ASSUME IInv, [Next]_vars
  PROVE  [Requests!Next]_(Requests!hrVars)
<1>1. CASE Start \/ StartTargeted \/ Restart
  <2>1. request' = [i \in Items |-> NoId] /\ UNCHANGED <<wire, posts>>
    BY <1>1 DEF Start, StartTargeted, Restart, NewJob, net
  <2>2. Outstanding' = NoId /\ UNCHANGED <<Sent, Returning>>
    BY <2>1 DEF Outstanding, Sent, Returning
  <2> QED
    BY <2>2 DEF Requests!Next, Requests!Forget
<1>2. CASE Poll
  BY <1>2, PollStep
<1>3. CASE LeaseExpires \/ Lose \/ Verified \/ RepairDies
  BY <1>3, TravelStep DEF LeaseExpires, Lose, Verified, RepairDies, job, net
<1>4. ASSUME NEW id \in Ids, Execute(id) \/ Deliver(id)
      PROVE  Requests!Next
  BY <1>4, ExecuteStep, DeliverStep
<1>5. CASE RepairBranch \/ RepairReturns
  <2>1. Outstanding = NoId /\ UNCHANGED <<wire, posts>>
    BY <1>5, OutstandingFacts DEF RepairBranch, RepairReturns, Resume, CompleteRepair, net
  <2>2. \A i \in Items : request'[i] \in {request[i], NoId}
    BY <1>5 DEF RepairBranch, RepairReturns, Resume, CompleteRepair
  <2> QED
    BY <2>1, <2>2, QuietStep
<1>6. CASE UNCHANGED vars
  BY <1>6, TravelStep DEF vars, job, net
<1> QED
  BY <1>1, <1>2, <1>3, <1>4, <1>5, <1>6 DEF Next

\* The command plane can rely on HistoryRequests alone: whatever job, plan and
\* thread the coordinator is busy with, its requests behave like that.
THEOREM RefinesRequests == Spec => ImplementsRequests
<1>1. Init => Requests!Init
  BY ConstantsAssumption DEF Init, Requests!Init, Outstanding, Sent, Returning, Items
<1> QED
  BY <1>1, StepRefines, Invariance, PTL DEF Spec, ImplementsRequests, Requests!Spec

=============================================================================
