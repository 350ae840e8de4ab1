------------------------- MODULE AgentControl_proofs -------------------------
(***************************************************************************)
(* Proofs about AgentControl, for any number of tasks, requests and keys.  *)
(*                                                                         *)
(* Every step of the composition is a step of ServerTasks or leaves its    *)
(* variables alone (Composes), so that whatever is proved about the        *)
(* control plane with the Agent left free holds with this one.  What is    *)
(* left is the host: HostInv says which consent, which ticket and which    *)
(* trace on the servers row stand behind every helper.                     *)
(***************************************************************************)
EXTENDS AgentControl, ServerTasksSteps_proofs

LEMMA ControlStep ==
  ASSUME ControlNext PROVE Next \/ UNCHANGED vars
<1>1. ASSUME NEW b \in Beat, HeartbeatStep(b) PROVE BeatStep(b)
  BY <1>1 DEF HeartbeatStep, BeatStep
<1>2. ASSUME NEW t \in TaskId, TaskStep(t) PROVE AgentStep \/ UNCHANGED vars
  <2>1. CASE Executes(t)
    BY <2>1 DEF Executes
  <2>2. CASE Reports(t)
    BY <2>2 DEF Reports, AgentStep
  <2>3. CASE ActsAfterReport(t)
    BY <2>3 DEF ActsAfterReport
  <2>4. CASE ConfirmsNoHelper(t)
    BY <2>4 DEF ConfirmsNoHelper, AgentStep
  <2>5. CASE HelperCleans(t)
    BY <2>5 DEF HelperCleans
  <2>6. CASE HelperConfirms(t)
    BY <2>6 DEF HelperConfirms, AgentStep
  <2>7. CASE HelperGivesUp(t)
    BY <2>7 DEF HelperGivesUp
  <2> QED BY <1>2, <2>1, <2>2, <2>3, <2>4, <2>5, <2>6, <2>7 DEF TaskStep
<1>3. CASE ProcessDies \/ ProcessStarts \/ HostReboots
  BY <1>3 DEF ProcessDies, ProcessStarts, HostReboots
<1>4. CASE ForcesDelete
  BY <1>4 DEF ForcesDelete, Next
<1>5. CASE OwnerOrTimeStep
  BY <1>5 DEF OwnerOrTimeStep, Next
<1> QED BY <1>1, <1>2, <1>3, <1>4, <1>5 DEF ControlNext, Next

\* The Agent and its helper do to the control plane only what ServerTasks lets
\* anybody do who holds their credentials.
THEOREM Composes == ControlSpec => Spec
<1>1. ControlInit => Init
  BY DEF ControlInit
<1>2. [ControlNext]_allVars => [Next]_vars
  BY ControlStep DEF allVars
<1> QED BY <1>1, <1>2, PTL DEF ControlSpec, Spec

-----------------------------------------------------------------------------
(* Types.                                                                  *)

HostType ==
  /\ host \in [installed: BOOLEAN, up: BOOLEAN, forced: BOOLEAN]
  /\ work \in [TaskId -> Stage]
  /\ helper \in [TaskId -> HelperStage]

LEMMA HostTypeStep ==
  ASSUME HostType, [ControlNext]_allVars PROVE HostType'
<1>1. ASSUME NEW b \in Beat, HeartbeatStep(b) PROVE HostType'
  BY <1>1 DEF HeartbeatStep, HostType, hostVars, Stage
<1>2. ASSUME NEW t \in TaskId, Executes(t) PROVE HostType'
  BY <1>2 DEF Executes, HostType, Stage, HelperStage
<1>3. ASSUME NEW t \in TaskId, Reports(t) PROVE HostType'
  BY <1>3 DEF Reports, Acknowledged, NotAcknowledged, HostType, Stage, HelperStage
<1>4. ASSUME NEW t \in TaskId, ActsAfterReport(t) PROVE HostType'
  BY <1>4 DEF ActsAfterReport, ProcessEnds, HostType, Stage, HelperStage
<1>5. ASSUME NEW t \in TaskId, ConfirmsNoHelper(t) PROVE HostType'
  BY <1>5 DEF ConfirmsNoHelper, HostType, Stage
<1>6. ASSUME NEW t \in TaskId, HelperCleans(t) PROVE HostType'
  BY <1>6 DEF HelperCleans, HostType, Stage, HelperStage
<1>7. ASSUME NEW t \in TaskId, HelperConfirms(t) PROVE HostType'
  BY <1>7 DEF HelperConfirms, HostType, HelperStage
<1>8. ASSUME NEW t \in TaskId, HelperGivesUp(t) PROVE HostType'
  BY <1>8 DEF HelperGivesUp, HostType, HelperStage
<1>9. CASE ProcessDies \/ ProcessStarts \/ HostReboots
  <2>1. CASE ProcessDies
    BY <2>1 DEF ProcessDies, ProcessEnds, HostType, Stage, HelperStage
  <2>2. CASE ProcessStarts
    BY <2>2 DEF ProcessStarts, HostType, Stage, HelperStage
  <2>3. CASE HostReboots
    BY <2>3 DEF HostReboots, ProcessEnds, HostType, Stage, HelperStage
  <2> QED BY <1>9, <2>1, <2>2, <2>3
<1>10. CASE ForcesDelete
  BY <1>10 DEF ForcesDelete, HostType
<1>11. CASE OwnerOrTimeStep \/ UNCHANGED allVars
  BY <1>11 DEF OwnerOrTimeStep, HostType, hostVars, allVars
<1> QED
  BY <1>1, <1>2, <1>3, <1>4, <1>5, <1>6, <1>7, <1>8, <1>9, <1>10, <1>11
  DEF ControlNext, TaskStep

\* Type correctness of the composition.
THEOREM ControlTypeCorrect == ControlSpec => []ControlTypeOK
<1>1. ControlInit => HostType
  BY DEF ControlInit, HostType, Stage, HelperStage
<1>2. TypeOK /\ HostType => ControlTypeOK
  BY DEF ControlTypeOK, HostType
<1> QED
  BY <1>1, <1>2, HostTypeStep, Composes, TypeCorrect, PTL DEF ControlSpec

-----------------------------------------------------------------------------
(* What a step of the control plane leaves standing.                       *)

\* While the server stays, its uninstalls stay what they are, what was
\* accepted stays accepted or has failed, a server that has seen an uninstall
\* is not shown as untouched, and it waits for the ticket it waited for or for
\* a fresh one.
Stands ==
  server'.exists =>
    /\ server.exists
    /\ \A t \in TaskId :
         /\ tasks[t].type = "agent_uninstall" => tasks'[t].type = "agent_uninstall"
         /\ tasks[t].status \in {"completed", "failed"}
              => tasks'[t].status \in {"completed", "failed"}
    /\ server.deletion # "active" => server'.deletion # "active"
    /\ \A t \in TaskId :
         tasks'[t].type = "agent_uninstall" =>
           tasks[t].type = "agent_uninstall" \/ server'.deletion # "active"
    /\ \A t \in TaskId :
         server'.deletion = "pending" /\ server'.token = t =>
           \/ server.deletion = "pending" /\ server.token = t
           \/ tasks[t].type # "agent_uninstall"

OutcomeStep ==
  server'.exists =>
    \A t \in TaskId :
      /\ Rank(tasks'[t].status) >= Rank(tasks[t].status)
      /\ tasks[t].status \in Final =>
           \/ tasks'[t] = tasks[t]
           \/ /\ t = server.token /\ server.tokenLive
              /\ tasks'[t] = [tasks[t] EXCEPT !.status = "failed", !.clock = "fresh"]

LEMMA LifecycleStands ==
  ASSUME TypeOK, TypeOK', [OutcomeStep]_vars, [Lifecycle!DNext]_(Lifecycle!dvars)
  PROVE  Stands
<1> SUFFICES ASSUME server'.exists PROVE Stands
  BY DEF Stands
<1>1. /\ DeletionPhase = "gone" <=> ~server.exists
      /\ server.exists => (DeletionPhase = "kept" <=> server.deletion = "active")
      /\ DeletionPhase' = "gone" <=> ~server'.exists
      /\ server'.exists => (DeletionPhase' = "kept" <=> server'.deletion = "active")
  BY DEF TypeOK, ServerRow, DeletionPhase
<1>2. \/ DeletionPhase' = DeletionPhase /\ Uninstalls' = Uninstalls
      \/ /\ DeletionPhase # "gone" /\ DeletionPhase' # "kept"
         /\ DeletionPhase' # "gone" => Uninstalls \subseteq Uninstalls'
  BY DEF Lifecycle!DNext, Lifecycle!dvars, Lifecycle!Request, Lifecycle!Accept,
         Lifecycle!Fail, Lifecycle!Remove
<1>3. \A t \in TaskId : (t \in Uninstalls <=> tasks[t].type = "agent_uninstall")
                     /\ (t \in Uninstalls' <=> tasks'[t].type = "agent_uninstall")
  BY DEF Uninstalls
<1>4. /\ server.exists
      /\ \A t \in TaskId : tasks[t].type = "agent_uninstall" => tasks'[t].type = "agent_uninstall"
      /\ server.deletion # "active" => server'.deletion # "active"
      /\ \A t \in TaskId : tasks'[t].type = "agent_uninstall" =>
           tasks[t].type = "agent_uninstall" \/ server'.deletion # "active"
  BY <1>1, <1>2, <1>3
<1>5. \A t \in TaskId : tasks[t].status \in {"completed", "failed"}
                          => tasks'[t].status \in {"completed", "failed"}
  <2> SUFFICES ASSUME NEW t \in TaskId, tasks[t].status \in {"completed", "failed"}
               PROVE  tasks'[t].status \in {"completed", "failed"}
    OBVIOUS
  <2>1. tasks[t] \in TaskRow
    BY DEF TypeOK
  <2>2. \/ tasks'[t] = tasks[t]
        \/ tasks'[t] = [tasks[t] EXCEPT !.status = "failed", !.clock = "fresh"]
    BY DEF OutcomeStep, vars, Final
  <2> QED BY <2>1, <2>2 DEF TaskRow
<1>6. ASSUME NEW t \in TaskId, server'.deletion = "pending", server'.token = t
      PROVE  \/ server.deletion = "pending" /\ server.token = t
             \/ tasks[t].type # "agent_uninstall"
  <2>1. DeletionPhase' = "requested" /\ (DeletionPhase = "requested" <=> server.deletion = "pending")
    BY <1>4, <1>6 DEF DeletionPhase, TypeOK, ServerRow
  <2>2. \/ DeletionPhase = "requested" /\ server'.token = server.token
        \/ server'.token \in TaskId \ Uninstalls
    BY <2>1 DEF Lifecycle!DNext, Lifecycle!dvars, Lifecycle!Request, Lifecycle!Accept,
       Lifecycle!Fail, Lifecycle!Remove
  <2> QED BY <1>6, <2>1, <2>2 DEF Uninstalls
<1> QED BY <1>4, <1>5, <1>6 DEF Stands

\* No statement but two deletes the row of the server.
LEMMA ServerKept ==
  ASSUME TypeOK,
         \/ \E b \in Beat : BeatStep(b)
         \/ \E c \in Call : CallStep(c)
         \/ \E t \in TaskId, outcome \in {"completed", "failed"} : ReportTask(t, outcome)
         \/ \E t \in TaskId : ConfirmUninstall(t, "failed")
         \/ TimeStep \/ Poll \/ DisableAutoUpdate \/ RequestUninstall
         \/ UNCHANGED vars
  PROVE  server'.exists = server.exists
<1>1. ASSUME NEW b \in Beat, BeatStep(b) PROVE server'.exists = server.exists
  BY <1>1 DEF BeatStep, BeatArrives, BeatConfirmsVersion, BeatConsidersUpdate,
     BeatQueuesUpdate, BeatExpires, BeatTimesOut, BeatLocks, BeatClaims, BeatLost,
     TypeOK, ServerRow
<1>2. ASSUME ExpireStale PROVE server'.exists = server.exists
  BY <1>2, FailedRow DEF ExpireStale, TypeOK
<1>3. ASSUME NEW c \in Call, CallStep(c) PROVE server'.exists = server.exists
  BY <1>2, <1>3 DEF CallStep, CallBegins, CreateChecks, CreateExpiresQueued,
     CreateTimesOutRunning, CreateInserts, CancelsTask, CancelsUpdate, EnablesAutoUpdate, CallLost, TypeOK, ServerRow
<1>4. ASSUME TimeStep PROVE server'.exists = server.exists
  BY <1>4 DEF TimeStep, TaskAges, UninstallWindowCloses, GoesOffline, TypeOK, ServerRow
<1>5. ASSUME NEW t \in TaskId, NEW outcome \in {"completed", "failed"}, ReportTask(t, outcome)
      PROVE  server'.exists = server.exists
  BY <1>5, FailedRow DEF ReportTask, TypeOK, ServerRow
<1>6. ASSUME NEW t \in TaskId, ConfirmUninstall(t, "failed")
      PROVE  server'.exists = server.exists
  BY <1>6, FailedRow DEF ConfirmUninstall, TypeOK
<1>7. ASSUME DisableAutoUpdate \/ RequestUninstall PROVE server'.exists = server.exists
  BY <1>7 DEF DisableAutoUpdate, RequestUninstall, TypeOK, ServerRow
<1> QED BY <1>1, <1>2, <1>3, <1>4, <1>5, <1>6, <1>7 DEF Poll, vars

\* The row goes only by the callback of a helper that has cleaned up, or by
\* force.
LEMMA ExistenceKept ==
  ASSUME TypeOK, ControlNext, ~\E t \in TaskId : helper[t] = "cleaned" /\ HelperConfirms(t),
         ~ForcesDelete
  PROVE  server'.exists = server.exists
<1>1. ASSUME NEW b \in Beat, HeartbeatStep(b) PROVE server'.exists = server.exists
  BY <1>1, ServerKept DEF HeartbeatStep, BeatStep
<1>2. ASSUME NEW t \in TaskId, TaskStep(t) PROVE server'.exists = server.exists
  <2>1. CASE Reports(t)
    BY <2>1, ServerKept DEF Reports
  <2>2. CASE ConfirmsNoHelper(t)
    BY <2>2, ServerKept DEF ConfirmsNoHelper
  <2>3. CASE HelperConfirms(t)
    BY <2>3, ServerKept DEF HelperConfirms
  <2>4. CASE Executes(t) \/ ActsAfterReport(t) \/ HelperCleans(t) \/ HelperGivesUp(t)
    BY <2>4 DEF Executes, ActsAfterReport, HelperCleans, HelperGivesUp, vars
  <2> QED BY <1>2, <2>1, <2>2, <2>3, <2>4 DEF TaskStep
<1>3. CASE ProcessDies \/ ProcessStarts \/ HostReboots
  BY <1>3 DEF ProcessDies, ProcessStarts, HostReboots, vars
<1>4. CASE OwnerOrTimeStep
  BY <1>4, ServerKept DEF OwnerOrTimeStep
<1> QED BY <1>1, <1>2, <1>3, <1>4 DEF ControlNext

-----------------------------------------------------------------------------
(* The host.                                                               *)

\* The helper of t is at work, or its result has been acknowledged.
Destructive(t) ==
  \/ helper[t] \in {"running", "cleaned", "broken"}
  \/ helper[t] = "prepared" /\ work[t] = "acked"

\* A copy of the Agent is put aside for an uninstall only.
HelperServesUninstall ==
  \A t \in TaskId : server.exists /\ helper[t] # "none" => tasks[t].type = "agent_uninstall"

\* What is acknowledged is recorded, before the helper starts.
ConsentRecorded ==
  \A t \in TaskId : server.exists /\ Destructive(t) => tasks[t].status \in {"completed", "failed"}

\* A server an uninstall was requested for is never shown as untouched.
RequestVisible ==
  \A t \in TaskId :
    server.exists /\ tasks[t].type = "agent_uninstall" => server.deletion # "active"

\* The Agent acts on the removal it has accepted: its helper is not at work
\* while the control plane still waits for that answer.
ConsentGiven ==
  \A t \in TaskId :
    server.exists /\ server.token = t /\ Destructive(t) => server.deletion # "pending"

CleanedIsGone == \A t \in TaskId : helper[t] = "cleaned" => ~host.installed

HostInv ==
  /\ HelperServesUninstall /\ ConsentRecorded /\ ConsentGiven /\ RequestVisible
  /\ CleanedIsGone
  /\ LossIsVisible /\ RemovedMeansUninstalled

LEMMA RequestVisibleStep ==
  ASSUME RequestVisible, Stands PROVE RequestVisible'
  BY DEF RequestVisible, Stands

\* A helper begins as the copy of an uninstall and never changes its task.
LEMMA HelperServesStep ==
  ASSUME HostType, HelperServesUninstall, Stands, ControlNext
  PROVE  HelperServesUninstall'
<1> SUFFICES ASSUME NEW t \in TaskId, server'.exists, helper'[t] # "none"
             PROVE  tasks'[t].type = "agent_uninstall"
  BY DEF HelperServesUninstall
<1>1. helper[t] # "none" \/ tasks[t].type = "agent_uninstall"
  <2>1. ASSUME NEW s \in TaskId, TaskStep(s)
        PROVE  helper[t] # "none" \/ tasks[t].type = "agent_uninstall"
    BY <2>1 DEF TaskStep, Executes, Reports, Acknowledged, NotAcknowledged, ActsAfterReport,
       ConfirmsNoHelper, HelperCleans, HelperConfirms, HelperGivesUp, HostType
  <2> QED
    BY <2>1 DEF ControlNext, HeartbeatStep, hostVars, ProcessDies, ProcessStarts, HostReboots,
       ForcesDelete, OwnerOrTimeStep, HostType
<1> QED BY <1>1 DEF HelperServesUninstall, Stands

\* The one step that makes a helper destructive is an acknowledged report of
\* success.
LEMMA BecomesDestructive ==
  ASSUME HostType, ControlNext, NEW t \in TaskId, ~Destructive(t), Destructive(t)'
  PROVE  helper[t] = "prepared" /\ ReportTask(t, "completed")
<1>1. ASSUME NEW s \in TaskId, TaskStep(s)
      PROVE  helper[t] = "prepared" /\ ReportTask(t, "completed")
  <2>1. CASE Executes(s)
    BY <2>1 DEF Executes, Destructive, HostType
  <2>2. CASE Reports(s)
    BY <2>2 DEF Reports, Acknowledged, NotAcknowledged, Destructive, HostType
  <2>3. CASE ActsAfterReport(s)
    BY <2>3 DEF ActsAfterReport, ProcessEnds, Destructive, HostType
  <2>4. CASE ConfirmsNoHelper(s)
    BY <2>4 DEF ConfirmsNoHelper, Destructive, HostType
  <2>5. CASE HelperCleans(s)
    BY <2>5 DEF HelperCleans, Destructive, HostType
  <2>6. CASE HelperConfirms(s) \/ HelperGivesUp(s)
    BY <2>6 DEF HelperConfirms, HelperGivesUp, Destructive, HostType
  <2> QED BY <1>1, <2>1, <2>2, <2>3, <2>4, <2>5, <2>6 DEF TaskStep
<1>2. CASE \E b \in Beat : HeartbeatStep(b)
  BY <1>2 DEF HeartbeatStep, hostVars, Destructive, HostType
<1>3. CASE ProcessDies \/ ProcessStarts \/ HostReboots
  BY <1>3 DEF ProcessDies, ProcessStarts, HostReboots, ProcessEnds, Destructive, HostType
<1>4. CASE ForcesDelete \/ OwnerOrTimeStep
  BY <1>4 DEF ForcesDelete, OwnerOrTimeStep, hostVars, Destructive
<1> QED BY <1>1, <1>2, <1>3, <1>4 DEF ControlNext

\* The report that makes a helper destructive is recorded.
LEMMA ConsentStep ==
  ASSUME TypeOK, HostType, HelperServesUninstall, ConsentRecorded, Stands, ControlNext
  PROVE  ConsentRecorded'
<1> SUFFICES ASSUME NEW t \in TaskId, server'.exists, Destructive(t)'
             PROVE  tasks'[t].status \in {"completed", "failed"}
  BY DEF ConsentRecorded
<1>1. CASE Destructive(t)
  BY <1>1 DEF ConsentRecorded, Stands
<1>2. CASE ~Destructive(t)
  <2>1. helper[t] = "prepared" /\ ReportTask(t, "completed")
    BY <1>2, BecomesDestructive
  <2>2. tasks[t].type = "agent_uninstall"
    BY <2>1 DEF HelperServesUninstall, Stands
  <2>3. tasks' = MoveTo({t}, "completed")
    BY <2>1, <2>2 DEF ReportTask
  <2> QED BY <2>3, MoveToRows DEF TypeOK, Final
<1> QED BY <1>1, <1>2

\* That report also tells the server that the removal is under way, and a
\* later removal waits under a ticket no helper serves.
LEMMA ConsentGivenStep ==
  ASSUME TypeOK, HostType, HelperServesUninstall, ConsentGiven, Stands, ControlNext
  PROVE  ConsentGiven'
<1> SUFFICES ASSUME NEW t \in TaskId, server'.exists, server'.token = t, Destructive(t)',
                    server'.deletion = "pending"
             PROVE  FALSE
  BY DEF ConsentGiven
<1>1. CASE Destructive(t)
  <2>1. tasks[t].type = "agent_uninstall"
    BY <1>1 DEF HelperServesUninstall, Stands, Destructive
  <2> QED BY <1>1, <2>1 DEF ConsentGiven, Stands
<1>2. CASE ~Destructive(t)
  <2>1. helper[t] = "prepared" /\ ReportTask(t, "completed")
    BY <1>2, BecomesDestructive
  <2>2. tasks[t].type = "agent_uninstall"
    BY <2>1 DEF HelperServesUninstall, Stands
  <2> QED BY <2>1, <2>2 DEF ReportTask, TypeOK, ServerRow
<1> QED BY <1>1, <1>2

\* Nothing is ever put back on the host.
LEMMA CleanedStep ==
  ASSUME HostType, CleanedIsGone, ControlNext
  PROVE  CleanedIsGone'
<1> SUFFICES ASSUME NEW t \in TaskId, helper'[t] = "cleaned" PROVE ~host'.installed
  BY DEF CleanedIsGone
<1>1. host'.installed => host.installed
  BY DEF ControlNext, HeartbeatStep, TaskStep, Executes, Reports, ActsAfterReport,
     ConfirmsNoHelper, HelperCleans, HelperConfirms, HelperGivesUp, ProcessDies,
     ProcessStarts, HostReboots, ProcessEnds, ForcesDelete, OwnerOrTimeStep, hostVars, HostType
<1>2. helper[t] = "cleaned" \/ HelperCleans(t)
  <2>1. ASSUME NEW s \in TaskId, TaskStep(s)
        PROVE  helper[t] = "cleaned" \/ HelperCleans(t)
    BY <2>1 DEF TaskStep, Executes, Reports, Acknowledged, NotAcknowledged, ActsAfterReport,
       ConfirmsNoHelper, HelperCleans, HelperConfirms, HelperGivesUp, HostType
  <2> QED
    BY <2>1 DEF ControlNext, HeartbeatStep, hostVars, ProcessDies, ProcessStarts, HostReboots,
       ForcesDelete, OwnerOrTimeStep, HostType
<1>3. HelperCleans(t) => ~host'.installed
  BY DEF HelperCleans, HostType
<1> QED BY <1>1, <1>2, <1>3 DEF CleanedIsGone

\* What one step may do to the host.
LEMMA HostKept ==
  ASSUME HostType, ControlNext
  PROVE  /\ host'.installed => host.installed
         /\ host.forced => host'.forced
         /\ host'.forced = host.forced \/ ForcesDelete
         /\ ForcesDelete => host'.installed = host.installed
         /\ host.installed /\ ~host'.installed =>
              /\ \E t \in TaskId : helper[t] = "running" /\ UNCHANGED vars
              /\ host'.forced = host.forced
<1>1. ASSUME NEW t \in TaskId, HelperCleans(t)
      PROVE  /\ host'.installed => host.installed
             /\ host'.forced = host.forced
             /\ helper[t] = "running" /\ UNCHANGED vars
  BY <1>1 DEF HelperCleans, HostType
<1>2. ASSUME ~\E t \in TaskId : HelperCleans(t)
      PROVE  /\ host'.installed = host.installed
             /\ host.forced => host'.forced
             /\ host'.forced = host.forced \/ ForcesDelete
  BY <1>2 DEF ControlNext, HeartbeatStep, TaskStep, Executes, Reports, ActsAfterReport,
     ConfirmsNoHelper, HelperConfirms, HelperGivesUp, ProcessDies, ProcessStarts,
     HostReboots, ProcessEnds, ForcesDelete, OwnerOrTimeStep, hostVars, HostType
<1>3. ForcesDelete => host'.installed = host.installed
  BY DEF ForcesDelete, HostType
<1> QED BY <1>1, <1>2, <1>3

LEMMA LossStep ==
  ASSUME HostType, HelperServesUninstall, RequestVisible, LossIsVisible, Stands, ControlNext
  PROVE  LossIsVisible'
<1> SUFFICES ASSUME server'.exists, ~host'.installed PROVE server'.deletion # "active"
  BY DEF LossIsVisible
<1>1. CASE ~host.installed
  BY <1>1 DEF LossIsVisible, Stands
<1>2. CASE host.installed
  <2>1. PICK t \in TaskId : helper[t] = "running" /\ UNCHANGED vars
    BY <1>2, HostKept
  <2>2. tasks[t].type = "agent_uninstall"
    BY <2>1 DEF HelperServesUninstall, vars
  <2> QED BY <2>1, <2>2 DEF RequestVisible, vars
<1> QED BY <1>1, <1>2

LEMMA RemovedStep ==
  ASSUME TypeOK, HostType, CleanedIsGone, RemovedMeansUninstalled, ControlNext
  PROVE  RemovedMeansUninstalled'
<1> SUFFICES ASSUME ~server'.exists, ~host'.forced PROVE ~host'.installed
  BY DEF RemovedMeansUninstalled
<1>1. CASE ~server.exists
  BY <1>1, HostKept DEF RemovedMeansUninstalled
<1>2. ~ForcesDelete
  BY DEF ForcesDelete, HostType
<1>3. CASE server.exists
  <2>1. PICK t \in TaskId : helper[t] = "cleaned" /\ HelperConfirms(t)
    BY <1>2, <1>3, ExistenceKept
  <2> QED BY <2>1, HostKept DEF CleanedIsGone
<1> QED BY <1>1, <1>3

LEMMA HostInvStep ==
  ASSUME TypeOK, HostType, HostInv, Stands, [ControlNext]_allVars
  PROVE  HostInv'
<1>1. CASE ControlNext
  BY <1>1, RequestVisibleStep, HelperServesStep, ConsentStep, ConsentGivenStep, CleanedStep, LossStep, RemovedStep
     DEF HostInv
<1>2. CASE UNCHANGED allVars
  BY <1>2 DEF allVars, vars, hostVars, HostInv, HelperServesUninstall, ConsentRecorded,
     ConsentGiven, Destructive, RequestVisible, CleanedIsGone, LossIsVisible, RemovedMeansUninstalled
<1> QED BY <1>1, <1>2

THEOREM HostInvariant == ControlSpec => []HostInv
<1>1. ControlInit => HostType
  BY DEF ControlInit, HostType, Stage, HelperStage
<1>2. ControlInit => HostInv
  BY UnusedRow DEF ControlInit, Init, HostInv, HelperServesUninstall, ConsentRecorded, ConsentGiven, Destructive,
     RequestVisible, CleanedIsGone, LossIsVisible, RemovedMeansUninstalled
<1>3. ControlSpec => [][OutcomeStep]_vars
  BY Composes, OutcomesAreFinalAlways DEF OutcomesAreFinal, OutcomeStep
<1>4. ControlSpec => [][Lifecycle!DNext]_(Lifecycle!dvars)
  BY Composes, Refinement, PTL DEF RemovalIsLifecycle, Lifecycle!DSpec
<1>5. TypeOK /\ TypeOK' /\ [OutcomeStep]_vars /\ [Lifecycle!DNext]_(Lifecycle!dvars) => Stands
  BY LifecycleStands
<1> QED
  BY <1>1, <1>2, <1>3, <1>4, <1>5, HostTypeStep, HostInvStep, Composes, TypeCorrect, PTL
  DEF ControlSpec

\* A server whose removal was not forced leaves the database after its Agent.
THEOREM RemovedMeansUninstalledAlways == ControlSpec => []RemovedMeansUninstalled
<1>1. HostInv => RemovedMeansUninstalled
  BY DEF HostInv
<1> QED BY <1>1, HostInvariant, PTL

\* No helper is at work without a consent the control plane has recorded.
THEOREM HelperRunsOnRecordedConsentAlways == ControlSpec => []HelperRunsOnRecordedConsent
<1>1. HostInv => HelperRunsOnRecordedConsent
  BY DEF HostInv, ConsentRecorded, Destructive, HelperRunsOnRecordedConsent
<1> QED BY <1>1, HostInvariant, PTL

\* The loss of an Agent can be seen on its server.
THEOREM LossIsVisibleAlways == ControlSpec => []LossIsVisible
<1>1. HostInv => LossIsVisible
  BY DEF HostInv
<1> QED BY <1>1, HostInvariant, PTL

\* What the control plane promises of its queue and its removals to an Agent that
\* may report anything, and confirms with the token it was given, it keeps with
\* the real one and its helper.
THEOREM QueueKeepsWithAgent ==
  ControlSpec => /\ []NoDuplicateWork /\ []CurrentTicket /\ []UninstallNeverBlocked
                 /\ OutcomesAreFinal /\ RemovalIsLifecycle /\ UninstallGoesFirst
BY Composes, NoDuplicateWorkAlways, CurrentTicketAlways, UninstallNeverBlockedAlways,
   OutcomesAreFinalAlways, Refinement, UninstallGoesFirstAlways

-----------------------------------------------------------------------------
(* The order of a removal.                                                 *)

\* HostRemoval extends the life cycle ServerTasks implements.
LEMMA SameSteps ==
  /\ Lifecycle!Request <=> Removal!Request
  /\ Lifecycle!Accept <=> Removal!Accept
  /\ Lifecycle!Fail <=> Removal!Fail
  /\ Lifecycle!Remove <=> Removal!Remove
  BY DEF Lifecycle!Request, Lifecycle!Accept, Lifecycle!Fail, Lifecycle!Remove,
     Removal!Request, Removal!Accept, Removal!Fail, Removal!Remove

\* The Agent leaves its host only when a helper runs, and a helper runs under
\* a removal that was accepted.
LEMMA LeavesInOrder ==
  ASSUME TypeOK, HostType, HostInv, ControlNext, host.installed, ~host'.installed
  PROVE  Removal!Leave
<1>1. PICK t \in TaskId : helper[t] = "running" /\ UNCHANGED vars
  BY HostKept
<1>2. host'.forced = host.forced /\ host'.installed = FALSE
  BY HostKept, HostTypeStep DEF HostType
<1>3. UNCHANGED <<DeletionPhase, server.token, Uninstalls>>
  BY <1>1 DEF vars, DeletionPhase, Uninstalls
<1>4. Destructive(t)
  BY <1>1 DEF Destructive
<1>5. ASSUME server.exists
      PROVE  /\ t \in Uninstalls /\ server.deletion # "active"
             /\ server.deletion = "pending" => server.token # t
  BY <1>1, <1>4, <1>5
     DEF HostInv, HelperServesUninstall, RequestVisible, ConsentGiven, Uninstalls
<1>6. /\ DeletionPhase # "kept"
      /\ DeletionPhase = "requested" => Uninstalls # {server.token}
  BY <1>5 DEF DeletionPhase, TypeOK, ServerRow
<1> QED BY <1>2, <1>3, <1>6 DEF Removal!Leave, Removal!dvars

\* The row of a server nobody forced out goes by the callback of a helper that
\* has cleaned up, under the ticket of the removal it accepted.
LEMMA RemovedInOrder ==
  ASSUME TypeOK, TypeOK', HostInv, ControlNext, ~ForcesDelete, Lifecycle!Remove
  PROVE  DeletionPhase = "removing" /\ ~host.installed
<1>1. server.exists /\ ~server'.exists
  <2>1. DeletionPhase # "gone" /\ DeletionPhase' = "gone"
    BY DEF Lifecycle!Remove
  <2> QED BY <2>1 DEF DeletionPhase, TypeOK, ServerRow
<1>2. PICK t \in TaskId : helper[t] = "cleaned" /\ HelperConfirms(t)
  BY <1>1, ExistenceKept
<1>3. server.token = t /\ server.deletion \in {"pending", "uninstalling"}
  BY <1>2 DEF HelperConfirms, ConfirmUninstall, InProgress
<1>4. server.deletion # "pending" /\ ~host.installed
  BY <1>1, <1>2, <1>3 DEF HostInv, ConsentGiven, Destructive, CleanedIsGone
<1> QED BY <1>1, <1>3, <1>4 DEF DeletionPhase

LEMMA RemovalStep ==
  ASSUME TypeOK, TypeOK', HostType, HostInv, [Lifecycle!DNext]_(Lifecycle!dvars),
         [ControlNext]_allVars
  PROVE  [Removal!HNext]_(Removal!hvars)
<1>1. CASE UNCHANGED allVars
  BY <1>1 DEF allVars, vars, hostVars, Removal!hvars, Removal!dvars, DeletionPhase, Uninstalls
<1>2. CASE ControlNext /\ host.installed /\ ~host'.installed
  BY <1>2, LeavesInOrder DEF Removal!HNext
<1>3. CASE ForcesDelete
  <2>1. Removal!Remove
    BY <1>3, DeleteRemoves, SameSteps DEF ForcesDelete, ForceDelete
  <2>2. host'.forced = TRUE /\ host'.installed = host.installed
    BY <1>3 DEF ForcesDelete, HostType
  <2> QED BY <2>1, <2>2 DEF Removal!HNext, Removal!Force
<1>4. CASE ControlNext /\ ~ForcesDelete /\ ~(host.installed /\ ~host'.installed)
  <2>1. UNCHANGED <<host.installed, host.forced>>
    BY <1>4, HostKept, HostTypeStep DEF HostType
  <2>2. CASE Lifecycle!Request \/ Lifecycle!Accept \/ Lifecycle!Fail
    BY <2>1, <2>2, SameSteps DEF Removal!HNext, Removal!Asked
  <2>3. CASE Lifecycle!Remove
    BY <1>4, <2>1, <2>3, RemovedInOrder, SameSteps DEF Removal!HNext, Removal!Confirm
  <2>4. CASE UNCHANGED Lifecycle!dvars
    BY <2>1, <2>4 DEF Lifecycle!dvars, Removal!hvars, Removal!dvars
  <2> QED BY <2>2, <2>3, <2>4 DEF Lifecycle!DNext
<1> QED BY <1>1, <1>2, <1>3, <1>4

\* The control plane and the Agent together keep what HostRemoval promises the
\* owner of the host.
THEOREM RemovesInOrderAlways == ControlSpec => RemovesInOrder
<1>1. ControlInit => HostType
  BY DEF ControlInit, HostType, Stage, HelperStage
<1>2. ControlInit => Removal!HInit
  BY UnusedRow DEF ControlInit, Init, Removal!HInit, Removal!DInit, DeletionPhase, Uninstalls
<1>3. ControlSpec => [][Lifecycle!DNext]_(Lifecycle!dvars)
  BY Composes, Refinement, PTL DEF RemovalIsLifecycle, Lifecycle!DSpec
<1> QED
  BY <1>1, <1>2, <1>3, HostTypeStep, RemovalStep, HostInvariant, Composes, TypeCorrect, PTL
  DEF ControlSpec, RemovesInOrder, Removal!HSpec

-----------------------------------------------------------------------------
(* Dispatch.                                                               *)

GoneIsEmpty == ~server.exists => \A t \in TaskId : tasks[t].status = "none"

LEMMA GoneIsEmptyStep ==
  ASSUME TypeOK, TypeOK', ClaimsApart, GoneIsEmpty, [Next]_vars
  PROVE  GoneIsEmpty'
<1> SUFFICES ASSUME ~server'.exists PROVE \A t \in TaskId : tasks'[t].status = "none"
  BY DEF GoneIsEmpty
<1>1. CASE DeleteServer
  BY <1>1, UnusedRow DEF DeleteServer
<1>2. CASE server.exists /\ ~DeleteServer
  <2>1. \/ \E b \in Beat : BeatStep(b)
        \/ \E c \in Call : CallStep(c)
        \/ \E t \in TaskId, outcome \in {"completed", "failed"} : ReportTask(t, outcome)
        \/ \E t \in TaskId : ConfirmUninstall(t, "failed")
        \/ TimeStep \/ Poll \/ DisableAutoUpdate \/ RequestUninstall
        \/ UNCHANGED vars
    <3>1. ~ForceDelete /\ \A t \in TaskId : ~ConfirmUninstall(t, "completed")
      BY <1>2 DEF ForceDelete, ConfirmUninstall
    <3>2. AgentStep => \/ \E t \in TaskId, outcome \in {"completed", "failed"} : ReportTask(t, outcome)
                       \/ \E t \in TaskId : ConfirmUninstall(t, "failed")
      <4> SUFFICES ASSUME NEW t \in TaskId, NEW outcome \in {"completed", "failed"},
                          ConfirmUninstall(t, outcome)
                   PROVE  ConfirmUninstall(t, "failed")
        BY DEF AgentStep
      <4> QED BY <3>1
    <3> QED BY <3>1, <3>2 DEF Next
  <2> QED BY <1>2, <2>1, ServerKept
<1>3. CASE ~server.exists
  <2>1. \A t \in TaskId : tasks[t].status = "none"
    BY <1>3 DEF GoneIsEmpty
  <2>2. ASSUME NEW S, NEW status, \A t \in S \cap TaskId : tasks[t].status # "none",
               tasks' = MoveTo(S, status)
        PROVE  \A t \in TaskId : tasks'[t].status = "none"
    BY <2>1, <2>2 DEF MoveTo, TypeOK
  <2>3. ASSUME NEW b \in Beat, BeatStep(b)
        PROVE  \A t \in TaskId : tasks'[t].status = "none"
    <3>1. CASE BeatClaims(b)
      <4>1. \A t \in beat[b].rows : tasks[t].status # "none"
        BY DEF ClaimsApart
      <4> QED BY <2>2, <3>1, <4>1 DEF BeatClaims
    <3>2. CASE BeatConfirmsVersion(b)
      BY <2>2, <3>2 DEF BeatConfirmsVersion, TasksWhere
    <3>3. CASE BeatExpires(b)
      BY <2>2, <3>3 DEF BeatExpires, OverdueInQueue, WithStatus
    <3>4. CASE BeatTimesOut(b)
      BY <2>2, <3>4 DEF BeatTimesOut, WithStatus
    <3>5. CASE BeatQueuesUpdate(b)
      BY <1>3, <2>1, <3>5 DEF BeatQueuesUpdate, InsertOrNothing
    <3> QED BY <2>1, <2>3, <3>1, <3>2, <3>3, <3>4, <3>5
            DEF BeatStep, BeatArrives, BeatConsidersUpdate, BeatLocks, BeatLost
  <2>4. ASSUME NEW c \in Call, CallStep(c)
        PROVE  \A t \in TaskId : tasks'[t].status = "none"
    <3>1. CASE CreateExpiresQueued(c) \/ CreateTimesOutRunning(c)
      BY <2>1, <3>1
      DEF CreateExpiresQueued, CreateTimesOutRunning, TasksWhere, MoveTo, TypeOK
    <3>2. CASE CreateInserts(c)
      BY <1>3, <2>1, <3>2 DEF CreateInserts, InsertOrNothing
    <3>3. CASE CancelsTask(c)
      BY <2>2, <3>3 DEF CancelsTask, Active
    <3>4. CASE CancelsUpdate(c)
      BY <2>2, <3>4 DEF CancelsUpdate, ActiveOf, Active
    <3> QED BY <1>3, <2>1, <2>4, <3>1, <3>2, <3>3, <3>4
            DEF CallStep, CallBegins, CreateChecks, EnablesAutoUpdate, CallLost
  <2>5. CASE TimeStep
    BY <1>3, <2>1, <2>5 DEF TimeStep, TaskAges, UninstallWindowCloses, GoesOffline, TypeOK, Active
  <2>6. ~AgentStep /\ ~Poll /\ ~DisableAutoUpdate /\ ~RequestUninstall /\ ~ForceDelete
    BY <1>3 DEF AgentStep, ReportTask, ConfirmUninstall, Poll, DisableAutoUpdate,
       RequestUninstall, ForceDelete
  <2>7. CASE UNCHANGED vars
    BY <2>1, <2>7 DEF vars
  <2> QED BY <2>3, <2>4, <2>5, <2>6, <2>7 DEF Next
<1> QED BY <1>1, <1>2, <1>3 DEF TypeOK, ServerRow

\* What a worker has received was claimed.
ReceivedWasClaimed ==
  \A t \in TaskId : server.exists /\ work[t] # "none" => tasks[t].status \notin {"none", "pending"}

\* A worker learns of a task from the batch of a heartbeat only.
LEMMA ReceivesBatch ==
  ASSUME HostType, ControlNext, NEW t \in TaskId,
         \/ work[t] = "none" /\ work'[t] # "none"
         \/ work'[t] = "queued" /\ work[t] # "queued"
         \/ work[t] # "none" /\ work'[t] = "none"
  PROVE  \E b \in Beat : t \in beat[b].rows /\ BeatClaims(b) /\ work'[t] = "queued"
<1>1. ASSUME NEW s \in TaskId, TaskStep(s) PROVE FALSE
  BY <1>1 DEF TaskStep, Executes, Reports, Acknowledged, NotAcknowledged, ActsAfterReport,
     ProcessEnds, ConfirmsNoHelper, HelperCleans, HelperConfirms, HelperGivesUp, HostType
<1>2. PICK b \in Beat : HeartbeatStep(b)
  BY <1>1 DEF ControlNext, ProcessDies, ProcessStarts, HostReboots, ProcessEnds, ForcesDelete,
     OwnerOrTimeStep, hostVars, HostType
<1> QED BY <1>2 DEF HeartbeatStep, hostVars, HostType

LEMMA ReceivedStep ==
  ASSUME TypeOK, TypeOK', HostType, ReceivedWasClaimed, Stands, [OutcomeStep]_vars, ControlNext
  PROVE  ReceivedWasClaimed'
<1> SUFFICES ASSUME NEW t \in TaskId, server'.exists, work'[t] # "none"
             PROVE  tasks'[t].status \notin {"none", "pending"}
  BY DEF ReceivedWasClaimed
<1>1. CASE work[t] = "none"
  <2>1. PICK b \in Beat : t \in beat[b].rows /\ BeatClaims(b)
    BY <1>1, ReceivesBatch
  <2>2. tasks' = MoveTo(beat[b].rows, "processing")
    BY <2>1 DEF BeatClaims
  <2> QED BY <2>1, <2>2, MoveToRows DEF TypeOK, Active
<1>2. CASE work[t] # "none"
  <2>1. tasks[t].status \notin {"none", "pending"}
    BY <1>2 DEF ReceivedWasClaimed, Stands
  <2>2. tasks[t] \in TaskRow /\ tasks'[t] \in TaskRow
    BY DEF TypeOK
  <2>3. tasks'[t] = tasks[t] \/ Rank(tasks'[t].status) >= Rank(tasks[t].status)
    BY DEF OutcomeStep, vars
  <2> QED BY <2>1, <2>2, <2>3 DEF Rank, TaskRow, Active, Final
<1> QED BY <1>1, <1>2

DispatchStep ==
  \A t \in TaskId :
    /\ work[t] # "none" => work'[t] # "none" /\ (work'[t] = "queued" => work[t] = "queued")
    /\ work[t] = "none" /\ work'[t] # "none" => tasks[t].status = "pending"

LEMMA DispatchesOnce ==
  ASSUME TypeOK, ClaimsApart, HostType, GoneIsEmpty, ReceivedWasClaimed, [ControlNext]_allVars
  PROVE  [DispatchStep]_allVars
<1> SUFFICES ASSUME ControlNext, NEW t \in TaskId
             PROVE  /\ work[t] # "none" => work'[t] # "none" /\ (work'[t] = "queued" => work[t] = "queued")
                    /\ work[t] = "none" /\ work'[t] # "none" => tasks[t].status = "pending"
  BY DEF DispatchStep
<1>1. \A b \in Beat : t \in beat[b].rows => tasks[t].status = "pending"
  BY DEF ClaimsApart
<1>2. tasks[t].status = "pending" => work[t] = "none"
  BY DEF GoneIsEmpty, ReceivedWasClaimed, TypeOK, ServerRow
<1> QED BY <1>1, <1>2, ReceivesBatch

\* Two heartbeats never hand out the same task, and none hands out a task that
\* is already on its way, whatever responses are lost.
THEOREM DispatchedOnceAlways == ControlSpec => DispatchedOnce
<1>1. ControlInit => HostType /\ GoneIsEmpty /\ ReceivedWasClaimed
  BY UnusedRow DEF ControlInit, Init, HostType, Stage, HelperStage, GoneIsEmpty, ReceivedWasClaimed
<1>2. ControlSpec => [][OutcomeStep]_vars
  BY Composes, OutcomesAreFinalAlways DEF OutcomesAreFinal, OutcomeStep
<1>3. ControlSpec => [][Lifecycle!DNext]_(Lifecycle!dvars)
  BY Composes, Refinement, PTL DEF RemovalIsLifecycle, Lifecycle!DSpec
<1>4. TypeOK /\ TypeOK' /\ [OutcomeStep]_vars /\ [Lifecycle!DNext]_(Lifecycle!dvars) => Stands
  BY LifecycleStands
<1>5. ControlNext => [Next]_vars
  BY ControlStep
<1>6. TypeOK /\ TypeOK' /\ ClaimsApart /\ GoneIsEmpty /\ [ControlNext]_allVars => GoneIsEmpty'
  BY <1>5, GoneIsEmptyStep DEF allVars, vars, GoneIsEmpty
<1>7. TypeOK /\ TypeOK' /\ HostType /\ ReceivedWasClaimed /\ Stands /\ [OutcomeStep]_vars
        /\ [ControlNext]_allVars => ReceivedWasClaimed'
  BY ReceivedStep DEF allVars, vars, hostVars, ReceivedWasClaimed
<1>8. ControlSpec => [][DispatchStep]_allVars
  BY <1>1, <1>2, <1>3, <1>4, <1>6, <1>7, HostTypeStep, DispatchesOnce, Composes, TypeCorrect, ClaimsApartAlways, PTL
  DEF ControlSpec
<1> QED BY <1>8 DEF DispatchedOnce, DispatchStep
=============================================================================
