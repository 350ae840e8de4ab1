----------------------- MODULE ServerTasksSteps_proofs -----------------------
(***************************************************************************)
(* What one step of ServerTasks may do, for any number of tasks, requests  *)
(* and keys: the handlers implement the life cycle of DeletionLifecycle,   *)
(* and no outcome of a task is ever taken back.                            *)
(***************************************************************************)
EXTENDS ServerTasks_proofs

-----------------------------------------------------------------------------
(* The life cycle.                                                         *)

\* Nothing the life cycle is about has changed.
SameLifecycle ==
  /\ server'.exists = server.exists
  /\ server'.deletion = server.deletion
  /\ server'.token = server.token
  /\ \A t \in TaskId :
       tasks'[t].type = "agent_uninstall" <=> tasks[t].type = "agent_uninstall"

LEMMA SameLifecycleStutters ==
  ASSUME SameLifecycle
  PROVE  UNCHANGED Lifecycle!dvars
  BY DEF SameLifecycle, Lifecycle!dvars, DeletionPhase, Uninstalls

LEMMA SameServer ==
  ASSUME UNCHANGED server,
         \A t \in TaskId : tasks'[t].type = tasks[t].type
  PROVE  SameLifecycle
  BY DEF SameLifecycle

LEMMA InsertSame ==
  ASSUME TypeOK, TicketInv, NEW type \in {"command", "agent_update"},
         NEW auto \in BOOLEAN, NEW key \in Key \cup {NoKey},
         InsertOrNothing(NewTask(type, auto, key)), UNCHANGED server
  PROVE  SameLifecycle
<1>1. CASE UNCHANGED tasks
  BY <1>1, SameServer
<1>2. CASE ~UNCHANGED tasks
  <2>1. PICK new \in TaskId :
          /\ tasks[new].type = "none"
          /\ tasks' = [tasks EXCEPT ![new] = NewTask(type, auto, key)]
    BY <1>2 DEF InsertOrNothing, WithStatus, TicketInv, RowsAreTyped
  <2>2. NewTask(type, auto, key).type = type
    BY NewTaskRow
  <2> QED BY <2>1, <2>2 DEF TypeOK, SameLifecycle
<1> QED BY <1>1, <1>2

LEMMA BeatSame ==
  ASSUME TypeOK, TicketInv, NEW b \in Beat, BeatStep(b)
  PROVE  SameLifecycle
<1>1. CASE BeatArrives(b)
  BY <1>1 DEF BeatArrives, SameLifecycle, TypeOK, ServerRow
<1>2. CASE BeatConfirmsVersion(b)
  BY <1>2, MoveToRows, SameServer DEF BeatConfirmsVersion, TypeOK, Final
<1>3. CASE BeatConsidersUpdate(b)
  BY <1>3, SameServer DEF BeatConsidersUpdate
<1>4. CASE BeatQueuesUpdate(b)
  BY <1>4, InsertSame DEF BeatQueuesUpdate
<1>5. CASE BeatExpires(b)
  BY <1>5, MoveToRows, SameServer DEF BeatExpires, TypeOK, Final
<1>6. CASE BeatTimesOut(b)
  BY <1>6, MoveToRows, SameServer DEF BeatTimesOut, TypeOK, Final
<1>7. CASE BeatClaims(b)
  BY <1>7, MoveToRows, SameServer DEF BeatClaims, TypeOK, Active
<1>8. CASE BeatLocks(b) \/ BeatLost(b)
  BY <1>8, SameServer DEF BeatLocks, BeatLost
<1> QED
  BY <1>1, <1>2, <1>3, <1>4, <1>5, <1>6, <1>7, <1>8 DEF BeatStep

LEMMA TimeSame ==
  ASSUME TypeOK, TimeStep
  PROVE  SameLifecycle
<1>1. ASSUME NEW t \in TaskId, TaskAges(t) PROVE SameLifecycle
  <2>1. \E reading : tasks' = [tasks EXCEPT ![t].clock = reading]
    BY <1>1 DEF TaskAges
  <2>2. UNCHANGED server
    BY <1>1 DEF TaskAges
  <2> QED BY <2>1, <2>2, SameServer DEF TypeOK, TaskRow
<1>2. CASE UninstallWindowCloses
  BY <1>2 DEF UninstallWindowCloses, SameLifecycle, TypeOK, TaskRow, ServerRow
<1>3. CASE GoesOffline
  BY <1>3 DEF GoesOffline, SameLifecycle, TypeOK, ServerRow
<1> QED BY <1>1, <1>2, <1>3 DEF TimeStep

\* The stale requests fail, or nothing happens.
LEMMA ExpireStaleFails ==
  ASSUME TypeOK, TicketInv, server.exists, ExpireStale
  PROVE  Lifecycle!Fail \/ UNCHANGED Lifecycle!dvars
<1>1. \A t \in TaskId : tasks'[t].type = tasks[t].type
  BY DEF ExpireStale, TypeOK, TaskRow
<1>2. CASE UNCHANGED server
  BY <1>1, <1>2, SameServer, SameLifecycleStutters
<1>3. CASE server' # server
  <2>1. server' = FailDeletion
    BY <1>3 DEF ExpireStale
  <2>2. server.deletion \in InProgress
    BY <1>3 DEF ExpireStale, StaleUninstalls, TicketInv, CurrentTicket, InProgress
  <2> QED
    BY <1>1, <2>1, <2>2, FailedRow DEF Lifecycle!Fail, InProgress, TypeOK, DeletionPhase, Uninstalls
<1> QED BY <1>2, <1>3

LEMMA DeleteRemoves ==
  ASSUME TypeOK, server.exists, DeleteServer
  PROVE  Lifecycle!Remove
<1>1. server'.exists = FALSE /\ server'.token = NoTask
  BY DEF DeleteServer, TypeOK, ServerRow
<1>2. \A t \in TaskId : tasks'[t].type = "none"
  BY UnusedRow DEF DeleteServer
<1>3. server.deletion \in {"active", "pending", "uninstalling", "failed"}
  BY DEF TypeOK, ServerRow
<1> QED BY <1>1, <1>2, <1>3 DEF Lifecycle!Remove, DeletionPhase, Uninstalls

LEMMA CallRefines ==
  ASSUME TypeOK, TicketInv, NEW c \in Call, CallStep(c)
  PROVE  Lifecycle!Fail \/ UNCHANGED Lifecycle!dvars
<1> SUFFICES ASSUME ~CallBegins(c)
             PROVE  SameLifecycle
  BY ExpireStaleFails, SameLifecycleStutters DEF CallBegins
<1>1. CASE CreateChecks(c)
  BY <1>1, SameServer DEF CreateChecks
<1>2. CASE CreateExpiresQueued(c) \/ CreateTimesOutRunning(c)
  BY <1>2, RefreshIsQuiet, SameServer
     DEF CreateExpiresQueued, CreateTimesOutRunning, QuietRows
<1>3. CASE CreateInserts(c)
  <2>1. /\ call[c].type \in {"command", "agent_update"}
        /\ call[c].key \in Key \cup {NoKey}
    BY <1>3 DEF CreateInserts, CallEnds, TypeOK, CallState, TicketInv, RowsAreTyped
  <2> QED BY <1>3, <2>1, InsertSame DEF CreateInserts
<1>4. CASE CancelsTask(c)
  BY <1>4, MoveToRows, SameServer DEF CancelsTask, TypeOK, Final
<1>5. CASE CancelsUpdate(c)
  BY <1>5, MoveToRows, SameServer DEF CancelsUpdate, TypeOK, Final
<1>6. CASE EnablesAutoUpdate(c)
  BY <1>6 DEF EnablesAutoUpdate, SameLifecycle, TypeOK, ServerRow
<1>7. CASE CallLost(c)
  BY <1>7, SameServer DEF CallLost
<1> QED
  BY <1>1, <1>2, <1>3, <1>4, <1>5, <1>6, <1>7 DEF CallStep

LEMMA ReportRefines ==
  ASSUME TypeOK, TicketInv, NEW t \in TaskId, NEW outcome \in {"completed", "failed"},
         ReportTask(t, outcome)
  PROVE  Lifecycle!Accept \/ Lifecycle!Fail \/ UNCHANGED Lifecycle!dvars
<1>1. \A s \in TaskId : tasks'[s].type = tasks[s].type
  BY MoveToRows DEF ReportTask, TypeOK, Final
<1>2. CASE tasks[t].type # "agent_uninstall"
  BY <1>1, <1>2, SameServer, SameLifecycleStutters DEF ReportTask
<1>3. CASE tasks[t].type = "agent_uninstall"
  <2>1. server.exists /\ server.deletion = "pending"
    BY <1>3 DEF ReportTask, TicketInv, CurrentTicket, ActiveOf, Active
  <2>2. CASE outcome = "completed"
    <3>1. /\ server'.deletion = "uninstalling" /\ server'.exists
          /\ server'.token = server.token
      BY <1>3, <2>1, <2>2 DEF ReportTask, TypeOK, ServerRow
    <3> QED BY <1>1, <2>1, <3>1 DEF Lifecycle!Accept, DeletionPhase, Uninstalls
  <2>3. CASE outcome = "failed"
    BY <1>1, <1>3, <2>1, <2>3, FailedRow DEF ReportTask, Lifecycle!Fail, TypeOK, DeletionPhase, Uninstalls
  <2> QED BY <2>2, <2>3
<1> QED BY <1>2, <1>3

LEMMA ConfirmRefines ==
  ASSUME TypeOK, NEW t \in TaskId, NEW outcome \in {"completed", "failed"},
         ConfirmUninstall(t, outcome)
  PROVE  Lifecycle!Fail \/ Lifecycle!Remove
<1>1. CASE outcome = "completed"
  BY <1>1, DeleteRemoves DEF ConfirmUninstall
<1>2. CASE outcome = "failed"
  <2>1. \A s \in TaskId : tasks'[s].type = tasks[s].type
    BY <1>2, MoveToRows DEF ConfirmUninstall, TypeOK, Final
  <2> QED
    BY <1>2, <2>1, FailedRow DEF ConfirmUninstall, Lifecycle!Fail, InProgress, TypeOK, DeletionPhase, Uninstalls
<1> QED BY <1>1, <1>2

LEMMA RequestRefines ==
  ASSUME TypeOK, TicketInv, RequestUninstall
  PROVE  Lifecycle!Request
<1> DEFINE swept == MoveTo(WithStatus("pending"), "expired")
           row == NewTask("agent_uninstall", FALSE, NoKey)
<1>1. PICK t \in TaskId :
        /\ tasks[t].type = "none"
        /\ tasks' = [swept EXCEPT ![t] = row]
        /\ server' = [server EXCEPT !.deletion = "pending", !.token = t,
                                    !.tokenLive = TRUE]
  BY DEF RequestUninstall, WithStatus, TicketInv, RowsAreTyped
<1>2. row.type = "agent_uninstall"
  BY NewTaskRow
<1>3. swept \in [TaskId -> TaskRow] /\ \A s \in TaskId : swept[s].type = tasks[s].type
  BY MoveToRows DEF TypeOK, Final
<1> HIDE DEF swept, row
<1>4. /\ server.exists /\ server.deletion \in {"active", "failed"}
      /\ server'.exists /\ server'.deletion = "pending" /\ server'.token = t
  BY <1>1 DEF RequestUninstall, TypeOK, ServerRow, InProgress
<1>5. \A s \in TaskId : tasks'[s].type = IF s = t THEN "agent_uninstall" ELSE tasks[s].type
  BY <1>1, <1>2, <1>3
<1> QED BY <1>1, <1>4, <1>5 DEF Lifecycle!Request, DeletionPhase, Uninstalls

\* The handlers of the control plane implement the life cycle: a removal is
\* accepted, failed and carried out only under the ticket it was requested
\* with, and a ticket is never used for a second removal.
THEOREM Refinement == Spec => RemovalIsLifecycle
<1>1. Init => Lifecycle!DInit
  BY UnusedRow DEF Init, Lifecycle!DInit, DeletionPhase, Uninstalls
<1>2. TypeOK /\ TicketInv /\ [Next]_vars => [Lifecycle!DNext]_(Lifecycle!dvars)
  <2> SUFFICES ASSUME TypeOK, TicketInv, [Next]_vars
               PROVE  Lifecycle!DNext \/ UNCHANGED Lifecycle!dvars
    OBVIOUS
  <2> USE DEF Lifecycle!DNext
  <2>1. ASSUME NEW b \in Beat, BeatStep(b) PROVE UNCHANGED Lifecycle!dvars
    BY <2>1, BeatSame, SameLifecycleStutters
  <2>2. ASSUME NEW c \in Call, CallStep(c)
        PROVE  Lifecycle!DNext \/ UNCHANGED Lifecycle!dvars
    BY <2>2, CallRefines
  <2>3. CASE AgentStep
    BY <2>3, ReportRefines, ConfirmRefines DEF AgentStep
  <2>4. CASE TimeStep
    BY <2>4, TimeSame, SameLifecycleStutters
  <2>5. CASE Poll
    BY <2>5, ExpireStaleFails DEF Poll
  <2>6. CASE DisableAutoUpdate
    <3>1. \A t \in TaskId : tasks'[t].type = tasks[t].type
      BY <2>6, MoveToRows DEF DisableAutoUpdate, TypeOK, Final
    <3>2. /\ server'.exists = server.exists /\ server'.deletion = server.deletion
          /\ server'.token = server.token
      BY <2>6 DEF DisableAutoUpdate, TypeOK, ServerRow
    <3> QED BY <3>1, <3>2, SameLifecycleStutters DEF SameLifecycle
  <2>7. CASE RequestUninstall
    BY <2>7, RequestRefines
  <2>8. CASE ForceDelete
    BY <2>8, DeleteRemoves DEF ForceDelete
  <2>9. CASE UNCHANGED vars
    BY <2>9, SameServer, SameLifecycleStutters DEF vars
  <2> QED
    BY <2>1, <2>2, <2>3, <2>4, <2>5, <2>6, <2>7, <2>8, <2>9 DEF Next
<1> QED
  BY <1>1, <1>2, TypeCorrect, TicketInvariant, PTL
  DEF Spec, RemovalIsLifecycle, Lifecycle!DSpec

-----------------------------------------------------------------------------
(* Outcomes.                                                               *)

\* A task is left alone, begins, is claimed, or comes to an end.
MovesOn(t) ==
  \/ tasks'[t] = tasks[t]
  \/ tasks[t].status = "none"
  \/ tasks[t].status = "pending" /\ tasks'[t].status \in Active \cup Final
  \/ tasks[t].status = "processing" /\ tasks'[t].status \in {"processing"} \cup Final

LEMMA MovesOnIsFinal ==
  ASSUME TypeOK, TypeOK', NEW t \in TaskId, MovesOn(t)
  PROVE  /\ Rank(tasks'[t].status) >= Rank(tasks[t].status)
         /\ tasks[t].status \in Final => tasks'[t] = tasks[t]
<1>1. \A status \in {"none"} \cup Active \cup Final : Rank(status) \in 0..3
  BY DEF Rank, Active, Final
<1>2. tasks[t] \in TaskRow /\ tasks'[t] \in TaskRow
  BY DEF TypeOK
<1> QED BY <1>1, <1>2 DEF MovesOn, Rank, Active, Final, TaskRow

LEMMA MoveToMovesOn ==
  ASSUME TypeOK, NEW S, NEW status \in Final,
         \A t \in S \cap TaskId : tasks[t].status \in Active,
         tasks' = MoveTo(S, status)
  PROVE  \A t \in TaskId : MovesOn(t)
<1> SUFFICES ASSUME NEW t \in TaskId PROVE MovesOn(t)
  OBVIOUS
<1>1. t \notin S => tasks'[t] = tasks[t]
  BY MoveToRows DEF TypeOK
<1>2. t \in S => tasks'[t].status = status /\ tasks[t].status \in Active
  BY MoveToRows DEF TypeOK
<1> QED BY <1>1, <1>2 DEF MovesOn, Active

LEMMA InsertMovesOn ==
  ASSUME TypeOK, NEW row, InsertOrNothing(row)
  PROVE  \A t \in TaskId : MovesOn(t)
  BY DEF InsertOrNothing, WithStatus, TypeOK, MovesOn

LEMMA BeatMovesOn ==
  ASSUME TypeOK, ClaimsApart, NEW b \in Beat, BeatStep(b), NEW t \in TaskId
  PROVE  MovesOn(t)
<1>1. CASE BeatConfirmsVersion(b)
  <2>1. \A s \in TasksWhere("agent_update", "processing") : tasks[s].status \in Active
    BY DEF TasksWhere, Active
  <2>2. \A s \in TaskId : MovesOn(s)
    BY <1>1, <2>1, MoveToMovesOn DEF BeatConfirmsVersion, Final
  <2> QED BY <2>2
<1>2. CASE BeatQueuesUpdate(b)
  BY <1>2, InsertMovesOn DEF BeatQueuesUpdate
<1>3. CASE BeatExpires(b)
  <2>1. \A s \in OverdueInQueue : tasks[s].status \in Active
    BY DEF OverdueInQueue, WithStatus, Active
  <2>2. \A s \in TaskId : MovesOn(s)
    BY <1>3, <2>1, MoveToMovesOn DEF BeatExpires, Final
  <2> QED BY <2>2
<1>4. CASE BeatTimesOut(b)
  <2>1. \A s \in WithStatus("processing") : tasks[s].status \in Active
    BY DEF WithStatus, Active
  <2>2. \A s \in TaskId : MovesOn(s)
    BY <1>4, <2>1, MoveToMovesOn DEF BeatTimesOut, Final
  <2> QED BY <2>2
<1>5. CASE BeatClaims(b)
  <2>1. tasks' = MoveTo(beat[b].rows, "processing")
    BY <1>5 DEF BeatClaims
  <2>2. t \in beat[b].rows => tasks[t].status = "pending"
    BY DEF ClaimsApart
  <2> QED BY <2>1, <2>2, MoveToRows DEF TypeOK, MovesOn, Active
<1>6. CASE UNCHANGED tasks
  BY <1>6 DEF MovesOn
<1> QED
  BY <1>1, <1>2, <1>3, <1>4, <1>5, <1>6
  DEF BeatStep, BeatArrives, BeatConsidersUpdate, BeatLocks, BeatLost

LEMMA ExpireStaleMovesOn ==
  ASSUME TypeOK, ExpireStale, NEW t \in TaskId
  PROVE  MovesOn(t)
<1>1. CASE t \in StaleUninstalls
  <2>1. tasks[t].status \in Active /\ tasks[t] \in TaskRow
    BY <1>1 DEF StaleUninstalls, ActiveOf, TypeOK
  <2>2. tasks'[t].status \in {"expired", "timed_out"}
    BY <1>1, <2>1 DEF ExpireStale, TaskRow
  <2> QED BY <2>1, <2>2 DEF MovesOn, Active, Final
<1>2. CASE t \notin StaleUninstalls
  BY <1>2 DEF ExpireStale, MovesOn
<1> QED BY <1>1, <1>2

LEMMA CallMovesOn ==
  ASSUME TypeOK, NEW c \in Call, CallStep(c), NEW t \in TaskId
  PROVE  MovesOn(t)
<1>1. CASE CallBegins(c)
  BY <1>1, ExpireStaleMovesOn DEF CallBegins
<1>2. CASE CreateExpiresQueued(c)
  BY <1>2, MoveToMovesOn DEF CreateExpiresQueued, TasksWhere, Active, Final
<1>7. CASE CreateTimesOutRunning(c)
  BY <1>7, MoveToMovesOn DEF CreateTimesOutRunning, TasksWhere, Active, Final
<1>3. CASE CreateInserts(c)
  BY <1>3, InsertMovesOn DEF CreateInserts
<1>4. CASE CancelsTask(c)
  BY <1>4, MoveToMovesOn DEF CancelsTask, Final
<1>5. CASE CancelsUpdate(c)
  BY <1>5, MoveToMovesOn DEF CancelsUpdate, ActiveOf, Final
<1>6. CASE UNCHANGED tasks
  BY <1>6 DEF MovesOn
<1> QED
  BY <1>1, <1>2, <1>3, <1>4, <1>5, <1>6, <1>7
  DEF CallStep, CreateChecks, EnablesAutoUpdate, CallLost

LEMMA TimeMovesOn ==
  ASSUME TypeOK, TimeStep, NEW t \in TaskId
  PROVE  MovesOn(t)
<1>1. ASSUME NEW s \in TaskId, TaskAges(s) PROVE MovesOn(t)
  <2>1. PICK reading : tasks' = [tasks EXCEPT ![s].clock = reading]
    BY <1>1 DEF TaskAges
  <2>2. tasks[s].status \in Active
    BY <1>1 DEF TaskAges
  <2>3. t # s => tasks'[t] = tasks[t]
    BY <2>1 DEF TypeOK
  <2>4. tasks'[s].status = tasks[s].status
    BY <2>1 DEF TypeOK, TaskRow
  <2> QED BY <2>2, <2>3, <2>4 DEF MovesOn, Active
<1>2. CASE UninstallWindowCloses
  BY <1>2 DEF UninstallWindowCloses, TypeOK, TaskRow, MovesOn, Active
<1>3. CASE GoesOffline
  BY <1>3 DEF GoesOffline, MovesOn
<1> QED BY <1>1, <1>2, <1>3 DEF TimeStep

LEMMA RequestMovesOn ==
  ASSUME TypeOK, RequestUninstall, NEW t \in TaskId
  PROVE  MovesOn(t)
<1> DEFINE swept == MoveTo(WithStatus("pending"), "expired")
<1>1. PICK new \in TaskId :
        /\ tasks[new].status = "none"
        /\ tasks' = [swept EXCEPT ![new] = NewTask("agent_uninstall", FALSE, NoKey)]
  BY DEF RequestUninstall, WithStatus
<1>2. /\ swept \in [TaskId -> TaskRow]
      /\ swept[t] = tasks[t] \/ (tasks[t].status = "pending" /\ swept[t].status = "expired")
  BY MoveToRows DEF WithStatus, TypeOK, Final
<1> HIDE DEF swept
<1>3. t # new => tasks'[t] = swept[t]
  BY <1>1, <1>2
<1> QED BY <1>1, <1>2, <1>3 DEF MovesOn, Final

\* No report, expiry, timeout or cancellation ever overwrites an outcome; only
\* ConfirmUninstall turns the accepted removal of its own ticket to failed.
THEOREM OutcomesAreFinalAlways == Spec => OutcomesAreFinal
<1> DEFINE Kept(t) ==
      /\ Rank(tasks'[t].status) >= Rank(tasks[t].status)
      /\ tasks[t].status \in Final =>
           \/ tasks'[t] = tasks[t]
           \/ /\ t = server.token /\ server.tokenLive
              /\ tasks'[t] = [tasks[t] EXCEPT !.status = "failed", !.clock = "fresh"]
<1>1. TypeOK /\ TypeOK' /\ ClaimsApart /\ [Next]_vars =>
        (server'.exists => \A t \in TaskId : Kept(t))
  <2> SUFFICES ASSUME TypeOK, TypeOK', ClaimsApart, [Next]_vars, server'.exists, NEW t \in TaskId
               PROVE  Kept(t)
    OBVIOUS
  <2>1. MovesOn(t) => Kept(t)
    BY MovesOnIsFinal
  <2> HIDE DEF Kept
  <2>2. ASSUME NEW b \in Beat, BeatStep(b) PROVE Kept(t)
    BY <2>1, <2>2, BeatMovesOn
  <2>3. ASSUME NEW c \in Call, CallStep(c) PROVE Kept(t)
    BY <2>1, <2>3, CallMovesOn
  <2>4. ASSUME NEW s \in TaskId, NEW outcome \in {"completed", "failed"},
               ReportTask(s, outcome)
        PROVE  Kept(t)
    <3>1. tasks[s].status \in Active
      BY <2>4 DEF ReportTask, Active
    <3>2. UNCHANGED tasks \/ tasks' = MoveTo({s}, outcome)
      BY <2>4 DEF ReportTask
    <3>3. CASE UNCHANGED tasks
      BY <2>1, <3>3 DEF MovesOn
    <3>4. CASE tasks' = MoveTo({s}, outcome)
      BY <2>1, <3>1, <3>4, MoveToMovesOn DEF Final
    <3> QED BY <3>2, <3>3, <3>4
  <2>5. ASSUME NEW s \in TaskId, NEW outcome \in {"completed", "failed"},
               ConfirmUninstall(s, outcome)
        PROVE  Kept(t)
    <3>1. ~DeleteServer
      BY DEF DeleteServer, TypeOK, ServerRow
    <3>2. /\ tasks' = MoveTo({s}, "failed")
          /\ server.token = s /\ server.tokenLive
      BY <2>5, <3>1 DEF ConfirmUninstall
    <3>3. CASE t # s
      <4>1. tasks'[t] = tasks[t]
        BY <3>2, <3>3, MoveToRows DEF TypeOK, Final
      <4> QED BY <2>1, <4>1 DEF MovesOn
    <3>4. CASE t = s
      <4>1. tasks'[t] = [tasks[t] EXCEPT !.status = "failed", !.clock = "fresh"]
        BY <3>2, <3>4 DEF MoveTo
      <4>2. tasks[t] \in TaskRow /\ tasks'[t].status = "failed"
        BY <4>1 DEF TypeOK, TaskRow
      <4>3. Rank(tasks'[t].status) >= Rank(tasks[t].status)
        BY <4>2 DEF TaskRow, Rank, Active, Final
      <4> QED BY <3>2, <3>4, <4>1, <4>3 DEF Kept
    <3> QED BY <3>3, <3>4
  <2>6. CASE TimeStep
    BY <2>1, <2>6, TimeMovesOn
  <2>7. CASE Poll
    BY <2>1, <2>7, ExpireStaleMovesOn DEF Poll
  <2>8. CASE DisableAutoUpdate
    <3>1. \A s \in QueuedByPolicy : tasks[s].status \in Active
      BY DEF QueuedByPolicy, TasksWhere, Active
    <3>2. \A s \in TaskId : MovesOn(s)
      BY <2>8, <3>1, MoveToMovesOn DEF DisableAutoUpdate, Final
    <3> QED BY <2>1, <3>2
  <2>9. CASE RequestUninstall
    BY <2>1, <2>9, RequestMovesOn
  <2>10. CASE ForceDelete
    BY <2>10 DEF ForceDelete, DeleteServer, TypeOK, ServerRow
  <2>11. CASE UNCHANGED vars
    BY <2>1, <2>11 DEF vars, MovesOn
  <2> QED
    BY <2>2, <2>3, <2>4, <2>5, <2>6, <2>7, <2>8, <2>9, <2>10, <2>11 DEF Next, AgentStep
<1> QED BY <1>1, TypeCorrect, ClaimsApartAlways, PTL DEF Spec, OutcomesAreFinal

-----------------------------------------------------------------------------
(* The order of a batch.                                                   *)

\* The batch of a heartbeat has every uninstall that waits in the queue, is
\* not due and is not in the batch of another.
THEOREM UninstallGoesFirstAlways == Spec => UninstallGoesFirst
<1> DEFINE LeavesNone ==
      \A b \in Beat : beat[b].rows = {} /\ beat'[b].rows # {} =>
        \A t \in TaskId :
          tasks[t].type = "agent_uninstall" /\ tasks[t].status = "pending" =>
            tasks[t].clock = "due" \/ \E a \in Beat : t \in beat'[a].rows
<1>1. TypeOK /\ [Next]_vars => LeavesNone
  <2> SUFFICES ASSUME TypeOK, [Next]_vars,
                      NEW b \in Beat, beat[b].rows = {}, beat'[b].rows # {},
                      NEW t \in TaskId, tasks[t].type = "agent_uninstall",
                      tasks[t].status = "pending", tasks[t].clock # "due"
               PROVE  \E a \in Beat : t \in beat'[a].rows
    OBVIOUS
  <2>1. PICK a \in Beat : BeatLocks(a)
    <3>1. ASSUME NEW c \in Beat, BeatStep(c), ~BeatLocks(c) PROVE beat'[b].rows = {}
      <4>1. ASSUME NEW from, NEW to, BeatGoes(c, from, to) PROVE beat'[b].rows = {}
        BY <4>1 DEF BeatGoes, TypeOK, BeatState
      <4>2. CASE beat' = [beat EXCEPT ![c] = Quiet]
        BY <4>2 DEF TypeOK, Quiet
      <4> QED
        BY <3>1, <4>1, <4>2 DEF BeatStep, BeatArrives, BeatConfirmsVersion,
           BeatConsidersUpdate, BeatQueuesUpdate, BeatExpires, BeatTimesOut, BeatClaims, BeatLost
    <3>2. ASSUME UNCHANGED beat PROVE FALSE
      BY <3>2
    <3> QED
      BY <3>1, <3>2 DEF Next, vars, CallStep, CallBegins, CreateChecks, CreateExpiresQueued,
         CreateTimesOutRunning, CreateInserts, CancelsTask, CancelsUpdate, EnablesAutoUpdate,
         CallLost, AgentStep, ReportTask, ConfirmUninstall, TimeStep, TaskAges,
         UninstallWindowCloses, GoesOffline, Poll, DisableAutoUpdate, RequestUninstall, ForceDelete
  <2>2. PICK S \in SUBSET Claimable :
          IsBatch(S) /\ beat' = [beat EXCEPT ![a] = [pc |-> "claiming", rows |-> S]]
    BY <2>1 DEF BeatLocks
  <2>3. a = b /\ beat'[b].rows = S /\ \A c \in Beat \ {b} : beat'[c] = beat[c]
    BY <2>2 DEF TypeOK
  <2>4. CASE \E c \in Beat : t \in beat[c].rows
    BY <2>3, <2>4
  <2>5. CASE ~\E c \in Beat : t \in beat[c].rows
    <3>1. t \in Claimable /\ t \in TasksWhere("agent_uninstall", "pending")
      BY <2>5 DEF Claimable, WithStatus, TasksWhere, Unlocked
    <3> QED BY <2>2, <2>3, <3>1 DEF IsBatch
  <2> QED BY <2>4, <2>5
<1> QED BY <1>1, TypeCorrect, PTL DEF Spec, UninstallGoesFirst
=============================================================================
