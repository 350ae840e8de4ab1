------------------------- MODULE ServerTasks_proofs -------------------------
(***************************************************************************)
(* Proofs about ServerTasks, for any number of tasks, of concurrent        *)
(* heartbeats and dashboard requests, and of idempotency keys.             *)
(***************************************************************************)
EXTENDS ServerTasks, TLAPS

-----------------------------------------------------------------------------
(* What the UPDATE statements do to the rows.                              *)

\* MoveTo yields rows again, touches only the rows of S, and keeps what they
\* are: their type, key and origin.
LEMMA MoveToRows ==
  ASSUME tasks \in [TaskId -> TaskRow],
         NEW S, NEW status \in Active \cup Final
  PROVE  /\ MoveTo(S, status) \in [TaskId -> TaskRow]
         /\ \A t \in TaskId :
              /\ MoveTo(S, status)[t].type = tasks[t].type
              /\ MoveTo(S, status)[t].key = tasks[t].key
              /\ t \in S => MoveTo(S, status)[t].status = status
              /\ t \notin S => MoveTo(S, status)[t] = tasks[t]
  BY DEF MoveTo, TaskRow, Active, Final

LEMMA NewTaskRow ==
  ASSUME NEW type \in {"command", "agent_update", "agent_uninstall"},
         NEW auto \in BOOLEAN, NEW key \in Key \cup {NoKey}
  PROVE  /\ NewTask(type, auto, key) \in TaskRow
         /\ NewTask(type, auto, key).type = type
         /\ NewTask(type, auto, key).status = "pending"
         /\ NewTask(type, auto, key).key = key
  BY DEF NewTask, TaskRow, Active

LEMMA UnusedRow ==
  Unused \in TaskRow /\ Unused.type = "none" /\ Unused.status = "none" /\ Unused.key = NoKey
  BY DEF Unused, TaskRow

LEMMA FailedRow ==
  ASSUME server \in ServerRow
  PROVE  /\ FailDeletion \in ServerRow
         /\ FailDeletion.deletion = "failed" /\ FailDeletion.token = NoTask
         /\ FailDeletion.tokenLive = FALSE /\ FailDeletion.exists = server.exists
  BY DEF FailDeletion, ServerRow

-----------------------------------------------------------------------------
(* Types.                                                                  *)

LEMMA InsertType ==
  ASSUME TypeOK, NEW row \in TaskRow, InsertOrNothing(row)
  PROVE  tasks' \in [TaskId -> TaskRow]
  BY DEF InsertOrNothing, TypeOK, WithStatus

LEMMA ExpireStaleType ==
  ASSUME TypeOK, ExpireStale
  PROVE  server' \in ServerRow /\ tasks' \in [TaskId -> TaskRow]
<1>1. server' \in ServerRow
  BY FailedRow DEF TypeOK, ExpireStale
<1>2. ASSUME NEW t \in TaskId
      PROVE  [tasks[t] EXCEPT !.clock = "fresh",
                !.status = IF @ = "pending" THEN "expired" ELSE "timed_out"] \in TaskRow
  BY DEF TypeOK, TaskRow, Final
<1>3. tasks' \in [TaskId -> TaskRow]
  BY <1>2 DEF TypeOK, ExpireStale
<1> QED BY <1>1, <1>3

LEMMA BeatType ==
  ASSUME TypeOK, NEW b \in Beat, BeatStep(b)
  PROVE  TypeOK'
<1> USE DEF TypeOK
<1>0. ASSUME NEW from,
             NEW to \in {"confirm", "queue", "insert", "expire", "timeout", "claim"},
             BeatGoes(b, from, to)
      PROVE  beat' \in [Beat -> BeatState]
  BY <1>0 DEF BeatGoes, BeatState
<1>1. CASE BeatArrives(b)
  BY <1>0, <1>1 DEF BeatArrives, ServerRow
<1>2. CASE BeatConfirmsVersion(b)
  BY <1>0, <1>2, MoveToRows DEF BeatConfirmsVersion, Final
<1>3. CASE BeatConsidersUpdate(b)
  BY <1>0, <1>3 DEF BeatConsidersUpdate
<1>4. CASE BeatQueuesUpdate(b)
  BY <1>0, <1>4, NewTaskRow, InsertType DEF BeatQueuesUpdate
<1>5. CASE BeatExpires(b)
  BY <1>0, <1>5, MoveToRows DEF BeatExpires, Final
<1>6. CASE BeatTimesOut(b)
  BY <1>0, <1>6, MoveToRows DEF BeatTimesOut, Final
<1>7. CASE BeatLocks(b)
  <2>1. Claimable \subseteq TaskId
    BY DEF Claimable, WithStatus
  <2> QED BY <1>7, <2>1 DEF BeatLocks, BeatState
<1>8. CASE BeatClaims(b)
  BY <1>8, MoveToRows DEF BeatClaims, BeatState, Quiet, Active
<1>9. CASE BeatLost(b)
  BY <1>9 DEF BeatLost, BeatState, Quiet
<1> QED
  BY <1>1, <1>2, <1>3, <1>4, <1>5, <1>6, <1>7, <1>8, <1>9 DEF BeatStep

LEMMA CallType ==
  ASSUME TypeOK, NEW c \in Call, CallStep(c)
  PROVE  TypeOK'
<1> USE DEF TypeOK
<1>1. Idle \in CallState
  BY DEF Idle, CallState
<1>2. CASE CallBegins(c)
  <2>1. server' \in ServerRow /\ tasks' \in [TaskId -> TaskRow]
    BY <1>2, ExpireStaleType DEF CallBegins
  <2>2. \E new \in CallState : call' = [call EXCEPT ![c] = new]
    <3>1. ASSUME NEW type \in {"command", "agent_update"}, NEW key \in Key \cup {NoKey}
          PROVE  [Idle EXCEPT !.pc = "check", !.type = type, !.key = key] \in CallState
      BY DEF Idle, CallState
    <3>2. ASSUME NEW t \in TaskId
          PROVE  [Idle EXCEPT !.pc = "cancel", !.task = t] \in CallState
      BY DEF Idle, CallState
    <3>3. /\ [Idle EXCEPT !.pc = "cancel-update"] \in CallState
          /\ [Idle EXCEPT !.pc = "enable"] \in CallState
      BY DEF Idle, CallState
    <3> QED BY <1>2, <3>1, <3>2, <3>3 DEF CallBegins
  <2> QED BY <1>2, <2>1, <2>2 DEF CallBegins
<1>3. CASE CreateChecks(c)
  BY <1>1, <1>3 DEF CreateChecks, CallGoes, CallEnds, CallState
<1>4. CASE CreateExpiresQueued(c)
  <2>1. call' \in [Call -> CallState]
    BY <1>4 DEF CreateExpiresQueued, CallGoes, CallState
  <2> QED BY <1>4, <2>1, MoveToRows DEF CreateExpiresQueued, Final
<1>10. CASE CreateTimesOutRunning(c)
  <2>1. call' \in [Call -> CallState]
    BY <1>10 DEF CreateTimesOutRunning, CallGoes, CallState
  <2> QED BY <1>10, <2>1, MoveToRows DEF CreateTimesOutRunning, Final
<1>5. CASE CreateInserts(c)
  <2>1. call[c].pc = "insert" /\ call[c].key \in Key \cup {NoKey}
    BY <1>5 DEF CreateInserts, CallEnds, CallState
  <2>2. NewTask(call[c].type, FALSE, call[c].key) \in TaskRow
    BY <2>1 DEF NewTask, TaskRow, Active, CallState
  <2>3. call' \in [Call -> CallState]
    BY <1>1, <1>5 DEF CreateInserts, CallEnds
  <2> QED BY <1>5, <2>2, <2>3, InsertType DEF CreateInserts
<1>6. CASE CancelsTask(c)
  BY <1>1, <1>6, MoveToRows DEF CancelsTask, CallEnds, Final
<1>7. CASE CancelsUpdate(c)
  BY <1>1, <1>7, MoveToRows DEF CancelsUpdate, CallEnds, Final
<1>8. CASE EnablesAutoUpdate(c)
  BY <1>1, <1>8 DEF EnablesAutoUpdate, CallEnds, ServerRow
<1>9. CASE CallLost(c)
  BY <1>1, <1>9 DEF CallLost
<1> QED
  BY <1>2, <1>3, <1>4, <1>5, <1>6, <1>7, <1>8, <1>9, <1>10 DEF CallStep

LEMMA DeleteType ==
  ASSUME TypeOK, DeleteServer
  PROVE  server' \in ServerRow /\ tasks' \in [TaskId -> TaskRow]
  BY UnusedRow DEF TypeOK, DeleteServer, ServerRow

LEMMA AgentType ==
  ASSUME TypeOK, NEW t \in TaskId, NEW outcome \in {"completed", "failed"},
         ReportTask(t, outcome) \/ ConfirmUninstall(t, outcome)
  PROVE  TypeOK'
<1> USE DEF TypeOK
<1>1. CASE ReportTask(t, outcome)
  <2>1. server' \in ServerRow
    BY <1>1, FailedRow DEF ReportTask, ServerRow
  <2>2. tasks' \in [TaskId -> TaskRow]
    BY <1>1, MoveToRows DEF ReportTask, Final
  <2> QED BY <1>1, <2>1, <2>2 DEF ReportTask
<1>2. CASE ConfirmUninstall(t, outcome)
  <2>1. server' \in ServerRow /\ tasks' \in [TaskId -> TaskRow]
    BY <1>2, DeleteType, FailedRow, MoveToRows DEF ConfirmUninstall, Final
  <2> QED BY <1>2, <2>1 DEF ConfirmUninstall
<1> QED BY <1>1, <1>2

LEMMA TimeType ==
  ASSUME TypeOK, TimeStep
  PROVE  TypeOK'
<1> USE DEF TypeOK
<1>1. ASSUME NEW t \in TaskId, TaskAges(t) PROVE TypeOK'
  <2>1. \E reading \in {"aged", "due"} :
          tasks' = [tasks EXCEPT ![t].clock = reading]
    BY <1>1 DEF TaskAges
  <2> QED BY <1>1, <2>1 DEF TaskAges, TaskRow
<1>2. CASE UninstallWindowCloses
  <2>1. server' \in ServerRow
    BY <1>2 DEF UninstallWindowCloses, ServerRow
  <2>2. \A t \in TaskId : [tasks[t] EXCEPT !.clock = "due"] \in TaskRow
    BY DEF TaskRow
  <2>3. tasks' \in [TaskId -> TaskRow]
    BY <1>2, <2>2 DEF UninstallWindowCloses
  <2> QED BY <1>2, <2>1, <2>3 DEF UninstallWindowCloses
<1>3. CASE GoesOffline
  BY <1>3 DEF GoesOffline, ServerRow
<1> QED BY <1>1, <1>2, <1>3 DEF TimeStep

\* Type correctness of the specification.
THEOREM TypeCorrect == Spec => []TypeOK
<1>1. Init => TypeOK
  <2> SUFFICES ASSUME Init PROVE TypeOK
    OBVIOUS
  <2>1. Idle \in CallState
    BY DEF Idle, CallState
  <2>2. server \in ServerRow
    BY DEF Init, ServerRow
  <2>3. Quiet \in BeatState
    BY DEF Quiet, BeatState
  <2> QED BY UnusedRow, <2>1, <2>2, <2>3 DEF Init, TypeOK
<1>2. TypeOK /\ [Next]_vars => TypeOK'
  <2> SUFFICES ASSUME TypeOK, [Next]_vars PROVE TypeOK'
    OBVIOUS
  <2>1. ASSUME NEW b \in Beat, BeatStep(b) PROVE TypeOK'
    BY <2>1, BeatType
  <2>2. ASSUME NEW c \in Call, CallStep(c) PROVE TypeOK'
    BY <2>2, CallType
  <2>3. CASE AgentStep
    BY <2>3, AgentType DEF AgentStep
  <2>4. CASE TimeStep
    BY <2>4, TimeType
  <2>5. CASE Poll
    BY <2>5, ExpireStaleType DEF Poll, TypeOK
  <2>6. CASE DisableAutoUpdate
    BY <2>6, MoveToRows DEF DisableAutoUpdate, TypeOK, ServerRow, Final
  <2>7. CASE RequestUninstall
    <3>1. MoveTo(WithStatus("pending"), "expired") \in [TaskId -> TaskRow]
      BY MoveToRows DEF TypeOK, Final
    <3>2. NewTask("agent_uninstall", FALSE, NoKey) \in TaskRow
      BY NewTaskRow
    <3>3. PICK t \in TaskId :
            /\ tasks' = [MoveTo(WithStatus("pending"), "expired")
                           EXCEPT ![t] = NewTask("agent_uninstall", FALSE, NoKey)]
            /\ server' = [server EXCEPT !.deletion = "pending", !.token = t,
                                        !.tokenLive = TRUE]
      BY <2>7 DEF RequestUninstall, WithStatus
    <3>4. server' \in ServerRow
      BY <3>3 DEF TypeOK, ServerRow
    <3>5. tasks' \in [TaskId -> TaskRow]
      BY <3>1, <3>2, <3>3
    <3> QED BY <2>7, <3>4, <3>5 DEF RequestUninstall, TypeOK
  <2>8. CASE ForceDelete
    BY <2>8, DeleteType DEF ForceDelete, TypeOK
  <2>9. CASE UNCHANGED vars
    BY <2>9 DEF vars, TypeOK
  <2> QED
    BY <2>1, <2>2, <2>3, <2>4, <2>5, <2>6, <2>7, <2>8, <2>9 DEF Next
<1> QED BY <1>1, <1>2, PTL DEF Spec

-----------------------------------------------------------------------------
(* Claims.  A row one of them holds is queued, and stays so until the claim  *)
(* itself moves it: whoever else would write it waits.                     *)

HeldStayQueued ==
  \A b \in Beat : \A t \in beat[b].rows : tasks'[t].status = "pending"

LEMMA ClaimsStayApart ==
  ASSUME ClaimsApart, HeldStayQueued,
         \A b \in Beat : beat'[b].rows \subseteq beat[b].rows
  PROVE  ClaimsApart'
  BY DEF ClaimsApart, HeldStayQueued

LEMMA HeldAreRows ==
  ASSUME TypeOK, NEW b \in Beat
  PROVE  beat[b].rows \subseteq TaskId
  BY DEF TypeOK, BeatState

LEMMA SameRowsAreHeld ==
  ASSUME ClaimsApart, UNCHANGED tasks PROVE HeldStayQueued
  BY DEF ClaimsApart, HeldStayQueued

LEMMA MoveToWaits ==
  ASSUME TypeOK, ClaimsApart, NEW S, NEW status \in Active \cup Final,
         Unlocked(S) \/ \A t \in S \cap TaskId : tasks[t].status # "pending",
         tasks' = MoveTo(S, status)
  PROVE  HeldStayQueued
<1> SUFFICES ASSUME NEW b \in Beat, NEW t \in beat[b].rows
             PROVE  tasks'[t].status = "pending"
  BY DEF HeldStayQueued
<1>1. t \in TaskId /\ tasks[t].status = "pending"
  BY HeldAreRows DEF ClaimsApart
<1>2. t \notin S
  BY <1>1 DEF Unlocked
<1> QED BY <1>1, <1>2, MoveToRows DEF TypeOK

LEMMA InsertWaits ==
  ASSUME TypeOK, ClaimsApart, NEW row, InsertOrNothing(row)
  PROVE  HeldStayQueued
<1> SUFFICES ASSUME NEW b \in Beat, NEW t \in beat[b].rows
             PROVE  tasks'[t].status = "pending"
  BY DEF HeldStayQueued
<1>1. t \in TaskId /\ tasks[t].status = "pending"
  BY HeldAreRows DEF ClaimsApart
<1> QED BY <1>1 DEF InsertOrNothing, WithStatus, TypeOK

LEMMA ExpireStaleWaits ==
  ASSUME TypeOK, ClaimsApart, ExpireStale
  PROVE  HeldStayQueued
<1> SUFFICES ASSUME NEW b \in Beat, NEW t \in beat[b].rows
             PROVE  tasks'[t].status = "pending"
  BY DEF HeldStayQueued
<1>1. t \in TaskId /\ tasks[t].status = "pending"
  BY HeldAreRows DEF ClaimsApart
<1>2. t \notin StaleUninstalls
  BY DEF ExpireStale, Unlocked
<1> QED BY <1>1, <1>2 DEF ExpireStale

LEMMA DeleteWaits ==
  ASSUME TypeOK, DeleteServer
  PROVE  HeldStayQueued
  BY HeldAreRows DEF DeleteServer, Unlocked, HeldStayQueued

LEMMA BeatApart ==
  ASSUME TypeOK, ClaimsApart, NEW b \in Beat, BeatStep(b)
  PROVE  ClaimsApart'
<1>0. ASSUME NEW from, NEW to, BeatGoes(b, from, to), HeldStayQueued
      PROVE  ClaimsApart'
  BY <1>0, ClaimsStayApart DEF BeatGoes, TypeOK, BeatState
<1>1. CASE BeatArrives(b)
  BY <1>0, <1>1, SameRowsAreHeld DEF BeatArrives
<1>2. CASE BeatConfirmsVersion(b)
  <2>1. HeldStayQueued
    BY <1>2, MoveToWaits DEF BeatConfirmsVersion, TasksWhere, Final
  <2> QED BY <1>0, <1>2, <2>1 DEF BeatConfirmsVersion
<1>3. CASE BeatConsidersUpdate(b)
  BY <1>0, <1>3, SameRowsAreHeld DEF BeatConsidersUpdate
<1>4. CASE BeatQueuesUpdate(b)
  BY <1>0, <1>4, InsertWaits DEF BeatQueuesUpdate
<1>5. CASE BeatExpires(b)
  <2>1. HeldStayQueued
    BY <1>5, MoveToWaits DEF BeatExpires, Final
  <2> QED BY <1>0, <1>5, <2>1 DEF BeatExpires
<1>6. CASE BeatTimesOut(b)
  <2>1. HeldStayQueued
    BY <1>6, MoveToWaits DEF BeatTimesOut, WithStatus, Final
  <2> QED BY <1>0, <1>6, <2>1 DEF BeatTimesOut
<1>7. CASE BeatLocks(b)
  <2>1. PICK S \in SUBSET Claimable :
          beat' = [beat EXCEPT ![b] = [pc |-> "claiming", rows |-> S]]
    BY <1>7 DEF BeatLocks
  <2>2. \A t \in S : tasks[t].status = "pending" /\ \A a \in Beat : t \notin beat[a].rows
    BY DEF Claimable, WithStatus, Unlocked
  <2>3. UNCHANGED tasks
    BY <1>7 DEF BeatLocks
  <2>4. beat'[b].rows = S /\ \A a \in Beat \ {b} : beat'[a] = beat[a]
    BY <2>1 DEF TypeOK
  <2> QED BY <2>2, <2>3, <2>4 DEF ClaimsApart
<1>8. CASE BeatClaims(b)
  <2>1. tasks' = MoveTo(beat[b].rows, "processing")
    BY <1>8 DEF BeatClaims
  <2>2. beat'[b].rows = {} /\ \A a \in Beat \ {b} : beat'[a] = beat[a]
    BY <1>8 DEF BeatClaims, Quiet, TypeOK
  <2>3. ASSUME NEW a \in Beat \ {b}, NEW t \in beat[a].rows
        PROVE  tasks'[t].status = "pending"
    <3>1. t \in TaskId /\ tasks[t].status = "pending" /\ t \notin beat[b].rows
      BY HeldAreRows DEF ClaimsApart
    <3> QED BY <2>1, <3>1, MoveToRows DEF TypeOK, Active
  <2> QED BY <2>2, <2>3 DEF ClaimsApart
<1>9. CASE BeatLost(b)
  BY <1>9, SameRowsAreHeld, ClaimsStayApart DEF BeatLost, Quiet, TypeOK
<1> QED
  BY <1>1, <1>2, <1>3, <1>4, <1>5, <1>6, <1>7, <1>8, <1>9 DEF BeatStep

LEMMA CallWaits ==
  ASSUME TypeOK, ClaimsApart, NEW c \in Call, CallStep(c)
  PROVE  HeldStayQueued /\ UNCHANGED beat
<1>1. CASE CallBegins(c)
  BY <1>1, ExpireStaleWaits DEF CallBegins
<1>2. CASE CreateChecks(c) \/ EnablesAutoUpdate(c) \/ CallLost(c)
  BY <1>2, SameRowsAreHeld DEF CreateChecks, EnablesAutoUpdate, CallLost
<1>3. CASE CreateExpiresQueued(c)
  BY <1>3, MoveToWaits DEF CreateExpiresQueued, Final
<1>4. CASE CreateTimesOutRunning(c)
  BY <1>4, MoveToWaits DEF CreateTimesOutRunning, TasksWhere, Final
<1>5. CASE CreateInserts(c)
  BY <1>5, InsertWaits DEF CreateInserts
<1>6. CASE CancelsTask(c)
  <2>1. Unlocked({t \in {call[c].task} : tasks[t].status \in Active})
    BY <1>6 DEF CancelsTask, Unlocked
  <2> QED BY <1>6, <2>1, MoveToWaits DEF CancelsTask, Final
<1>7. CASE CancelsUpdate(c)
  BY <1>7, MoveToWaits DEF CancelsUpdate, Final
<1> QED
  BY <1>1, <1>2, <1>3, <1>4, <1>5, <1>6, <1>7 DEF CallStep

LEMMA AgentWaits ==
  ASSUME TypeOK, ClaimsApart, NEW t \in TaskId, NEW outcome \in {"completed", "failed"},
         ReportTask(t, outcome) \/ ConfirmUninstall(t, outcome)
  PROVE  HeldStayQueued /\ UNCHANGED beat
<1>1. CASE ReportTask(t, outcome)
  BY <1>1, MoveToWaits, SameRowsAreHeld DEF ReportTask, Final
<1>2. CASE ConfirmUninstall(t, outcome)
  BY <1>2, MoveToWaits, DeleteWaits DEF ConfirmUninstall, Final
<1> QED BY <1>1, <1>2

LEMMA TimeWaits ==
  ASSUME TypeOK, ClaimsApart, TimeStep
  PROVE  HeldStayQueued /\ UNCHANGED beat
<1>1. ASSUME NEW s \in TaskId, TaskAges(s) PROVE HeldStayQueued /\ UNCHANGED beat
  <2>1. PICK reading : tasks' = [tasks EXCEPT ![s].clock = reading]
    BY <1>1 DEF TaskAges
  <2>2. \A t \in TaskId : tasks'[t].status = tasks[t].status
    BY <2>1 DEF TypeOK, TaskRow
  <2> QED BY <1>1, <2>2, HeldAreRows DEF TaskAges, ClaimsApart, HeldStayQueued
<1>2. CASE UninstallWindowCloses
  <2>1. \A t \in TaskId : tasks'[t].status = tasks[t].status
    BY <1>2 DEF UninstallWindowCloses, TypeOK, TaskRow
  <2> QED BY <1>2, <2>1, HeldAreRows DEF UninstallWindowCloses, ClaimsApart, HeldStayQueued
<1>3. CASE GoesOffline
  BY <1>3, SameRowsAreHeld DEF GoesOffline
<1> QED BY <1>1, <1>2, <1>3 DEF TimeStep

LEMMA RequestWaits ==
  ASSUME TypeOK, ClaimsApart, RequestUninstall
  PROVE  HeldStayQueued /\ UNCHANGED beat
<1>1. ASSUME NEW b \in Beat PROVE beat[b].rows = {}
  BY HeldAreRows DEF RequestUninstall, Unlocked, ClaimsApart, WithStatus
<1> QED BY <1>1 DEF RequestUninstall, HeldStayQueued

\* SKIP LOCKED keeps two claims of one queue apart, and every other statement
\* waits for them.
THEOREM ClaimsApartAlways == Spec => []ClaimsApart
<1>1. Init => ClaimsApart
  BY DEF Init, ClaimsApart, Quiet
<1>2. TypeOK /\ ClaimsApart /\ [Next]_vars => ClaimsApart'
  <2> SUFFICES ASSUME TypeOK, ClaimsApart, [Next]_vars PROVE ClaimsApart'
    OBVIOUS
  <2>1. ASSUME HeldStayQueued, UNCHANGED beat PROVE ClaimsApart'
    BY <2>1, ClaimsStayApart
  <2>2. ASSUME NEW b \in Beat, BeatStep(b) PROVE ClaimsApart'
    BY <2>2, BeatApart
  <2>3. ASSUME NEW c \in Call, CallStep(c) PROVE ClaimsApart'
    BY <2>1, <2>3, CallWaits
  <2>4. CASE AgentStep
    BY <2>1, <2>4, AgentWaits DEF AgentStep
  <2>5. CASE TimeStep
    BY <2>1, <2>5, TimeWaits
  <2>6. CASE Poll
    BY <2>1, <2>6, ExpireStaleWaits DEF Poll
  <2>7. CASE DisableAutoUpdate
    BY <2>1, <2>7, MoveToWaits DEF DisableAutoUpdate, Final
  <2>8. CASE RequestUninstall
    BY <2>1, <2>8, RequestWaits
  <2>9. CASE ForceDelete
    BY <2>1, <2>9, DeleteWaits DEF ForceDelete
  <2>10. CASE UNCHANGED vars
    BY <2>1, <2>10, SameRowsAreHeld DEF vars
  <2> QED
    BY <2>2, <2>3, <2>4, <2>5, <2>6, <2>7, <2>8, <2>9, <2>10 DEF Next
<1> QED BY <1>1, <1>2, TypeCorrect, PTL DEF Spec

-----------------------------------------------------------------------------
(* The ticket invariant.  Most steps are quiet: they leave the deletion    *)
(* columns alone and move tasks forward.  What is left are the insertion   *)
(* of a row and the five transactions that write both tables.              *)

\* A step that changes no deletion column, no type and no key, makes no task
\* active and no completed task anything else.
QuietRows ==
  \A t \in TaskId :
    /\ tasks'[t].type = tasks[t].type
    /\ tasks'[t].key = tasks[t].key
    /\ tasks'[t].status \in Active => tasks[t].status \in Active
    /\ tasks[t].status = "completed" => tasks'[t].status = "completed"
    /\ tasks[t].status = "none" <=> tasks'[t].status = "none"

QuietServer ==
  /\ server'.deletion = server.deletion
  /\ server'.token = server.token
  /\ server'.tokenLive => server.tokenLive

QuietCalls ==
  \A c \in Call :
    call'[c].pc \in {"check", "refresh", "refresh-running", "insert"} =>
      call'[c].type # "none"

LEMMA QuietStep ==
  ASSUME TypeOK, TicketInv, QuietRows, QuietServer, QuietCalls
  PROVE  TicketInv'
<1>1. \A type : ActiveOf(type)' \subseteq ActiveOf(type)
  BY DEF ActiveOf, QuietRows
<1>2. CurrentTicket'
  <2> USE DEF TicketInv, CurrentTicket, QuietServer
  <2>1. (server.token = NoTask <=> server.deletion \notin InProgress)'
    BY DEF InProgress
  <2>2. (server.tokenLive => server.token # NoTask)'
    OBVIOUS
  <2>3. (server.token # NoTask => tasks[server.token].type = "agent_uninstall")'
    BY DEF TypeOK, ServerRow, QuietRows
  <2>4. (\A t \in ActiveOf("agent_uninstall") :
           server.token = t /\ server.deletion = "pending")'
    BY <1>1
  <2>5. (server.deletion = "uninstalling" => tasks[server.token].status = "completed")'
    <3>1. server.deletion = "uninstalling" => server.token \in TaskId
      BY DEF TypeOK, ServerRow, InProgress
    <3> QED BY <3>1 DEF QuietRows
  <2> QED BY <2>1, <2>2, <2>3, <2>4, <2>5
<1>3. NoDuplicateWork'
  BY <1>1 DEF TicketInv, NoDuplicateWork, QuietRows
<1>4. RowsAreTyped'
  BY DEF TicketInv, RowsAreTyped, QuietRows, QuietCalls
<1> QED BY <1>2, <1>3, <1>4 DEF TicketInv

\* Every UPDATE of active rows is quiet.
LEMMA MoveToIsQuiet ==
  ASSUME TypeOK, NEW S, NEW status \in Active \cup Final,
         \A t \in S \cap TaskId : tasks[t].status \in Active,
         tasks' = MoveTo(S, status)
  PROVE  QuietRows
<1> SUFFICES ASSUME NEW t \in TaskId
             PROVE  /\ tasks'[t].type = tasks[t].type
                    /\ tasks'[t].key = tasks[t].key
                    /\ tasks'[t].status \in Active => tasks[t].status \in Active
                    /\ tasks[t].status = "completed" => tasks'[t].status = "completed"
                    /\ tasks[t].status = "none" <=> tasks'[t].status = "none"
  BY DEF QuietRows
<1>1. tasks[t] \in TaskRow
  BY DEF TypeOK
<1>2. CASE t \in S
  <2>1. /\ tasks[t].status \in Active
        /\ tasks'[t].type = tasks[t].type /\ tasks'[t].key = tasks[t].key
        /\ tasks'[t].status = status
    BY <1>2, MoveToRows DEF TypeOK
  <2> QED BY <2>1 DEF Active, Final
<1>3. CASE t \notin S
  BY <1>3, MoveToRows DEF TypeOK
<1> QED BY <1>2, <1>3

LEMMA SameRowsAreQuiet ==
  ASSUME UNCHANGED tasks PROVE QuietRows
  BY DEF QuietRows

LEMMA SameServerIsQuiet ==
  ASSUME UNCHANGED server PROVE QuietServer
  BY DEF QuietServer

\* A request that goes on keeps what it was asked.
LEMMA QuietCall ==
  ASSUME TypeOK, TicketInv, NEW c \in Call,
         \/ UNCHANGED call
         \/ call' = [call EXCEPT ![c] = Idle]
         \/ /\ call[c].pc \in {"check", "refresh", "refresh-running"}
            /\ \E to : call' = [call EXCEPT ![c].pc = to]
  PROVE  QuietCalls
  BY DEF TypeOK, CallState, TicketInv, RowsAreTyped, QuietCalls, Idle

LEMMA InsertStep ==
  ASSUME TypeOK, TicketInv, NEW type \in {"command", "agent_update"},
         NEW auto \in BOOLEAN, NEW key \in Key \cup {NoKey},
         InsertOrNothing(NewTask(type, auto, key)), UNCHANGED server, QuietCalls
  PROVE  TicketInv'
<1> DEFINE row == NewTask(type, auto, key)
<1>1. CASE UNCHANGED tasks
  BY <1>1, QuietStep, SameRowsAreQuiet, SameServerIsQuiet
<1>2. CASE ~UNCHANGED tasks
  <2>1. PICK new \in TaskId :
          /\ tasks[new].status = "none" /\ tasks[new].type = "none"
          /\ tasks' = [tasks EXCEPT ![new] = row]
    BY <1>2 DEF InsertOrNothing, WithStatus, TicketInv, RowsAreTyped
  <2>2. ~Conflicts(row)
    BY <1>2 DEF InsertOrNothing
  <2>3. /\ row.type = type /\ row.status = "pending" /\ row.key = key
        /\ tasks'[new] = row
        /\ \A t \in TaskId \ {new} : tasks'[t] = tasks[t]
    BY <2>1, NewTaskRow DEF TypeOK
  <2>4. ActiveOf("agent_uninstall")' = ActiveOf("agent_uninstall")
    BY <2>1, <2>3 DEF ActiveOf, Active
  <2>5. CurrentTicket'
    BY <2>1, <2>3, <2>4 DEF TypeOK, ServerRow, TicketInv, CurrentTicket, InProgress
  <2>6. ActiveOf("agent_update")' =
          IF type = "agent_update" THEN {new} ELSE ActiveOf("agent_update")
    BY <2>1, <2>2, <2>3 DEF ActiveOf, Active, Conflicts
  <2>7. \A kind \in {"agent_update", "agent_uninstall"}, s, t \in TaskId :
          {s, t} \subseteq ActiveOf(kind)' => s = t
    BY <2>4, <2>6 DEF TicketInv, NoDuplicateWork
  <2>8. \A s, t \in TaskId : tasks'[s].key = tasks'[t].key /\ tasks'[s].key # NoKey => s = t
    BY <2>2, <2>3 DEF Conflicts, TicketInv, NoDuplicateWork
  <2>9. NoDuplicateWork'
    BY <2>7, <2>8 DEF NoDuplicateWork
  <2>10. RowsAreTyped'
    BY <2>1, <2>3 DEF TicketInv, RowsAreTyped, QuietCalls
  <2> QED BY <2>5, <2>9, <2>10 DEF TicketInv
<1> QED BY <1>1, <1>2

\* The transactions that settle the removal: the only active uninstall there
\* can be is that of the token, so none is left when the deletion fails.
LEMMA FailStep ==
  ASSUME TypeOK, TicketInv, QuietCalls, server' = FailDeletion, QuietRows,
         \A t \in ActiveOf("agent_uninstall") : tasks'[t].status \notin Active
  PROVE  TicketInv'
<1>1. \A type : ActiveOf(type)' \subseteq ActiveOf(type)
  BY DEF ActiveOf, QuietRows
<1>2. ActiveOf("agent_uninstall")' = {}
  BY <1>1 DEF ActiveOf
<1>3. CurrentTicket'
  BY <1>2, FailedRow DEF TypeOK, CurrentTicket, InProgress
<1>4. NoDuplicateWork'
  BY <1>1 DEF TicketInv, NoDuplicateWork, QuietRows
<1>5. RowsAreTyped'
  BY DEF TicketInv, RowsAreTyped, QuietRows, QuietCalls
<1> QED BY <1>3, <1>4, <1>5 DEF TicketInv

\* ConfirmUninstall alone may turn a completed task to failed: its own.
LEMMA ConfirmFailedStep ==
  ASSUME TypeOK, TicketInv, NEW t \in TaskId, ConfirmUninstall(t, "failed")
  PROVE  TicketInv'
<1>1. /\ server.token = t /\ tasks[t].type = "agent_uninstall"
      /\ server' = FailDeletion /\ tasks' = MoveTo({t}, "failed")
      /\ UNCHANGED call
  BY DEF ConfirmUninstall
<1>2. /\ tasks'[t].type = tasks[t].type /\ tasks'[t].key = tasks[t].key
      /\ tasks'[t].status = "failed"
      /\ \A s \in TaskId \ {t} : tasks'[s] = tasks[s]
  BY <1>1, MoveToRows DEF TypeOK, Final
<1>3. \A type : ActiveOf(type)' = ActiveOf(type) \ {t}
  BY <1>2 DEF ActiveOf, Active
<1>4. ActiveOf("agent_uninstall")' = {}
  BY <1>1, <1>3 DEF TicketInv, CurrentTicket
<1>5. CurrentTicket'
  BY <1>1, <1>4, FailedRow DEF TypeOK, CurrentTicket, InProgress
<1>6. NoDuplicateWork'
  BY <1>2, <1>3 DEF TicketInv, NoDuplicateWork
<1>7. RowsAreTyped'
  BY <1>1, <1>2 DEF TicketInv, RowsAreTyped
<1> QED BY <1>5, <1>6, <1>7 DEF TicketInv

LEMMA DeleteStep ==
  ASSUME TypeOK, TicketInv, DeleteServer, QuietCalls
  PROVE  TicketInv'
<1>1. \A t \in TaskId : tasks'[t] = Unused
  BY DEF DeleteServer
<1>2. \A type : ActiveOf(type)' = {}
  BY <1>1, UnusedRow DEF ActiveOf, Active
<1>3. /\ server'.token = NoTask /\ server'.tokenLive = FALSE
      /\ server'.deletion = "active"
  BY DEF TypeOK, ServerRow, DeleteServer
<1>4. CurrentTicket'
  BY <1>2, <1>3 DEF CurrentTicket, InProgress
<1>5. NoDuplicateWork'
  BY <1>1, <1>2, UnusedRow DEF NoDuplicateWork
<1>6. RowsAreTyped'
  BY <1>1, UnusedRow DEF TicketInv, RowsAreTyped, QuietCalls
<1> QED BY <1>4, <1>5, <1>6 DEF TicketInv

LEMMA ExpireStaleStep ==
  ASSUME TypeOK, TicketInv, ExpireStale, QuietCalls
  PROVE  TicketInv'
<1>1. QuietRows
  <2> SUFFICES ASSUME NEW t \in TaskId
               PROVE  /\ tasks'[t].type = tasks[t].type
                      /\ tasks'[t].key = tasks[t].key
                      /\ tasks'[t].status \in Active => tasks[t].status \in Active
                      /\ tasks[t].status = "completed" => tasks'[t].status = "completed"
                      /\ tasks[t].status = "none" <=> tasks'[t].status = "none"
    BY DEF QuietRows
  <2>1. tasks[t] \in TaskRow
    BY DEF TypeOK
  <2>2. CASE t \in StaleUninstalls
    <3>1. /\ tasks'[t].type = tasks[t].type /\ tasks'[t].key = tasks[t].key
          /\ tasks'[t].status \in {"expired", "timed_out"}
      BY <2>1, <2>2 DEF ExpireStale, TaskRow
    <3>2. tasks[t].status \in Active
      BY <2>2 DEF StaleUninstalls, ActiveOf
    <3> QED BY <3>1, <3>2 DEF Active
  <2>3. CASE t \notin StaleUninstalls
    BY <2>3 DEF ExpireStale
  <2> QED BY <2>2, <2>3
<1>2. CASE server' = server
  BY <1>1, <1>2, QuietStep, SameServerIsQuiet
<1>3. CASE server' # server
  <2>1. server' = FailDeletion
    BY <1>3 DEF ExpireStale
  <2>2. ASSUME NEW t \in ActiveOf("agent_uninstall")
        PROVE  tasks'[t].status \notin Active
    <3>1. server.token = t /\ server.deletion = "pending"
      BY DEF TicketInv, CurrentTicket
    <3>2. PICK s \in StaleUninstalls : TRUE
      BY <1>3, <3>1 DEF ExpireStale
    <3>3. s = t
      BY <3>1, <3>2 DEF StaleUninstalls, TicketInv, CurrentTicket
    <3>4. t \in TaskId /\ tasks[t] \in TaskRow
      BY DEF ActiveOf, TypeOK
    <3>5. tasks'[t].status \in {"expired", "timed_out"}
      BY <3>2, <3>3, <3>4 DEF ExpireStale, TaskRow
    <3> QED BY <3>5 DEF Active
  <2> QED BY <1>1, <2>1, <2>2, FailStep
<1> QED BY <1>2, <1>3

LEMMA ReportStep ==
  ASSUME TypeOK, TicketInv, NEW t \in TaskId, NEW outcome \in {"completed", "failed"},
         ReportTask(t, outcome)
  PROVE  TicketInv'
<1>1. tasks[t].status = "processing" /\ tasks[t].status \in Active
  BY DEF ReportTask, Active
<1>2. QuietCalls
  BY QuietCall DEF ReportTask, TicketInv, RowsAreTyped, QuietCalls
<1>3. QuietRows
  BY <1>1, MoveToIsQuiet, SameRowsAreQuiet DEF ReportTask, Final
<1>4. CASE tasks[t].type # "agent_uninstall"
  BY <1>2, <1>3, <1>4, QuietStep, SameServerIsQuiet DEF ReportTask
<1>5. CASE tasks[t].type = "agent_uninstall"
  <2>1. server.token = t /\ server.deletion = "pending"
    BY <1>1, <1>5 DEF TicketInv, CurrentTicket, ActiveOf
  <2>2. tasks'[t].status = outcome /\ tasks'[t].type = "agent_uninstall"
    BY <1>5, MoveToRows DEF ReportTask, TypeOK, Final
  <2>3. \A s \in ActiveOf("agent_uninstall") : tasks'[s].status \notin Active
    BY <2>1, <2>2 DEF TicketInv, CurrentTicket, Active
  <2>4. CASE outcome = "failed"
    BY <1>2, <1>3, <1>5, <2>3, <2>4, FailStep DEF ReportTask
  <2>5. CASE outcome = "completed"
    <3>1. /\ server'.deletion = "uninstalling" /\ server'.token = t
          /\ server'.tokenLive = server.tokenLive
      BY <1>5, <2>1, <2>5 DEF ReportTask, TypeOK, ServerRow
    <3>2. \A type : ActiveOf(type)' \subseteq ActiveOf(type)
      BY <1>3 DEF ActiveOf, QuietRows
    <3>3. ActiveOf("agent_uninstall")' = {}
      BY <2>3, <3>2 DEF ActiveOf
    <3>4. CurrentTicket'
      BY <2>1, <2>2, <2>5, <3>1, <3>3
      DEF TypeOK, ServerRow, TicketInv, CurrentTicket, InProgress
    <3>5. NoDuplicateWork'
      BY <1>3, <3>2 DEF TicketInv, NoDuplicateWork, QuietRows
    <3>6. RowsAreTyped'
      BY <1>2, <1>3 DEF TicketInv, RowsAreTyped, QuietRows, QuietCalls
    <3> QED BY <3>4, <3>5, <3>6 DEF TicketInv
  <2> QED BY <2>4, <2>5
<1> QED BY <1>4, <1>5

LEMMA RequestStep ==
  ASSUME TypeOK, TicketInv, RequestUninstall
  PROVE  TicketInv'
<1> DEFINE swept == MoveTo(WithStatus("pending"), "expired")
           row == NewTask("agent_uninstall", FALSE, NoKey)
<1>1. PICK t \in TaskId :
        /\ tasks[t].status = "none"
        /\ tasks' = [swept EXCEPT ![t] = row]
        /\ server' = [server EXCEPT !.deletion = "pending", !.token = t,
                                    !.tokenLive = TRUE]
  BY DEF RequestUninstall, WithStatus
<1>2. /\ row.type = "agent_uninstall" /\ row.status = "pending" /\ row.key = NoKey
  BY NewTaskRow
<1>3. /\ swept \in [TaskId -> TaskRow]
      /\ \A s \in TaskId : /\ swept[s].type = tasks[s].type
                           /\ swept[s].key = tasks[s].key
                           /\ swept[s] = tasks[s] \/ swept[s].status = "expired"
  BY MoveToRows DEF TypeOK, Final
<1>4. \A s \in TaskId : swept[s].status = "expired" => tasks[s].status # "none"
  BY DEF MoveTo, WithStatus, TypeOK, TaskRow
<1> HIDE DEF swept, row
<1>5. tasks'[t] = row /\ \A s \in TaskId \ {t} : tasks'[s] = swept[s]
  BY <1>1, <1>3
<1>6. /\ server'.deletion = "pending" /\ server'.token = t /\ server'.tokenLive
      /\ UNCHANGED call
  BY <1>1 DEF RequestUninstall, TypeOK, ServerRow
<1>7. server.deletion \notin InProgress
  BY DEF RequestUninstall
<1>8. ActiveOf("agent_uninstall") = {}
  BY <1>7 DEF TicketInv, CurrentTicket, InProgress
<1>9. \A s \in TaskId \ {t} : tasks'[s].status \in Active => tasks[s].status \in Active
  BY <1>3, <1>5 DEF Active
<1>10. ActiveOf("agent_uninstall")' = {t}
  BY <1>2, <1>3, <1>5, <1>8, <1>9 DEF ActiveOf, Active
<1>11. ActiveOf("agent_update")' \subseteq ActiveOf("agent_update")
  BY <1>2, <1>3, <1>5, <1>9 DEF ActiveOf
<1>12. CurrentTicket'
  BY <1>2, <1>5, <1>6, <1>10, ConstantsAssumption DEF CurrentTicket, InProgress
<1>13. \A r, s \in TaskId : tasks'[r].key = tasks'[s].key /\ tasks'[r].key # NoKey => r = s
  BY <1>2, <1>3, <1>5 DEF TicketInv, NoDuplicateWork
<1>14. NoDuplicateWork'
  BY <1>10, <1>11, <1>13 DEF TicketInv, NoDuplicateWork
<1>15. \A s \in TaskId : tasks'[s].type = "none" <=> tasks'[s].status = "none"
  BY <1>2, <1>3, <1>5, <1>4 DEF TicketInv, RowsAreTyped
<1>16. RowsAreTyped'
  BY <1>6, <1>15 DEF TicketInv, RowsAreTyped
<1> QED BY <1>12, <1>14, <1>16 DEF TicketInv

LEMMA BeatTicket ==
  ASSUME TypeOK, ClaimsApart, TicketInv, NEW b \in Beat, BeatStep(b)
  PROVE  TicketInv'
<1>1. QuietCalls
  <2>1. UNCHANGED call
    BY DEF BeatStep, BeatArrives, BeatConfirmsVersion, BeatConsidersUpdate,
           BeatQueuesUpdate, BeatExpires, BeatTimesOut, BeatLocks, BeatClaims, BeatLost
  <2> QED BY <2>1 DEF TicketInv, RowsAreTyped, QuietCalls
<1>2. CASE BeatArrives(b)
  <2>1. QuietServer
    BY <1>2 DEF BeatArrives, QuietServer, TypeOK, ServerRow
  <2> QED BY <1>1, <1>2, <2>1, SameRowsAreQuiet, QuietStep DEF BeatArrives
<1>3. CASE BeatConfirmsVersion(b)
  <2>1. QuietRows
    BY <1>3, MoveToIsQuiet DEF BeatConfirmsVersion, TasksWhere, Active, Final
  <2> QED BY <1>1, <1>3, <2>1, SameServerIsQuiet, QuietStep DEF BeatConfirmsVersion
<1>4. CASE BeatConsidersUpdate(b)
  BY <1>1, <1>4, SameRowsAreQuiet, SameServerIsQuiet, QuietStep DEF BeatConsidersUpdate
<1>5. CASE BeatQueuesUpdate(b)
  BY <1>1, <1>5, InsertStep DEF BeatQueuesUpdate
<1>6. CASE BeatExpires(b)
  <2>1. QuietRows
    BY <1>6, MoveToIsQuiet DEF BeatExpires, OverdueInQueue, WithStatus, Active, Final
  <2> QED BY <1>1, <1>6, <2>1, SameServerIsQuiet, QuietStep DEF BeatExpires
<1>7. CASE BeatTimesOut(b)
  <2>1. QuietRows
    BY <1>7, MoveToIsQuiet DEF BeatTimesOut, WithStatus, Active, Final
  <2> QED BY <1>1, <1>7, <2>1, SameServerIsQuiet, QuietStep DEF BeatTimesOut
<1>8. CASE BeatClaims(b)
  <2>1. QuietRows
    BY <1>8, MoveToIsQuiet DEF BeatClaims, ClaimsApart, Active
  <2> QED BY <1>1, <1>8, <2>1, SameServerIsQuiet, QuietStep DEF BeatClaims
<1>9. CASE BeatLocks(b) \/ BeatLost(b)
  BY <1>1, <1>9, SameRowsAreQuiet, SameServerIsQuiet, QuietStep DEF BeatLocks, BeatLost
<1> QED
  BY <1>2, <1>3, <1>4, <1>5, <1>6, <1>7, <1>8, <1>9 DEF BeatStep

LEMMA RefreshIsQuiet ==
  ASSUME TypeOK, NEW c \in Call, CreateExpiresQueued(c) \/ CreateTimesOutRunning(c)
  PROVE  QuietRows
<1>1. CASE CreateExpiresQueued(c)
  BY <1>1, MoveToIsQuiet DEF CreateExpiresQueued, TasksWhere, Active, Final
<1>2. CASE CreateTimesOutRunning(c)
  BY <1>2, MoveToIsQuiet DEF CreateTimesOutRunning, TasksWhere, Active, Final
<1> QED BY <1>1, <1>2

LEMMA CallTicket ==
  ASSUME TypeOK, TicketInv, NEW c \in Call, CallStep(c)
  PROVE  TicketInv'
<1>1. CASE CallBegins(c)
  <2>1. QuietCalls
    <3>1. ASSUME NEW type \in {"command", "agent_update"}, NEW key \in Key \cup {NoKey},
                 call' = [call EXCEPT ![c] =
                            [Idle EXCEPT !.pc = "check", !.type = type, !.key = key]]
          PROVE  QuietCalls
      BY <3>1 DEF TypeOK, CallState, TicketInv, RowsAreTyped, QuietCalls, Idle
    <3>2. ASSUME NEW t \in TaskId,
                 call' = [call EXCEPT ![c] = [Idle EXCEPT !.pc = "cancel", !.task = t]]
          PROVE  QuietCalls
      BY <3>2 DEF TypeOK, CallState, TicketInv, RowsAreTyped, QuietCalls, Idle
    <3>3. ASSUME \/ call' = [call EXCEPT ![c] = [Idle EXCEPT !.pc = "cancel-update"]]
                 \/ call' = [call EXCEPT ![c] = [Idle EXCEPT !.pc = "enable"]]
          PROVE  QuietCalls
      BY <3>3 DEF TypeOK, CallState, TicketInv, RowsAreTyped, QuietCalls, Idle
    <3> QED BY <1>1, <3>1, <3>2, <3>3 DEF CallBegins
  <2> QED BY <1>1, <2>1, ExpireStaleStep DEF CallBegins
<1>2. CASE CreateChecks(c)
  <2>1. QuietCalls
    BY <1>2, QuietCall DEF CreateChecks, CallGoes, CallEnds
  <2> QED BY <1>2, <2>1, SameRowsAreQuiet, SameServerIsQuiet, QuietStep DEF CreateChecks
<1>3. CASE CreateExpiresQueued(c) \/ CreateTimesOutRunning(c)
  <2>1. QuietCalls
    BY <1>3, QuietCall DEF CreateExpiresQueued, CreateTimesOutRunning, CallGoes
  <2> QED BY <1>3, <2>1, RefreshIsQuiet, SameServerIsQuiet, QuietStep
          DEF CreateExpiresQueued, CreateTimesOutRunning
<1>4. CASE CreateInserts(c)
  <2>1. QuietCalls
    BY <1>4, QuietCall DEF CreateInserts, CallEnds
  <2>2. /\ call[c].type \in {"command", "agent_update"}
        /\ call[c].key \in Key \cup {NoKey}
    BY <1>4 DEF CreateInserts, CallEnds, TypeOK, CallState, TicketInv, RowsAreTyped
  <2> QED BY <1>4, <2>1, <2>2, InsertStep DEF CreateInserts
<1>5. CASE CancelsTask(c)
  <2>1. QuietCalls
    BY <1>5, QuietCall DEF CancelsTask, CallEnds
  <2>2. QuietRows
    BY <1>5, MoveToIsQuiet DEF CancelsTask, Final
  <2> QED BY <1>5, <2>1, <2>2, SameServerIsQuiet, QuietStep DEF CancelsTask
<1>6. CASE CancelsUpdate(c)
  <2>1. QuietCalls
    BY <1>6, QuietCall DEF CancelsUpdate, CallEnds
  <2>2. QuietRows
    BY <1>6, MoveToIsQuiet DEF CancelsUpdate, ActiveOf, Final
  <2> QED BY <1>6, <2>1, <2>2, SameServerIsQuiet, QuietStep DEF CancelsUpdate
<1>7. CASE EnablesAutoUpdate(c)
  <2>1. QuietCalls
    BY <1>7, QuietCall DEF EnablesAutoUpdate, CallEnds
  <2>2. QuietServer
    BY <1>7 DEF EnablesAutoUpdate, QuietServer, TypeOK, ServerRow
  <2> QED BY <1>7, <2>1, <2>2, SameRowsAreQuiet, QuietStep DEF EnablesAutoUpdate
<1>8. CASE CallLost(c)
  <2>1. QuietCalls
    BY <1>8, QuietCall DEF CallLost
  <2> QED BY <1>8, <2>1, SameRowsAreQuiet, SameServerIsQuiet, QuietStep DEF CallLost
<1> QED
  BY <1>1, <1>2, <1>3, <1>4, <1>5, <1>6, <1>7, <1>8 DEF CallStep

LEMMA TimeTicket ==
  ASSUME TypeOK, TicketInv, TimeStep
  PROVE  TicketInv'
<1>1. QuietCalls
  BY DEF TimeStep, TaskAges, UninstallWindowCloses, GoesOffline,
         TicketInv, RowsAreTyped, QuietCalls
<1>2. QuietServer
  BY DEF TimeStep, TaskAges, UninstallWindowCloses, GoesOffline,
         QuietServer, TypeOK, ServerRow
<1>3. QuietRows
  <2>1. \A t \in TaskId : tasks'[t].type = tasks[t].type /\ tasks'[t].key = tasks[t].key
                          /\ tasks'[t].status = tasks[t].status
    <3>1. ASSUME NEW t \in TaskId, TaskAges(t)
          PROVE  \E reading : tasks' = [tasks EXCEPT ![t].clock = reading]
      BY <3>1 DEF TaskAges
    <3>2. ASSUME NEW t \in TaskId, NEW reading, tasks' = [tasks EXCEPT ![t].clock = reading]
          PROVE  \A s \in TaskId : /\ tasks'[s].type = tasks[s].type
                                  /\ tasks'[s].key = tasks[s].key
                                  /\ tasks'[s].status = tasks[s].status
      BY <3>2 DEF TypeOK, TaskRow
    <3>3. CASE UninstallWindowCloses
      BY <3>3 DEF UninstallWindowCloses, TypeOK, TaskRow
    <3>4. CASE GoesOffline
      BY <3>4 DEF GoesOffline
    <3> QED BY <3>1, <3>2, <3>3, <3>4 DEF TimeStep
  <2> QED BY <2>1 DEF QuietRows
<1> QED BY <1>1, <1>2, <1>3, QuietStep

\* The token of a server always belongs to the removal under way, and nothing
\* is ever queued twice.
THEOREM TicketInvariant == Spec => []TicketInv
<1>1. Init => TicketInv
  BY UnusedRow, ConstantsAssumption
  DEF Init, TicketInv, CurrentTicket, NoDuplicateWork, RowsAreTyped, ActiveOf,
      InProgress, Active, Idle
<1>2. TypeOK /\ ClaimsApart /\ TicketInv /\ [Next]_vars => TicketInv'
  <2> SUFFICES ASSUME TypeOK, ClaimsApart, TicketInv, [Next]_vars PROVE TicketInv'
    OBVIOUS
  <2>1. ASSUME NEW b \in Beat, BeatStep(b) PROVE TicketInv'
    BY <2>1, BeatTicket
  <2>2. ASSUME NEW c \in Call, CallStep(c) PROVE TicketInv'
    BY <2>2, CallTicket
  <2>3. ASSUME UNCHANGED call PROVE QuietCalls
    BY <2>3 DEF TicketInv, RowsAreTyped, QuietCalls
  <2>4. CASE AgentStep
    <3>1. ASSUME NEW t \in TaskId, ConfirmUninstall(t, "completed") PROVE TicketInv'
      BY <2>3, <3>1, DeleteStep DEF ConfirmUninstall
    <3> QED BY <2>4, <3>1, ReportStep, ConfirmFailedStep DEF AgentStep
  <2>5. CASE TimeStep
    BY <2>5, TimeTicket
  <2>6. CASE Poll
    BY <2>3, <2>6, ExpireStaleStep DEF Poll
  <2>7. CASE DisableAutoUpdate
    <3>1. QuietRows
      BY <2>7, MoveToIsQuiet DEF DisableAutoUpdate, QueuedByPolicy, TasksWhere, Active, Final
    <3>2. QuietServer
      BY <2>7 DEF DisableAutoUpdate, QuietServer, TypeOK, ServerRow
    <3> QED BY <2>3, <2>7, <3>1, <3>2, QuietStep DEF DisableAutoUpdate
  <2>8. CASE RequestUninstall
    BY <2>8, RequestStep
  <2>9. CASE ForceDelete
    BY <2>3, <2>9, DeleteStep DEF ForceDelete
  <2>10. CASE UNCHANGED vars
    BY <2>3, <2>10, SameRowsAreQuiet, SameServerIsQuiet, QuietStep DEF vars
  <2> QED
    BY <2>1, <2>2, <2>4, <2>5, <2>6, <2>7, <2>8, <2>9, <2>10 DEF Next
<1> QED BY <1>1, <1>2, TypeCorrect, ClaimsApartAlways, PTL DEF Spec

\* A token is on the server exactly while its own removal is in progress.
THEOREM CurrentTicketAlways == Spec => []CurrentTicket
<1>1. TicketInv => CurrentTicket
  BY DEF TicketInv
<1> QED BY <1>1, TicketInvariant, PTL

\* CreateTask, UpdateAllAgents, RequestAgentUninstall and the heartbeat never
\* queue the same work twice.
THEOREM NoDuplicateWorkAlways == Spec => []NoDuplicateWork
<1>1. TicketInv => NoDuplicateWork
  BY DEF TicketInv
<1> QED BY <1>1, TicketInvariant, PTL

\* RequestAgentUninstall never fails at the unique index.
THEOREM UninstallNeverBlockedAlways == Spec => []UninstallNeverBlocked
<1>1. TicketInv => UninstallNeverBlocked
  BY NewTaskRow
  DEF TicketInv, CurrentTicket, UninstallNeverBlocked, Conflicts, NewTask, InProgress
<1> QED BY <1>1, TicketInvariant, PTL
=============================================================================
