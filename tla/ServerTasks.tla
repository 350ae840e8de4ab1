----------------------------- MODULE ServerTasks -----------------------------
(***************************************************************************)
(* The command queue of one monitored server and the deletion state        *)
(* machine that shares its rows: the server_tasks table, the deletion and  *)
(* token columns of servers, and every handler that writes them.           *)
(*                                                                         *)
(* The database runs READ COMMITTED, so each SQL statement sent outside a  *)
(* transaction is a step of its own and a handler is a sequence of steps   *)
(* with a program counter; a transaction that locks its rows first is one  *)
(* step.  Only the claim of a heartbeat is two, because it skips the rows  *)
(* another one has locked; whoever else writes a locked row waits.         *)
(*                                                                         *)
(* The Agent is left free here: it may report any result for any task at   *)
(* any time, and confirm an uninstall with the task id and the token that  *)
(* task was given.  AgentControl puts the real Agent in its place.         *)
(*                                                                         *)
(* Time is abstract: a task carries how far its deadline has come and the  *)
(* confirmation token whether it is still within its fifteen minutes.      *)
(***************************************************************************)
EXTENDS Integers, FiniteSets

CONSTANTS
  TaskId,     \* rows the task table may ever hold: bounds the model
  Beat,       \* heartbeat requests the backend serves concurrently
  Call,       \* dashboard requests the backend serves concurrently
  Key,        \* idempotency keys clients send
  NoKey,      \* a request without an idempotency key
  NoTask,     \* no uninstall token is outstanding
  ClaimLimit  \* tasks one heartbeat may carry away

ASSUME ConstantsAssumption ==
  /\ NoTask \notin TaskId
  /\ NoKey \notin Key
  /\ ClaimLimit \in Nat \ {0}

VARIABLES
  server,  \* the row of servers: deletion columns, token, policy, presence
  tasks,   \* the rows of server_tasks, by id
  beat,    \* where each heartbeat handler stands, and the rows it has locked
  call     \* where each dashboard handler stands, and what it was asked

vars == <<server, tasks, beat, call>>

-----------------------------------------------------------------------------
(* The rows.                                                               *)

Active == {"pending", "processing"}
Final  == {"completed", "failed", "expired", "timed_out", "cancelled"}
InProgress == {"pending", "uninstalling"}

ServerRow == [exists: BOOLEAN,
              deletion: {"active", "pending", "uninstalling", "failed"},
              token: TaskId \cup {NoTask},  \* the task whose payload holds it
              tokenLive: BOOLEAN,           \* uninstall_token_expires_at > NOW()
              autoUpdate: BOOLEAN,
              reach: {"offline", "unsupported", "ready"}]

Unused == [type |-> "none", status |-> "none", clock |-> "fresh",
           auto |-> FALSE, key |-> NoKey]

NewTask(type, auto, key) ==
  [type |-> type, status |-> "pending", clock |-> "fresh",
   auto |-> auto, key |-> key]

TaskRow == [type: {"none", "command", "agent_update", "agent_uninstall"},
            status: {"none"} \cup Active \cup Final,
            \* pending: aged after 15 minutes, due at expires_at;
            \* processing: due at started_at + timeout_seconds
            clock: {"fresh", "aged", "due"},
            auto: BOOLEAN,
            key: Key \cup {NoKey}]

Idle == [pc |-> "idle", type |-> "none", key |-> NoKey, task |-> NoTask]

CallState == [pc: {"idle", "check", "refresh", "refresh-running", "insert",
                   "cancel", "cancel-update", "enable"},
              type: {"none", "command", "agent_update"},
              key: Key \cup {NoKey},
              task: TaskId \cup {NoTask}]

Quiet == [pc |-> "idle", rows |-> {}]

BeatState == [pc: {"idle", "confirm", "queue", "insert", "expire", "timeout",
                   "claim", "claiming"},
              rows: SUBSET TaskId]

TypeOK ==
  /\ server \in ServerRow
  /\ tasks \in [TaskId -> TaskRow]
  /\ beat \in [Beat -> BeatState]
  /\ call \in [Call -> CallState]

Init ==
  /\ \E policy \in BOOLEAN :
       server = [exists |-> TRUE, deletion |-> "active", token |-> NoTask,
                 tokenLive |-> FALSE, autoUpdate |-> policy, reach |-> "offline"]
  /\ tasks = [t \in TaskId |-> Unused]
  /\ beat = [b \in Beat |-> Quiet]
  /\ call = [c \in Call |-> Idle]

-----------------------------------------------------------------------------
(* What the SQL statements are built from.                                 *)

TasksWhere(type, status) ==
  {t \in TaskId : tasks[t].type = type /\ tasks[t].status = status}

WithStatus(status) == {t \in TaskId : tasks[t].status = status}

\* A statement that writes rows of S waits until no claim holds them.
Unlocked(S) == \A b \in Beat : beat[b].rows \cap S = {}

\* UPDATE server_tasks SET status = ... on the rows of S.
MoveTo(S, status) ==
  [t \in TaskId |->
     IF t \in S THEN [tasks[t] EXCEPT !.status = status, !.clock = "fresh"]
                ELSE tasks[t]]

ActiveOf(type) == {t \in TaskId : tasks[t].type = type /\ tasks[t].status \in Active}

\* Mutant: the partial indexes cover queued rows only.
ConflictsWithQueuedOnly(row) ==
  \/ /\ row.type \in {"agent_update", "agent_uninstall"}
     /\ TasksWhere(row.type, "pending") # {}
  \/ row.key # NoKey /\ \E t \in TaskId : tasks[t].key = row.key

\* The unique indexes of server_tasks refuse the row.
Conflicts(row) ==
  \/ row.type \in {"agent_update", "agent_uninstall"} /\ ActiveOf(row.type) # {}
  \/ row.key # NoKey /\ \E t \in TaskId : tasks[t].key = row.key

\* INSERT ... ON CONFLICT DO NOTHING; the foreign key refuses a deleted server.
\* TaskId bounds the rows: when none is left the request is as good as lost.
InsertOrNothing(row) ==
  IF server.exists /\ ~Conflicts(row) /\ WithStatus("none") # {}
  THEN \E t \in WithStatus("none") : tasks' = [tasks EXCEPT ![t] = row]
  ELSE UNCHANGED tasks

\* Mutant: a failed removal shows the server as if nothing had been asked.
FailDeletionReactivates ==
  [server EXCEPT !.deletion = "active", !.token = NoTask, !.tokenLive = FALSE]

FailDeletion ==
  [server EXCEPT !.deletion = "failed", !.token = NoTask, !.tokenLive = FALSE]

StaleUninstalls == {t \in ActiveOf("agent_uninstall") : tasks[t].clock = "due"}

\* Mutant: the servers row is settled, its task is forgotten.
ExpireStaleServerOnly ==
  /\ Unlocked(StaleUninstalls)
  /\ server' =
       IF \/ StaleUninstalls # {}
          \/ server.deletion = "uninstalling" /\ ~server.tokenLive
       THEN FailDeletion
       ELSE server
  /\ UNCHANGED tasks

\* Mutant: only tasks that are late settle a server, never its token.
ExpireStaleTasksOnly ==
  /\ Unlocked(StaleUninstalls)
  /\ tasks' = [t \in TaskId |->
       IF t \in StaleUninstalls
       THEN [tasks[t] EXCEPT !.clock = "fresh",
               !.status = IF @ = "pending" THEN "expired" ELSE "timed_out"]
       ELSE tasks[t]]
  /\ server' = IF StaleUninstalls # {} THEN FailDeletion ELSE server

\* The transaction every server list and server read starts with.
ExpireStale ==
  /\ Unlocked(StaleUninstalls)
  /\ tasks' = [t \in TaskId |->
       IF t \in StaleUninstalls
       THEN [tasks[t] EXCEPT !.clock = "fresh",
               !.status = IF @ = "pending" THEN "expired" ELSE "timed_out"]
       ELSE tasks[t]]
  /\ server' =
       IF \/ StaleUninstalls # {}
          \/ server.deletion = "uninstalling" /\ ~server.tokenLive
       THEN FailDeletion
       ELSE server

-----------------------------------------------------------------------------
(* The heartbeat handler: one action per statement it sends.               *)

BeatGoes(b, from, to) ==
  beat[b].pc = from /\ beat' = [beat EXCEPT ![b].pc = to]

\* The servers row is refreshed; the version reported decides what follows.
BeatArrives(b) ==
  /\ server.exists
  /\ \E next \in {"confirm", "queue", "expire"} : BeatGoes(b, "idle", next)
  /\ \E r \in {"unsupported", "ready"} : server' = [server EXCEPT !.reach = r]
  /\ UNCHANGED <<tasks, call>>

\* The Agent runs the published version: its running updates are done.
BeatConfirmsVersion(b) ==
  /\ BeatGoes(b, "confirm", "expire")
  /\ tasks' = MoveTo(TasksWhere("agent_update", "processing"), "completed")
  /\ UNCHANGED <<server, call>>

\* The snapshot the INSERT ... SELECT of the automatic update reads.  An
\* attempt at the same version within the hour suppresses it.
BeatConsidersUpdate(b) ==
  /\ \/ /\ server.exists /\ server.autoUpdate /\ server.deletion = "active"
        /\ ActiveOf("agent_update") = {}
        /\ BeatGoes(b, "queue", "insert")
     \/ BeatGoes(b, "queue", "expire")
  /\ UNCHANGED <<server, tasks, call>>

\* The row lands after the statement has waited for the lock on servers.
BeatQueuesUpdate(b) ==
  /\ BeatGoes(b, "insert", "expire")
  /\ InsertOrNothing(NewTask("agent_update", TRUE, NoKey))
  /\ UNCHANGED <<server, call>>

OverdueInQueue == {t \in WithStatus("pending") : tasks[t].clock = "due"}

BeatExpires(b) ==
  /\ BeatGoes(b, "expire", "timeout")
  /\ Unlocked(OverdueInQueue)
  /\ tasks' = MoveTo(OverdueInQueue, "expired")
  /\ UNCHANGED <<server, call>>

\* Mutant: an update waits for the version and for nothing else.
BeatTimesOutExceptUpdates(b) ==
  /\ BeatGoes(b, "timeout", "claim")
  /\ tasks' = MoveTo({t \in WithStatus("processing") :
                       tasks[t].clock = "due" /\ tasks[t].type # "agent_update"},
                     "timed_out")
  /\ UNCHANGED <<server, call>>

BeatTimesOut(b) ==
  /\ BeatGoes(b, "timeout", "claim")
  /\ tasks' = MoveTo({t \in WithStatus("processing") : tasks[t].clock = "due"},
                     "timed_out")
  /\ UNCHANGED <<server, call>>

\* Mutant: FOR UPDATE SKIP LOCKED is left out of the query.
ClaimableLocked == {t \in WithStatus("pending") : tasks[t].clock # "due"}

\* What the query may take: SKIP LOCKED passes over the rows of another claim.
Claimable ==
  {t \in WithStatus("pending") : tasks[t].clock # "due" /\ Unlocked({t})}

\* Mutant: the oldest tasks, whatever they are.
IsBatchByAge(S) ==
  /\ S \subseteq Claimable
  /\ Cardinality(S) <= ClaimLimit
  /\ S # Claimable => Cardinality(S) = ClaimLimit

\* At most ClaimLimit rows, the uninstall before anything else.
IsBatch(S) ==
  /\ S \subseteq Claimable
  /\ Cardinality(S) <= ClaimLimit
  /\ S # Claimable => Cardinality(S) = ClaimLimit
  /\ Claimable \cap TasksWhere("agent_uninstall", "pending") \subseteq S

BeatLocks(b) ==
  /\ beat[b].pc = "claim"
  /\ \E S \in SUBSET Claimable :
       /\ IsBatch(S)
       /\ beat' = [beat EXCEPT ![b] = [pc |-> "claiming", rows |-> S]]
  /\ UNCHANGED <<server, tasks, call>>

\* The rows the statement returns are what the response carries.
BeatClaims(b) ==
  /\ beat[b].pc = "claiming"
  /\ tasks' = MoveTo(beat[b].rows, "processing")
  /\ beat' = [beat EXCEPT ![b] = Quiet]
  /\ UNCHANGED <<server, call>>

\* Request cancelled or past its five seconds: the statement under way is
\* rolled back, later ones do nothing.
BeatLost(b) ==
  /\ beat[b].pc # "idle"
  /\ beat' = [beat EXCEPT ![b] = Quiet]
  /\ UNCHANGED <<server, tasks, call>>

-----------------------------------------------------------------------------
(* Dashboard requests.  All that read the server first run ExpireStale.    *)

CallGoes(c, from, to) ==
  call[c].pc = from /\ call' = [call EXCEPT ![c].pc = to]

CallEnds(c, from) == call[c].pc = from /\ call' = [call EXCEPT ![c] = Idle]

Poll ==
  /\ server.exists
  /\ ExpireStale
  /\ UNCHANGED <<beat, call>>

CallBegins(c) ==
  /\ server.exists /\ call[c].pc = "idle"
  /\ ExpireStale
  /\ \/ \E type \in {"command", "agent_update"}, key \in Key \cup {NoKey} :
          call' = [call EXCEPT ![c] =
                     [Idle EXCEPT !.pc = "check", !.type = type, !.key = key]]
     \/ \E t \in TaskId \ WithStatus("none") :
          call' = [call EXCEPT ![c] = [Idle EXCEPT !.pc = "cancel", !.task = t]]
     \/ call' = [call EXCEPT ![c] = [Idle EXCEPT !.pc = "cancel-update"]]
     \/ call' = [call EXCEPT ![c] = [Idle EXCEPT !.pc = "enable"]]
  /\ UNCHANGED beat

CreateChecks(c) ==
  /\ \/ /\ server.exists /\ server.deletion \notin InProgress
        /\ CallGoes(c, "check",
                    IF call[c].type = "agent_update" THEN "refresh" ELSE "insert")
     \/ /\ ~server.exists \/ server.deletion \in InProgress
        /\ CallEnds(c, "check")
  /\ UNCHANGED <<server, tasks, beat>>

\* expireStaleAgentUpdateTasks, before another update is queued: two statements.
CreateExpiresQueued(c) ==
  /\ CallGoes(c, "refresh", "refresh-running")
  /\ LET old == {t \in TasksWhere("agent_update", "pending") :
                    tasks[t].clock # "fresh"}
     IN Unlocked(old) /\ tasks' = MoveTo(old, "expired")
  /\ UNCHANGED <<server, beat>>

CreateTimesOutRunning(c) ==
  /\ CallGoes(c, "refresh-running", "insert")
  /\ tasks' = MoveTo({t \in TasksWhere("agent_update", "processing") :
                       tasks[t].clock = "due"}, "timed_out")
  /\ UNCHANGED <<server, beat>>

CreateInserts(c) ==
  /\ CallEnds(c, "insert")
  /\ InsertOrNothing(NewTask(call[c].type, FALSE, call[c].key))
  /\ UNCHANGED <<server, beat>>

\* Mutant: the UPDATE does not look at the status.
CancelsTaskBlindly(c) ==
  /\ CallEnds(c, "cancel")
  /\ Unlocked({call[c].task})
  /\ tasks' = MoveTo({t \in {call[c].task} : tasks[t].status # "none"}, "cancelled")
  /\ UNCHANGED <<server, beat>>

CancelsTask(c) ==
  /\ CallEnds(c, "cancel")
  /\ Unlocked({call[c].task})
  /\ tasks' = MoveTo({t \in {call[c].task} : tasks[t].status \in Active}, "cancelled")
  /\ UNCHANGED <<server, beat>>

CancelsUpdate(c) ==
  /\ CallEnds(c, "cancel-update")
  /\ Unlocked(ActiveOf("agent_update"))
  /\ tasks' = MoveTo(ActiveOf("agent_update"), "cancelled")
  /\ UNCHANGED <<server, beat>>

EnablesAutoUpdate(c) ==
  /\ server.exists
  /\ CallEnds(c, "enable")
  /\ server' = [server EXCEPT !.autoUpdate = TRUE]
  /\ UNCHANGED <<tasks, beat>>

\* The client went away, or a check in front of the next statement failed.
CallLost(c) ==
  /\ call[c].pc # "idle"
  /\ call' = [call EXCEPT ![c] = Idle]
  /\ UNCHANGED <<server, tasks, beat>>

QueuedByPolicy == {t \in TasksWhere("agent_update", "pending") : tasks[t].auto}

DisableAutoUpdate ==
  /\ server.exists
  /\ server' = [server EXCEPT !.autoUpdate = FALSE]
  /\ Unlocked(QueuedByPolicy)
  /\ tasks' = MoveTo(QueuedByPolicy, "expired")
  /\ UNCHANGED <<beat, call>>

\* Mutant: nobody asks whether a removal is under way.
RequestUninstallAgain ==
  /\ server.exists /\ server.reach = "ready"
  /\ ~Conflicts(NewTask("agent_uninstall", FALSE, NoKey))
  /\ Unlocked(WithStatus("pending"))
  /\ \E t \in WithStatus("none") :
       /\ tasks' = [MoveTo(WithStatus("pending"), "expired")
                      EXCEPT ![t] = NewTask("agent_uninstall", FALSE, NoKey)]
       /\ server' = [server EXCEPT !.deletion = "pending", !.token = t,
                                   !.tokenLive = TRUE]
  /\ UNCHANGED <<beat, call>>

\* Validate, mark, expire what is queued and queue the uninstall: one
\* transaction holding the servers row.
RequestUninstall ==
  /\ server.exists /\ server.reach = "ready"
  /\ server.deletion \notin InProgress
  /\ ~Conflicts(NewTask("agent_uninstall", FALSE, NoKey))
  /\ Unlocked(WithStatus("pending"))
  /\ \E t \in WithStatus("none") :
       /\ tasks' = [MoveTo(WithStatus("pending"), "expired")
                      EXCEPT ![t] = NewTask("agent_uninstall", FALSE, NoKey)]
       /\ server' = [server EXCEPT !.deletion = "pending", !.token = t,
                                   !.tokenLive = TRUE]
  /\ UNCHANGED <<beat, call>>

\* DELETE FROM servers, with every row that refers to it.
DeleteServer ==
  /\ Unlocked(TaskId)
  /\ server' = [server EXCEPT !.exists = FALSE, !.deletion = "active",
                  !.token = NoTask, !.tokenLive = FALSE, !.reach = "offline"]
  /\ tasks' = [t \in TaskId |-> Unused]

ForceDelete == server.exists /\ DeleteServer /\ UNCHANGED <<beat, call>>

-----------------------------------------------------------------------------
(* What the Agent and its uninstall helper send.                           *)

\* Mutant: a report is recorded whatever has become of the task.
ReportTaskLate(t, outcome) ==
  /\ server.exists /\ tasks[t].status # "none"
  /\ tasks' = IF tasks[t].type = "agent_update" /\ outcome = "completed"
              THEN tasks
              ELSE MoveTo({t}, outcome)
  /\ server' = IF tasks[t].type # "agent_uninstall" THEN server
               ELSE IF outcome = "completed"
                    THEN [server EXCEPT !.deletion = "uninstalling"]
                    ELSE FailDeletion
  /\ UNCHANGED <<beat, call>>

ReportTask(t, outcome) ==
  /\ server.exists /\ tasks[t].status = "processing"
  /\ tasks' = IF tasks[t].type = "agent_update" /\ outcome = "completed"
              THEN tasks  \* stays in processing until the new version is seen
              ELSE MoveTo({t}, outcome)
  /\ server' = IF tasks[t].type # "agent_uninstall" THEN server
               ELSE IF outcome = "completed"
                    THEN [server EXCEPT !.deletion = "uninstalling"]
                    ELSE FailDeletion
  /\ UNCHANGED <<beat, call>>

\* Mutant: a callback is taken whatever has become of the removal.
ConfirmUninstallLate(t, outcome) ==
  /\ server.exists /\ tasks[t].type = "agent_uninstall"
  /\ IF outcome = "completed"
     THEN DeleteServer
     ELSE Unlocked({t}) /\ server' = FailDeletion /\ tasks' = MoveTo({t}, "failed")
  /\ UNCHANGED <<beat, call>>

\* t is both the task id and the task the token was made for: the query looks
\* at the two one by one, but whoever was handed the one was handed the other.
ConfirmUninstall(t, outcome) ==
  /\ server.exists /\ tasks[t].type = "agent_uninstall"
  /\ server.token = t /\ server.tokenLive
  /\ server.deletion \in InProgress
  /\ IF outcome = "completed"
     THEN DeleteServer
     ELSE Unlocked({t}) /\ server' = FailDeletion /\ tasks' = MoveTo({t}, "failed")
  /\ UNCHANGED <<beat, call>>

-----------------------------------------------------------------------------
(* Time.                                                                   *)

\* Fifteen minutes, then expires_at, of a queued task; timeout_seconds of a
\* running one.  A queued uninstall falls due with its token, below.
TaskAges(t) ==
  /\ tasks[t].status \in Active /\ tasks[t].clock # "due"
  /\ ~(tasks[t].type = "agent_uninstall" /\ tasks[t].status = "pending")
  /\ tasks' = [tasks EXCEPT ![t].clock =
       IF /\ tasks[t].type = "agent_update" /\ tasks[t].status = "pending"
          /\ tasks[t].clock = "fresh"
       THEN "aged" ELSE "due"]
  /\ UNCHANGED <<server, beat, call>>

\* The token and the queued task were given the same fifteen minutes.
UninstallWindowCloses ==
  /\ server.tokenLive
  /\ server' = [server EXCEPT !.tokenLive = FALSE]
  /\ tasks' = [t \in TaskId |->
       IF t = server.token /\ tasks[t].status = "pending"
       THEN [tasks[t] EXCEPT !.clock = "due"] ELSE tasks[t]]
  /\ UNCHANGED <<beat, call>>

\* A minute without a heartbeat.
GoesOffline ==
  /\ server.exists /\ server.reach # "offline"
  /\ server' = [server EXCEPT !.reach = "offline"]
  /\ UNCHANGED <<tasks, beat, call>>

-----------------------------------------------------------------------------
BeatStep(b) ==
  \/ BeatArrives(b) \/ BeatConfirmsVersion(b) \/ BeatConsidersUpdate(b)
  \/ BeatQueuesUpdate(b) \/ BeatExpires(b) \/ BeatTimesOut(b)
  \/ BeatLocks(b) \/ BeatClaims(b) \/ BeatLost(b)

CallStep(c) ==
  \/ CallBegins(c) \/ CreateChecks(c) \/ CreateExpiresQueued(c)
  \/ CreateTimesOutRunning(c) \/ CreateInserts(c)
  \/ CancelsTask(c) \/ CancelsUpdate(c) \/ EnablesAutoUpdate(c) \/ CallLost(c)

AgentStep ==
  \E t \in TaskId, outcome \in {"completed", "failed"} :
    ReportTask(t, outcome) \/ ConfirmUninstall(t, outcome)

TimeStep ==
  (\E t \in TaskId : TaskAges(t)) \/ UninstallWindowCloses \/ GoesOffline

Next ==
  \/ \E b \in Beat : BeatStep(b)
  \/ \E c \in Call : CallStep(c)
  \/ AgentStep
  \/ TimeStep
  \/ Poll
  \/ DisableAutoUpdate
  \/ RequestUninstall
  \/ ForceDelete

Spec == Init /\ [][Next]_vars

-----------------------------------------------------------------------------
(* Safety.                                                                 *)

\* At most one removal and one update of the Agent are ever outstanding, and
\* a retried request with the same idempotency key queues nothing twice
\* (handler.go CreateTask, migrations 013 and 016).
NoDuplicateWork ==
  /\ \A type \in {"agent_update", "agent_uninstall"}, s, t \in TaskId :
       {s, t} \subseteq ActiveOf(type) => s = t
  /\ \A s, t \in TaskId : tasks[s].key = tasks[t].key /\ tasks[s].key # NoKey => s = t

\* The token on the server belongs to the removal that is under way and to no
\* other: a server holds a token exactly while its deletion is in progress,
\* and an uninstall the Agent may still act on carries that token and finds
\* the server waiting for it.  Expiry, cancellation, reports, confirmations
\* and deletion all write one or both of the two rows, in separate handlers.
CurrentTicket ==
  /\ server.token = NoTask <=> server.deletion \notin InProgress
  /\ server.tokenLive => server.token # NoTask
  /\ server.token # NoTask => tasks[server.token].type = "agent_uninstall"
  /\ \A t \in ActiveOf("agent_uninstall") :
       server.token = t /\ server.deletion = "pending"
  /\ server.deletion = "uninstalling" => tasks[server.token].status = "completed"

\* What makes the two above inductive: rows are told from free ids by type and
\* status alike, and a request that may insert a row knows its type.
RowsAreTyped ==
  /\ \A t \in TaskId : tasks[t].type = "none" <=> tasks[t].status = "none"
  /\ \A c \in Call :
       call[c].pc \in {"check", "refresh", "refresh-running", "insert"} =>
         call[c].type # "none"

\* What two claims hold is theirs alone, and still queued when they take it.
ClaimsApart ==
  \A a, b \in Beat :
    /\ \A t \in beat[a].rows : tasks[t].status = "pending"
    /\ a # b => beat[a].rows \cap beat[b].rows = {}

TicketInv == CurrentTicket /\ NoDuplicateWork /\ RowsAreTyped

\* An uninstall can always be asked for again once the last one is settled:
\* the unique index on the task table never refuses the new row, so the
\* transaction of RequestAgentUninstall never fails half way.
UninstallNeverBlocked ==
  server.exists /\ server.deletion \notin InProgress
    => ~Conflicts(NewTask("agent_uninstall", FALSE, NoKey))

\* The status of a task only moves forward and its final status is its last:
\* a cancelled, expired or finished command is never handed to the Agent and
\* a late report does not overwrite it.  The one exception is written in
\* ConfirmUninstall: a helper that failed turns its own task to failed.
Rank(status) ==
  CASE status = "none"       -> 0
    [] status = "pending"    -> 1
    [] status = "processing" -> 2
    [] status \in Final      -> 3

OutcomesAreFinal ==
  [][server'.exists =>
       \A t \in TaskId :
         /\ Rank(tasks'[t].status) >= Rank(tasks[t].status)
         /\ tasks[t].status \in Final =>
              \/ tasks'[t] = tasks[t]
              \/ /\ t = server.token /\ server.tokenLive
                 /\ tasks'[t] = [tasks[t] EXCEPT !.status = "failed", !.clock = "fresh"]
    ]_vars

\* However many commands wait, the uninstall is in the first batch that can
\* have it (handler.go:664): a heartbeat that takes anything leaves no uninstall
\* behind that another heartbeat does not hold.  A command may still overtake
\* the uninstall when the heartbeat that held it is cut off.
UninstallGoesFirst ==
  [][\A b \in Beat : beat[b].rows = {} /\ beat'[b].rows # {} =>
       \A t \in TaskId :
         tasks[t].type = "agent_uninstall" /\ tasks[t].status = "pending" =>
           tasks[t].clock = "due" \/ \E a \in Beat : t \in beat'[a].rows
    ]_vars

\* Seen from outside, the rows and handlers above are the life cycle every
\* removal goes through.
DeletionPhase ==
  IF ~server.exists THEN "gone"
  ELSE CASE server.deletion = "active"       -> "kept"
         [] server.deletion = "pending"      -> "requested"
         [] server.deletion = "uninstalling" -> "removing"
         [] server.deletion = "failed"       -> "failed"

Uninstalls == {t \in TaskId : tasks[t].type = "agent_uninstall"}

Lifecycle == INSTANCE DeletionLifecycle WITH
  Ticket <- TaskId,
  NoTicket <- NoTask,
  phase <- DeletionPhase,
  ticket <- server.token,
  spent <- Uninstalls

\* Removal is requested under a fresh ticket, accepted or failed under that
\* ticket, and nothing brings a deleted server or a spent ticket back.
RemovalIsLifecycle == Lifecycle!DSpec

-----------------------------------------------------------------------------
(* Liveness.                                                               *)

\* Deadlines pass, and a dashboard page that is open polls the servers every
\* twenty or thirty seconds.
OwnerWatches ==
  /\ WF_vars(Poll)
  /\ WF_vars(UninstallWindowCloses)
  /\ \A t \in TaskId : WF_vars(TaskAges(t))

\* The Agent's ticker keeps sending heartbeats and no statement of the
\* handler is cut off every time it is reached.
AgentLives ==
  \A b \in Beat :
    /\ WF_vars(BeatArrives(b))
    /\ SF_vars(BeatConfirmsVersion(b)) /\ SF_vars(BeatConsidersUpdate(b))
    /\ SF_vars(BeatQueuesUpdate(b)) /\ SF_vars(BeatExpires(b))
    /\ SF_vars(BeatTimesOut(b)) /\ SF_vars(BeatLocks(b)) /\ SF_vars(BeatClaims(b))

LiveSpec == Spec /\ OwnerWatches /\ AgentLives

\* Every command comes to an end: done, expired unclaimed, timed out, called
\* off, or gone with its server.  An Agent that lost the response of a
\* heartbeat never reports the tasks it carried; only the next heartbeats of
\* the same Agent time them out.
TasksSettle ==
  \A t \in TaskId : tasks[t].status \in Active ~> tasks[t].status \notin Active

\* A helper that never calls back does not leave the server uninstalling for
\* ever: ExpireStaleAgentUninstalls fails it once the token has expired.
UninstallingResolves ==
  server.deletion = "uninstalling" ~> server.deletion # "uninstalling"

-----------------------------------------------------------------------------
(* What a comment of the code claims and the code does not keep.           *)

\* repository.go:261 "moves abandoned uninstall requests to failed so the UI
\* does not remain stuck forever when the Agent disappears".
PendingResolves ==
  server.deletion = "pending" ~> server.deletion # "pending"

=============================================================================
