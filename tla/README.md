# DatrixOps, modelled in TLA+

DatrixOps is a self-hosted server-monitoring platform. A Go control plane
(`src/backend`) with a PostgreSQL database serves a dashboard and a fleet of Go
Agents (`src/agent`), one per monitored host. An Agent sends a heartbeat every
few seconds; the response carries the commands the owner has queued. The Agent
executes them, reports the results, replaces its own binary when told to, and
can be removed from its host remotely.

This directory specifies what is hard about that: commands and removals that
two sides work on at once, over requests that are lost, repeated and late,
with processes and hosts that may stop at any moment; jobs that overlap; tabs
of one browser that share a session.

## 1. Inventory

| Component | State | Operations | What makes it hard |
|---|---|---|---|
| Command queue and deletion life cycle (`backend/internal/core/server`, `core/agent_api`) | `server_tasks`; deletion, token, policy and presence columns of `servers` | create, cancel, claim, report, expire, time out; request, report, confirm and expire an uninstall; force delete; update policy | nine handlers write the same two tables, most of them as separate statements |
| Agent executor and uninstall helper (`agent/cmd/agent`, `agent/internal/uninstall`) | task channel, workers, detached helper, service and files on the host | execute, report, act after the report, clean up, call back | crash at every step; report and callback lost or refused; cancel races with the report |
| Agent self-update (`agent/cmd/agent/main.go`, `agent/internal/update`) | `<executable>.update`, the executable | download, validate, rename, restart | four workers and one path; the control plane may give an update up |
| Enrollment (`core/agent_api` Enroll, EnrollRollback, GetBootstrapStatus) | enrollment, agent and rollback tokens, `bootstrap_completed_at` | enroll, first heartbeat, roll back, regenerate | lost responses; rollback races with the first heartbeat |
| Alert engine (`scheduler/alert_job.go`) | `alert_state`, `dashboard_notifications` | evaluate, pending, fire, remind, resolve | may run in the API and in the worker process at once (`DATRIXOPS_RUN_SCHEDULERS`); condition read before the row is locked |
| Web terminal (`core/terminal`, `agent/internal/terminal`) | tickets, Agent connections and sessions in memory; `terminal_sessions`; the Agent's one shell | ticket, open, start, input, close, disconnect, time out | checks outside the lock they rely on; four threads that may end a session; messages of two sessions on one connection |
| Website monitor (`scheduler/website_job.go`) | status, down-since and SSL-alert columns | probe, write back, record; edit, delete | read, ten-second probe, write back by overlapping jobs |
| Accounts and sessions (`core/auth`, `core/setup`, `cmd/reset-admin`; `frontend/src/lib/apiClient.ts`, the login page) | users, refresh tokens, password resets; the token pair in `localStorage` or `sessionStorage`, `refreshPromise` of each tab | set up, log in, refresh, log out, reset | a token consumed before its replacement exists; tabs that refresh the same token; a storage chosen before a request and written after it; password and sessions changed by two statements |
| Webhooks (`core/webhook`) | deliveries, event states | test delivery | only the owner's test button delivers anything; the functions that dispatch and repeat have no caller |
| Release versions (`scheduler/update_job.go`, `compareAgentVersions`) | versions found online | compare, offer | two comparison functions; a rate limit on strings |
| Network targets, diagnostics (`core/server/target_job.go`, `network_diagnostics.go`) | results of probes | probe, aggregate | mostly I/O |
| Retention (`scheduler/retention_job.go`) | old rows | roll up, delete | order of roll-up and deletion |
| Rate limiter (`platform/middleware/ratelimit.go`) | visitors by address | allow, clean up | a visitor dropped while in use |
| Self-host record (`core/server/self_host.go`) | one row of `servers` | synchronise at start, and from a heartbeat whose unknown token is the self-monitor's | deletes servers it takes for duplicates |
| Administration, API keys, audit, system information, frontend, collectors, database access, configuration, notifier | rows and screens | single statements, rendering, I/O | nothing worth a state machine |

How they interact: dashboard and Agents only meet in the database. A dashboard
request queues a row in `server_tasks`; the next heartbeat claims it; the
Agent's report and, for a removal, the helper's callback settle it. Reading a
server settles what has expired. The schedulers read and write their own
tables; the alert engine only looks at servers whose deletion state is
`active`.

## 2. Modules

| Module | Contents |
|---|---|
| `DeletionLifecycle` | what the removal of a server promises, abstractly: requested under a fresh ticket, accepted or failed, gone for good |
| `HostRemoval` | the same with the host: consent, then the Agent, then the server |
| `AtomicUpdate` | what an update promises: a whole release, in one step, while it is being offered |
| `ExclusiveTerminal` | what the terminal promises: granted to one session at a time, one shell on the host |
| `IncidentLog` | what an alert rule promises: the course of an incident, told of once at either end |
| `LoginLifecycle` | what the auth service promises: a login lives on one refresh token at a time and ends for good |
| `ServerTasks` | the command queue and the deletion life cycle of one server: both rows, every handler that writes them, time |
| `AgentControl` | `ServerTasks` with the real Agent: its queue and workers, the helper, lost messages, crashes |
| `AgentUpdate` | replacement of the Agent's binary by overlapping workers |
| `Terminal` | the web terminal of one server: hub, rows, messages, the Agent's managers and shells |
| `AlertState` | one alert rule, its state on every server, and the jobs that evaluate it |
| `Session` | the session of one user: the tabs of a browser, the refresh tokens, password resets |
| `WebsiteMonitor` | one monitored website, its owner and the jobs that probe it |
| `MCServerTasks`, `MCAgentControl`, `MCAgentUpdate`, `MCTerminal`, `MCAlertState`, `MCSession`, `MCWebsiteMonitor` | small instances and symmetry for TLC |
| `ServerTasks_proofs` | types, claims that stay apart, the inductive invariant and the invariants that follow from it |
| `ServerTasksSteps_proofs` | refinement of `DeletionLifecycle`, finality of outcomes, the uninstall first |
| `AgentControl_proofs` | the composition refines `ServerTasks`; types, what the removal protocol promises the owner, refinement of `HostRemoval`, tasks dispatched once |
| `AgentUpdate_proofs` | types, the staging path, the installed file, refinement of `AtomicUpdate` |
| `Terminal_proofs` | types, one session, one shell, no session missed by a sweep, no stray close, refinement of `ExclusiveTerminal` |
| `AlertState_proofs` | types, notifications that agree with the state, incidents with a start, refinement of `IncidentLog` |
| `Session_proofs` | types, one successor of every token, the newest pair kept, waiters woken, resets that lock out, refinement of `LoginLifecycle` |
| `WebsiteMonitor_proofs` | types, a start written for every outage and only for an outage, starts that stay |

The six abstract modules know nothing of rows, requests, files or messages. The
module that implements one holds the mapping next to its properties: `Lifecycle`
in `ServerTasks`, `Removal` in `AgentControl`, `Swap` in `AgentUpdate`, `Slot` in
`Terminal`, `Log` in `AlertState`, `Logins` in `Session`.

### ServerTasks

`server` is the row of `servers` as far as these handlers read it; `tasks` are
the rows of `server_tasks`, `Unused` standing for an id not inserted yet.
Payloads are left out: the only fact about a payload that matters is which
task carries the token the server holds the hash of (`server.token`) and
whether an update was queued automatically (`auto`).

The database runs READ COMMITTED. A statement outside a transaction is one
step; a handler of several statements has a program counter and other
handlers run in between. `Heartbeat` is `BeatArrives`, then, as the reported
version asks, `BeatConfirmsVersion` or `BeatConsidersUpdate`/`BeatQueuesUpdate`,
then `BeatExpires`, `BeatTimesOut`, `BeatLocks` and `BeatClaims`; its five-second
timeout is `BeatLost` at any point. The claim is two steps because of `FOR UPDATE
SKIP LOCKED`: a heartbeat locks its batch, another one that claims meanwhile
passes over those rows, and every other statement that would write one of them
waits (`Unlocked`). `CreateTask` and `UpdateAllAgents` are `CallBegins` (the
ownership read, which first runs `ExpireStale`), `CreateChecks`, for an update
`CreateExpiresQueued` and `CreateTimesOutRunning`, and `CreateInserts`. The `INSERT ... SELECT` of the automatic
update is two steps because its snapshot is older than the row it makes
visible. Transactions that lock what they read (`RequestUninstall`,
`ReportTask`, `ConfirmUninstall`, `ExpireStale`, `DisableAutoUpdate`) are one
step. The partial unique indexes are `Conflicts`.

Clocks are abstract. A task is `fresh`, `aged` (fifteen minutes old, what
`expireStaleAgentUpdateTasks` asks of a queued update) or `due`; the token is
live or not. A queued uninstall falls due together with its token, as both
were given the same fifteen minutes; a running one has its own timeout.

In `ServerTasks` the Agent is free: it may report any result for any running
task, and confirm an uninstall with a task id and token it was handed together,
at any time and as often as it likes. What holds here holds for every Agent that
keeps such a pair together, as the helper does, which has both from one file.
The query of `ConfirmUninstall` compares the two one by one
(`agent_api/handler.go:938-948`): a request with the current token and the id of
an earlier uninstall would be accepted too. Reporting a failure, it would fail the
earlier row and clear the token while the current row stays active (`:960-982`);
reporting success, it would delete the server. Nothing here covers such a request.

### AgentControl

Adds `host` (Agent installed, process up, server force-deleted), `work` (a
worker's progress with each task) and `helper` (the detached process). It
replaces the free Agent by the code: a task is executed, its result reported,
and only after an acknowledgement is anything destructive done
(`ActsAfterReport`). The response of a heartbeat, a report or a callback may be
lost after it was recorded. `ProcessDies` and `HostReboots` may happen at every
step; the channel is in memory and the helper is in a unit of its own. The
clean-up may fail after having removed some of it.

### AgentUpdate

A file is an inode with `Chunks` chunks, a path leads to an inode, so that
truncating a file another worker is reading and renaming over an open one mean
what they mean on Linux and macOS. Validation reads the path; writing goes
through the descriptor. Each step of a worker may fail, on a sound file too
(`Fails`), and the worker then removes the staging path. `Withdraws` is the control plane cancelling or timing
out an update a worker is still on; the history variable `withdrawn` records
that it has happened.

### Terminal

One server. Each browser of `Browser` fetches one ticket and opens at most one
session, so a browser is also its session's id; each connection of `Conn` is
made once. `BrowserSocket` is a chain of actions because it holds no lock from
one step to the next: `GetsTicket`, `Redeems`, `CreatesRow`, `EntersMap`,
`WritesStart`, then relaying until `Leaves`. `endSession` is `Begins` (the
`sync.Once` and the removal from the map, by whichever of four threads comes
first), `Tells` and `Records`. `AgentSocket` is `Connects` (the upgrade),
`Registers` (the map of Agents, which the Agent may have left again by then),
`Dispatches`, `LosesConn` (also of a connection that has been replaced) and
`Sweeps`; a reader inside `endSession` dispatches nothing else. The insert of a row
may be committed and its answer lost: the handler then gives up and the row stays
active (stage `unheard`). On the host, `Starts`, `Closes` and `Drops` are the reading loop of
`connect`, which writing input may block (`InputBlocks`, `InputReturns`);
`Reports` and `Finishes` are the goroutine that waits for the process.

A connection is two queues. A message may be lost with the connection, never
overtaken. A write that fails is taken to find the connection closed. SIGKILL
is taken to be immediate. `Restarts` is a restart of the control plane: its
memory and connections are gone, the rows stay. The retention job, which
deletes rows after 90 days, is left out.

### AlertState

`rule` and `enabled` are the row of `alert_rules`, `row` the rows of
`alert_state`, `open` the firing less the resolved notifications of each
server. A job (`at`, `read`, `todo`, `on`) is `AlertJob.run`: `ReadsRule`,
`ListsServers`, and for each server `Evaluates`, then `Observes` and `Fires`, or
`Resolves`; a reminder is `FindsReminderDue` and `Reminds`. Each is one
statement or one transaction, and a job acts on what it has read however old
that is. A status rule is judged by what the list said of the server, the others
by a reading at their turn; servers are taken in any order. `GivesUp` is a
foreign key or an empty result, `Skips` any failing statement, missing
metrics or the end of the thirty seconds, `Misreads` the snapshot that counts
as a failure.

The owner's `ToggleRule`, `UpdateRule` and `DeleteRule`, the removal and
deletion of servers (`RemovalBegins`, `ServerDeleted`) and the condition itself
(`ProblemChanges`) may come at any moment. Clocks are abstract: a start is
`recent` or `long` (older than the rule's duration), the last reminder
`recent` or `due`. The constant `Setting` holds what the owner may set the rule
to. Left out are external channels and an edit that lengthens the duration.

### Session

One user, one browser. `local` and `session` are the pair of tokens in
`localStorage` and in the `sessionStorage` of each tab; a pair is a number in
the order it was issued. A request (`call`) is one `apiClient` call or one
login. `Sends` and `Answered` are its ordinary course; on a 401 it `Joins` the
refresh its tab has under way, `Refreshes`, or finds that it `IsSignedOut`. The
refresh or login itself is a request of its own on the way to the service and
back (`phase`, `place`, `old`, `new`): `Stores`, `Clears` and `Breaks` are the
three ways `refreshAccessToken` ends, and `Settles` what `refreshPromise` does
to those who wait for it, in the same turn of the event loop. `Logout` and
`Reloads` may come at any moment and cancel nothing at the service.

At the service, `Checks` is `ConsumeRefreshToken`, one DELETE, or the comparison
of the password in `Login`; `Issues` is the INSERT of `issueTokens`. `Refuses`
is every answer that is not a pair. `ResetPassword` is `ChangesPassword` and
`Revokes`, whose error the code ignores; the `reset-admin` command is one
transaction (`AdminResets`). `login` and `basis` are history: the login a pair
goes back to and the password it was made with. Several resets may overlap:
`revoking` counts those between their two statements. The tabs are independent: a
tab duplicated by the browser starts with a copy of the other's `sessionStorage`,
the same pair in two places, and is not modelled. What `KeepsNewest` says of a
pair that lies in a `sessionStorage` does not hold of such a tab.

### WebsiteMonitor

`row` is the row of `websites` as far as its status goes, `copy` the row as each
job has read it. `Lists`, `Probes`, `Retries` and `Writes` are `checkWebsite`:
`UpdateStatus` writes status and start of the outage as they follow from the
copy (`StartOf`), whoever has written in between. `GivesUp` is a list cut off
before the check begins, a failing statement or the end of the process. When
the two minutes of a list are over the checks under way fail too, and are
recorded as DOWN: `answers` is what a check would find, whatever the reason.
`Edits` and `Deletes` are the owner's. A row may be up or down at the beginning
without a start: migration `20260906_028` added the column and filled in nothing,
and `website_job.go:121-123` has a branch for such a row. Times are names, told
apart from those still in use.

## 3. Runs

All bounds are CONSTANTS: `TaskId` (rows ever inserted), `Beat` and `Call`
(requests served at the same time), `Key` (idempotency keys), `ClaimLimit` (5 in
the code), `Update`, `Release`, `Chunks`, `Browser`, `Conn`, `Job`, `Server`,
`Setting`, `Tab`, `Request`, `MaxPair`, `MaxReset`, `Url`, `Time`.

| Run | Bounds | Question |
|---|---|---|
| `tasks_safety` | 2 rows, 1 heartbeat, 1 request, 1 key | Is duplicate work queued, does the token ever belong to another removal, is an outcome overwritten, does a settled removal block the next one? No: `NoDuplicateWork`, `CurrentTicket`, `OutcomesAreFinal`, `UninstallNeverBlocked`. Is the uninstall the first to be claimed from a queue longer than a batch? Yes: `UninstallGoesFirst`. Does every removal follow the life cycle? Yes: `RemovalIsLifecycle`. |
| `tasks_live` | 2 rows, 1 heartbeat | Does every task end, and every server leave `uninstalling`? Yes, under the fairness below. |
| `tasks_stuck` | 2 rows, 1 heartbeat | Does every server leave `pending`? No, see section 6. |
| `control_tasks` | 1 task, 2 heartbeats, 1 request | Is a server deleted only after its Agent left the host, does the helper run only on recorded consent, is a lost Agent visible, is every task dispatched once, although the owner may cancel at every moment? Yes. Do consent, departure of the Agent and deletion follow each other for the same removal? Yes: `RemovesInOrder`. |
| `update_overlap` | 2 updates, 2 releases, 2 chunks | Is one whole release installed at every moment, and does a worker validate the file it wrote? Yes, unless an update was withdrawn early. Under the same condition, is every replacement one step, to the release being offered? Yes: `ReplacesAtomically`. Can overlapping updates open the executable's own file? No. Does every update in flight end? Yes. |
| `update_withdrawn` | 2 updates | Is the executable whole even when updates are withdrawn? No, see section 6. |
| `terminal_sessions` | 2 browsers, 2 connections, a restart | Is there one session and one shell, does the loss of a connection end every session that uses it? Yes. Can a close message reach a session it is not meant for? No. Does every session take its course of granted, served, ended and released while no other holds the terminal? Yes: `TerminalIsExclusive`. |
| `terminal_live` | 2 browsers, 1 connection | Does a session that was closed, timed out or cut off leave a shell running? No. Can the Agent always serve again? Yes, at the latest after its deadline. |
| `terminal_rows` | 2 browsers, 1 connection | Does every active row belong to a session? No, see section 6. |
| `alert_jobs` | 2 jobs, 1 server, 4 settings of the rule | Do notifications and state always agree, has every incident a start? Yes. Does an incident take its course, and nothing follow a rule or server that has gone? Yes: `IncidentsAreLogged`. Does a lasting problem open an incident, and does its end close it? Yes, as long as the rule is enabled and covers the server. Is a problem that lasts for ever one incident in the end, reminded of again and again? Yes, if the rule repeats. |
| `session_tabs` | 2 tabs, 2 requests, 3 pairs, 1 reset | Can a session fork, an old pair come back over its successor, a waiting call miss its wake-up? No. Does a login live on one token at a time, and not again once it has ended? Yes: `LoginsLiveOnce`. Does a reset that met nothing half done lock everyone out who does not know the new password? Yes. Does every call come to an end? Yes. |
| `website_jobs` | 2 jobs, 2 URLs, 3 times | Does every write leave a start of the outage if and only if it leaves the website down, also in a row older than the column? Yes. Does an outage keep its start? Yes, unless the checks of two jobs overlap. Does the row show what the website settles on? Yes. |

Why the bounds are enough: two rows are what it takes for a task and the
removal that expires it, for two tasks that compete for an index, or for a
removal that fails and is asked for again. One heartbeat handler already
interleaves with all other handlers at every statement; two overlap in the
run of `AgentControl`, where a second claim could dispatch a task twice. The
batch of `tasks_safety` is one row, so that a command and an uninstall do not fit
into it together. The one
task of `control_tasks` is an uninstall, an update or a command that the owner may
cancel; a second removal after a failed one is in `tasks_safety`, where the Agent
is free, and the proofs about `AgentControl` are for any number of tasks. Two
updates are what an overlap takes; what a third one finds is covered by the
proofs. Two chunks tell a partial file from an empty and a whole one.
Two browsers race for one session, or follow each other over the same
connection; two connections are what a replacement takes. Two jobs are an API
and a worker process, or two workers; servers do not share rows, so one is
enough. The settings are a measured rule with reminders, the same moved to
another server, a container and a status rule. Two requests are two refreshes
of one token, by one tab or by two, or a refresh and the login or the waiting
call it meets; three pairs are the first and a successor for each; one reset is
between two statements of the others, and resets that overlap are left to the
proofs. Two URLs are
one before and one after an edit; one time more than there are copies
that may hold one at a write.
What does not depend on a bound is proved in section 5.

Ids are interchangeable, so the safety runs use symmetry. The liveness runs do
not. Deadlock is not checked: rows run out, and a deleted server or an Agent
that has been removed has nothing left to do; requests are made once. Only
`website_jobs` checks it: websites come up and go down for ever.

## 4. Fairness

`OwnerWatches`: deadlines pass, and an open dashboard reads the servers every
twenty or thirty seconds (`frontend/src/app/dashboard/servers/page.tsx:342`,
`servers/[id]/page.tsx:345`), each time running `ExpireStaleAgentUninstalls`:
weak fairness of `Poll`.

`AgentLives`: the Agent's ticker (`agent/cmd/agent/main.go:101-119`) keeps
sending heartbeats, weak fairness of `BeatArrives`; a heartbeat may be cut off
at every statement, but not each time at the same one: strong fairness of the
statements. Without heartbeats a task that was claimed by an Agent which then
disappeared stays in `processing`; the code has no other place that times out
plain commands, so the assumption is needed.

`LiveSpec` of `AgentUpdate`: a download has a two-minute limit and a report a
limit of its own, so every worker goes on; the heartbeat that confirms a
version or times a task out comes sooner or later. `Withdraws` has no
fairness: nobody is obliged to cancel.

`Terminal`: the handlers, the sweep and the Agent's goroutines go on, a connection
that has been upgraded is registered, one that has been replaced is closed
(`service.go:81-83`), and each side finds out that the other has gone, by the pings every thirty seconds and
the read deadlines of ninety (`core/terminal/handler.go:245-268`,
`agent/internal/terminal/client.go:125-151`). The Agent's loop reads messages
in order and only finitely much input precedes each: strong fairness of
`Starts` and `Closes`, and of `Drops` once the connection is closed.
Two more assumptions are premises of the property that needs them:
`NoOrphanShell` assumes that programs read their input (`ProgramsRead`),
`ManagerIsFreed` does without it and relies on the thirty minutes of
`session.go:84` instead (`DeadlinePasses`).

`LiveSpec` of `AlertState`: a ticker starts a run every fifteen seconds
(`alert_job.go:36-55`) and no statement waits for ever, weak fairness of each
job; time passes. `FaultsEnd` says that from some time on statements succeed
and metrics are there: with a database that fails for ever nothing can be
promised.

`LiveSpec` of `Session`: the proxy and the browser give up on a connection in
the end, so every request is answered or fails, and the service handles what
it has received: weak fairness of each request's own steps. Users, expiry and
resets are under no obligation.

`LiveSpec` of `WebsiteMonitor`: the ticker of each job goes on
(`website_job.go:38-55`), weak fairness of `Lists`; a check may be given up at
every step, but not each time at the same one: strong fairness of the steps
that follow.

Nothing is assumed of the owner's other requests, of the Agent's reports, of
the helper's callback, of browsers, shells or networks.

## 5. Proofs

The proofs are for every value of the constants, under `ConstantsAssumption`
(ids and the two null values are distinct, the claim limit is positive),
`UpdateAssumption`, `TerminalAssumption`, `AlertAssumption`,
`SessionAssumption` and `WebsiteAssumption`, evaluated by TLC in the runs.

**Removal.** `CurrentTicket` is not inductive: `RequestUninstall` needs to know
that no other uninstall is active, which is `NoDuplicateWork`, and an insertion
needs to know that a free id has no type and that a request about to insert
has one, which is `RowsAreTyped`. Their conjunction `TicketInv` is inductive
together with `TypeOK`. Most actions only move rows forward and leave the
server alone; `QuietStep` deals with all of them at once, and the seven that
touch both rows have a lemma each. `TicketInvariant` gives
`CurrentTicketAlways`, `NoDuplicateWorkAlways` and
`UninstallNeverBlockedAlways`: a server with no removal in progress has no
active uninstall row, so the unique index has nothing to refuse. `ClaimsApartAlways`
is separate: rows locked for a claim are still queued, and locked for one
claim only, because whoever else would write them waits.

**Refinement.** `Refinement` maps the deletion state to a phase, the token to
the ticket and the uninstall rows to the spent tickets. A step is a stutter
unless it requests, accepts, fails or deletes; the invariant shows that a
report finds the server in `pending` and that a stale task belongs to the
removal under way.

**The other refinements** have the same form. A lemma for each kind of step says
which action of the abstract module it is, and those that change nothing the
mapping looks at are stutters by one lemma; the invariants already proved do the
rest, each with one or two facts of its own:

* `RemovesInOrderAlways`: `Asked` and `Remove` come from `Refinement` through
  `Composes`. That the Agent does not leave its host while the control plane
  still waits for its consent is `ConsentGiven`, a conjunct of `HostInv`; an
  earlier removal that was given up while its helper was at work is the reason
  why `Leave` asks for a second uninstall row and not for the phase alone.
* `ReplacesAtomicallyAlways`: as long as no update was withdrawn, `PatientInvariant`
  says that the file a worker renames is the whole release of the update in
  flight. `AtomicUpdate` promises nothing afterwards.
* `TerminalIsExclusiveAlways`: `HubInv` gives at most one holder. Three more facts
  are inductive with it: how a session ended is known before it is recorded
  (`EndKnown`), no row precedes its handler's insert (`RowsBegin`), and a start
  message is written once and received once (`StartInv`), so that no session's
  shell is started twice. `ExclusiveTerminal` does not promise that a session that is
  ending gives the terminal back: after a restart its row stays active (section 6),
  and a row whose handler never heard of its insert is ending from the beginning.
* `IncidentsAreLoggedAlways`: `GoneHasNoRow`, that a rule or server which has gone
  left no row behind and gets none, is what the foreign keys are for.
  `IncidentLog` allows an incident to open that nobody was watching any more,
  and says nothing of reminders, because the code allows the one and does not
  keep the other in step (section 6).
* `LoginsLiveOnceAlways`: `Rooted` says that every pair goes back to a login, and
  `ExchangedLogin` draws from `OneSuccessor` that a login whose token is being
  exchanged has no valid one and no second exchange. A revocation leaves the
  exchanges under way alone, as the two statements of the code do.

**Outcomes.** `OutcomesAreFinalAlways`: every action either leaves a row or
moves it forward. That a claim does not take a cancelled row back is
`ClaimsApart`. The exception is the one `ConfirmUninstall` makes for the
failed helper's own task, which the property names. `UninstallGoesFirstAlways`
needs nothing but the types: only `BeatLocks` takes rows, and `IsBatch` has the
order of the query.

**Update.** `StagingIsApartAlways` needs to know that the inode of an update
which has not opened its file lies nowhere yet. `WholeUnlessWithdrawnAlways` and
`ValidatesOwnFileAlways` hold until an update is withdrawn: with one worker at a
time (`Alone`) the chunks written so far lie at the staging path, so what is
complete, validated and renamed is one whole release. `PatientInvariant` carries
that through `withdrawn`, which never becomes false again. The violated run
`update_withdrawn` shows that the condition cannot be dropped.

**Control.** `Composes`: every step of the composition is a step of `ServerTasks`
or leaves its variables alone, so what is proved there of the free Agent holds of
this one. What is left is the host, and `HostInv` has a conjunct for each thing that
must stand behind a helper: it serves an uninstall (`HelperServesUninstall`),
whose acceptance is recorded (`ConsentRecorded`), on a server whose row shows
the removal (`RequestVisible`), and if it has cleaned up the Agent is gone
(`CleanedIsGone`). `LifecycleStands` draws what a step of the control plane
leaves standing from `Refinement` and `OutcomesAreFinal`, so that no handler has
to be looked at twice. `RemovedMeansUninstalledAlways`,
`HelperRunsOnRecordedConsentAlways` and `LossIsVisibleAlways` follow.
`DispatchedOnceAlways` needs that what the Agent has received was claimed
(`ReceivedWasClaimed`), that a claimed row is never pending again, and that two
heartbeats do not hold the same row (`ClaimsApart`).
`QueueKeepsWithAgent` collects what carries over from `ServerTasks`.

**Terminal.** `OneSessionAlways` rests on `HubInv`: from the insert of a row
until its end is recorded the row is active, and the index leaves no room for a
second. `BeginsKeepsHubInv` treats the four callers of `endSession` alike.
`NoUnsweptSessionAlways` needs it because the sweep only ends sessions nobody
has begun to end. `CloseNeverStrayAlways` is why the Agent may ignore the id in
`session_close`: `MessageInv` says the Agent has not heard of a session that is
not in the map yet, and `HubInv` that the map is empty while a close is being
written. The row must therefore be closed after the message, as the mutant of
the run `terminal_sessions` shows. `OneShellAlways` follows from `ShellInv`: a
running shell is the current one of the connection the Agent is in.

**Alerts.** `NotesTellStateAlways` would be inductive by itself, as the upsert
and the locked read decide in the transaction that writes the notification.
`IncidentsHaveStartAlways` is not: the INSERT of `handleFiring` sets no start.
It is never taken because the observation before it has made the row, and a
row only goes with its rule or its server, after which neither can come back and
the INSERT is refused by its foreign key. That is `ReadyHasRow`, the
strengthening in `AlertInv`. The update on conflict sets the start anew, so a
row reset in between does no harm.

**Sessions.** `OneSuccessorAlways` rests on `Bounded`: pairs are numbered as they
are issued and nobody holds one that is not, so a new row continues no session
but its own; the DELETE of `ConsumeRefreshToken` is what keeps two refreshes
from both being half done. `KeepsNewestAlways` is not inductive: a refresh that
stores its pair could do so over the successor of another. `Unseen` says that a
pair on its way has been presented by nobody, and `Placed` that a pair lies in
one storage, the one its refresh has chosen; so the storage a refresh writes to
is the only one that can hold what it gave. `WaitersAreWokenAlways` needs `Owned`,
that a tab's promise and the refresh under way belong to each other.
`ResetLocksOutAlways` needs `Sealed`: what is half done after such a reset knows
the new password, and so does what it will issue.

**Websites.** `StartedIffDownAlways` rests on `StartsOfOutages`: a start belongs to an
outage, in the row and in every copy, so that a job which finds the website up
has none to carry over. The converse is only true of what a job has written, as
a row older than the column is down without a start. `OutageStartKeptAlways`
needs no more than the types.

Only model-checked: everything about liveness (`TasksSettle`,
`UninstallingResolves`, `UpdateEnds`, `NoOrphanShell`, `ManagerIsFreed`,
`ProblemsOpen`, `IncidentsClose`, `IncidentsAreRepeated`, `CallsSettle`,
`StatusSettles`), which is out of the prover's reach. Every invariant, action
property and refinement that the passing runs check is proved, and so is the type
invariant of every module, which no run repeats.

## 6. Where the code does not do what it says

* `PendingResolves` (run `tasks_stuck`). `repository.go:261` promises that an
  abandoned uninstall moves to failed. If a heartbeat expires or times the task
  out first (`agent_api/handler.go:637-651`), or the owner cancels it, the task
  is no longer pending or processing, `ExpireStaleAgentUninstalls` does not find
  it, and the server stays in `pending`: no command can be queued and no new
  uninstall requested. Only a forced deletion helps.
* `InstalledIsWhole` (run `update_withdrawn`). `main.go:199` keeps unverified
  bytes from becoming executable, but the file is validated and renamed by path
  and another worker may have truncated it meanwhile.
* `ActiveRowsAreServed` (run `terminal_rows`). Migration
  `20260718_014_terminal_sessions.sql:25` settles active rows as "Control plane
  restarted", but a migration runs once. After a later restart, or an ignored
  error of `closeSession` (`service.go:157`), the row stays active and the
  unique index refuses every new session of that server until the retention
  job deletes the row. An insert that was committed and whose answer was lost
  (`terminal/repository.go:64-66`) leaves such a row too; the property excepts it,
  so the run shows the other two.

These are behaviours of the models that no run isolates:

* `handler.go:414` refuses new tasks during an uninstall, but by a check
  (`CreateChecks`) that is separate from the insertion (`CreateInserts`): a
  removal requested in between finds new work queued behind it.
* `repository.go:352` expires the automatic updates not yet claimed when the
  policy is switched off; one whose statement had already read the policy
  (`BeatConsidersUpdate`, `BeatQueuesUpdate`) is inserted afterwards and claimed by the next heartbeat.
* The Agent answers "A terminal session is already active" (`session.go:62`) as
  long as `m.current` is set. The hub ends a session, and lets the next one
  start, before the process is reaped and `finish` has run; and an error of the
  pseudo terminal ends the session in the hub without telling the Agent, whose
  shell then runs on and blocks the terminal for up to thirty minutes.
* The first reminder of an incident goes out at the next run, not after the
  interval: `handleFiring` sets `last_notified_at` only in its INSERT
  (`alert_job.go:418`), and the row is always there already (section 5).
* The reminder is not part of a transaction: two jobs may both find it due and
  both send it, and a job may send one for an incident another has resolved.
* A job that has found a condition long enough fires even if another job has
  recorded the recovery since: the owner is told of a new incident that has not
  lasted for the duration.
* `UpdateRule` leaves the rows of servers the rule no longer covers. If one is
  firing, no job looks at it again, and the dashboard lists it as an incident
  (`server/repository.go:784-806`) until the rule is disabled, deleted or covers
  the server again.
* An error while reading the snapshot makes a named container or service count as
  failed (`alert_job.go:244`, `:260`), while for every other metric it means no data.
* A refresh under way when the user logs out stores its new pair afterwards
  (`Logout`, `Stores`), and the page's `logout` (`dashboard/layout.tsx:294`) never
  calls `/auth/logout`: the refresh token it removes stays valid for its seven days.
* Two tabs that present the same token: the loser's 401 clears the storage
  (`Clears`), and with it the pair the winner has stored.
* Every answer that is not a pair ends the session, a 429 of the rate limiter or
  an error of the database included (`apiClient.ts:30`); and so do a reload and
  a lost answer after the service has deleted the row.
* `reset-admin/main.go:85` prints that all refresh sessions were revoked. A login or
  a refresh between its check and its INSERT is not there to revoke
  (`ResetLocksOut` has the condition for that), and an access token stays valid
  for up to fifteen minutes.
* `ResetPassword` consumes the reset token before the password is stored
  (`service.go:254-270`) and ignores an error of the revocation (`service.go:273`).
* The login page offers to be remembered for 30 days (`login/page.tsx:127`);
  a refresh token lives for seven (`service.go:153`), from each refresh on.
* Of two overlapping website jobs the one that probed first may write last: until
  the next check the row shows the older result. Each failed check counts as
  sixty seconds of downtime, whoever made it (`website/repository.go:154`, `:165`).
* When a website list outlasts its two minutes (`website_job.go:62`), the checks
  under way fail and are written as DOWN, as `UpdateStatus` has a context of its own.
* An edit of the URL keeps status and start of the outage of the old one until
  the next check, and a check under way is written for the new URL.
* The websites page reports "Triggered health check" whatever happens: the route
  it calls does not exist and the error is swallowed
  (`websites/page.tsx:288-289`). What it shows as response times is random
  (`:207-208`). A day without checks is shown as operational
  (`website/service.go:161-170`).

## 7. Not modelled

The script library and its bulk queueing insert rows the way `CreateTask` does.
`SyncSelfHost` runs at start, and again when a heartbeat brings the self-monitor's
token and no server has it (`agent_api/handler.go:532-533`); it may delete servers
with its tags. What a
command does on its host, the limit of four workers and the capacity of the
channel are left out of `AgentControl`: a task that waits is one that has not
been executed yet. Signatures and checksums are taken as sound. The Windows
path of the update is a script that runs after the process has ended. The
one-hour limit on automatic updates is not modelled: another attempt may
follow at any time, which allows more behaviours than the code.

Of accounts, first-run setup is one transaction under an advisory lock
(`setup/handler.go:123`); `Register` counts before it inserts, but its route
refuses everybody (`auth/routes.go:33`). The refresh cookie is left out of
`Session`, as this client always sends the token in the body; so are the reset
token and the e-mail that carries it.

Of websites, `website_checks` and `daily_uptime_rollups` are appended to after the
row and no job reads them. The certificate columns are read, computed and
written back in the same way as the status, and notify nobody.

The dashboard's pages are not modelled. They render what they have fetched, and
what they hold is replaced by the next answer; where one of them takes part in a
protocol it is a part of a module: its session in `Session`, its terminal
in `Terminal`, its polling in the fairness of `ServerTasks`. Webhook dispatch has no
caller. Retention, rate limiting, network targets, audit, API keys and
administration are single statements or one map under one lock. The collectors
and the notifier are input and output. Version comparison is a pure function on
strings with unit tests of its own. The JavaScript below `.github` and `.agents`
belongs to tools for authors and not to the product.

## 8. What could follow

1. `Enrollment`, the one part with a protocol of its own that no module covers:
   enrollment token, credential, rollback token and first heartbeat
   (`agent_api/handler.go` Enroll, EnrollRollback, GetBootstrapStatus). A token
   enrolls one Agent, and a rollback never strands a running one. `ServerTasks`
   starts where it ends, with an enrolled server; `SyncSelfHost` belongs to it.
2. The four workers and the capacity of the task channel in `AgentControl`, with
   presence as a state: a full channel holds up the heartbeats.
3. `CompareSemVer` and `compareAgentVersions` against a reference order over
   bounded inputs, and the rate limit of automatic updates.
