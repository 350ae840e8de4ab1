----------------------------- MODULE AlertState -----------------------------
(***************************************************************************)
(* One alert rule: its row of alert_state for every server, and the alert  *)
(* jobs that evaluate it.  A job runs in the worker and, when the API is   *)
(* told to, in the API too; during a deployment two workers overlap.       *)
(*                                                                         *)
(* A job reads the rule, then the servers, then for one server after the   *)
(* other the condition, and only then touches the row, each time in a      *)
(* statement or transaction of its own.  Whatever it read may be out of    *)
(* date by then: another job may have opened or resolved the incident, the *)
(* owner may have edited, disabled or deleted the rule, the server may be  *)
(* gone.  Every statement may fail, also because the run takes longer than *)
(* its thirty seconds.                                                     *)
(*                                                                         *)
(* Time is what the row makes of it: a condition has lasted for the rule's *)
(* duration or not, the last reminder is one interval old or not.  Longer  *)
(* durations set by an edit are left out, and so are the external channels *)
(* a committed notification is sent to.                                    *)
(***************************************************************************)
EXTENDS Integers

CONSTANTS Job,          \* alert jobs, each in a process of its own
          Server,       \* servers of the rule's owner
          Setting,      \* what the owner may set the rule to
          NoServer

VARIABLES rule,         \* the row of alert_rules
          enabled,      \* is the rule "on", "off" or "gone"
          server,       \* is each server "active", "removing" or "gone"
          problem,      \* does the rule's condition hold on the server
          row,          \* the rows of alert_state
          open,         \* alert_firing less alert_resolved notifications
          at,           \* where each job stands between two statements
          read,         \* the rule as each job has read it
          todo,         \* servers it has listed, with what it saw of them
          on,           \* the server it is at
          faults        \* statements may fail and metrics be missing

ruleVars == <<rule, enabled>>
jobVars  == <<at, read, todo, on>>
vars == <<ruleVars, server, problem, row, open, jobVars, faults>>

\* "status" is judged by the last_seen_at that is read with the server,
\* "snapshot" stands for container and service, "measured" for the numbers.
Metric  == {"status", "snapshot", "measured"}
Rule    == [metric : Metric, target : SUBSET Server, repeats : BOOLEAN]
Blank   == [metric |-> "status", target |-> {}, repeats |-> FALSE]

ASSUME AlertAssumption == NoServer \notin Server /\ Setting \subseteq Rule

Reading == {"problem", "fine", "unread"}
Stage   == {"idle", "rule", "servers", "problem", "ready", "fine", "repeat", "remind"}
Row     == [status : {"none", "ok", "pending", "firing"},
            started : {"null", "recent", "long"},
            notified : {"null", "recent", "due"}]
NoRow   == [status |-> "none", started |-> "null", notified |-> "null"]

Init ==
  /\ rule \in Setting /\ enabled = "on"
  /\ server = [s \in Server |-> "active"]
  /\ problem = [s \in Server |-> FALSE]
  /\ row = [s \in Server |-> NoRow]
  /\ open = [s \in Server |-> 0]
  /\ at = [j \in Job |-> "idle"]
  /\ read = [j \in Job |-> Blank]
  /\ todo = [j \in Job |-> {}]
  /\ on = [j \in Job |-> NoServer]
  /\ faults = TRUE
-----------------------------------------------------------------------------
(* AlertJob.run and evaluateRule, statement by statement.                  *)

\* Mutant: alert_state.server_id refers to nothing.
WritableByRule(s) == enabled # "gone"

\* Both foreign keys of alert_state: the row can be written.
Writable(s) == enabled # "gone" /\ server[s] # "gone"

\* The job goes on to a later statement about the same server.
Proceeds(j, stage) ==
  /\ at' = [at EXCEPT ![j] = stage]
  /\ UNCHANGED <<read, todo, on>>

\* The job has these servers still to look at; the run ends with the last.
Leaves(j, rest) ==
  /\ todo' = [todo EXCEPT ![j] = rest]
  /\ on' = [on EXCEPT ![j] = NoServer]
  /\ at' = [at EXCEPT ![j] = IF rest = {} THEN "idle" ELSE "servers"]
  /\ read' = [read EXCEPT ![j] = IF rest = {} THEN Blank ELSE @]

Continues(j) == Leaves(j, todo[j])
Passes(j, x) == Leaves(j, todo[j] \ {x})

ReadsRule(j) ==
  /\ at[j] = "idle" /\ enabled = "on"
  /\ at' = [at EXCEPT ![j] = "rule"]
  /\ read' = [read EXCEPT ![j] = rule]
  /\ UNCHANGED <<ruleVars, server, problem, row, open, todo, on, faults>>

\* What the list says of a server: a status rule is judged by it.
Listed(j, s) ==
  IF read[j].metric # "status" THEN "unread"
  ELSE IF problem[s] THEN "problem" ELSE "fine"

ListsServers(j) ==
  /\ at[j] = "rule"
  /\ Leaves(j, {<<s, Listed(j, s)>> : s \in {x \in read[j].target : server[x] = "active"}})
  /\ UNCHANGED <<ruleVars, server, problem, row, open, faults>>

\* evaluateCondition; a server that is gone has no metrics left, only what the
\* list said of it.
Evaluates(j) ==
  /\ at[j] = "servers"
  /\ \E x \in todo[j] :
       /\ x[2] = "unread" => server[x[1]] # "gone"
       /\ todo' = [todo EXCEPT ![j] = @ \ {x}]
       /\ on' = [on EXCEPT ![j] = x[1]]
       /\ at' = [at EXCEPT ![j] =
                   IF x[2] = "problem" \/ (x[2] = "unread" /\ problem[x[1]])
                     THEN "problem" ELSE "fine"]
  /\ UNCHANGED <<ruleVars, server, problem, row, open, read, faults>>

\* What the next statement needs is gone: a listed server's metrics, the rule or
\* the server the row refers to, the row itself.
GivesUp(j) ==
  /\ \/ /\ at[j] = "servers"
        /\ \E s \in Server : <<s, "unread">> \in todo[j] /\ server[s] = "gone"
                               /\ Passes(j, <<s, "unread">>)
     \/ at[j] \in {"problem", "ready"} /\ ~Writable(on[j]) /\ Continues(j)
     \/ at[j] = "repeat" /\ row[on[j]].status = "none" /\ Continues(j)
  /\ UNCHANGED <<ruleVars, server, problem, row, open, faults>>

\* A container or service whose snapshot cannot be read counts as failed.
Misreads(j) ==
  /\ faults /\ at[j] = "servers" /\ read[j].metric = "snapshot"
  /\ \E x \in todo[j] :
       /\ todo' = [todo EXCEPT ![j] = @ \ {x}]
       /\ on' = [on EXCEPT ![j] = x[1]]
  /\ at' = [at EXCEPT ![j] = "problem"]
  /\ UNCHANGED <<ruleVars, server, problem, row, open, read, faults>>

\* No metrics yet, a failing statement, or the end of the run's thirty seconds:
\* the server is skipped, and so may be all that follow.
Skips(j) ==
  /\ faults
  /\ \/ at[j] = "servers" /\ \E x \in todo[j] : Passes(j, x)
     \/ at[j] \notin {"idle", "servers"} /\ Continues(j)
  /\ UNCHANGED <<ruleVars, server, problem, row, open, faults>>

\* Mutant: NOW() without the COALESCE.
StartAnew(r) == IF r.status = "firing" THEN r.started ELSE "recent"

StartOf(r) == IF r.started = "null" THEN "recent" ELSE r.started

\* conditionSatisfiedLongEnough: the upsert keeps an incident and the time its
\* condition was first seen; only measured rules wait for the duration.
Observes(j) ==
  /\ at[j] = "problem" /\ Writable(on[j])
  /\ LET s    == on[j]
         seen == [status   |-> IF row[s].status = "firing" THEN "firing" ELSE "pending",
                  started  |-> StartOf(row[s]),
                  notified |-> row[s].notified]
     IN /\ row' = [row EXCEPT ![s] = seen]
        /\ IF \/ seen.status = "firing" \/ read[j].metric # "measured"
              \/ seen.started = "long"
             THEN Proceeds(j, "ready") ELSE Continues(j)
  /\ UNCHANGED <<ruleVars, server, problem, open, faults>>

\* Mutant: the upsert has no WHERE, so every evaluation fires again.
FiresAgain(j) ==
  /\ at[j] = "ready" /\ Writable(on[j])
  /\ row' = [row EXCEPT ![on[j]] = [status |-> "firing", started |-> StartOf(@),
                                    notified |-> @.notified]]
  /\ open' = [open EXCEPT ![on[j]] = @ + 1]
  /\ Continues(j)
  /\ UNCHANGED <<ruleVars, server, problem, faults>>

\* Mutant: the upsert relies on the start recorded by the observation.
FiresWithoutStart(j) ==
  /\ at[j] = "ready" /\ Writable(on[j])
  /\ IF row[on[j]].status # "firing"
       THEN /\ row' = [row EXCEPT ![on[j]].status = "firing"]
            /\ open' = [open EXCEPT ![on[j]] = @ + 1]
            /\ Continues(j)
       ELSE /\ UNCHANGED <<row, open>>
            /\ IF read[j].repeats THEN Proceeds(j, "repeat") ELSE Continues(j)
  /\ UNCHANGED <<ruleVars, server, problem, faults>>

\* handleFiring: the transition and its notification in one transaction.  Of the
\* upsert only the conflict is ever taken, as the observation has made the row:
\* last_notified_at is not set.  If the row fires already, a rule that repeats
\* goes on to the reminder.
Fires(j) ==
  /\ at[j] = "ready" /\ Writable(on[j])
  /\ LET s == on[j]
     IN IF row[s].status # "firing"
          THEN /\ row' = [row EXCEPT ![s] =
                 IF @.status = "none"
                   THEN [status |-> "firing", started |-> "null", notified |-> "recent"]
                   ELSE [status |-> "firing", started |-> StartOf(@),
                         notified |-> @.notified]]
               /\ open' = [open EXCEPT ![s] = @ + 1]
               /\ Continues(j)
          ELSE /\ UNCHANGED <<row, open>>
               /\ IF read[j].repeats THEN Proceeds(j, "repeat") ELSE Continues(j)
  /\ UNCHANGED <<ruleVars, server, problem, faults>>

\* Mutant: no reminder as long as none is recorded.
FindsReminderOverdue(j) ==
  /\ at[j] = "repeat" /\ row[on[j]].status # "none"
  /\ \/ row[on[j]].notified # "due" /\ Continues(j)
     \/ row[on[j]].notified = "due" /\ Proceeds(j, "remind")
  /\ UNCHANGED <<ruleVars, server, problem, row, open, faults>>

\* The first statement of the reminder reads when the last one was sent; the
\* row may have been resolved or removed since the job found it firing.
FindsReminderDue(j) ==
  /\ at[j] = "repeat" /\ row[on[j]].status # "none"
  /\ \/ row[on[j]].notified = "recent" /\ Continues(j)
     \/ row[on[j]].notified # "recent" /\ Proceeds(j, "remind")
  /\ UNCHANGED <<ruleVars, server, problem, row, open, faults>>

\* The second writes it, whatever has become of the row, and the reminder is
\* sent.
Reminds(j) ==
  /\ at[j] = "remind"
  /\ row' = [row EXCEPT ![on[j]].notified =
               IF row[on[j]].status = "none" THEN @ ELSE "recent"]
  /\ Continues(j)
  /\ UNCHANGED <<ruleVars, server, problem, open, faults>>

\* Mutant: an incident of a rule that repeats is left to the reminders.
ResolvesUnrepeated(j) ==
  /\ at[j] = "fine"
  /\ IF row[on[j]].status = "none" \/ (row[on[j]].status = "firing" /\ read[j].repeats)
       THEN UNCHANGED <<row, open>>
       ELSE /\ row' = [row EXCEPT ![on[j]] = [status |-> "ok", started |-> "null",
                                              notified |-> "null"]]
            /\ open' = [open EXCEPT ![on[j]] = IF row[on[j]].status = "firing"
                                                 THEN @ - 1 ELSE @]
  /\ Continues(j)
  /\ UNCHANGED <<ruleVars, server, problem, faults>>

\* handleResolved: the row is locked, read and reset in one transaction; only
\* an incident is notified of.
Resolves(j) ==
  /\ at[j] = "fine"
  /\ LET s == on[j]
     IN /\ row' = [row EXCEPT ![s] =
               IF @.status = "none" THEN @
               ELSE [status |-> "ok", started |-> "null", notified |-> "null"]]
        /\ open' = [open EXCEPT ![s] = IF row[s].status = "firing" THEN @ - 1 ELSE @]
  /\ Continues(j)
  /\ UNCHANGED <<ruleVars, server, problem, faults>>
-----------------------------------------------------------------------------
(* The owner, the servers and the clock.                                   *)

ToggleRule ==
  /\ enabled # "gone"
  /\ enabled' = IF enabled = "on" THEN "off" ELSE "on"
  /\ UNCHANGED <<rule, server, problem, row, open, jobVars, faults>>

\* The rows of the rule are left as they are, also those of servers it does
\* not cover any more.
UpdateRule ==
  /\ enabled # "gone"
  /\ rule' \in Setting \ {rule}
  /\ UNCHANGED <<enabled, server, problem, row, open, jobVars, faults>>

\* The rule goes with its rows; its notifications are deleted or keep no rule.
RuleGoes ==
  /\ enabled' = "gone"
  /\ row' = [s \in Server |-> NoRow]
  /\ open' = [s \in Server |-> 0]

DeleteRule ==
  /\ enabled # "gone" /\ RuleGoes
  /\ UNCHANGED <<rule, server, problem, jobVars, faults>>

\* A removal is requested: the jobs do not list the server any more.
RemovalBegins(s) ==
  /\ server[s] = "active"
  /\ server' = [server EXCEPT ![s] = "removing"]
  /\ UNCHANGED <<ruleVars, problem, row, open, jobVars, faults>>

\* The server is deleted; its rows go with it, its notifications stay but
\* belong to no server.  A rule of this server alone goes too, unless it is one
\* of all servers of the owner.
ServerDeleted(s) ==
  /\ server[s] # "gone"
  /\ server' = [server EXCEPT ![s] = "gone"]
  /\ \/ /\ row' = [row EXCEPT ![s] = NoRow]
        /\ open' = [open EXCEPT ![s] = 0]
        /\ UNCHANGED enabled
     \/ rule.target = {s} /\ RuleGoes
  /\ UNCHANGED <<rule, problem, jobVars, faults>>

ProblemChanges(s) ==
  /\ server[s] # "gone"
  /\ problem' = [problem EXCEPT ![s] = ~@]
  /\ UNCHANGED <<ruleVars, server, row, open, jobVars, faults>>

DurationPasses(s) ==
  /\ row[s].started = "recent"
  /\ row' = [row EXCEPT ![s].started = "long"]
  /\ UNCHANGED <<ruleVars, server, problem, open, jobVars, faults>>

IntervalPasses(s) ==
  /\ row[s].notified = "recent"
  /\ row' = [row EXCEPT ![s].notified = "due"]
  /\ UNCHANGED <<ruleVars, server, problem, open, jobVars, faults>>

\* From some time on statements succeed and metrics are there: only then do the
\* liveness properties promise anything.
FaultsEnd ==
  /\ faults /\ faults' = FALSE
  /\ UNCHANGED <<ruleVars, server, problem, row, open, jobVars>>
-----------------------------------------------------------------------------
Advances(j) ==
  \/ ReadsRule(j) \/ ListsServers(j) \/ Evaluates(j) \/ GivesUp(j)
  \/ Observes(j) \/ Fires(j) \/ FindsReminderDue(j) \/ Reminds(j) \/ Resolves(j)

Fails(j) == Misreads(j) \/ Skips(j)

ServerStep(s) ==
  \/ RemovalBegins(s) \/ ServerDeleted(s)
  \/ ProblemChanges(s) \/ DurationPasses(s) \/ IntervalPasses(s)

Next ==
  \/ \E j \in Job : Advances(j) \/ Fails(j)
  \/ ToggleRule \/ UpdateRule \/ DeleteRule \/ FaultsEnd
  \/ \E s \in Server : ServerStep(s)

Spec == Init /\ [][Next]_vars

\* Every job starts a run every fifteen seconds and goes on with it; time passes;
\* statements do not fail for ever, which FaultsEnd stands for.
LiveSpec ==
  /\ Spec
  /\ WF_vars(FaultsEnd) /\ \A j \in Job : WF_vars(Advances(j))
  /\ \A s \in Server : WF_vars(DurationPasses(s)) /\ WF_vars(IntervalPasses(s))
-----------------------------------------------------------------------------
\* Types; a job between the statements about a server knows which one it is.
TypeOK ==
  /\ rule \in Setting /\ enabled \in {"on", "off", "gone"}
  /\ server \in [Server -> {"active", "removing", "gone"}]
  /\ problem \in [Server -> BOOLEAN] /\ faults \in BOOLEAN
  /\ row \in [Server -> Row]
  /\ open \in [Server -> Int]
  /\ at \in [Job -> Stage]
  /\ read \in [Job -> Setting \cup {Blank}]
  /\ todo \in [Job -> SUBSET (Server \X Reading)]
  /\ on \in [Job -> Server \cup {NoServer}]
  /\ \A j \in Job : at[j] \notin {"idle", "rule", "servers"} => on[j] \in Server

\* However many jobs act on readings that are out of date, the owner is told
\* of an incident once when it opens and once when it is resolved, in turn:
\* the dashboard notifications agree with the state at every moment.
NotesTellState ==
  \A s \in Server : open[s] = IF row[s].status = "firing" THEN 1 ELSE 0

\* Every condition under observation has a start, from which the duration and
\* the length of the incident are told, and no other has: also if a job fires
\* on what it observed before another one recorded the recovery.
IncidentsHaveStart ==
  \A s \in Server : row[s].status \in {"pending", "firing"} <=> row[s].started # "null"

\* What the rule, the server and the row say together of a server's incident.
LogPhase ==
  [s \in Server |->
     IF enabled = "gone" \/ server[s] = "gone" THEN "gone"
     ELSE IF row[s].status = "firing" THEN "open"
     ELSE IF row[s].status = "pending" THEN "watched" ELSE "quiet"]

LogSince == [s \in Server |-> row[s].started]

Log == INSTANCE IncidentLog WITH phase <- LogPhase, since <- LogSince, told <- open

\* Observations, openings, resolutions and deletions that overlap, each made on
\* what its job read at another time, follow one course (alert_job.go:377-605):
\* the start of a condition never moves while it is watched or open, every
\* incident opens and ends once, and nothing comes back for a rule or a server
\* that has gone.
IncidentsAreLogged == Log!LSpec

Covered(s) == enabled = "on" /\ s \in rule.target /\ server[s] = "active"

\* A problem that lasts opens an incident, even if the jobs take turns in
\* recording it and one of them still resolves what it saw before.
ProblemsOpen ==
  \A s \in Server :
    (Covered(s) /\ problem[s]) ~>
      (row[s].status = "firing" \/ ~problem[s] \/ ~Covered(s))

\* An incident whose condition no longer holds is resolved, as long as the
\* rule covers the server.
IncidentsClose ==
  \A s \in Server :
    (Covered(s) /\ row[s].status = "firing" /\ ~problem[s]) ~>
      (row[s].status # "firing" \/ problem[s] \/ ~Covered(s))

\* A problem that lasts for ever is one incident, which no late job resolves,
\* and it is reminded of again and again, also the first time, when no earlier
\* reminder is recorded.  At most one reminder of each job can be due to what it
\* found before, so the others are of this incident.  Two jobs may both send one.
IncidentsAreRepeated ==
  \A s \in Server :
    <>[](Covered(s) /\ rule.repeats /\ problem[s])
      => /\ <>[](row[s].status = "firing")
         /\ []<>(row[s].notified = "recent") /\ []<>(row[s].notified # "recent")
=============================================================================
