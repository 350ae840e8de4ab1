------------------------- MODULE AlertState_proofs -------------------------
(***************************************************************************)
(* Safety of the alert state, for any number of jobs and servers and       *)
(* whatever the owner may set the rule to, and the refinement of           *)
(* IncidentLog.                                                            *)
(***************************************************************************)
EXTENDS AlertState, TLAPS

\* The types of the variables of the jobs, which most actions only move on.
JobTypes ==
  /\ at \in [Job -> Stage]
  /\ read \in [Job -> Setting \cup {Blank}]
  /\ todo \in [Job -> SUBSET (Server \X Reading)]
  /\ on \in [Job -> Server \cup {NoServer}]
  /\ \A j \in Job : at[j] \notin {"idle", "rule", "servers"} => on[j] \in Server

\* A job that has observed a condition has left a row behind, which only goes
\* together with its rule or its server.
ReadyHasRow ==
  \A j \in Job : at[j] = "ready" /\ Writable(on[j]) => row[on[j]].status # "none"

AlertInv == TypeOK /\ NotesTellState /\ IncidentsHaveStart /\ ReadyHasRow

\* Leaving a server behind keeps the types, if what is left was on the list.
LEMMA LeavesTypes ==
  ASSUME NEW j \in Job, NEW rest \in SUBSET (Server \X Reading),
         JobTypes, Leaves(j, rest)
  PROVE  JobTypes'
<1>1. at' \in [Job -> Stage] /\ todo' \in [Job -> SUBSET (Server \X Reading)]
  BY DEF JobTypes, Leaves, Stage
<1>2. read' \in [Job -> Setting \cup {Blank}]
  BY DEF JobTypes, Leaves
<1>3. on' \in [Job -> Server \cup {NoServer}]
  BY DEF JobTypes, Leaves
<1>4. \A k \in Job : at'[k] \notin {"idle", "rule", "servers"} => on'[k] \in Server
  BY DEF JobTypes, Leaves
<1>. QED BY <1>1, <1>2, <1>3, <1>4 DEF JobTypes

\* So does going on to another statement about the same server.
LEMMA ProceedsTypes ==
  ASSUME NEW j \in Job, NEW stage \in Stage, on[j] \in Server,
         JobTypes, Proceeds(j, stage)
  PROVE  JobTypes'
<1>1. at' \in [Job -> Stage]
  BY DEF JobTypes, Proceeds
<1>2. \A k \in Job : at'[k] \notin {"idle", "rule", "servers"} => on'[k] \in Server
  BY DEF JobTypes, Proceeds
<1>. QED BY <1>1, <1>2 DEF JobTypes, Proceeds

\* And picking the next server of the list, whatever is found of it.
LEMMA PicksTypes ==
  ASSUME NEW j \in Job, NEW x \in todo[j], NEW stage \in Stage, JobTypes,
         todo' = [todo EXCEPT ![j] = @ \ {x}],
         on' = [on EXCEPT ![j] = x[1]],
         at' = [at EXCEPT ![j] = stage], read' = read
  PROVE  JobTypes'
<1>1. x[1] \in Server
  BY DEF JobTypes
<1>2. at' \in [Job -> Stage] /\ todo' \in [Job -> SUBSET (Server \X Reading)]
  BY DEF JobTypes
<1>3. on' \in [Job -> Server \cup {NoServer}]
  BY <1>1 DEF JobTypes
<1>4. \A k \in Job : at'[k] \notin {"idle", "rule", "servers"} => on'[k] \in Server
  BY <1>1 DEF JobTypes
<1>. QED BY <1>2, <1>3, <1>4 DEF JobTypes

\* Every step of a job keeps the types of the jobs.
LEMMA JobStepTypes ==
  ASSUME NEW j \in Job, TypeOK, Advances(j) \/ Fails(j)
  PROVE  JobTypes'
<1>. USE DEF TypeOK
<1>t. JobTypes
  BY DEF JobTypes
<1>c. ASSUME Continues(j) PROVE JobTypes'
  BY <1>t, <1>c, LeavesTypes DEF Continues
<1>p. ASSUME NEW x, Passes(j, x) PROVE JobTypes'
  BY <1>t, <1>p, LeavesTypes DEF Passes
<1>1. CASE ReadsRule(j)
  <2>1. at' \in [Job -> Stage] /\ read' \in [Job -> Setting \cup {Blank}]
    BY <1>1 DEF ReadsRule, Stage
  <2>2. \A k \in Job : at'[k] \notin {"idle", "rule", "servers"} => on'[k] \in Server
    BY <1>1 DEF ReadsRule
  <2>. QED BY <1>1, <2>1, <2>2 DEF ReadsRule, JobTypes
<1>2. CASE ListsServers(j)
  <2>1. read[j].target \in SUBSET Server
    BY AlertAssumption DEF Rule, Blank
  <2>2. \A s \in Server : Listed(j, s) \in Reading
    BY DEF Listed, Reading
  <2>3. {<<s, Listed(j, s)>> : s \in {x \in read[j].target : server[x] = "active"}}
          \in SUBSET (Server \X Reading)
    BY <2>1, <2>2
  <2>. QED BY <1>2, <1>t, <2>3, LeavesTypes DEF ListsServers
<1>3. CASE Evaluates(j)
  <2>1. PICK x \in todo[j] :
          /\ todo' = [todo EXCEPT ![j] = @ \ {x}]
          /\ on' = [on EXCEPT ![j] = x[1]]
          /\ at' = [at EXCEPT ![j] =
                      IF x[2] = "problem" \/ (x[2] = "unread" /\ problem[x[1]])
                        THEN "problem" ELSE "fine"]
    BY <1>3 DEF Evaluates
  <2>2. PICK stage \in Stage : at' = [at EXCEPT ![j] = stage]
    BY <2>1 DEF Stage
  <2>. QED BY <1>3, <1>t, <2>1, <2>2, PicksTypes DEF Evaluates
<1>4. CASE GivesUp(j)
  BY <1>4, <1>c, <1>p DEF GivesUp
<1>5. CASE Misreads(j)
  <2>1. PICK x \in todo[j] : /\ todo' = [todo EXCEPT ![j] = @ \ {x}]
                             /\ on' = [on EXCEPT ![j] = x[1]]
    BY <1>5 DEF Misreads
  <2>2. "problem" \in Stage /\ at' = [at EXCEPT ![j] = "problem"]
    BY <1>5 DEF Misreads, Stage
  <2>. QED BY <1>5, <1>t, <2>1, <2>2, PicksTypes DEF Misreads
<1>6. CASE Skips(j)
  BY <1>6, <1>c, <1>p DEF Skips
<1>7. CASE Observes(j)
  <2>1. "ready" \in Stage /\ on[j] \in Server
    BY <1>7 DEF Observes, Stage
  <2>2. Proceeds(j, "ready") \/ Continues(j)
    BY <1>7 DEF Observes
  <2>. QED BY <1>t, <1>c, <2>1, <2>2, ProceedsTypes
<1>8. CASE Fires(j)
  <2>1. "repeat" \in Stage /\ on[j] \in Server
    BY <1>8 DEF Fires, Stage
  <2>2. Proceeds(j, "repeat") \/ Continues(j)
    BY <1>8 DEF Fires
  <2>. QED BY <1>t, <1>c, <2>1, <2>2, ProceedsTypes
<1>9. CASE FindsReminderDue(j)
  <2>1. "remind" \in Stage /\ on[j] \in Server
    BY <1>9 DEF FindsReminderDue, Stage
  <2>2. Proceeds(j, "remind") \/ Continues(j)
    BY <1>9 DEF FindsReminderDue
  <2>. QED BY <1>t, <1>c, <2>1, <2>2, ProceedsTypes
<1>10. CASE Reminds(j) \/ Resolves(j)
  BY <1>10, <1>c DEF Reminds, Resolves
<1>. QED
  BY <1>1, <1>2, <1>3, <1>4, <1>5, <1>6, <1>7, <1>8, <1>9, <1>10 DEF Advances, Fails

-----------------------------------------------------------------------------
(* The rows and the notifications.                                         *)

RowInv ==
  /\ row \in [Server -> Row] /\ open \in [Server -> Int]
  /\ NotesTellState /\ IncidentsHaveStart

\* What a single row may become.
LEMMA OneRow ==
  ASSUME NEW s \in Server, RowInv,
         row' \in [Server -> Row], open' \in [Server -> Int],
         \A x \in Server : x # s => row'[x] = row[x] /\ open'[x] = open[x],
         open'[s] = IF row'[s].status = "firing" THEN 1 ELSE 0,
         row'[s].status \in {"pending", "firing"} <=> row'[s].started # "null"
  PROVE  RowInv'
<1>1. NotesTellState'
  BY DEF RowInv, NotesTellState
<1>2. IncidentsHaveStart'
  BY DEF RowInv, IncidentsHaveStart
<1>. QED BY <1>1, <1>2 DEF RowInv

LEMMA StartIsSet == ASSUME NEW r \in Row PROVE StartOf(r) \in {"recent", "long"}
BY DEF Row, StartOf

\* A row keeps being there unless a step says otherwise.
RowsStay == \A s \in Server : row[s].status # "none" => row'[s].status # "none"

\* The observation makes the row there is, and keeps an incident open.
LEMMA ObservesRow ==
  ASSUME NEW j \in Job, TypeOK, RowInv, Observes(j)
  PROVE  RowInv' /\ RowsStay /\ row'[on[j]].status # "none"
<1>1. on[j] \in Server /\ row[on[j]] \in Row
  BY DEF TypeOK, Observes
<1>2. PICK s \in Server : s = on[j]
  BY <1>1
<1>3. row' = [row EXCEPT ![s] =
                [status   |-> IF row[s].status = "firing" THEN "firing" ELSE "pending",
                 started  |-> StartOf(row[s]),
                 notified |-> row[s].notified]]
  BY <1>2 DEF Observes
<1>4. row' \in [Server -> Row] /\ open' = open
  BY <1>1, <1>2, <1>3, StartIsSet DEF Row, RowInv, Observes
<1>5. /\ row'[s].status = IF row[s].status = "firing" THEN "firing" ELSE "pending"
      /\ row'[s].started \in {"recent", "long"}
      /\ \A x \in Server : x # s => row'[x] = row[x]
  BY <1>1, <1>2, <1>3, StartIsSet DEF RowInv
<1>6. open[s] = IF row[s].status = "firing" THEN 1 ELSE 0
  BY DEF RowInv, NotesTellState
<1>7. RowInv'
  BY <1>4, <1>5, <1>6, OneRow DEF RowInv
<1>. QED BY <1>2, <1>5, <1>7 DEF RowsStay

\* The row of a ready job is there, so the insertion that leaves out the start
\* of the condition is never made.
LEMMA FiresRow ==
  ASSUME NEW j \in Job, TypeOK, RowInv, ReadyHasRow, Fires(j)
  PROVE  RowInv' /\ RowsStay
<1>1. on[j] \in Server /\ row[on[j]] \in Row /\ row[on[j]].status # "none"
  BY DEF TypeOK, Fires, ReadyHasRow
<1>2. PICK s \in Server : s = on[j]
  BY <1>1
<1>3. CASE row[s].status = "firing"
  <2>1. row' = row /\ open' = open
    BY <1>2, <1>3 DEF Fires
  <2>. QED BY <2>1 DEF RowInv, NotesTellState, IncidentsHaveStart, RowsStay
<1>4. CASE row[s].status # "firing"
  <2>1. row' = [row EXCEPT ![s] = [status |-> "firing", started |-> StartOf(row[s]),
                                   notified |-> row[s].notified]]
    BY <1>1, <1>2, <1>4 DEF Fires
  <2>2. open' = [open EXCEPT ![s] = open[s] + 1]
    BY <1>2, <1>4 DEF Fires
  <2>3. row' \in [Server -> Row] /\ open' \in [Server -> Int]
    BY <1>1, <1>2, <2>1, <2>2, StartIsSet DEF Row, RowInv
  <2>4. /\ row'[s].status = "firing" /\ row'[s].started \in {"recent", "long"}
        /\ \A x \in Server : x # s => row'[x] = row[x] /\ open'[x] = open[x]
    BY <1>1, <1>2, <2>1, <2>2, StartIsSet DEF RowInv
  <2>5. open'[s] = 1
    BY <1>4, <2>2 DEF RowInv, NotesTellState
  <2>6. RowInv'
    BY <2>3, <2>4, <2>5, OneRow
  <2>. QED BY <2>4, <2>6 DEF RowsStay
<1>. QED BY <1>3, <1>4

\* A reminder, and the passing of time, leave the state of the row alone.
LEMMA MarksRow ==
  ASSUME NEW s \in Server, NEW mark \in {"null", "recent", "due"}, RowInv,
         row' = [row EXCEPT ![s].notified = mark], open' = open
  PROVE  RowInv' /\ RowsStay
<1>1. row' \in [Server -> Row]
  BY DEF RowInv, Row
<1>2. \A x \in Server : row'[x].status = row[x].status /\ row'[x].started = row[x].started
  BY DEF RowInv, Row
<1>. QED BY <1>1, <1>2 DEF RowInv, NotesTellState, IncidentsHaveStart, RowsStay

LEMMA DurationRow ==
  ASSUME NEW s \in Server, RowInv, DurationPasses(s)
  PROVE  RowInv' /\ RowsStay
<1>1. row' = [row EXCEPT ![s].started = "long"] /\ open' = open /\ row[s].started = "recent"
  BY DEF DurationPasses
<1>2. row' \in [Server -> Row]
  BY <1>1 DEF RowInv, Row
<1>3. \A x \in Server : /\ row'[x].status = row[x].status
                        /\ row'[x].started = "null" <=> row[x].started = "null"
  BY <1>1 DEF RowInv, Row
<1>. QED BY <1>1, <1>2, <1>3 DEF RowInv, NotesTellState, IncidentsHaveStart, RowsStay

LEMMA ResolvesRow ==
  ASSUME NEW j \in Job, TypeOK, RowInv, Resolves(j)
  PROVE  RowInv' /\ RowsStay
<1>1. on[j] \in Server /\ row[on[j]] \in Row
  BY DEF TypeOK, Resolves
<1>2. PICK s \in Server : s = on[j]
  BY <1>1
<1>3. open' = [open EXCEPT ![s] = IF row[s].status = "firing" THEN open[s] - 1 ELSE open[s]]
  BY <1>2 DEF Resolves
<1>4. open[s] = IF row[s].status = "firing" THEN 1 ELSE 0
  BY DEF RowInv, NotesTellState
<1>5. /\ open' \in [Server -> Int] /\ open'[s] = 0
      /\ \A x \in Server : x # s => open'[x] = open[x]
  BY <1>3, <1>4 DEF RowInv
<1>6. CASE row[s].status = "none"
  <2>1. row' = row
    BY <1>2, <1>6 DEF Resolves, RowInv
  <2>2. row[s].started = "null"
    BY <1>6 DEF RowInv, IncidentsHaveStart
  <2>3. RowInv'
    BY <1>5, <1>6, <2>1, <2>2, OneRow DEF RowInv
  <2>. QED BY <2>1, <2>3 DEF RowsStay
<1>7. CASE row[s].status # "none"
  <2>1. row' = [row EXCEPT ![s] = [status |-> "ok", started |-> "null",
                                   notified |-> "null"]]
    BY <1>2, <1>7 DEF Resolves
  <2>2. row' \in [Server -> Row]
    BY <2>1 DEF Row, RowInv
  <2>3. /\ row'[s].status = "ok" /\ row'[s].started = "null"
        /\ \A x \in Server : x # s => row'[x] = row[x]
    BY <2>1 DEF RowInv
  <2>4. RowInv'
    BY <1>5, <2>2, <2>3, OneRow
  <2>. QED BY <2>3, <2>4 DEF RowsStay
<1>. QED BY <1>6, <1>7

\* The rows of a rule or of a server that goes are empty, and tell of nothing.
LEMMA GoneRows ==
  ASSUME RowInv, NEW S \in SUBSET Server,
         row' = [x \in Server |-> IF x \in S THEN NoRow ELSE row[x]],
         open' = [x \in Server |-> IF x \in S THEN 0 ELSE open[x]]
  PROVE  RowInv'
<1>1. row' \in [Server -> Row] /\ open' \in [Server -> Int]
  BY DEF RowInv, Row, NoRow
<1>2. NotesTellState'
  BY DEF RowInv, NotesTellState, NoRow
<1>3. IncidentsHaveStart'
  BY DEF RowInv, IncidentsHaveStart, NoRow
<1>. QED BY <1>1, <1>2, <1>3 DEF RowInv

LEMMA RuleGoesRows == ASSUME RowInv, RuleGoes PROVE RowInv'
<1>1. /\ row' = [x \in Server |-> IF x \in Server THEN NoRow ELSE row[x]]
      /\ open' = [x \in Server |-> IF x \in Server THEN 0 ELSE open[x]]
  BY DEF RuleGoes
<1>. QED BY <1>1, GoneRows

LEMMA ServerDeletedRows ==
  ASSUME NEW s \in Server, RowInv, ServerDeleted(s) PROVE RowInv'
<1>1. CASE RuleGoes
  BY <1>1, RuleGoesRows
<1>2. CASE row' = [row EXCEPT ![s] = NoRow] /\ open' = [open EXCEPT ![s] = 0]
  <2>1. /\ row' = [x \in Server |-> IF x \in {s} THEN NoRow ELSE row[x]]
        /\ open' = [x \in Server |-> IF x \in {s} THEN 0 ELSE open[x]]
    BY <1>2 DEF RowInv
  <2>. QED BY <2>1, GoneRows
<1>. QED BY <1>1, <1>2 DEF ServerDeleted

\* A rule or a server that is gone does not come back.
LEMMA GoneForGood ==
  ASSUME TypeOK, Next
  PROVE  \A s \in Server : Writable(s)' => Writable(s)
<1>1. enabled = "gone" => enabled' = "gone"
  BY DEF Next, Advances, Fails, ServerStep, ReadsRule, ListsServers, Evaluates,
         GivesUp, Misreads, Skips, Observes, Fires, FindsReminderDue, Reminds,
         Resolves, ToggleRule, UpdateRule, DeleteRule, FaultsEnd, RemovalBegins,
         ServerDeleted, RuleGoes, ProblemChanges, DurationPasses, IntervalPasses,
         ruleVars
<1>2. \A s \in Server : server[s] = "gone" => server'[s] = "gone"
  BY DEF TypeOK, Next, Advances, Fails, ServerStep, ReadsRule, ListsServers,
         Evaluates, GivesUp, Misreads, Skips, Observes, Fires, FindsReminderDue,
         Reminds, Resolves, ToggleRule, UpdateRule, DeleteRule, FaultsEnd,
         RemovalBegins, ServerDeleted, ProblemChanges, DurationPasses,
         IntervalPasses
<1>. QED BY <1>1, <1>2 DEF Writable
-----------------------------------------------------------------------------
(* The invariant.                                                          *)

\* Rows of a rule and server that are still there stay; other jobs may be ready
\* for one, the job that takes the step only if it has just observed it.
LEMMA ReadyKept ==
  ASSUME TypeOK, Next, ReadyHasRow,
         \A s \in Server : Writable(s)' /\ row[s].status # "none" => row'[s].status # "none",
         \A k \in Job : at'[k] = "ready" =>
           \/ at[k] = "ready" /\ on'[k] = on[k]
           \/ on'[k] \in Server /\ row'[on'[k]].status # "none"
  PROVE  ReadyHasRow'
<1>. SUFFICES ASSUME NEW k \in Job, at'[k] = "ready", Writable(on[k])'
              PROVE  row'[on'[k]].status # "none"
  BY DEF ReadyHasRow
<1>1. CASE at[k] = "ready" /\ on'[k] = on[k]
  <2>1. on[k] \in Server
    BY <1>1 DEF TypeOK
  <2>2. Writable(on[k])
    BY <1>1, <2>1, GoneForGood DEF Writable
  <2>3. row[on[k]].status # "none"
    BY <1>1, <2>2 DEF ReadyHasRow
  <2>. QED BY <1>1, <2>1, <2>3 DEF Writable
<1>2. CASE on'[k] \in Server /\ row'[on'[k]].status # "none"
  BY <1>2
<1>. QED BY <1>1, <1>2

\* Nobody becomes ready by leaving a server, or by anything but an observation.
LEMMA LeavesNotReady ==
  ASSUME NEW j \in Job, JobTypes, NEW rest, Leaves(j, rest)
  PROVE  \A k \in Job : at'[k] = "ready" => at[k] = "ready" /\ on'[k] = on[k]
BY DEF Leaves, JobTypes

LEMMA ReadyByObservation ==
  ASSUME NEW j \in Job, TypeOK, Advances(j) \/ Fails(j)
  PROVE  \A k \in Job : at'[k] = "ready" =>
           \/ at[k] = "ready" /\ on'[k] = on[k]
           \/ k = j /\ Observes(j) /\ on'[k] = on[j] /\ on[j] \in Server
<1>t. JobTypes
  BY DEF TypeOK, JobTypes
<1>c. ASSUME Continues(j)
      PROVE  \A k \in Job : at'[k] = "ready" => at[k] = "ready" /\ on'[k] = on[k]
  BY <1>t, <1>c, LeavesNotReady DEF Continues
<1>p. ASSUME NEW x, Passes(j, x)
      PROVE  \A k \in Job : at'[k] = "ready" => at[k] = "ready" /\ on'[k] = on[k]
  BY <1>t, <1>p, LeavesNotReady DEF Passes
<1>1. CASE Observes(j)
  <2>1. CASE Proceeds(j, "ready")
    BY <1>1, <2>1 DEF Proceeds, Observes, TypeOK
  <2>. QED BY <1>1, <1>c, <2>1 DEF Observes
<1>2. CASE Fires(j)
  <2>1. CASE Proceeds(j, "repeat")
    BY <2>1 DEF Proceeds, TypeOK
  <2>. QED BY <1>2, <1>c, <2>1 DEF Fires
<1>3. CASE FindsReminderDue(j)
  <2>1. CASE Proceeds(j, "remind")
    BY <2>1 DEF Proceeds, TypeOK
  <2>. QED BY <1>3, <1>c, <2>1 DEF FindsReminderDue
<1>4. CASE Reminds(j) \/ Resolves(j)
  BY <1>4, <1>c DEF Reminds, Resolves
<1>5. CASE GivesUp(j) \/ Skips(j)
  BY <1>5, <1>c, <1>p DEF GivesUp, Skips
<1>6. CASE ReadsRule(j)
  BY <1>6 DEF ReadsRule, TypeOK
<1>7. CASE ListsServers(j)
  BY <1>7, <1>t, LeavesNotReady DEF ListsServers
<1>8. CASE Evaluates(j)
  <2>1. PICK x \in todo[j], stage \in {"problem", "fine"} :
          on' = [on EXCEPT ![j] = x[1]] /\ at' = [at EXCEPT ![j] = stage]
    BY <1>8 DEF Evaluates
  <2>. QED BY <2>1 DEF TypeOK
<1>9. CASE Misreads(j)
  <2>1. PICK x \in todo[j] :
          on' = [on EXCEPT ![j] = x[1]] /\ at' = [at EXCEPT ![j] = "problem"]
    BY <1>9 DEF Misreads
  <2>. QED BY <2>1 DEF TypeOK
<1>. QED
  BY <1>1, <1>2, <1>3, <1>4, <1>5, <1>6, <1>7, <1>8, <1>9 DEF Advances, Fails

\* A step of a job keeps the rows right.
LEMMA JobStepRows ==
  ASSUME NEW j \in Job, AlertInv, Advances(j) \/ Fails(j)
  PROVE  /\ RowInv' /\ RowsStay
         /\ Observes(j) => row'[on[j]].status # "none"
<1>1. TypeOK /\ RowInv /\ ReadyHasRow
  BY DEF AlertInv, RowInv, TypeOK
<1>2. CASE Observes(j)
  BY <1>1, <1>2, ObservesRow
<1>3. CASE Fires(j) /\ ~Observes(j)
  BY <1>1, <1>3, FiresRow
<1>4. CASE Resolves(j) /\ ~Observes(j)
  BY <1>1, <1>4, ResolvesRow
<1>5. CASE Reminds(j) /\ ~Observes(j)
  <2>1. on[j] \in Server /\ open' = open
    BY <1>1, <1>5 DEF TypeOK, Reminds
  <2>2. PICK mark \in {"null", "recent", "due"} :
          row' = [row EXCEPT ![on[j]].notified = mark]
    BY <1>1, <1>5, <2>1 DEF Reminds, RowInv, Row
  <2>. QED BY <1>1, <1>5, <2>1, <2>2, MarksRow
<1>6. CASE row' = row /\ open' = open /\ ~Observes(j)
  BY <1>1, <1>6 DEF RowInv, NotesTellState, IncidentsHaveStart, RowsStay
<1>. QED
  BY <1>2, <1>3, <1>4, <1>5, <1>6
  DEF Advances, Fails, ReadsRule, ListsServers, Evaluates, GivesUp, Misreads, Skips,
      FindsReminderDue

LEMMA InitAlertInv == ASSUME Init PROVE AlertInv
<1>1. TypeOK
  BY DEF Init, TypeOK, Row, NoRow, Stage, Blank
<1>. QED BY <1>1 DEF Init, AlertInv, NotesTellState, IncidentsHaveStart, ReadyHasRow, NoRow

LEMMA NextAlertInv == ASSUME AlertInv, [Next]_vars PROVE AlertInv'
<1>t. TypeOK /\ RowInv /\ JobTypes /\ ReadyHasRow
  BY DEF AlertInv, TypeOK, RowInv, JobTypes
<1>1. ASSUME NEW j \in Job, Advances(j) \/ Fails(j) PROVE AlertInv'
  <2>1. RowInv' /\ RowsStay /\ (Observes(j) => row'[on[j]].status # "none")
    BY <1>1, JobStepRows
  <2>2. JobTypes'
    BY <1>t, <1>1, JobStepTypes
  <2>3. rule' = rule /\ enabled' = enabled /\ server' = server /\ problem' = problem
          /\ faults' = faults
    BY <1>1 DEF Advances, Fails, ReadsRule, ListsServers, Evaluates, GivesUp, Misreads,
                Skips, Observes, Fires, FindsReminderDue, Reminds, Resolves, ruleVars
  <2>4. TypeOK'
    BY <1>t, <2>1, <2>2, <2>3 DEF TypeOK, RowInv, JobTypes
  <2>5. \A k \in Job : at'[k] = "ready" =>
          \/ at[k] = "ready" /\ on'[k] = on[k]
          \/ on'[k] \in Server /\ row'[on'[k]].status # "none"
    BY <1>t, <1>1, <2>1, ReadyByObservation
  <2>6. ReadyHasRow'
    BY <1>t, <1>1, <2>1, <2>5, ReadyKept DEF RowsStay, Next
  <2>. QED BY <2>1, <2>4, <2>6 DEF AlertInv, RowInv
<1>2. ASSUME UNCHANGED jobVars, RowInv', TypeOK', Next,
             \A s \in Server :
               Writable(s)' /\ row[s].status # "none" => row'[s].status # "none"
      PROVE  AlertInv'
  <2>1. ReadyHasRow'
    BY <1>t, <1>2, ReadyKept DEF jobVars
  <2>. QED BY <1>2, <2>1 DEF AlertInv, RowInv
<1>3. CASE ToggleRule \/ UpdateRule \/ FaultsEnd
  <2>1. row' = row /\ open' = open /\ UNCHANGED jobVars
    BY <1>3 DEF ToggleRule, UpdateRule, FaultsEnd
  <2>2. RowInv'
    BY <1>t, <2>1 DEF RowInv, NotesTellState, IncidentsHaveStart
  <2>3. TypeOK'
    BY <1>t, <1>3 DEF TypeOK, ToggleRule, UpdateRule, FaultsEnd, ruleVars, jobVars
  <2>. QED BY <1>2, <1>3, <2>1, <2>2, <2>3 DEF Next
<1>4. CASE DeleteRule
  <2>1. RowInv'
    BY <1>t, <1>4, RuleGoesRows DEF DeleteRule
  <2>2. TypeOK'
    BY <1>t, <1>4, <2>1 DEF TypeOK, DeleteRule, RuleGoes, jobVars, RowInv
  <2>3. UNCHANGED jobVars /\ \A s \in Server : ~Writable(s)'
    BY <1>4 DEF DeleteRule, RuleGoes, Writable
  <2>. QED BY <1>2, <1>4, <2>1, <2>2, <2>3 DEF Next
<1>5. ASSUME NEW s \in Server, ServerDeleted(s) PROVE AlertInv'
  <2>1. RowInv'
    BY <1>t, <1>5, ServerDeletedRows
  <2>2. TypeOK'
    BY <1>t, <1>5, <2>1 DEF TypeOK, ServerDeleted, RuleGoes, jobVars, RowInv
  <2>3. \A x \in Server :
          Writable(x)' /\ row[x].status # "none" => row'[x].status # "none"
    BY <1>t, <1>5 DEF ServerDeleted, RuleGoes, Writable, TypeOK
  <2>4. UNCHANGED jobVars
    BY <1>5 DEF ServerDeleted
  <2>. QED BY <1>2, <1>5, <2>1, <2>2, <2>3, <2>4 DEF Next, ServerStep
<1>6. ASSUME NEW s \in Server, RemovalBegins(s) \/ ProblemChanges(s) PROVE AlertInv'
  <2>1. row' = row /\ open' = open /\ UNCHANGED jobVars
    BY <1>6 DEF RemovalBegins, ProblemChanges
  <2>2. RowInv'
    BY <1>t, <2>1 DEF RowInv, NotesTellState, IncidentsHaveStart
  <2>3. TypeOK'
    BY <1>t, <1>6 DEF TypeOK, RemovalBegins, ProblemChanges, ruleVars, jobVars
  <2>. QED BY <1>2, <1>6, <2>1, <2>2, <2>3 DEF Next, ServerStep
<1>7. ASSUME NEW s \in Server, DurationPasses(s) \/ IntervalPasses(s) PROVE AlertInv'
  <2>1. RowInv' /\ RowsStay
    <3>1. CASE DurationPasses(s)
      BY <1>t, <3>1, DurationRow
    <3>2. CASE IntervalPasses(s)
      BY <1>t, <3>2, MarksRow DEF IntervalPasses
    <3>. QED BY <1>7, <3>1, <3>2
  <2>2. UNCHANGED jobVars
    BY <1>7 DEF DurationPasses, IntervalPasses
  <2>3. TypeOK'
    BY <1>t, <1>7, <2>1 DEF TypeOK, DurationPasses, IntervalPasses, ruleVars, jobVars, RowInv
  <2>. QED BY <1>2, <1>7, <2>1, <2>2, <2>3 DEF Next, ServerStep, RowsStay
<1>8. CASE UNCHANGED vars
  BY <1>t, <1>8
  DEF AlertInv, RowInv, TypeOK, NotesTellState, IncidentsHaveStart, ReadyHasRow, Writable,
      vars, ruleVars, jobVars
<1>. QED BY <1>1, <1>3, <1>4, <1>5, <1>6, <1>7, <1>8 DEF Next, ServerStep

\* The invariant the three theorems rest on: besides what they state, a job
\* that is ready to fire has left a row behind.
THEOREM AlertInvariant == Spec => []AlertInv
<1>1. Init => AlertInv
  BY InitAlertInv
<1>2. AlertInv /\ [Next]_vars => AlertInv'
  BY NextAlertInv
<1>. QED BY <1>1, <1>2, PTL DEF Spec

\* Types (AlertJob, alert_state), for any number of jobs, servers and rules.
THEOREM TypeCorrect == Spec => []TypeOK
<1>1. AlertInv => TypeOK
  BY DEF AlertInv
<1>. QED BY <1>1, AlertInvariant, PTL

\* handleFiring and handleResolved notify of every incident once when it opens
\* and once when it is resolved, in turn, however many jobs run.
THEOREM NotesTellStateAlways == Spec => []NotesTellState
<1>1. AlertInv => NotesTellState
  BY DEF AlertInv
<1>. QED BY <1>1, AlertInvariant, PTL

\* Every pending condition and every incident has the time it was first seen,
\* although one branch of handleFiring's upsert does not set it.
THEOREM IncidentsHaveStartAlways == Spec => []IncidentsHaveStart
<1>1. AlertInv => IncidentsHaveStart
  BY DEF AlertInv
<1>. QED BY <1>1, AlertInvariant, PTL
-----------------------------------------------------------------------------
(* The course of an incident.                                              *)

\* What has gone has left no row behind, and none is written for it.
GoneHasNoRow ==
  \A s \in Server : enabled = "gone" \/ server[s] = "gone" => row[s].status = "none"

LEMMA GoneHasNoRowStep ==
  ASSUME AlertInv, GoneHasNoRow, [Next]_vars
  PROVE  GoneHasNoRow'
<1>t. TypeOK
  BY DEF AlertInv
<1>u. ASSUME UNCHANGED <<enabled, server>>,
             \A s \in Server : row[s].status = "none" /\ ~Writable(s) => row'[s].status = "none"
      PROVE  GoneHasNoRow'
  BY <1>u DEF GoneHasNoRow, Writable
<1>1. ASSUME NEW j \in Job, Observes(j) \/ Fires(j) PROVE GoneHasNoRow'
  <2>1. /\ UNCHANGED <<enabled, server>> /\ on[j] \in Server /\ Writable(on[j])
        /\ \A s \in Server : s # on[j] => row'[s] = row[s]
    BY <1>t, <1>1 DEF Observes, Fires, TypeOK, ruleVars
  <2> QED BY <1>u, <2>1
<1>2. ASSUME NEW j \in Job, Resolves(j) \/ Reminds(j) PROVE GoneHasNoRow'
  <2>1. UNCHANGED <<enabled, server>> /\ on[j] \in Server
    BY <1>t, <1>2 DEF Resolves, Reminds, TypeOK, ruleVars
  <2>2. ASSUME NEW s \in Server, row[s].status = "none" PROVE row'[s].status = "none"
    <3>1. CASE Resolves(j)
      BY <1>t, <2>2, <3>1 DEF Resolves, TypeOK
    <3>2. CASE Reminds(j)
      BY <1>t, <2>2, <3>2 DEF Reminds, TypeOK, Row
    <3> QED BY <1>2, <3>1, <3>2
  <2> QED BY <1>u, <2>1, <2>2
<1>3. ASSUME NEW s \in Server, DurationPasses(s) \/ IntervalPasses(s) PROVE GoneHasNoRow'
  <2>1. UNCHANGED <<enabled, server>>
    BY <1>3 DEF DurationPasses, IntervalPasses, ruleVars
  <2>2. ASSUME NEW x \in Server PROVE row'[x].status = row[x].status
    <3>1. CASE DurationPasses(s)
      BY <1>t, <3>1 DEF DurationPasses, TypeOK, Row
    <3>2. CASE IntervalPasses(s)
      BY <1>t, <3>2 DEF IntervalPasses, TypeOK, Row
    <3> QED BY <1>3, <3>1, <3>2
  <2> QED BY <1>u, <2>1, <2>2
<1>4. CASE DeleteRule
  BY <1>4 DEF DeleteRule, RuleGoes, GoneHasNoRow, NoRow
<1>5. ASSUME NEW s \in Server, ServerDeleted(s) PROVE GoneHasNoRow'
  <2>1. CASE RuleGoes
    BY <2>1 DEF RuleGoes, GoneHasNoRow, NoRow
  <2>2. CASE row' = [row EXCEPT ![s] = NoRow] /\ enabled' = enabled
    BY <1>t, <1>5, <2>2 DEF ServerDeleted, GoneHasNoRow, NoRow, TypeOK
  <2> QED BY <1>5, <2>1, <2>2 DEF ServerDeleted
<1>6. CASE /\ UNCHANGED row /\ (enabled' = "gone" => enabled = "gone")
           /\ \A s \in Server : server'[s] = "gone" => server[s] = "gone"
  BY <1>6 DEF GoneHasNoRow
<1>7. ASSUME NEW s \in Server, RemovalBegins(s) \/ ProblemChanges(s) PROVE GoneHasNoRow'
  BY <1>t, <1>6, <1>7 DEF RemovalBegins, ProblemChanges, ruleVars, TypeOK
<1>8. ASSUME NEW j \in Job, Advances(j) \/ Fails(j) PROVE GoneHasNoRow'
  BY <1>1, <1>2, <1>6, <1>8
  DEF Advances, Fails, ReadsRule, ListsServers, Evaluates, GivesUp, Misreads, Skips,
      FindsReminderDue, ruleVars
<1> QED
  BY <1>3, <1>4, <1>5, <1>6, <1>7, <1>8
  DEF Next, ServerStep, ToggleRule, UpdateRule, FaultsEnd, ruleVars, vars

LEMMA LogOf ==
  ASSUME NEW s \in Server
  PROVE  /\ LogPhase[s] = IF enabled = "gone" \/ server[s] = "gone" THEN "gone"
                          ELSE IF row[s].status = "firing" THEN "open"
                          ELSE IF row[s].status = "pending" THEN "watched" ELSE "quiet"
         /\ LogPhase'[s] = IF enabled' = "gone" \/ server'[s] = "gone" THEN "gone"
                           ELSE IF row'[s].status = "firing" THEN "open"
                           ELSE IF row'[s].status = "pending" THEN "watched" ELSE "quiet"
         /\ LogSince[s] = row[s].started /\ LogSince'[s] = row'[s].started
  BY DEF LogPhase, LogSince

LEMMA LogFunctions ==
  /\ LogPhase = [s \in Server |-> LogPhase[s]] /\ LogPhase' = [s \in Server |-> LogPhase'[s]]
  /\ LogSince = [s \in Server |-> LogSince[s]] /\ LogSince' = [s \in Server |-> LogSince'[s]]
  BY DEF LogPhase, LogSince

\* A server whose rule, state and row stay as they are has the same log.
LEMMA SameLogOf ==
  ASSUME NEW s \in Server, enabled' = "gone" <=> enabled = "gone",
         server'[s] = "gone" <=> server[s] = "gone",
         row'[s].status = row[s].status, row'[s].started = row[s].started
  PROVE  LogPhase'[s] = LogPhase[s] /\ LogSince'[s] = LogSince[s]
  BY LogOf

LEMMA SameLog ==
  ASSUME UNCHANGED open, enabled' = "gone" <=> enabled = "gone",
         \A s \in Server : /\ server'[s] = "gone" <=> server[s] = "gone"
                           /\ row'[s].status = row[s].status /\ row'[s].started = row[s].started
  PROVE  UNCHANGED Log!lvars
<1>1. \A s \in Server : LogPhase'[s] = LogPhase[s] /\ LogSince'[s] = LogSince[s]
  BY SameLogOf
<1>2. LogPhase' = LogPhase /\ LogSince' = LogSince
  BY <1>1, LogFunctions
<1> QED BY <1>2 DEF Log!lvars

\* A statement of a job, or the clock, touches the log of one server.
LEMMA OneLog ==
  ASSUME NEW s \in Server, UNCHANGED <<enabled, server>>,
         \A x \in Server : x # s => row'[x] = row[x]
  PROVE  /\ LogPhase' = [LogPhase EXCEPT ![s] = LogPhase'[s]]
         /\ LogSince' = [LogSince EXCEPT ![s] = LogSince'[s]]
<1>1. \A x \in Server : x # s => LogPhase'[x] = LogPhase[x] /\ LogSince'[x] = LogSince[x]
  BY SameLogOf
<1> QED BY <1>1, LogFunctions

\* The row of a ready job is there, so it opens an incident with a start.
LEMMA FiresLog ==
  ASSUME NEW j \in Job, AlertInv, Fires(j) PROVE [Log!LNext]_(Log!lvars)
<1>1. CASE UNCHANGED <<row, open>>
  BY <1>1, SameLog DEF Fires, ruleVars
<1>2. CASE ~UNCHANGED <<row, open>>
  <2>1. PICK s \in Server : s = on[j]
    BY DEF AlertInv, TypeOK, Fires
  <2>2. /\ row[s].status \notin {"none", "firing"} /\ UNCHANGED <<enabled, server>>
        /\ enabled # "gone" /\ server[s] # "gone"
    BY <1>2, <2>1 DEF AlertInv, ReadyHasRow, Writable, Fires, ruleVars
  <2>3. /\ row' = [row EXCEPT ![s] = [status |-> "firing", started |-> StartOf(row[s]),
                                      notified |-> row[s].notified]]
        /\ open' = [open EXCEPT ![s] = open[s] + 1]
    BY <1>2, <2>1, <2>2 DEF Fires
  <2>4. /\ row'[s].status = "firing" /\ row'[s].started = StartOf(row[s])
        /\ \A x \in Server : x # s => row'[x] = row[x]
    BY <2>3 DEF AlertInv, TypeOK
  <2>5. /\ LogPhase' = [LogPhase EXCEPT ![s] = "open"]
        /\ LogSince' = [LogSince EXCEPT ![s] = StartOf(row[s])]
    BY <2>2, <2>4, OneLog, LogOf
  <2>6. CASE row[s].status = "pending"
    <3>1. LogPhase[s] = "watched" /\ LogSince[s] = row[s].started
      BY <2>2, <2>6, LogOf
    <3>2. row[s].started # "null"
      BY <2>6 DEF AlertInv, IncidentsHaveStart
    <3>3. StartOf(row[s]) = LogSince[s]
      BY <3>1, <3>2 DEF StartOf
    <3>4. Log!Open(s)
      BY <2>3, <2>5, <3>1, <3>3 DEF Log!Open
    <3> QED BY <3>4 DEF Log!LNext
  <2>7. CASE row[s].status # "pending"
    <3>1. LogPhase[s] = "quiet"
      BY <2>2, <2>7, LogOf
    <3>2. row[s].started = "null"
      BY <2>2, <2>7 DEF AlertInv, IncidentsHaveStart
    <3>3. StartOf(row[s]) = "recent"
      BY <3>2 DEF StartOf
    <3>4. Log!Open(s)
      BY <2>3, <2>5, <3>1, <3>3 DEF Log!Open
    <3> QED BY <3>4 DEF Log!LNext
  <2> QED BY <2>6, <2>7
<1> QED BY <1>1, <1>2

\* An observation begins to watch, or finds what is watched or open already.
LEMMA ObservesLog ==
  ASSUME NEW j \in Job, AlertInv, Observes(j) PROVE [Log!LNext]_(Log!lvars)
<1>1. PICK s \in Server : s = on[j]
  BY DEF AlertInv, TypeOK, Observes
<1>2. /\ UNCHANGED <<enabled, server, open>> /\ enabled # "gone" /\ server[s] # "gone"
      /\ row' = [row EXCEPT ![s] =
                   [status   |-> IF row[s].status = "firing" THEN "firing" ELSE "pending",
                    started  |-> StartOf(row[s]),
                    notified |-> row[s].notified]]
  BY <1>1 DEF Observes, Writable, ruleVars
<1>3. /\ row'[s].status = IF row[s].status = "firing" THEN "firing" ELSE "pending"
      /\ row'[s].started = StartOf(row[s])
      /\ \A x \in Server : x # s => row'[x] = row[x]
  BY <1>2 DEF AlertInv, TypeOK
<1>4. CASE row[s].status \in {"pending", "firing"}
  <2>1. StartOf(row[s]) = row[s].started
    BY <1>4 DEF AlertInv, IncidentsHaveStart, StartOf
  <2> QED BY <1>2, <1>3, <1>4, <2>1, SameLog
<1>5. CASE row[s].status \notin {"pending", "firing"}
  <2>1. StartOf(row[s]) = "recent"
    BY <1>5 DEF AlertInv, IncidentsHaveStart, StartOf
  <2>2. LogPhase[s] = "quiet" /\ LogPhase'[s] = "watched" /\ LogSince'[s] = "recent"
    BY <1>2, <1>3, <1>5, <2>1, LogOf
  <2>3. Log!Watch(s)
    BY <1>2, <1>3, <2>2, OneLog DEF Log!Watch
  <2> QED BY <2>3 DEF Log!LNext
<1> QED BY <1>4, <1>5

\* handleResolved ends the incident, or forgets what was watched.
LEMMA ResolvesLog ==
  ASSUME NEW j \in Job, AlertInv, GoneHasNoRow, Resolves(j) PROVE [Log!LNext]_(Log!lvars)
<1>1. PICK s \in Server : s = on[j]
  BY DEF AlertInv, TypeOK, Resolves
<1>2. /\ UNCHANGED <<enabled, server>>
      /\ row' = [row EXCEPT ![s] =
                   IF row[s].status = "none" THEN row[s]
                   ELSE [status |-> "ok", started |-> "null", notified |-> "null"]]
      /\ open' = [open EXCEPT ![s] = IF row[s].status = "firing" THEN open[s] - 1 ELSE open[s]]
  BY <1>1 DEF Resolves, ruleVars
<1>3. \A x \in Server : x # s => row'[x] = row[x]
  BY <1>2 DEF AlertInv, TypeOK
<1>4. CASE row[s].status \notin {"pending", "firing"}
  <2>1. row'[s].status \notin {"pending", "firing"} /\ row'[s].started = "null"
          /\ row[s].started = "null" /\ open' = open
    BY <1>2, <1>4 DEF AlertInv, TypeOK, IncidentsHaveStart
  <2>2. LogPhase'[s] = LogPhase[s] /\ LogSince'[s] = LogSince[s]
    BY <1>2, <1>4, <2>1, LogOf
  <2>3. \A x \in Server : LogPhase'[x] = LogPhase[x] /\ LogSince'[x] = LogSince[x]
    BY <1>2, <1>3, <2>2, SameLogOf
  <2>4. LogPhase' = LogPhase /\ LogSince' = LogSince
    BY <2>3, LogFunctions
  <2> QED BY <2>1, <2>4 DEF Log!lvars
<1>5. CASE row[s].status \in {"pending", "firing"}
  <2>1. enabled # "gone" /\ server[s] # "gone"
    BY <1>5 DEF GoneHasNoRow
  <2>2. row'[s].status = "ok" /\ row'[s].started = "null"
    BY <1>2, <1>5 DEF AlertInv, TypeOK
  <2>3. LogPhase'[s] = "quiet" /\ LogSince'[s] = "null"
    BY <1>2, <2>1, <2>2, LogOf
  <2>4. Log!Calms(s)
    BY <1>2, <1>3, <2>3, OneLog DEF Log!Calms
  <2>5. CASE row[s].status = "firing"
    <3>1. LogPhase[s] = "open"
      BY <2>1, <2>5, LogOf
    <3>2. Log!Close(s)
      BY <1>2, <2>4, <2>5, <3>1 DEF Log!Close
    <3> QED BY <3>2 DEF Log!LNext
  <2>6. CASE row[s].status = "pending"
    <3>1. LogPhase[s] = "watched" /\ open' = open
      BY <1>2, <2>1, <2>6, LogOf DEF AlertInv, TypeOK
    <3>2. Log!Forget(s)
      BY <2>4, <3>1 DEF Log!Forget
    <3> QED BY <3>2 DEF Log!LNext
  <2> QED BY <1>5, <2>5, <2>6
<1> QED BY <1>4, <1>5

LEMMA DurationLog ==
  ASSUME NEW s \in Server, AlertInv, GoneHasNoRow, DurationPasses(s)
  PROVE  Log!LNext
<1>1. /\ row[s].started = "recent" /\ row' = [row EXCEPT ![s].started = "long"]
      /\ UNCHANGED <<enabled, server, open>>
  BY DEF DurationPasses, ruleVars
<1>2. /\ row'[s].started = "long" /\ row'[s].status = row[s].status
      /\ \A x \in Server : x # s => row'[x] = row[x]
  BY <1>1 DEF AlertInv, TypeOK, Row
<1>3. row[s].status \in {"pending", "firing"}
  BY <1>1 DEF AlertInv, IncidentsHaveStart
<1>4. enabled # "gone" /\ server[s] # "gone"
  BY <1>3 DEF GoneHasNoRow
<1>5. /\ LogPhase[s] \in {"watched", "open"} /\ LogPhase'[s] = LogPhase[s]
      /\ LogSince[s] = "recent" /\ LogSince'[s] = "long"
  BY <1>1, <1>2, <1>3, <1>4, LogOf
<1>6. LogPhase' = LogPhase /\ LogSince' = [LogSince EXCEPT ![s] = "long"]
  BY <1>1, <1>2, <1>5, OneLog, LogFunctions
<1>7. Log!Ages(s)
  BY <1>1, <1>5, <1>6 DEF Log!Ages
<1> QED BY <1>7 DEF Log!LNext

\* What goes takes its rows with it; what had gone has had none.
LEMMA VanishLog ==
  ASSUME AlertInv, GoneHasNoRow, NEW S \in SUBSET Server,
         row' = [x \in Server |-> IF x \in S THEN NoRow ELSE row[x]],
         open' = [x \in Server |-> IF x \in S THEN 0 ELSE open[x]],
         \A x \in Server : enabled' = "gone" \/ server'[x] = "gone" <=>
                            x \in S \/ enabled = "gone" \/ server[x] = "gone"
  PROVE  [Log!LNext]_(Log!lvars)
<1>1. ASSUME NEW x \in Server
      PROVE  /\ LogPhase'[x] = IF x \in S THEN "gone" ELSE LogPhase[x]
             /\ LogSince'[x] = IF x \in S THEN "null" ELSE LogSince[x]
  <2>1. row'[x] = IF x \in S THEN NoRow ELSE row[x]
    OBVIOUS
  <2> QED BY <2>1, LogOf DEF NoRow
<1>2. /\ LogPhase' = [x \in Server |-> IF x \in S THEN "gone" ELSE LogPhase[x]]
      /\ LogSince' = [x \in Server |-> IF x \in S THEN "null" ELSE LogSince[x]]
  BY <1>1, LogFunctions
<1>3. CASE \E x \in S : LogPhase[x] # "gone"
  BY <1>2, <1>3 DEF Log!LNext, Log!Vanish
<1>4. CASE \A x \in S : LogPhase[x] = "gone"
  <2>1. ASSUME NEW x \in S PROVE row[x].status = "none"
    BY <1>4, LogOf DEF GoneHasNoRow
  <2>2. ASSUME NEW x \in S PROVE row[x].started = "null" /\ open[x] = 0
    BY <2>1 DEF AlertInv, IncidentsHaveStart, NotesTellState
  <2>3. \A x \in Server : LogPhase'[x] = LogPhase[x] /\ LogSince'[x] = LogSince[x]
    BY <1>1, <1>4, <2>2, LogOf
  <2>4. LogPhase' = LogPhase /\ LogSince' = LogSince
    BY <2>3, LogFunctions
  <2>5. open' = open
    BY <2>2 DEF AlertInv, TypeOK
  <2> QED BY <2>4, <2>5 DEF Log!lvars
<1> QED BY <1>3, <1>4

LEMMA LogStep ==
  ASSUME AlertInv, GoneHasNoRow, [Next]_vars
  PROVE  [Log!LNext]_(Log!lvars)
<1>t. TypeOK
  BY DEF AlertInv
<1>1. ASSUME NEW j \in Job, Reminds(j) PROVE UNCHANGED Log!lvars
  <2>1. UNCHANGED <<enabled, server, open>> /\ on[j] \in Server
    BY <1>t, <1>1 DEF Reminds, TypeOK, ruleVars
  <2>2. ASSUME NEW x \in Server
        PROVE  row'[x].status = row[x].status /\ row'[x].started = row[x].started
    BY <1>t, <1>1 DEF Reminds, TypeOK, Row
  <2> QED BY <2>1, <2>2, SameLog
<1>2. ASSUME NEW s \in Server, IntervalPasses(s) PROVE UNCHANGED Log!lvars
  <2>1. UNCHANGED <<enabled, server, open>>
    BY <1>2 DEF IntervalPasses, ruleVars
  <2>2. ASSUME NEW x \in Server
        PROVE  row'[x].status = row[x].status /\ row'[x].started = row[x].started
    BY <1>t, <1>2 DEF IntervalPasses, TypeOK, Row
  <2> QED BY <2>1, <2>2, SameLog
<1>3. CASE /\ UNCHANGED <<row, open>> /\ (enabled' = "gone" <=> enabled = "gone")
           /\ \A s \in Server : server'[s] = "gone" <=> server[s] = "gone"
  BY <1>3, SameLog
<1>4. ASSUME NEW s \in Server, RemovalBegins(s) \/ ProblemChanges(s)
      PROVE  [Log!LNext]_(Log!lvars)
  BY <1>t, <1>3, <1>4 DEF RemovalBegins, ProblemChanges, ruleVars, TypeOK
<1>5. ASSUME RuleGoes PROVE [Log!LNext]_(Log!lvars)
  <2>1. /\ row' = [x \in Server |-> IF x \in Server THEN NoRow ELSE row[x]]
        /\ open' = [x \in Server |-> IF x \in Server THEN 0 ELSE open[x]]
        /\ enabled' = "gone"
    BY <1>5 DEF RuleGoes
  <2> QED BY <2>1, VanishLog
<1>6. ASSUME NEW s \in Server, ServerDeleted(s) PROVE [Log!LNext]_(Log!lvars)
  <2>1. CASE UNCHANGED enabled /\ row' = [row EXCEPT ![s] = NoRow] /\ open' = [open EXCEPT ![s] = 0]
    <3>1. /\ row' = [x \in Server |-> IF x \in {s} THEN NoRow ELSE row[x]]
          /\ open' = [x \in Server |-> IF x \in {s} THEN 0 ELSE open[x]]
      BY <1>t, <2>1 DEF TypeOK
    <3>2. \A x \in Server : server'[x] = "gone" <=> x \in {s} \/ server[x] = "gone"
      BY <1>t, <1>6 DEF ServerDeleted, TypeOK
    <3> QED BY <2>1, <3>1, <3>2, VanishLog
  <2> QED BY <1>5, <1>6, <2>1 DEF ServerDeleted
<1>7. ASSUME NEW j \in Job, Advances(j) \/ Fails(j) PROVE [Log!LNext]_(Log!lvars)
  BY <1>1, <1>3, <1>7, FiresLog, ObservesLog, ResolvesLog
  DEF Advances, Fails, ReadsRule, ListsServers, Evaluates, GivesUp, Misreads, Skips,
      FindsReminderDue, ruleVars
<1>8. CASE ToggleRule \/ UpdateRule \/ FaultsEnd
  BY <1>t, <1>3, <1>8 DEF ToggleRule, UpdateRule, FaultsEnd, ruleVars
<1> QED
  BY <1>2, <1>3, <1>4, <1>5, <1>6, <1>7, <1>8, DurationLog
  DEF Next, ServerStep, DeleteRule, ruleVars, vars

\* The jobs, the owner and the deletions implement the log of incidents.
THEOREM IncidentsAreLoggedAlways == Spec => IncidentsAreLogged
<1>1. Init => GoneHasNoRow
  BY DEF Init, GoneHasNoRow, NoRow
<1>2. Init => Log!LInit
  BY DEF Init, NoRow, Log!LInit, LogPhase, LogSince
<1> QED
  BY <1>1, <1>2, GoneHasNoRowStep, LogStep, AlertInvariant, PTL
  DEF Spec, IncidentsAreLogged, Log!LSpec
=============================================================================
