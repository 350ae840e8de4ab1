--------------------------- MODULE WebsiteMonitor ---------------------------
(***************************************************************************)
(* One monitored website: its row, its owner, and the website jobs that    *)
(* probe it.  A job runs in the worker and, when the API is told to, in    *)
(* the API too, and two workers overlap during a deployment; nothing keeps *)
(* them apart.                                                             *)
(*                                                                         *)
(* A job reads the row, probes the URL for up to ten seconds, and writes   *)
(* status and start of the outage back as they follow from the row it has  *)
(* read, whoever has written in between.  A probe that fails is repeated   *)
(* once after three seconds.                                               *)
(*                                                                         *)
(* The certificate columns follow the same pattern and notify nobody; the  *)
(* tables website_checks and daily_uptime_rollups are appended to after    *)
(* the row and read by no job.  Both are left out.  The time of a check is *)
(* a name, told apart from the other times that are still in use.          *)
(*                                                                         *)
(* A list has two minutes.  When they are over the checks under way fail,  *)
(* and are recorded as DOWN like the failure of the website itself: what a *)
(* check would find stands for both.                                       *)
(***************************************************************************)
CONSTANTS Job,      \* website jobs, each in a process of its own
          Url,      \* what the owner may have monitored
          Time,     \* names of the moments outages start
          NoTime

ASSUME WebsiteAssumption == NoTime \notin Time /\ Url # {}

VARIABLES answers,  \* what a check of each URL would find now
          row,      \* the row of the website
          at,       \* where each job stands
          copy,     \* the row as each job has read it
          found     \* what the probe of each job has found

jobVars == <<at, copy, found>>
vars == <<answers, row, jobVars>>

Answer == {"UP", "DOWN"}
Row == [url : Url, status : {"unknown", "gone"} \cup Answer, started : Time \cup {NoTime}]

\* A job between two checks knows nothing.
Nothing == [url |-> CHOOSE u \in Url : TRUE, status |-> "gone", started |-> NoTime]

\* The row is new, or older than the column down_started_at, which migration
\* 20260906_028 added without a value: then it may say DOWN and have no start.
Init ==
  /\ answers \in [Url -> Answer]
  /\ row \in [url : Url, status : {"unknown"} \cup Answer, started : {NoTime}]
  /\ at = [j \in Job |-> "idle"]
  /\ copy = [j \in Job |-> Nothing]
  /\ found = [j \in Job |-> "UP"]

Goes(j, from, to) == at[j] = from /\ at' = [at EXCEPT ![j] = to]

Ends(j) ==
  /\ at' = [at EXCEPT ![j] = "idle"]
  /\ copy' = [copy EXCEPT ![j] = Nothing]
  /\ found' = [found EXCEPT ![j] = "UP"]

-----------------------------------------------------------------------------
(* A website job.                                                          *)

\* Mutant: a website that is down is not checked again.
ListsUnlessDown(j) ==
  /\ row.status \notin {"gone", "DOWN"}
  /\ Goes(j, "idle", "listed")
  /\ copy' = [copy EXCEPT ![j] = row]
  /\ UNCHANGED <<answers, row, found>>

\* ListAll, as the ticker of the job fires.
Lists(j) ==
  /\ row.status # "gone"
  /\ Goes(j, "idle", "listed")
  /\ copy' = [copy EXCEPT ![j] = row]
  /\ UNCHANGED <<answers, row, found>>

\* The first request: a success ends the probe, a failure is not believed yet.
Probes(j) ==
  LET answer == answers[copy[j].url] IN
  /\ Goes(j, "listed", IF answer = "UP" THEN "probed" ELSE "retrying")
  /\ found' = [found EXCEPT ![j] = answer]
  /\ UNCHANGED <<answers, row, copy>>

\* The second, unless the ten seconds are over.
Retries(j) ==
  /\ Goes(j, "retrying", "probed")
  /\ \/ found' = [found EXCEPT ![j] = answers[copy[j].url]]
     \/ UNCHANGED found
  /\ UNCHANGED <<answers, row, copy>>

\* Mutant: the end of an outage is not recorded.
StartKeptForEver(before, answer, now) ==
  IF answer = "DOWN" /\ before.started = NoTime THEN now ELSE before.started

\* Mutant: an outage starts with its latest check.
StartOfLatest(before, answer, now) == IF answer = "DOWN" THEN now ELSE NoTime

\* down_started_at, from the row that was read and the time of the check.
StartOf(before, answer, now) ==
  CASE answer = "DOWN" -> IF before.status = "DOWN" /\ before.started # NoTime
                          THEN before.started ELSE now
    [] answer = "UP"   -> IF before.status = "DOWN" THEN NoTime ELSE before.started

\* The times that no row and no job knows of.
Fresh == Time \ ({row.started} \cup {copy[j].started : j \in Job})

\* UpdateStatus: the columns of a check, where the row still exists.
Writes(j) ==
  /\ at[j] = "probed" /\ Ends(j)
  /\ IF row.status = "gone" THEN UNCHANGED row
     ELSE \E now \in Fresh :
            row' = [row EXCEPT !.status = found[j],
                               !.started = StartOf(copy[j], found[j], now)]
  /\ UNCHANGED answers

\* The list is cut off before this check begins, the statement fails, or the
\* process ends.
GivesUp(j) ==
  /\ at[j] # "idle" /\ Ends(j)
  /\ UNCHANGED <<answers, row>>

-----------------------------------------------------------------------------
(* The owner, and the website itself.                                      *)

\* Update sets the URL and leaves what was found at the old one.
Edits(u) ==
  /\ row.status # "gone" /\ row.url # u
  /\ row' = [row EXCEPT !.url = u]
  /\ UNCHANGED <<answers, jobVars>>

\* Delete, for good.
Deletes ==
  /\ row.status # "gone"
  /\ row' = [row EXCEPT !.status = "gone", !.started = NoTime]
  /\ UNCHANGED <<answers, jobVars>>

\* The website, or the time that is left to check it, changes.
Turns(u) ==
  /\ answers' = [answers EXCEPT ![u] = IF @ = "UP" THEN "DOWN" ELSE "UP"]
  /\ UNCHANGED <<row, jobVars>>

-----------------------------------------------------------------------------
JobStep(j) == Lists(j) \/ Probes(j) \/ Retries(j) \/ Writes(j) \/ GivesUp(j)

Next ==
  \/ \E j \in Job : JobStep(j)
  \/ \E u \in Url : Edits(u) \/ Turns(u)
  \/ Deletes

Spec == Init /\ [][Next]_vars

\* The ticker of every job goes on, and not every check of a job is cut off.
Fairness ==
  \A j \in Job : /\ WF_vars(Lists(j)) /\ SF_vars(Probes(j))
                 /\ SF_vars(Retries(j)) /\ SF_vars(Writes(j))

LiveSpec == Spec /\ Fairness

-----------------------------------------------------------------------------
\* Type correctness.
TypeOK ==
  /\ answers \in [Url -> Answer]
  /\ row \in Row
  /\ at \in [Job -> {"idle", "listed", "retrying", "probed"}]
  /\ copy \in [Job -> Row]
  /\ found \in [Job -> Answer]

\* The page shows "down for ..." for a website that is down and has a start
\* (websites/page.tsx:970).  Whoever writes status and start, and however the
\* checks of two jobs overlap, there is a start afterwards just if the website
\* is down.
StartedIffDown ==
  [][\/ row'.status = row.status /\ row'.started = row.started
     \/ row'.status = "DOWN" <=> row'.started # NoTime]_vars

\* website_job.go:119 "Already DOWN: keep original down_started_at".  An outage
\* that goes on keeps the start it has, unless a job writes over what another
\* has written since it read the row.
OutageStartKept ==
  [][row.status = "DOWN" /\ row.started # NoTime
       /\ row'.status = "DOWN" /\ row'.started # row.started
       => \E j \in Job : /\ at[j] = "probed"
                         /\ \/ copy[j].status # row.status
                            \/ copy[j].started # row.started]_vars

\* What a website settles on is what its row shows in the end, with the start
\* of the outage if it is one, although checks that began before the last edit,
\* or the last change, are written later.
StatusSettles ==
  \A u \in Url, answer \in Answer :
    <>[](row.url = u /\ row.status # "gone" /\ answers[u] = answer)
      => <>[](row.status = answer /\ (answer = "DOWN" <=> row.started # NoTime))
=============================================================================
