---------------------------- MODULE AgentControl ----------------------------
(***************************************************************************)
(* The control plane of ServerTasks together with the Agent that executes  *)
(* what it queues: the task queue and workers of the Agent process, the    *)
(* report that must be acknowledged before anything destructive happens,   *)
(* and the detached helper that removes the Agent from its host and calls  *)
(* back.                                                                   *)
(*                                                                         *)
(* Responses are lost, the process and the host restart at any moment, and *)
(* requests overlap with everything the control plane does.                *)
(***************************************************************************)
EXTENDS ServerTasks

VARIABLES
  host,    \* is the Agent installed, is its process up, was the row forced out
  work,    \* how far a worker of the Agent is with each task
  helper   \* how far the detached uninstall helper of each task is

hostVars == <<host, work, helper>>
allVars == <<vars, hostVars>>

Stage == {"none",        \* never received
          "queued",      \* in the task channel or being executed
          "completed",   \* executed, the result is to be reported
          "failed",
          "acked",       \* the report was acknowledged, the post action is due
          "confirming",  \* the helper did not start: confirm the failure
          "over"}

HelperStage == {"none", "prepared", "running", "cleaned", "broken", "ended"}

ControlTypeOK ==
  /\ TypeOK
  /\ host \in [installed: BOOLEAN, up: BOOLEAN, forced: BOOLEAN]
  /\ work \in [TaskId -> Stage]
  /\ helper \in [TaskId -> HelperStage]

ControlInit ==
  /\ Init
  /\ host = [installed |-> TRUE, up |-> TRUE, forced |-> FALSE]
  /\ work = [t \in TaskId |-> "none"]
  /\ helper = [t \in TaskId |-> "none"]

-----------------------------------------------------------------------------
(* The Agent process.                                                      *)

\* A heartbeat takes the tasks along; its response may never arrive.
HeartbeatStep(b) ==
  \/ /\ BeatArrives(b) /\ host.up
     /\ UNCHANGED hostVars
  \/ /\ BeatClaims(b)
     /\ \/ /\ host.up
           /\ work' = [t \in TaskId |-> IF t \in beat[b].rows THEN "queued" ELSE work[t]]
        \/ UNCHANGED work
     /\ UNCHANGED <<host, helper>>
  \/ /\ \/ BeatConfirmsVersion(b) \/ BeatConsidersUpdate(b) \/ BeatQueuesUpdate(b)
        \/ BeatExpires(b) \/ BeatTimesOut(b) \/ BeatLocks(b) \/ BeatLost(b)
     /\ UNCHANGED hostVars

\* An uninstall only copies the binary aside; everything else is done here,
\* or, when it ends the process, once the result is acknowledged.
Executes(t) ==
  /\ host.up /\ work[t] = "queued"
  /\ \/ /\ work' = [work EXCEPT ![t] = "completed"]
        /\ helper' = IF tasks[t].type = "agent_uninstall"
                     THEN [helper EXCEPT ![t] = "prepared"] ELSE helper
     \/ work' = [work EXCEPT ![t] = "failed"] /\ UNCHANGED helper
  /\ UNCHANGED <<vars, host>>

Acknowledged(t) ==
  /\ work' = [work EXCEPT ![t] = IF @ = "completed" THEN "acked" ELSE "over"]
  /\ UNCHANGED helper

\* Mutant: the post action is due whatever the control plane answered.
NotAcknowledgedIgnored(t) ==
  /\ work' = [work EXCEPT ![t] = IF @ = "completed" THEN "acked" ELSE "over"]
  /\ UNCHANGED helper

\* No post action without an acknowledgement, and the copy is thrown away.
NotAcknowledged(t) ==
  /\ work' = [work EXCEPT ![t] = "over"]
  /\ helper' = [helper EXCEPT ![t] = IF @ = "prepared" THEN "none" ELSE @]

\* The request may be refused or lost, and so may the response to one that
\* was recorded.
Reports(t) ==
  /\ host.up /\ work[t] \in {"completed", "failed"}
  /\ \/ ReportTask(t, work[t]) /\ (Acknowledged(t) \/ NotAcknowledged(t))
     \/ UNCHANGED vars /\ NotAcknowledged(t)
  /\ UNCHANGED host

\* Whatever the workers were doing dies with the process; the channel is in
\* memory.  The helper runs in a unit of its own.
ProcessEnds ==
  /\ host' = [host EXCEPT !.up = FALSE]
  /\ work' = [t \in TaskId |-> IF work[t] = "none" THEN "none" ELSE "over"]

\* Start the helper, or end the process to run the new binary.  A plain
\* command has nothing left to do.
ActsAfterReport(t) ==
  /\ host.up /\ work[t] = "acked"
  /\ \/ /\ helper[t] = "prepared"
        /\ \/ /\ helper' = [helper EXCEPT ![t] = "running"]
              /\ work' = [work EXCEPT ![t] = "over"]
           \/ /\ helper' = [helper EXCEPT ![t] = "none"]
              /\ work' = [work EXCEPT ![t] = "confirming"]
        /\ UNCHANGED host
     \/ helper[t] # "prepared" /\ ProcessEnds /\ UNCHANGED helper
     \/ /\ helper[t] # "prepared"
        /\ work' = [work EXCEPT ![t] = "over"] /\ UNCHANGED <<host, helper>>
  /\ UNCHANGED vars

\* The callback when the helper could not be started: retried, then given up.
ConfirmsNoHelper(t) ==
  /\ host.up /\ work[t] = "confirming"
  /\ \/ ConfirmUninstall(t, "failed") \/ UNCHANGED vars
  /\ work' = [work EXCEPT ![t] = "over"]
  /\ UNCHANGED <<host, helper>>

ProcessDies ==
  /\ host.up /\ ProcessEnds
  /\ UNCHANGED <<vars, helper>>

ProcessStarts ==
  /\ host.installed /\ ~host.up
  /\ host' = [host EXCEPT !.up = TRUE]
  /\ UNCHANGED <<vars, work, helper>>

-----------------------------------------------------------------------------
(* The detached helper.                                                    *)

\* Disable and stop the service, remove its files.  Every step is tried, and
\* one that fails makes the whole a failure that leaves anything behind.
HelperCleans(t) ==
  /\ helper[t] = "running"
  /\ \/ /\ helper' = [helper EXCEPT ![t] = "cleaned"]
        /\ host' = [host EXCEPT !.installed = FALSE, !.up = FALSE]
        /\ work' = [s \in TaskId |-> IF work[s] = "none" THEN "none" ELSE "over"]
     \/ /\ helper' = [helper EXCEPT ![t] = "broken"]
        /\ \E left \in BOOLEAN :
             host' = [host EXCEPT !.installed = left /\ @, !.up = FALSE]
        /\ work' = [s \in TaskId |-> IF work[s] = "none" THEN "none" ELSE "over"]
     \/ /\ helper' = [helper EXCEPT ![t] = "broken"]
        /\ \E left \in BOOLEAN : host' = [host EXCEPT !.installed = left /\ @]
        /\ UNCHANGED work
  /\ UNCHANGED vars

\* Mutant: a failed clean-up is reported as a removal.
HelperConfirmsAnyway(t) ==
  /\ helper[t] \in {"cleaned", "broken"}
  /\ ConfirmUninstall(t, "completed")
  /\ helper' = [helper EXCEPT ![t] = "ended"] \/ UNCHANGED helper
  /\ UNCHANGED <<host, work>>

\* A recorded callback whose response is lost is sent again.
HelperConfirms(t) ==
  /\ helper[t] \in {"cleaned", "broken"}
  /\ ConfirmUninstall(t, IF helper[t] = "cleaned" THEN "completed" ELSE "failed")
  /\ helper' = [helper EXCEPT ![t] = "ended"] \/ UNCHANGED helper
  /\ UNCHANGED <<host, work>>

\* Refused, or unreachable five times in forty-five seconds.
HelperGivesUp(t) ==
  /\ helper[t] \in {"cleaned", "broken"}
  /\ helper' = [helper EXCEPT ![t] = "ended"]
  /\ UNCHANGED <<vars, host, work>>

\* A reboot also ends the helpers.
HostReboots ==
  /\ ProcessEnds
  /\ helper' = [t \in TaskId |-> IF helper[t] = "none" THEN "none" ELSE "ended"]
  /\ UNCHANGED vars

-----------------------------------------------------------------------------
ForcesDelete ==
  /\ ForceDelete
  /\ host' = [host EXCEPT !.forced = TRUE]
  /\ UNCHANGED <<work, helper>>

OwnerOrTimeStep ==
  /\ \/ \E c \in Call : CallStep(c)
     \/ TimeStep \/ Poll \/ DisableAutoUpdate \/ RequestUninstall
  /\ UNCHANGED hostVars

TaskStep(t) ==
  \/ Executes(t) \/ Reports(t) \/ ActsAfterReport(t) \/ ConfirmsNoHelper(t)
  \/ HelperCleans(t) \/ HelperConfirms(t) \/ HelperGivesUp(t)

ControlNext ==
  \/ \E b \in Beat : HeartbeatStep(b)
  \/ \E t \in TaskId : TaskStep(t)
  \/ ProcessDies \/ ProcessStarts \/ HostReboots
  \/ ForcesDelete
  \/ OwnerOrTimeStep

ControlSpec == ControlInit /\ [][ControlNext]_allVars

-----------------------------------------------------------------------------
(* A server leaves the database only after the Agent has left its host,    *)
(* unless its owner forced it: the callback that deletes the row is sent   *)
(* by a helper that has removed everything, under the ticket of the        *)
(* removal in progress.                                                    *)
RemovedMeansUninstalled ==
  ~server.exists /\ ~host.forced => ~host.installed

\* The whole, seen by the owner of the host.
Removal == INSTANCE HostRemoval WITH
  Ticket <- TaskId,
  NoTicket <- NoTask,
  phase <- DeletionPhase,
  ticket <- server.token,
  spent <- Uninstalls,
  installed <- host.installed,
  forced <- host.forced

\* The Agent leaves its host only after it has accepted a removal, and its
\* server is deleted only after that, under the very removal it accepted
\* (handler.go:791-990, uninstall_linux.go:138-249), whatever is lost, comes
\* late or is cut off by a restart in between.
RemovesInOrder == Removal!HSpec

\* Nothing is removed behind the owner's back: once a helper is at work, the
\* control plane has recorded the Agent's consent and no expiry, timeout or
\* cancellation of that uninstall was accepted before or after it.
HelperRunsOnRecordedConsent ==
  \A t \in TaskId :
    helper[t] \in {"running", "cleaned", "broken"} /\ server.exists
      => tasks[t].status \in {"completed", "failed"}

\* A host that lost its Agent is never shown as an ordinary server again.
LossIsVisible ==
  server.exists /\ ~host.installed => server.deletion # "active"

\* handler.go:653 "concurrent heartbeats cannot dispatch the same command
\* twice": whatever is lost, a task is handed to the Agent at most once, and
\* never before it was claimed.
DispatchedOnce ==
  [][\A t \in TaskId :
       /\ work[t] # "none" => work'[t] # "none" /\ (work'[t] = "queued" => work[t] = "queued")
       /\ work[t] = "none" /\ work'[t] # "none" => tasks[t].status = "pending"]_allVars

=============================================================================
