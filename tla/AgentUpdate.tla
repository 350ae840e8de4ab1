----------------------------- MODULE AgentUpdate -----------------------------
(***************************************************************************)
(* How the Agent replaces its own binary: an update task is run by one of  *)
(* the workers of the process, which downloads the release into            *)
(* <executable>.update, validates what lies at that path and renames it    *)
(* over the executable.                                                    *)
(*                                                                         *)
(* The control plane keeps one update in flight, but it may cancel it or   *)
(* time it out, and the worker that runs it is not told.  All workers      *)
(* share the one path.  Linux and macOS; on Windows a script moves the     *)
(* file after the process has ended.                                       *)
(*                                                                         *)
(* A file is an inode with as many chunks as a release has, each empty or  *)
(* of some release; a path leads to an inode.  Signatures are taken as     *)
(* sound: the checksum a worker compares with is that of its release.      *)
(***************************************************************************)
EXTENDS Integers, FiniteSets

CONSTANTS
  Update,    \* update tasks, one worker each: bounds how many there ever are
  Release,   \* published releases an update may target
  Old,       \* the release installed at the start
  NoUpdate,  \* the control plane has no update in flight
  NoFile,    \* nothing lies at the path
  Chunks     \* writes it takes to store one release

ASSUME UpdateAssumption ==
  /\ NoUpdate \notin Update /\ NoFile \notin Update \cup {Old}
  /\ Old \notin Update /\ Old \notin Release
  /\ Chunks \in Nat \ {0}

VARIABLES
  inFlight,   \* the update task the control plane has in processing
  worker,     \* how far the worker of each update is
  target,     \* the release each update was given
  written,    \* chunks each worker has written through its descriptor
  opened,     \* the inode each worker's descriptor leads to
  staged,     \* the inode at <executable>.update, or NoFile
  executable, \* the inode at the executable's path
  content,    \* the chunks of every inode
  withdrawn   \* history: an update was withdrawn before its worker ended

vars == <<inFlight, worker, target, written, opened, staged, executable, content>>
disk == <<staged, executable, content>>

Empty == "empty"
Inode == Update \cup {Old}
Blank == [k \in 1..Chunks |-> Empty]
Whole(r) == [k \in 1..Chunks |-> r]

Step == {"none", "download", "write", "checksum", "inspect", "install",
         "installed", "failed", "over"}

TypeOK ==
  /\ inFlight \in Update \cup {NoUpdate}
  /\ worker \in [Update -> Step]
  /\ target \in [Update -> Release]
  /\ written \in [Update -> 0..Chunks]
  /\ opened \in [Update -> Inode \cup {NoFile}]
  /\ staged \in Inode \cup {NoFile}
  /\ executable \in Inode
  /\ content \in [Inode -> [1..Chunks -> Release \cup {Old, Empty}]]

\* The target of an update is what its signed manifest resolves to: one
\* published artifact, its size and its checksum.
Init ==
  /\ inFlight = NoUpdate
  /\ worker = [u \in Update |-> "none"]
  /\ target \in [Update -> Release]
  /\ written = [u \in Update |-> 0]
  /\ opened = [u \in Update |-> NoFile]
  /\ staged = NoFile
  /\ executable = Old
  /\ content = [i \in Inode |-> IF i = Old THEN Whole(Old) ELSE Blank]
  /\ withdrawn = FALSE

Goes(u, from, to) ==
  worker[u] = from /\ worker' = [worker EXCEPT ![u] = to]

-----------------------------------------------------------------------------
\* Mutant: nobody asks whether an update is in flight.
HandsOutAnyway(u) ==
  /\ Goes(u, "none", "download")
  /\ inFlight' = u
  /\ UNCHANGED <<target, written, opened, disk>>

\* Mutant: only the new version settles an update, never its deadline.
SettlesOnConfirmation ==
  /\ inFlight # NoUpdate /\ worker[inFlight] = "over"
  /\ content[executable] = Whole(target[inFlight])
  /\ inFlight' = NoUpdate
  /\ UNCHANGED <<worker, target, written, opened, disk>>

\* Mutant: the deadline settles an update whose worker is still on it.
SettlesUnderWorker ==
  /\ inFlight # NoUpdate
  /\ inFlight' = NoUpdate
  /\ UNCHANGED <<worker, target, written, opened, disk>>

\* Mutant: the download goes to the path of the executable.
OpensInPlace(u) ==
  /\ Goes(u, "download", "write")
  /\ staged' = executable
  /\ opened' = [opened EXCEPT ![u] = staged']
  /\ content' = [content EXCEPT ![staged'] = Blank]
  /\ UNCHANGED <<inFlight, target, written, executable>>

\* Mutant: linked over the executable instead of renamed.
InstallsByLinking(u) ==
  \/ /\ staged # NoFile
     /\ Goes(u, "install", "installed")
     /\ executable' = staged
     /\ UNCHANGED <<inFlight, target, written, opened, staged, content>>
  \/ /\ Goes(u, "install", "failed")
     /\ staged' = NoFile
     /\ UNCHANGED <<inFlight, target, written, opened, executable, content>>

-----------------------------------------------------------------------------
(* The control plane: an update is handed out once and only while no other *)
(* is in flight.                                                           *)
HandsOut(u) ==
  /\ inFlight = NoUpdate
  /\ Goes(u, "none", "download")
  /\ inFlight' = u
  /\ UNCHANGED <<target, written, opened, disk>>

\* Confirmed by the version of a heartbeat, or timed out with nobody on it.
Settles ==
  /\ inFlight # NoUpdate /\ worker[inFlight] = "over"
  /\ inFlight' = NoUpdate
  /\ UNCHANGED <<worker, target, written, opened, disk>>

\* Cancelled by the owner or timed out by a heartbeat while a worker is on it.
Withdraws ==
  /\ inFlight # NoUpdate /\ worker[inFlight] # "over"
  /\ inFlight' = NoUpdate
  /\ UNCHANGED <<worker, target, written, opened, disk>>

-----------------------------------------------------------------------------
(* The worker.                                                             *)

\* OpenFile(O_CREATE|O_TRUNC): whatever lies at the path is emptied in place.
Opens(u) ==
  /\ Goes(u, "download", "write")
  /\ staged' = IF staged = NoFile THEN u ELSE staged
  /\ opened' = [opened EXCEPT ![u] = staged']
  /\ content' = [content EXCEPT ![staged'] = Blank]
  /\ UNCHANGED <<inFlight, target, written, executable>>

\* io.Copy, at the offset of the worker's own descriptor.
Writes(u) ==
  /\ worker[u] = "write" /\ written[u] < Chunks
  /\ written' = [written EXCEPT ![u] = @ + 1]
  /\ content' = [content EXCEPT ![opened[u]][written[u] + 1] = target[u]]
  /\ UNCHANGED <<inFlight, worker, target, opened, staged, executable>>

\* The size is that of the bytes this worker wrote, not of the file.
Closes(u) ==
  /\ written[u] = Chunks
  /\ Goes(u, "write", "checksum")
  /\ UNCHANGED <<inFlight, target, written, opened, disk>>

\* Every failure removes what lies at the path, whoever wrote it.
Fails(u, from) ==
  /\ Goes(u, from, "failed")
  /\ staged' = NoFile
  /\ UNCHANGED <<inFlight, target, written, opened, executable, content>>

\* The network fails or the context ends: before the file exists, or in it.
DownloadFails(u) ==
  \/ /\ Goes(u, "download", "failed")
     /\ UNCHANGED <<inFlight, target, written, opened, disk>>
  \/ Fails(u, "write")

\* validateFileSHA256 reads the path, not the descriptor.  This and the steps
\* below may also fail on a file as it should be, when reading or changing it
\* does.
SumMatches(u) == staged # NoFile /\ content[staged] = Whole(target[u])

ChecksSum(u) ==
  \/ /\ Goes(u, "checksum", "inspect") /\ SumMatches(u)
     /\ UNCHANGED <<inFlight, target, written, opened, disk>>
  \/ Fails(u, "checksum")

\* validateStagedBinary and validateEmbeddedAgentVersion: a header, and the
\* version marker somewhere in the file.
LooksRight(u) ==
  /\ staged # NoFile
  /\ content[staged][1] # Empty
  /\ \E k \in 1..Chunks : content[staged][k] = target[u]

Inspects(u) ==
  \/ /\ Goes(u, "inspect", "install") /\ LooksRight(u)
     /\ UNCHANGED <<inFlight, target, written, opened, disk>>
  \/ Fails(u, "inspect")

\* chmod and rename act on the path as well.
Installs(u) ==
  \/ /\ staged # NoFile
     /\ Goes(u, "install", "installed")
     /\ executable' = staged /\ staged' = NoFile
     /\ UNCHANGED <<inFlight, target, written, opened, content>>
  \/ Fails(u, "install")

\* A recorded failure ends the task; a success leaves it in processing until
\* a heartbeat shows the new version.  A report may be refused or lost.
Reports(u) ==
  /\ \/ Goes(u, "installed", "over") /\ UNCHANGED inFlight
     \/ /\ Goes(u, "failed", "over")
        /\ \/ inFlight = u /\ inFlight' = NoUpdate
           \/ UNCHANGED inFlight
  /\ UNCHANGED <<target, written, opened, disk>>

\* The process exits to run the new binary, crashes or is restarted: its
\* workers are gone, what they left on the disk is not.
ProcessRestarts ==
  /\ worker' = [u \in Update |-> IF worker[u] = "none" THEN "none" ELSE "over"]
  /\ UNCHANGED <<inFlight, target, written, opened, disk>>

-----------------------------------------------------------------------------
WorkerStep(u) ==
  \/ Opens(u) \/ Writes(u) \/ Closes(u) \/ DownloadFails(u) \/ ChecksSum(u)
  \/ Inspects(u) \/ Installs(u) \/ Reports(u)

\* A control plane that never gives up on an update before its worker has.
PatientNext ==
  \/ \E u \in Update : HandsOut(u) \/ WorkerStep(u)
  \/ Settles \/ ProcessRestarts

Next ==
  \/ PatientNext /\ UNCHANGED withdrawn
  \/ Withdraws /\ withdrawn' = TRUE

Spec == Init /\ [][Next]_<<vars, withdrawn>>

\* Downloads and reports have time limits, every task has a deadline.
LiveSpec == /\ Spec /\ WF_vars(Settles)
            /\ \A u \in Update : WF_vars(WorkerStep(u))

-----------------------------------------------------------------------------
\* main.go:199 "Keep unverified bytes non-executable until all signed metadata
\* and binary validation checks have succeeded": the executable is one whole
\* release at every moment, whatever crashes or fails on the way and whatever
\* earlier attempts left at the staging path.
InstalledIsWhole == \E r \in Release \cup {Old} : content[executable] = Whole(r)

\* The code keeps it as long as no update is withdrawn under its worker.
WholeUnlessWithdrawn == ~withdrawn => InstalledIsWhole

\* Under the same condition a worker validates and installs the file it has
\* written itself: validation reads the path, so nobody may have replaced what
\* lies there.
ValidatesOwnFile ==
  ~withdrawn => \A u \in Update :
    worker[u] \in {"checksum", "inspect", "install"} =>
      staged = opened[u] /\ content[staged] = Whole(target[u])

\* What runs at the next start, seen from outside.
Swap == INSTANCE AtomicUpdate WITH
  Image <- {Whole(r) : r \in Release \cup {Old}},
  installed <- content[executable],
  offered <- {Whole(target[u]) : u \in {inFlight} \ {NoUpdate}}

\* Overlapping workers (main.go:171-252) replace the Agent in one step, by the
\* release of the update that is in flight then: no crash, failure or restart
\* shows a mixture, another release or a late installation.
ReplacesAtomically == Swap!USpec

\* However updates overlap, the staging path never leads to the executable's
\* own file, which opening the next download would empty.
StagingIsApart == staged # executable

\* No update blocks the next one for ever: the one in flight is confirmed,
\* fails, is withdrawn, or its worker ends and its deadline passes.
UpdateEnds == \A u \in Update : inFlight = u ~> inFlight # u

=============================================================================
