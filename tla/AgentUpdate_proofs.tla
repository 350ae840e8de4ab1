------------------------- MODULE AgentUpdate_proofs -------------------------
(***************************************************************************)
(* Proofs about AgentUpdate, for any number of updates and releases of any *)
(* size.                                                                   *)
(***************************************************************************)
EXTENDS AgentUpdate, TLAPS

USE DEF Step

\* A step, whatever the history variable records of it.
Moves == PatientNext \/ Withdraws

LEMMA NextMoves == [Next]_<<vars, withdrawn>> => [Moves]_vars
  BY DEF Next, Moves

-----------------------------------------------------------------------------
(* Types.                                                                  *)

LEMMA BlankAndWhole ==
  /\ Blank \in [1..Chunks -> Release \cup {Old, Empty}]
  /\ \A r \in Release \cup {Old} : Whole(r) \in [1..Chunks -> Release \cup {Old, Empty}]
  BY DEF Blank, Whole

LEMMA WorkerType ==
  ASSUME TypeOK, NEW u \in Update, WorkerStep(u)
  PROVE  TypeOK'
<1> USE DEF TypeOK, Inode, disk
<1>1. CASE Opens(u)
  BY <1>1, BlankAndWhole DEF Opens, Goes
<1>2. CASE Writes(u)
  <2>1. opened[u] \in Inode \/ opened[u] \notin Inode
    OBVIOUS
  <2>2. written[u] + 1 \in 0..Chunks
    BY <1>2, UpdateAssumption DEF Writes
  <2>3. written' \in [Update -> 0..Chunks]
    BY <1>2, <2>2 DEF Writes
  <2>4. content' \in [Inode -> [1..Chunks -> Release \cup {Old, Empty}]]
    BY <1>2, <2>2 DEF Writes
  <2> QED BY <1>2, <2>3, <2>4 DEF Writes
<1>3. CASE Closes(u)
  BY <1>3 DEF Closes, Goes
<1>4. ASSUME NEW from, Fails(u, from) PROVE TypeOK'
  BY <1>4 DEF Fails, Goes
<1>5. CASE DownloadFails(u)
  BY <1>4, <1>5 DEF DownloadFails, Goes
<1>6. CASE ChecksSum(u)
  BY <1>4, <1>6 DEF ChecksSum, Goes
<1>7. CASE Inspects(u)
  BY <1>4, <1>7 DEF Inspects, Goes
<1>8. CASE Installs(u)
  BY <1>4, <1>8 DEF Installs, Goes
<1>9. CASE Reports(u)
  BY <1>9 DEF Reports, Goes
<1> QED
  BY <1>1, <1>2, <1>3, <1>5, <1>6, <1>7, <1>8, <1>9 DEF WorkerStep

LEMMA TypeStep ==
  ASSUME TypeOK, [Moves]_vars
  PROVE  TypeOK'
<1> USE DEF TypeOK, disk
<1>1. ASSUME NEW u \in Update, HandsOut(u) PROVE TypeOK'
  BY <1>1 DEF HandsOut, Goes
<1>2. ASSUME NEW u \in Update, WorkerStep(u) PROVE TypeOK'
  BY <1>2, WorkerType
<1>3. CASE Settles
  BY <1>3 DEF Settles
<1>4. CASE ProcessRestarts
  BY <1>4 DEF ProcessRestarts
<1>5. CASE Withdraws
  BY <1>5 DEF Withdraws
<1>6. CASE UNCHANGED vars
  BY <1>6 DEF vars
<1> QED BY <1>1, <1>2, <1>3, <1>4, <1>5, <1>6 DEF Moves, PatientNext

LEMMA InitType == Init => TypeOK
  BY BlankAndWhole, UpdateAssumption DEF Init, TypeOK, Inode

\* Type correctness, whether or not updates are withdrawn.
THEOREM TypeCorrect == Spec => []TypeOK
<1> QED BY InitType, TypeStep, NextMoves, PTL DEF Spec

-----------------------------------------------------------------------------
(* The staging path.                                                       *)

\* The inode of an update that has not opened its file yet is nowhere.
NotYetOpened ==
  \A u \in Update :
    worker[u] \in {"none", "download"} => staged # u /\ executable # u

ApartInv == StagingIsApart /\ NotYetOpened

LEMMA ApartStep ==
  ASSUME TypeOK, ApartInv, [Moves]_vars
  PROVE  ApartInv'
<1> USE UpdateAssumption DEF TypeOK, ApartInv, StagingIsApart, NotYetOpened, disk
<1>1. ASSUME NEW u \in Update, HandsOut(u) PROVE ApartInv'
  BY <1>1 DEF HandsOut, Goes
<1>2. ASSUME NEW u \in Update, WorkerStep(u) PROVE ApartInv'
  <2>1. CASE Opens(u)
    BY <1>2, <2>1 DEF Opens, Goes
  <2>2. CASE Writes(u)
    BY <1>2, <2>2 DEF Writes
  <2>3. CASE Closes(u)
    BY <1>2, <2>3 DEF Closes, Goes
  <2>4. ASSUME NEW from, Fails(u, from) PROVE ApartInv'
    BY <1>2, <2>4 DEF Fails, Goes, Inode
  <2>5. CASE DownloadFails(u)
    BY <1>2, <2>4, <2>5 DEF DownloadFails, Goes
  <2>6. CASE ChecksSum(u)
    BY <1>2, <2>4, <2>6 DEF ChecksSum, Goes
  <2>7. CASE Inspects(u)
    BY <1>2, <2>4, <2>7 DEF Inspects, Goes
  <2>8. CASE Installs(u)
    BY <1>2, <2>4, <2>8 DEF Installs, Goes
  <2>9. CASE Reports(u)
    BY <1>2, <2>9 DEF Reports, Goes
  <2> QED
    BY <1>2, <2>1, <2>2, <2>3, <2>5, <2>6, <2>7, <2>8, <2>9 DEF WorkerStep
<1>3. CASE Settles
  BY <1>3 DEF Settles
<1>4. CASE ProcessRestarts
  BY <1>4 DEF ProcessRestarts
<1>5. CASE Withdraws
  BY <1>5 DEF Withdraws
<1>6. CASE UNCHANGED vars
  BY <1>6 DEF vars
<1> QED BY <1>1, <1>2, <1>3, <1>4, <1>5, <1>6 DEF Moves, PatientNext

LEMMA InitApart == Init => ApartInv
  BY UpdateAssumption DEF Init, ApartInv, StagingIsApart, NotYetOpened

\* prepareAgentUpdate never opens the file of the executable for writing, even
\* when two updates overlap.
THEOREM StagingIsApartAlways == Spec => []StagingIsApart
<1>1. ApartInv => StagingIsApart
  BY DEF ApartInv
<1> QED BY <1>1, InitType, TypeStep, InitApart, ApartStep, NextMoves, PTL DEF Spec
-----------------------------------------------------------------------------
(* The installed file, while the control plane is patient.                 *)

Working == Step \ {"none", "over"}

\* A worker at work is the one of the update in flight, so there is only one.
Alone == \A u \in Update : worker[u] \in Working => inFlight = u

\* What the staging path holds at each stage of the worker.
Holds(u) ==
  /\ worker[u] \in {"none", "download"} => written[u] = 0
  /\ worker[u] \in {"write", "checksum", "inspect", "install"} =>
       staged # NoFile /\ opened[u] = staged
  /\ worker[u] = "write" =>
       \A k \in 1..written[u] : content[staged][k] = target[u]
  /\ worker[u] \in {"checksum", "inspect", "install"} =>
       content[staged] = Whole(target[u])

PatientInv ==
  /\ TypeOK /\ ApartInv /\ Alone /\ InstalledIsWhole
  /\ \A u \in Update : Holds(u)

\* Nobody else is at work while u is.
LEMMA OnlyWorker ==
  ASSUME TypeOK, Alone, NEW u \in Update, NEW v \in Update, v # u,
         worker[u] \in Working
  PROVE  worker[v] \in {"none", "over"}
  BY DEF TypeOK, Alone, Working

\* The worker u keeps its own stage and the executable whole; the others,
\* which are idle, follow.
LEMMA Combine ==
  ASSUME PatientInv, NEW u \in Update, [Moves]_vars, worker[u] \in Working,
         worker' = [worker EXCEPT ![u] = worker'[u]],
         written' = [written EXCEPT ![u] = written'[u]],
         worker'[u] \in Working => inFlight' = inFlight,
         Holds(u)', InstalledIsWhole'
  PROVE  PatientInv'
<1>1. TypeOK' /\ ApartInv'
  BY TypeStep, ApartStep DEF PatientInv
<1>2. Alone'
  BY OnlyWorker DEF PatientInv, TypeOK, Alone, Working
<1>3. ASSUME NEW v \in Update PROVE Holds(v)'
  <2>1. CASE v = u
    BY <2>1
  <2>2. CASE v # u
    <3>1. worker[v] \in {"none", "over"} /\ worker'[v] = worker[v] /\ written'[v] = written[v]
      BY <2>2, OnlyWorker DEF PatientInv, TypeOK
    <3> QED BY <3>1 DEF Holds, PatientInv
  <2> QED BY <2>1, <2>2
<1> QED BY <1>1, <1>2, <1>3 DEF PatientInv

LEMMA PatientWorker ==
  ASSUME PatientInv, NEW u \in Update, WorkerStep(u)
  PROVE  PatientInv'
<1> USE UpdateAssumption DEF TypeOK, disk, Working, Inode
<1>0. TypeOK /\ ApartInv /\ Alone /\ InstalledIsWhole /\ Holds(u) /\ [Moves]_vars
  BY DEF PatientInv, Moves, PatientNext
<1>1. CASE Opens(u)
  <2>1. staged' \in Inode /\ staged' # executable /\ executable' = executable
    BY <1>0, <1>1 DEF Opens, Goes, ApartInv, StagingIsApart, NotYetOpened
  <2>2. content'[executable'] = content[executable]
    BY <1>0, <1>1, <2>1 DEF Opens
  <2>3. Holds(u)'
    BY <1>0, <1>1, <2>1 DEF Opens, Goes, Holds
  <2> QED BY <1>0, <1>1, <2>2, <2>3, Combine DEF Opens, Goes, InstalledIsWhole
<1>2. CASE Writes(u)
  <2>1. /\ opened[u] = staged /\ staged \in Inode /\ staged # executable
        /\ written[u] \in 0..Chunks /\ written[u] < Chunks
    BY <1>0, <1>2 DEF Writes, Holds, ApartInv, StagingIsApart
  <2>2. content'[executable'] = content[executable]
    BY <1>0, <1>2, <2>1 DEF Writes
  <2>3. content'[staged] = [content[staged] EXCEPT ![written[u] + 1] = target[u]]
    BY <1>0, <1>2, <2>1 DEF Writes
  <2>4. \A k \in 1..(written[u] + 1) : content'[staged][k] = target[u]
    BY <1>0, <1>2, <2>1, <2>3 DEF Writes, Holds
  <2>5. Holds(u)'
    BY <1>0, <1>2, <2>1, <2>4 DEF Writes, Holds
  <2> QED BY <1>0, <1>2, <2>2, <2>5, Combine DEF Writes, InstalledIsWhole
<1>3. CASE Closes(u)
  <2>1. content[staged] = Whole(target[u])
    <3>1. staged \in Inode /\ \A k \in 1..Chunks : content[staged][k] = target[u]
      BY <1>0, <1>3 DEF Closes, Goes, Holds
    <3> QED BY <1>0, <3>1 DEF Whole
  <2>2. Holds(u)'
    BY <1>0, <1>3, <2>1 DEF Closes, Goes, Holds, Whole
  <2> QED BY <1>0, <1>3, <2>2, Combine DEF Closes, Goes, InstalledIsWhole
<1>4. ASSUME NEW from \in Working, Fails(u, from) PROVE PatientInv'
  <2>1. Holds(u)'
    BY <1>0, <1>4 DEF Fails, Goes, Holds
  <2> QED BY <1>0, <1>4, <2>1, Combine DEF Fails, Goes, InstalledIsWhole
<1>5. CASE DownloadFails(u)
  <2>1. CASE Goes(u, "download", "failed") /\ UNCHANGED <<inFlight, target, written, opened, disk>>
    <3>1. Holds(u)'
      BY <1>0, <2>1 DEF Goes, Holds
    <3> QED BY <1>0, <2>1, <3>1, Combine DEF Goes, InstalledIsWhole
  <2> QED BY <1>4, <1>5, <2>1 DEF DownloadFails
<1>6. CASE ChecksSum(u)
  <2>1. CASE Goes(u, "checksum", "inspect") /\ UNCHANGED <<inFlight, target, written, opened, disk>>
    <3>1. Holds(u)'
      BY <1>0, <2>1 DEF Goes, Holds, Whole
    <3> QED BY <1>0, <2>1, <3>1, Combine DEF Goes, InstalledIsWhole
  <2> QED BY <1>4, <1>6, <2>1 DEF ChecksSum
<1>7. CASE Inspects(u)
  <2>1. CASE Goes(u, "inspect", "install") /\ UNCHANGED <<inFlight, target, written, opened, disk>>
    <3>1. Holds(u)'
      BY <1>0, <2>1 DEF Goes, Holds, Whole
    <3> QED BY <1>0, <2>1, <3>1, Combine DEF Goes, InstalledIsWhole
  <2> QED BY <1>4, <1>7, <2>1 DEF Inspects
<1>8. CASE Installs(u)
  <2>1. CASE staged # NoFile /\ Goes(u, "install", "installed")
    <3>1. /\ executable' = staged /\ content' = content
          /\ content[staged] = Whole(target[u]) /\ target[u] \in Release
      BY <1>0, <1>8, <2>1 DEF Installs, Fails, Goes, Holds
    <3>2. Holds(u)'
      BY <1>0, <1>8, <2>1 DEF Installs, Fails, Goes, Holds
    <3>3. InstalledIsWhole'
      BY <3>1 DEF InstalledIsWhole, Whole
    <3> QED BY <1>0, <1>8, <2>1, <3>2, <3>3, Combine DEF Installs, Fails, Goes
  <2> QED BY <1>4, <1>8, <2>1 DEF Installs
<1>9. CASE Reports(u)
  <2>1. Holds(u)'
    BY <1>0, <1>9 DEF Reports, Goes, Holds
  <2> QED BY <1>0, <1>9, <2>1, Combine DEF Reports, Goes, InstalledIsWhole
<1> QED
  BY <1>1, <1>2, <1>3, <1>5, <1>6, <1>7, <1>8, <1>9 DEF WorkerStep

LEMMA PatientStep ==
  ASSUME PatientInv, [PatientNext]_vars
  PROVE  PatientInv'
<1> USE DEF TypeOK, disk, Working
<1>0. TypeOK' /\ ApartInv'
  BY TypeStep, ApartStep DEF PatientInv, Moves
<1>1. ASSUME NEW u \in Update, HandsOut(u) PROVE PatientInv'
  BY <1>0, <1>1, UpdateAssumption
     DEF HandsOut, Goes, PatientInv, Alone, Holds, InstalledIsWhole, Whole
<1>2. ASSUME NEW u \in Update, WorkerStep(u) PROVE PatientInv'
  BY <1>2, PatientWorker
<1>3. CASE Settles
  BY <1>0, <1>3 DEF Settles, PatientInv, Alone, Holds, InstalledIsWhole, Whole
<1>4. CASE ProcessRestarts
  BY <1>0, <1>4 DEF ProcessRestarts, PatientInv, Alone, Holds, InstalledIsWhole, Whole
<1>5. CASE UNCHANGED vars
  <2>1. Alone' /\ InstalledIsWhole'
    BY <1>5 DEF vars, PatientInv, Alone, InstalledIsWhole, Whole
  <2>2. ASSUME NEW u \in Update PROVE Holds(u)'
    <3>1. Holds(u)
      BY DEF PatientInv
    <3> QED BY <1>5, <3>1 DEF vars, Holds, Whole
  <2> QED BY <1>0, <2>1, <2>2 DEF PatientInv
<1> QED BY <1>1, <1>2, <1>3, <1>4, <1>5 DEF PatientNext

LEMMA InitPatient == Init => PatientInv
<1> SUFFICES ASSUME Init PROVE PatientInv
  OBVIOUS
<1>1. TypeOK /\ ApartInv
  BY InitType, InitApart
<1>2. InstalledIsWhole
  BY DEF Init, InstalledIsWhole, Inode
<1>3. Alone /\ \A u \in Update : Holds(u)
  BY DEF Init, Alone, Holds, Working
<1> QED BY <1>1, <1>2, <1>3 DEF PatientInv

LEMMA UnlessWithdrawn ==
  ASSUME ~withdrawn => PatientInv, [Next]_<<vars, withdrawn>>
  PROVE  ~withdrawn' => PatientInv'
  BY PatientStep DEF Next, PatientInv

THEOREM PatientInvariant == Spec => [](~withdrawn => PatientInv)
<1> QED BY InitPatient, UnlessWithdrawn, PTL DEF Spec

\* The executable is one whole release at every moment, if no update is
\* withdrawn before its worker has ended (main.go:199).
THEOREM WholeUnlessWithdrawnAlways == Spec => []WholeUnlessWithdrawn
<1>1. (~withdrawn => PatientInv) => WholeUnlessWithdrawn
  BY DEF PatientInv, WholeUnlessWithdrawn
<1> QED BY <1>1, PatientInvariant, PTL

\* And every worker validates and installs the file it has written.
THEOREM ValidatesOwnFileAlways == Spec => []ValidatesOwnFile
<1>1. (~withdrawn => PatientInv) => ValidatesOwnFile
  BY DEF PatientInv, Holds, ValidatesOwnFile
<1> QED BY <1>1, PatientInvariant, PTL

-----------------------------------------------------------------------------
(* The atomic replacement.                                                 *)

\* A step that leaves the file of the executable and the update in flight
\* alone is not seen.
LEMMA NotSeen ==
  ASSUME UNCHANGED <<inFlight, target, withdrawn>>, content'[executable'] = content[executable]
  PROVE  UNCHANGED Swap!uvars
<1>1. {Whole(target[u]) : u \in {inFlight} \ {NoUpdate}}'
        = {Whole(target[u]) : u \in {inFlight} \ {NoUpdate}}
  OBVIOUS
<1> QED BY <1>1 DEF Swap!uvars

\* The update in flight may be given up once nobody is on it.
LEMMA EndsSettle ==
  ASSUME inFlight' = NoUpdate, UNCHANGED <<target, disk, withdrawn>>, ~withdrawn
  PROVE  Swap!UNext
<1>1. {Whole(target[u]) : u \in {inFlight} \ {NoUpdate}}' = {}
  OBVIOUS
<1>2. content'[executable'] = content[executable]
  BY DEF disk
<1> QED BY <1>1, <1>2 DEF Swap!UNext, Swap!Settle

LEMMA HandsOutOffers ==
  ASSUME TypeOK, NEW u \in Update, HandsOut(u), UNCHANGED withdrawn, ~withdrawn
  PROVE  Swap!UNext
<1>1. {Whole(target[v]) : v \in {inFlight} \ {NoUpdate}} = {}
  BY DEF HandsOut
<1>2. {Whole(target[v]) : v \in {inFlight} \ {NoUpdate}}' = {Whole(target[u])}
  BY UpdateAssumption DEF HandsOut
<1>3. Whole(target[u]) \in {Whole(r) : r \in Release \cup {Old}}
  BY DEF TypeOK
<1>4. content'[executable'] = content[executable]
  BY DEF HandsOut, disk
<1>5. Swap!Offer
  BY <1>1, <1>2, <1>3, <1>4 DEF Swap!Offer
<1> QED BY <1>5 DEF Swap!UNext

\* The rename puts the file in place that its worker has validated, and that
\* worker is the one of the update in flight.
LEMMA InstallsOffered ==
  ASSUME PatientInv, NEW u \in Update, Installs(u), UNCHANGED withdrawn, ~withdrawn
  PROVE  [Swap!UNext]_(Swap!uvars)
<1>1. inFlight = u /\ inFlight # NoUpdate /\ worker[u] = "install"
  BY UpdateAssumption DEF PatientInv, Alone, Working, Installs, Fails, Goes
<1>2. content[staged] = Whole(target[u])
  BY <1>1 DEF PatientInv, Holds
<1>3. CASE executable' = staged /\ UNCHANGED <<inFlight, target, content>>
  <2>1. content'[executable'] \in {Whole(target[v]) : v \in {inFlight} \ {NoUpdate}}
    BY <1>1, <1>2, <1>3
  <2>2. {Whole(target[v]) : v \in {inFlight} \ {NoUpdate}}'
          = {Whole(target[v]) : v \in {inFlight} \ {NoUpdate}}
    BY <1>3
  <2>3. Swap!Install
    BY <2>1, <2>2 DEF Swap!Install
  <2> QED BY <2>3 DEF Swap!UNext
<1>4. CASE Fails(u, "install")
  BY <1>4, NotSeen DEF Fails
<1> QED BY <1>3, <1>4 DEF Installs

LEMMA WorkerRefines ==
  ASSUME PatientInv, NEW u \in Update, WorkerStep(u), UNCHANGED withdrawn, ~withdrawn
  PROVE  [Swap!UNext]_(Swap!uvars)
<1> USE DEF disk
<1>0. /\ TypeOK /\ executable \in Inode
      /\ worker[u] = "write" => opened[u] # executable
  BY DEF PatientInv, TypeOK, ApartInv, StagingIsApart, Holds
<1>1. CASE Opens(u)
  <2>1. staged' # executable
    BY <1>0, <1>1 DEF PatientInv, ApartInv, StagingIsApart, NotYetOpened, Opens, Goes
  <2>2. content'[executable'] = content[executable]
    BY <1>0, <1>1, <2>1 DEF Opens, TypeOK
  <2> QED BY <1>1, <2>2, NotSeen DEF Opens
<1>2. CASE Writes(u)
  <2>1. content'[executable'] = content[executable]
    BY <1>0, <1>2 DEF Writes, TypeOK
  <2> QED BY <1>2, <2>1, NotSeen DEF Writes
<1>3. CASE Closes(u) \/ DownloadFails(u) \/ ChecksSum(u) \/ Inspects(u)
  <2>1. UNCHANGED <<inFlight, target, executable, content>>
    BY <1>3 DEF Closes, DownloadFails, ChecksSum, Inspects, Fails
  <2> QED BY <2>1, NotSeen
<1>4. CASE Installs(u)
  BY <1>4, InstallsOffered
<1>5. CASE Reports(u)
  <2>1. UNCHANGED <<target, disk>> /\ (inFlight' = inFlight \/ inFlight' = NoUpdate)
    BY <1>5 DEF Reports
  <2> QED BY <2>1, NotSeen, EndsSettle
<1> QED BY <1>1, <1>2, <1>3, <1>4, <1>5 DEF WorkerStep

LEMMA SwapStep ==
  ASSUME ~withdrawn => PatientInv, withdrawn \in BOOLEAN, [Next]_<<vars, withdrawn>>
  PROVE  [Swap!UNext]_(Swap!uvars)
<1>1. CASE UNCHANGED <<vars, withdrawn>>
  BY <1>1, NotSeen DEF vars
<1>2. CASE withdrawn \/ withdrawn'
  <2>1. withdrawn' \/ UNCHANGED <<vars, withdrawn>>
    BY <1>2 DEF Next
  <2>2. withdrawn' => Swap!UNext
    BY DEF Swap!UNext
  <2> QED BY <1>1, <2>1, <2>2
<1>3. CASE ~withdrawn /\ PatientNext /\ UNCHANGED withdrawn
  <2>0. PatientInv /\ TypeOK
    BY <1>3 DEF PatientInv
  <2>1. ASSUME NEW u \in Update, HandsOut(u) PROVE Swap!UNext
    BY <1>3, <2>0, <2>1, HandsOutOffers
  <2>2. ASSUME NEW u \in Update, WorkerStep(u) PROVE [Swap!UNext]_(Swap!uvars)
    BY <1>3, <2>0, <2>2, WorkerRefines
  <2>3. CASE Settles
    BY <1>3, <2>3, EndsSettle DEF Settles
  <2>4. CASE ProcessRestarts
    BY <1>3, <2>4, NotSeen DEF ProcessRestarts, disk
  <2> QED BY <1>3, <2>1, <2>2, <2>3, <2>4 DEF PatientNext
<1> QED BY <1>1, <1>2, <1>3 DEF Next

\* The Agent is replaced in one step, by the release on offer, and never by
\* anything else, if no update is withdrawn before its worker has ended.
THEOREM ReplacesAtomicallyAlways == Spec => ReplacesAtomically
<1>1. Init => Swap!UInit /\ withdrawn \in BOOLEAN
  <2> SUFFICES ASSUME Init PROVE Swap!UInit /\ withdrawn \in BOOLEAN
    OBVIOUS
  <2>1. content[executable] = Whole(Old)
    BY DEF Init, Inode
  <2> QED BY <2>1 DEF Init, Swap!UInit
<1>2. withdrawn \in BOOLEAN /\ [Next]_<<vars, withdrawn>> => (withdrawn \in BOOLEAN)'
  BY DEF Next
<1>3. (~withdrawn => PatientInv) /\ withdrawn \in BOOLEAN /\ [Next]_<<vars, withdrawn>>
        => [Swap!UNext]_(Swap!uvars)
  BY SwapStep
<1> QED
  BY <1>1, <1>2, <1>3, PatientInvariant, PTL DEF Spec, ReplacesAtomically, Swap!USpec
=============================================================================
