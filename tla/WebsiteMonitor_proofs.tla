------------------------ MODULE WebsiteMonitor_proofs ------------------------
(***************************************************************************)
(* Proofs about WebsiteMonitor, for any number of overlapping jobs.        *)
(*                                                                         *)
(* Status and start are written together from the row a job has read, so   *)
(* what is said of the row has to hold of every copy: a start belongs to an *)
(* outage.  The converse fails for a row older than the column, and only   *)
(* until it is written.                                                    *)
(***************************************************************************)
EXTENDS WebsiteMonitor, TLAPS

LEMMA NothingIsRow == Nothing \in Row /\ Nothing.status = "gone" /\ Nothing.started = NoTime
  BY WebsiteAssumption DEF Nothing, Row

LEMMA StartOfType ==
  ASSUME NEW before \in Row, NEW answer \in Answer, NEW now \in Time
  PROVE  StartOf(before, answer, now) \in Time \cup {NoTime}
  BY DEF StartOf, Row, Answer

LEMMA EndsType ==
  ASSUME TypeOK, NEW j \in Job, Ends(j)
  PROVE  /\ at' \in [Job -> {"idle", "listed", "retrying", "probed"}]
         /\ copy' \in [Job -> Row] /\ found' \in [Job -> Answer]
  BY NothingIsRow DEF TypeOK, Ends, Answer

LEMMA TypeStep == ASSUME TypeOK, [Next]_vars PROVE TypeOK'
<1>1. ASSUME NEW j \in Job, Lists(j) PROVE TypeOK'
  BY <1>1 DEF Lists, Goes, TypeOK
<1>2. ASSUME NEW j \in Job, Probes(j) PROVE TypeOK'
  <2>1. answers[copy[j].url] \in Answer
    BY DEF TypeOK, Row
  <2> QED BY <1>2, <2>1 DEF Probes, Goes, TypeOK
<1>3. ASSUME NEW j \in Job, Retries(j) PROVE TypeOK'
  <2>1. answers[copy[j].url] \in Answer
    BY DEF TypeOK, Row
  <2> QED BY <1>3, <2>1 DEF Retries, Goes, TypeOK
<1>4. ASSUME NEW j \in Job, Writes(j) PROVE TypeOK'
  <2>1. copy[j] \in Row /\ found[j] \in Answer
    BY DEF TypeOK
  <2>2. row' \in Row
    <3>1. CASE row.status = "gone"
      BY <1>4, <3>1 DEF Writes, TypeOK
    <3>2. CASE row.status # "gone"
      <4>1. PICK now \in Time :
              row' = [row EXCEPT !.status = found[j], !.started = StartOf(copy[j], found[j], now)]
        BY <1>4, <3>2 DEF Writes, Fresh
      <4>2. StartOf(copy[j], found[j], now) \in Time \cup {NoTime}
        BY <2>1, StartOfType
      <4> QED BY <2>1, <4>1, <4>2 DEF TypeOK, Row
    <3> QED BY <3>1, <3>2
  <2> QED BY <1>4, <2>2, EndsType DEF Writes, TypeOK
<1>5. ASSUME NEW j \in Job, GivesUp(j) PROVE TypeOK'
  BY <1>5, EndsType DEF GivesUp, TypeOK
<1>6. ASSUME NEW u \in Url, Edits(u) PROVE TypeOK'
  BY <1>6 DEF Edits, TypeOK, Row, jobVars
<1>7. ASSUME NEW u \in Url, Turns(u) PROVE TypeOK'
  BY <1>7 DEF Turns, TypeOK, Answer, jobVars
<1>8. CASE Deletes
  BY <1>8 DEF Deletes, TypeOK, Row, jobVars
<1>9. CASE UNCHANGED vars
  BY <1>9 DEF vars, jobVars, TypeOK
<1> QED BY <1>1, <1>2, <1>3, <1>4, <1>5, <1>6, <1>7, <1>8, <1>9 DEF Next, JobStep

LEMMA TypeInit == Init => TypeOK
  BY NothingIsRow DEF Init, TypeOK, Row, Answer

\* Type correctness.
THEOREM TypeCorrect == Spec => []TypeOK
<1> QED BY TypeInit, TypeStep, PTL DEF Spec

-----------------------------------------------------------------------------
StartsOfOutages ==
  /\ row.started # NoTime => row.status = "DOWN"
  /\ \A j \in Job : copy[j].started # NoTime => copy[j].status = "DOWN"

\* What a job is about to write has a start just if it is down.
LEMMA StartOfFits ==
  ASSUME NEW before \in Row, before.started # NoTime => before.status = "DOWN",
         NEW answer \in Answer, NEW now \in Time
  PROVE  answer = "DOWN" <=> StartOf(before, answer, now) # NoTime
  BY WebsiteAssumption DEF StartOf, Row, Answer

LEMMA EndsFits ==
  ASSUME TypeOK, StartsOfOutages, NEW j \in Job, Ends(j)
  PROVE  \A k \in Job : copy'[k].started # NoTime => copy'[k].status = "DOWN"
  BY NothingIsRow DEF Ends, StartsOfOutages, TypeOK

\* What a job writes, if the row is still there.
LEMMA WritesFit ==
  ASSUME TypeOK, StartsOfOutages, NEW j \in Job, Writes(j), row.status # "gone"
  PROVE  row'.status = "DOWN" <=> row'.started # NoTime
<1>1. PICK now \in Time :
        row' = [row EXCEPT !.status = found[j], !.started = StartOf(copy[j], found[j], now)]
  BY DEF Writes, Fresh
<1>2. found[j] = "DOWN" <=> StartOf(copy[j], found[j], now) # NoTime
  BY StartOfFits DEF TypeOK, StartsOfOutages
<1> QED BY <1>1, <1>2 DEF TypeOK, Row

LEMMA StartStep == ASSUME TypeOK, StartsOfOutages, [Next]_vars PROVE StartsOfOutages'
<1>1. ASSUME NEW j \in Job, Lists(j) PROVE StartsOfOutages'
  BY <1>1 DEF Lists, StartsOfOutages, TypeOK
<1>2. ASSUME NEW j \in Job, Probes(j) \/ Retries(j) PROVE StartsOfOutages'
  BY <1>2 DEF Probes, Retries, StartsOfOutages
<1>3. ASSUME NEW j \in Job, Writes(j) PROVE StartsOfOutages'
  <2>1. row'.started # NoTime => row'.status = "DOWN"
    <3>1. CASE row.status = "gone"
      BY <1>3, <3>1 DEF Writes, StartsOfOutages
    <3>2. CASE row.status # "gone"
      BY <1>3, <3>2, WritesFit
    <3> QED BY <3>1, <3>2
  <2> QED BY <1>3, <2>1, EndsFits DEF Writes, StartsOfOutages
<1>4. ASSUME NEW j \in Job, GivesUp(j) PROVE StartsOfOutages'
  BY <1>4, EndsFits DEF GivesUp, StartsOfOutages
<1>5. ASSUME NEW u \in Url, Edits(u) \/ Turns(u) PROVE StartsOfOutages'
  BY <1>5 DEF Edits, Turns, StartsOfOutages, jobVars, TypeOK, Row
<1>6. CASE Deletes
  BY <1>6 DEF Deletes, StartsOfOutages, jobVars, TypeOK, Row
<1>7. CASE UNCHANGED vars
  BY <1>7 DEF vars, jobVars, StartsOfOutages
<1> QED BY <1>1, <1>2, <1>3, <1>4, <1>5, <1>6, <1>7 DEF Next, JobStep

LEMMA StartInit == Init => StartsOfOutages
  BY NothingIsRow DEF Init, StartsOfOutages

\* Every write leaves a website with a start of its outage just if it is down,
\* for any number of jobs that write over each other (checkWebsite).
THEOREM StartedIffDownAlways == Spec => StartedIffDown
<1> DEFINE Fits == \/ row'.status = row.status /\ row'.started = row.started
                   \/ row'.status = "DOWN" <=> row'.started # NoTime
<1>1. TypeOK /\ StartsOfOutages /\ [Next]_vars => [Fits]_vars
  <2> SUFFICES ASSUME TypeOK, StartsOfOutages, Next PROVE Fits
    OBVIOUS
  <2>1. ASSUME NEW j \in Job, Writes(j) PROVE Fits
    BY <2>1, WritesFit DEF Writes
  <2>2. CASE Deletes
    BY <2>2 DEF Deletes, TypeOK, Row
  <2>3. ASSUME NEW u \in Url, Edits(u) PROVE Fits
    BY <2>3 DEF Edits, TypeOK, Row
  <2>4. CASE row' = row
    BY <2>4
  <2> QED
    BY <2>1, <2>2, <2>3, <2>4 DEF Next, JobStep, Lists, Probes, Retries, GivesUp, Turns
<1> QED BY <1>1, TypeInit, TypeStep, StartInit, StartStep, PTL DEF Spec, StartedIffDown

\* The start of an outage that goes on moves only when one job writes over what
\* another has written.
THEOREM OutageStartKeptAlways == Spec => OutageStartKept
<1> DEFINE Kept ==
      row.status = "DOWN" /\ row.started # NoTime
        /\ row'.status = "DOWN" /\ row'.started # row.started
        => \E j \in Job : /\ at[j] = "probed"
                          /\ \/ copy[j].status # row.status
                             \/ copy[j].started # row.started
<1>1. TypeOK /\ [Next]_vars => [Kept]_vars
  <2> SUFFICES ASSUME TypeOK, Next, row.status = "DOWN", row.started # NoTime,
                      row'.status = "DOWN", row'.started # row.started
               PROVE  \E j \in Job : /\ at[j] = "probed"
                                     /\ \/ copy[j].status # row.status
                                        \/ copy[j].started # row.started
    OBVIOUS
  <2>1. PICK j \in Job : Writes(j)
    BY DEF Next, JobStep, Lists, Probes, Retries, GivesUp, Edits, Turns, Deletes, TypeOK, Row
  <2>2. PICK now \in Time :
          row' = [row EXCEPT !.status = found[j], !.started = StartOf(copy[j], found[j], now)]
    BY <2>1 DEF Writes, Fresh
  <2>3. row'.started = StartOf(copy[j], "DOWN", now)
    BY <2>2 DEF TypeOK, Row
  <2>4. copy[j].status = "DOWN" /\ copy[j].started # NoTime
          => StartOf(copy[j], "DOWN", now) = copy[j].started
    BY DEF StartOf
  <2> QED BY <2>1, <2>3, <2>4 DEF Writes
<1> QED BY <1>1, TypeInit, TypeStep, PTL DEF Spec, OutageStartKept
=============================================================================
