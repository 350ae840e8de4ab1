---------------------------- MODULE IncidentLog ----------------------------
(***************************************************************************)
(* What an alert rule promises its owner about the incidents of every      *)
(* server, with nothing said of jobs, readings, rows or statements.  A     *)
(* condition is watched from a start that never moves; it opens an         *)
(* incident with one notification, or is forgotten without any; an         *)
(* incident ends with one notification; and once the rule or the server    *)
(* has gone nothing is ever opened or watched again.                       *)
(*                                                                         *)
(* It does not promise that an incident was watched before it opens, nor   *)
(* anything about reminders: a job acts on what it has seen, and another   *)
(* may have put an end to it since.                                        *)
(*                                                                         *)
(* AlertState is shown to implement it.                                    *)
(***************************************************************************)
EXTENDS Integers

CONSTANT Server

VARIABLES
  phase,  \* of each server
  since,  \* how long the condition has been known
  told    \* openings less ends the owner was notified of

lvars == <<phase, since, told>>

LInit ==
  /\ phase = [s \in Server |-> "quiet"]
  /\ since = [s \in Server |-> "null"]
  /\ told = [s \in Server |-> 0]

Watch(s) ==
  /\ phase[s] = "quiet"
  /\ phase' = [phase EXCEPT ![s] = "watched"]
  /\ since' = [since EXCEPT ![s] = "recent"]
  /\ UNCHANGED told

Open(s) ==
  /\ phase[s] \in {"quiet", "watched"}
  /\ phase' = [phase EXCEPT ![s] = "open"]
  /\ since' = [since EXCEPT ![s] = IF phase[s] = "quiet" THEN "recent" ELSE @]
  /\ told' = [told EXCEPT ![s] = @ + 1]

Ages(s) ==
  /\ phase[s] \in {"watched", "open"} /\ since[s] = "recent"
  /\ since' = [since EXCEPT ![s] = "long"]
  /\ UNCHANGED <<phase, told>>

Calms(s) ==
  /\ phase' = [phase EXCEPT ![s] = "quiet"]
  /\ since' = [since EXCEPT ![s] = "null"]

Forget(s) == phase[s] = "watched" /\ Calms(s) /\ UNCHANGED told

Close(s) == phase[s] = "open" /\ Calms(s) /\ told' = [told EXCEPT ![s] = @ - 1]

\* A server goes alone, the rule with all of them.
Vanish(S) ==
  /\ \E s \in S : phase[s] # "gone"
  /\ phase' = [s \in Server |-> IF s \in S THEN "gone" ELSE phase[s]]
  /\ since' = [s \in Server |-> IF s \in S THEN "null" ELSE since[s]]
  /\ told' = [s \in Server |-> IF s \in S THEN 0 ELSE told[s]]

LNext ==
  \/ \E s \in Server : Watch(s) \/ Open(s) \/ Ages(s) \/ Forget(s) \/ Close(s)
  \/ \E S \in SUBSET Server : Vanish(S)

LSpec == LInit /\ [][LNext]_lvars
=============================================================================
