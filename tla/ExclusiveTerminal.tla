-------------------------- MODULE ExclusiveTerminal --------------------------
(***************************************************************************)
(* What the terminal of a server promises its owner, with nothing said of  *)
(* tickets, maps, rows, connections or messages: it is granted to one      *)
(* session at a time, each session has it once, and the host runs one      *)
(* shell at a time, started once for a session that has been served.       *)
(*                                                                         *)
(* It does not promise that a session that is ending ever gives the        *)
(* terminal back, nor that its shell stops first.                          *)
(*                                                                         *)
(* Terminal is shown to implement it.                                      *)
(***************************************************************************)
CONSTANT Session

VARIABLES
  phase,  \* of each session
  shell   \* of each session, on the host

evars == <<phase, shell>>

Holding == {"granted", "serving", "ending"}

EInit ==
  /\ phase = [s \in Session |-> "none"]
  /\ shell = [s \in Session |-> "none"]

Moves(s, to) == phase' = [phase EXCEPT ![s] = to] /\ UNCHANGED shell

\* A session that does not hear of its grant is over at once.
Grant(s) ==
  /\ phase[s] = "none"
  /\ \A x \in Session : phase[x] \notin Holding
  /\ Moves(s, "granted") \/ Moves(s, "ending")

Serve(s) == phase[s] = "granted" /\ Moves(s, "serving")

End(s) == phase[s] \in {"granted", "serving"} /\ Moves(s, "ending")

Release(s) == phase[s] = "ending" /\ Moves(s, "released")

\* Perhaps late, when its session has gone.
Run(s) ==
  /\ phase[s] \in {"serving", "ending", "released"}
  /\ shell[s] = "none"
  /\ \A x \in Session : shell[x] # "running"
  /\ shell' = [shell EXCEPT ![s] = "running"]
  /\ UNCHANGED phase

Stop(s) ==
  /\ shell[s] = "running"
  /\ shell' = [shell EXCEPT ![s] = "stopped"]
  /\ UNCHANGED phase

ENext ==
  \E s \in Session :
    Grant(s) \/ Serve(s) \/ End(s) \/ Release(s) \/ Run(s) \/ Stop(s)

ESpec == EInit /\ [][ENext]_evars
=============================================================================
