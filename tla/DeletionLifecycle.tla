-------------------------- MODULE DeletionLifecycle --------------------------
(***************************************************************************)
(* What the control plane promises about the removal of a monitored        *)
(* server, with nothing said of queues, requests or databases: a server is *)
(* removed under a ticket that is good once, every request that fails      *)
(* gives its ticket up and may be made again under a new one, and a server *)
(* that is gone stays gone.                                                *)
(*                                                                         *)
(* ServerTasks is shown to implement it.                                   *)
(***************************************************************************)
CONSTANTS
  Ticket,   \* what a removal can be requested under
  NoTicket  \* not a Ticket

VARIABLES
  phase,   \* of the server
  ticket,  \* under which the removal now under way was requested
  spent    \* tickets ever given out

dvars == <<phase, ticket, spent>>

Phase == {"kept", "requested", "removing", "failed", "gone"}

DInit == phase = "kept" /\ ticket = NoTicket /\ spent = {}

\* Only a server no removal of which is under way, and never an old ticket.
Request ==
  /\ phase \in {"kept", "failed"}
  /\ \E t \in Ticket \ spent : ticket' = t /\ spent' = spent \cup {t}
  /\ phase' = "requested"

\* The Agent has accepted the ticket and is going to remove itself.
Accept ==
  /\ phase = "requested"
  /\ phase' = "removing"
  /\ UNCHANGED <<ticket, spent>>

Fail ==
  /\ phase \in {"requested", "removing"}
  /\ phase' = "failed" /\ ticket' = NoTicket
  /\ UNCHANGED spent

\* Removed under its ticket, or deleted by its owner whatever its phase.
Remove ==
  /\ phase # "gone"
  /\ phase' = "gone" /\ ticket' = NoTicket /\ spent' = {}

DNext == Request \/ Accept \/ Fail \/ Remove

DSpec == DInit /\ [][DNext]_dvars
=============================================================================
