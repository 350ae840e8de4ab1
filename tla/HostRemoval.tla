----------------------------- MODULE HostRemoval -----------------------------
(***************************************************************************)
(* What a removal promises to the owner of the host: the Agent stays where *)
(* it is until it has accepted a removal, it never comes back by itself,   *)
(* and the server leaves the control plane after the Agent has left the    *)
(* host, under the removal it accepted, unless the owner forces it.        *)
(*                                                                         *)
(* DeletionLifecycle says what is shown of it.  AgentControl, the control  *)
(* plane together with an Agent that crashes, reports and is answered over *)
(* a network that loses both, is shown to implement it.                    *)
(***************************************************************************)
EXTENDS DeletionLifecycle

VARIABLES
  installed,  \* the Agent is on its host
  forced      \* the owner has deleted the server by force

hvars == <<dvars, installed, forced>>

HInit == DInit /\ installed = TRUE /\ forced = FALSE

Asked == (Request \/ Accept \/ Fail) /\ UNCHANGED <<installed, forced>>

\* It has accepted this removal, or an earlier one that was given up while it
\* was at work.
Leave ==
  /\ installed
  /\ phase # "kept"
  /\ phase = "requested" => spent # {ticket}
  /\ installed' = FALSE
  /\ UNCHANGED <<dvars, forced>>

Confirm ==
  /\ phase = "removing" /\ ~installed
  /\ Remove
  /\ UNCHANGED <<installed, forced>>

Force == Remove /\ forced' = TRUE /\ UNCHANGED installed

HNext == Asked \/ Leave \/ Confirm \/ Force

HSpec == HInit /\ [][HNext]_hvars
=============================================================================
