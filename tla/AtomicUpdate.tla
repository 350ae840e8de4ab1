---------------------------- MODULE AtomicUpdate ----------------------------
(***************************************************************************)
(* What updating an Agent promises to the host it runs on, with nothing    *)
(* said of downloads, files or workers: the installed image changes from   *)
(* one whole release to another in one step, to the release that is being  *)
(* offered at that moment and to no other.  Nothing is promised once an    *)
(* offer was withdrawn under the worker that acts on it.                   *)
(*                                                                         *)
(* AgentUpdate is shown to implement it.                                   *)
(***************************************************************************)
CONSTANT Image  \* of the releases there are

VARIABLES
  installed,  \* the image that runs at the next start
  offered,    \* the image of the update in flight: {} or one
  withdrawn   \* an offer was withdrawn too early

uvars == <<installed, offered, withdrawn>>

UInit == installed \in Image /\ offered = {} /\ withdrawn = FALSE

Offer ==
  /\ offered = {}
  /\ \E i \in Image : offered' = {i}
  /\ UNCHANGED installed

Install == installed' \in offered /\ UNCHANGED offered

\* With the new image in place or without it.
Settle == offered' = {} /\ UNCHANGED installed

UNext ==
  \/ ~withdrawn /\ (Offer \/ Install \/ Settle) /\ UNCHANGED withdrawn
  \/ withdrawn'

USpec == UInit /\ [][UNext]_uvars
=============================================================================
