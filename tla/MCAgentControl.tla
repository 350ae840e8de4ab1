--------------------------- MODULE MCAgentControl ---------------------------
(* A small instance of AgentControl for TLC.                               *)
EXTENDS AgentControl, TLC

\* Heartbeats are interchangeable.
Symmetry == Permutations(Beat)
=============================================================================
