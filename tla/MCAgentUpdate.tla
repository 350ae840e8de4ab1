---------------------------- MODULE MCAgentUpdate ----------------------------
(* Small instances of AgentUpdate for TLC.                                 *)
EXTENDS AgentUpdate, TLC

\* Update tasks and releases are interchangeable.
Symmetry == Permutations(Update) \cup Permutations(Release)
=============================================================================
