---------------------------- MODULE MCServerTasks ----------------------------
(* Small instances of ServerTasks for TLC.                                 *)
EXTENDS ServerTasks, TLC

\* Task ids are interchangeable.
Symmetry == Permutations(TaskId)
=============================================================================
