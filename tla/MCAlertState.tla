---------------------------- MODULE MCAlertState ----------------------------
(* Small instances of AlertState for TLC.                                  *)
EXTENDS AlertState

\* A measured rule that is reminded of, and the same on another server; a rule
\* about a container and one about the server itself, without reminders.
RuleOf(metric, target, repeats) ==
  [metric |-> metric, target |-> target, repeats |-> repeats]
Settings == {RuleOf("measured", Server, TRUE), RuleOf("measured", {}, TRUE),
             RuleOf("snapshot", Server, FALSE), RuleOf("status", Server, FALSE)}
=============================================================================
