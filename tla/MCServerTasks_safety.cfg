CONSTANTS
  TaskId = {t1, t2}
  Beat = {b1}
  Call = {c1}
  Key = {k1}
  NoKey = NoKey
  NoTask = NoTask
  ClaimLimit = 1
SPECIFICATION Spec
INVARIANTS NoDuplicateWork CurrentTicket UninstallNeverBlocked
PROPERTIES OutcomesAreFinal RemovalIsLifecycle UninstallGoesFirst
SYMMETRY Symmetry
CHECK_DEADLOCK FALSE
