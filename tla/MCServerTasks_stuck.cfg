CONSTANTS
  TaskId = {t1, t2}
  Beat = {b1}
  Call = {}
  Key = {}
  NoKey = NoKey
  NoTask = NoTask
  ClaimLimit = 1
SPECIFICATION LiveSpec
PROPERTY PendingResolves
CHECK_DEADLOCK FALSE
