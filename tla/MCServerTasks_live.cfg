CONSTANTS
  TaskId = {t1, t2}
  Beat = {b1}
  Call = {}
  Key = {}
  NoKey = NoKey
  NoTask = NoTask
  ClaimLimit = 1
SPECIFICATION LiveSpec
PROPERTIES TasksSettle UninstallingResolves
CHECK_DEADLOCK FALSE
