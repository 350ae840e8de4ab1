CONSTANTS
  TaskId = {t1}
  Beat = {b1, b2}
  Call = {c1}
  Key = {}
  NoKey = NoKey
  NoTask = NoTask
  ClaimLimit = 1
SPECIFICATION ControlSpec
INVARIANTS RemovedMeansUninstalled HelperRunsOnRecordedConsent LossIsVisible
PROPERTIES RemovesInOrder DispatchedOnce
SYMMETRY Symmetry
CHECK_DEADLOCK FALSE
