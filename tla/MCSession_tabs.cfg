CONSTANTS
  Tab = {t1, t2}
  Request = {r1, r2}
  NoRequest = NoRequest
  MaxPair = 3
  MaxReset = 1
SPECIFICATION LiveSpec
INVARIANTS OneSuccessor KeepsNewest WaitersAreWoken ResetLocksOut
PROPERTIES LoginsLiveOnce CallsSettle
CHECK_DEADLOCK FALSE
