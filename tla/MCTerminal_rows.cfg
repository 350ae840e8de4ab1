CONSTANTS
  Browser = {b1, b2}
  Conn = {c1}
  NoBrowser = NoBrowser
  NoConn = NoConn
  MayRestart = TRUE
SPECIFICATION Spec
INVARIANTS ActiveRowsAreServed
CHECK_DEADLOCK FALSE
