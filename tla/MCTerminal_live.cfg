CONSTANTS
  Browser = {b1, b2}
  Conn = {c1}
  NoBrowser = NoBrowser
  NoConn = NoConn
  MayRestart = FALSE
SPECIFICATION LiveSpec
PROPERTIES NoOrphanShell ManagerIsFreed
CHECK_DEADLOCK FALSE
