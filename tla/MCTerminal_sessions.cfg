CONSTANTS
  Browser = {b1, b2}
  Conn = {c1, c2}
  NoBrowser = NoBrowser
  NoConn = NoConn
  MayRestart = TRUE
SYMMETRY Symmetry
SPECIFICATION Spec
INVARIANTS OneSession NoUnsweptSession OneShell CloseNeverStray
PROPERTY TerminalIsExclusive
CHECK_DEADLOCK FALSE
