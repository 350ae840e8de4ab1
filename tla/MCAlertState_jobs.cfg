CONSTANTS
  Job = {j1, j2}
  Server = {s1}
  Setting <- Settings
  NoServer = NoServer
SPECIFICATION LiveSpec
INVARIANTS NotesTellState IncidentsHaveStart
PROPERTIES IncidentsAreLogged ProblemsOpen IncidentsClose IncidentsAreRepeated
CHECK_DEADLOCK FALSE
