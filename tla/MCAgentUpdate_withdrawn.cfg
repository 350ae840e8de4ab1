CONSTANTS
  Update = {u1, u2}
  Release = {r1}
  Old = r0
  NoUpdate = NoUpdate
  NoFile = NoFile
  Chunks = 2
SPECIFICATION Spec
INVARIANT InstalledIsWhole
SYMMETRY Symmetry
CHECK_DEADLOCK FALSE
