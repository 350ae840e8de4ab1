CONSTANTS
  Update = {u1, u2}
  Release = {r1, r2}
  Old = r0
  NoUpdate = NoUpdate
  NoFile = NoFile
  Chunks = 2
SPECIFICATION LiveSpec
INVARIANTS StagingIsApart WholeUnlessWithdrawn ValidatesOwnFile
PROPERTIES ReplacesAtomically UpdateEnds
CHECK_DEADLOCK FALSE
