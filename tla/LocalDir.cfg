SPECIFICATION Spec
CONSTANTS
  Callers = {c1, c2, c3}
  Inodes = {i1, i2}
  NoInode = NoInode
  MaxCalls = 5
  Foreign = TRUE
SYMMETRY Symmetric
INVARIANTS
  ClearExcludesOperations
  NobodyOversleeps
  NoStrayTemp
  ClearedLeavesNothing
PROPERTIES
  ReplacementContentsSurvive
