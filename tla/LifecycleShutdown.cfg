SPECIFICATION Spec
CONSTANTS
  WorkspaceIds = {w1}
  AliasKeys = {a1}
  DirOptions = {plain, kept}
  Paths = {plain, kept}
  plain = plain
  padded = padded
  CanonicalDir <- Distinct
  LocalPath <- Distinct
  KeepDir = {kept}
  Workers = {k1}
  Deleters = {d1, d2}
  Listers = {}
  ProbeWorkers = 1
  Faults = {"install", "probe", "clear"}
  StopMode = "impatient"
  NoRow = NoRow
  NoId = NoId
SYMMETRY Symmetric
INVARIANTS
  DeleteExcludesInstall
  NoOrphanDirectory
  StopLeavesNothingBehind
