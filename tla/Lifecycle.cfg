SPECIFICATION Spec
CONSTANTS
  WorkspaceIds = {w1, w2}
  AliasKeys = {a1, a2}
  DirOptions = {plain}
  Paths = {plain}
  plain = plain
  padded = padded
  CanonicalDir <- Distinct
  LocalPath <- Distinct
  KeepDir = {}
  Workers = {k1, k2}
  Deleters = {d1}
  Listers = {d1}
  ProbeWorkers = 1
  Faults = {"install", "probe", "clear"}
  StopMode = "never"
  NoRow = NoRow
  NoId = NoId
SYMMETRY Symmetric
INVARIANTS
  TypeOK
  AliasIndexConsistent
  NoSharedDirectory
  OneInstallerPerWorkspace
  InitHasOwner
  NoLostUpdate
PROPERTIES
  StatusMachine
