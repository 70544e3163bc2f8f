SPECIFICATION Spec
CONSTANTS
  WorkspaceIds = {w1}
  AliasKeys = {a1}
  DirOptions = {plain}
  Paths = {plain}
  plain = plain
  padded = padded
  CanonicalDir <- Distinct
  LocalPath <- Distinct
  KeepDir = {}
  Workers = {k1}
  Deleters = {d1}
  Listers = {d1}
  ProbeWorkers = 1
  Faults = {}
  StopMode = "never"
  NoRow = NoRow
  NoId = NoId
PROPERTIES
  TimedOutDirectoryKept
