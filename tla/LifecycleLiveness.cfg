SPECIFICATION FairSpec
CONSTANTS
  WorkspaceIds = {w1, w2}
  AliasKeys = {a1}
  DirOptions = {plain}
  Paths = {plain}
  plain = plain
  padded = padded
  CanonicalDir <- Distinct
  LocalPath <- Distinct
  KeepDir = {}
  Workers = {k1}
  Deleters = {d1}
  Listers = {}
  ProbeWorkers = 1
  Faults = {}
  StopMode = "patient"
  NoRow = NoRow
  NoId = NoId
PROPERTIES
  StatusMachineFair
  MisreportIsCorrected
  StopCompletes
