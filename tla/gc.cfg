SPECIFICATION InspectSpec
CONSTANTS
  Procs = {p1}
  UserNames = {"a"}
  Strategies = {"PerOp"}
  Serial = TRUE
  GcStride = 100000
  PadLimit = 1000000
  Budget <- GcBudget
  MaxStates = 2
  MaxCrashes = 0
  Spared <- OneOfEach
INVARIANTS
  RecoversLastCommit
  VersionsUnique
  NameIsNewest
  ReportTruthful
PROPERTIES
  SnapshotsKept
