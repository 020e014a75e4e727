SPECIFICATION Spec
CONSTANTS
  Procs = {p1}
  UserNames = {}
  Strategies = {"PerOp", "FlushOnFsync"}
  Serial = TRUE
  GcStride = 100000
  PadLimit = 1000000
  Budget <- FsyncBudget
  MaxStates = 2
  MaxCrashes = 1
INVARIANTS
  FsyncDurable
