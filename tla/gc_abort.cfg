SPECIFICATION Spec
CONSTANTS
  Procs = {p1}
  UserNames = {}
  Strategies = {"PerOp"}
  Serial = TRUE
  GcStride = 100000
  PadLimit = 1000000
  Budget <- GcAbortBudget
  MaxStates = 3
  MaxCrashes = 1
INVARIANTS
  RecoversLastCommit
