SPECIFICATION Spec
SYMMETRY ProcSymmetry
CONSTANTS
  Procs = {p1, p2}
  UserNames = {}
  Strategies = {"PerOp"}
  Serial = FALSE
  GcStride = 100000
  PadLimit = 1000000
  Budget <- ConcurrentBudget
  MaxStates = 2
  MaxCrashes = 1
INVARIANTS
  TypeOK
  RootsResolve
