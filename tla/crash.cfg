SPECIFICATION FairSpec
CONSTANTS
  Procs = {p1}
  UserNames = {"a"}
  Strategies = {"FlushOnFsync"}
  Serial = TRUE
  GcStride = 100000
  PadLimit = 1000000
  Budget <- CrashBudget
  MaxStates = 3
  MaxCrashes = 2
INVARIANTS
  RecoversLastCommit
PROPERTIES
  SnapshotMountInvisible
  CleanUnmountPersists
  ImplementsDurableStore
  DirtyMountRecovers
