SPECIFICATION Spec
CONSTANTS
  Mounts = {m1, m2}
  Installed <- TwoVersions
  FsKit = FALSE
  Flags = {"", "fskit", "smb", "zfs"}
  Threshold = 0
  Scenarios <- ManyScenarios
CHECK_DEADLOCK FALSE
INVARIANTS
  TypeOK
  LockedWhileOpen
  LockLeftMeansCrash
  CollectsUnderLock
PROPERTIES
  EndedSessionExits
