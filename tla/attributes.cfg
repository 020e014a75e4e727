SPECIFICATION Spec
CONSTANTS
  Names = {1, 2, 3, 4}
  Bits = {"r", "w"}
  Umask = {"w"}
  Uids = {"u2"}
  Creator = "u1"
  Times = {"before", "after"}
  XNames <- TwoXNames
  XValues <- TwoXValues
  Handles = {h1}
  MaxSize = 2
  Workloads <- FourWorkloads
CHECK_DEADLOCK FALSE
INVARIANTS
  TypeOK
  
  LogicalBytesExact
  XattrsAreMaps
  ListingDamageBounded
