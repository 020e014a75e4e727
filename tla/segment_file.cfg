SPECIFICATION Spec
CONSTANTS
  Strategies = {"PerOp", "FlushOnFsync"}
  Roots = {255}
  SnapNames <- TwoNames
  MaxLogged = 3
  MaxErrors = 2
CHECK_DEADLOCK FALSE
INVARIANTS
  AckedIsRead
  ErrorsSurface
  CopyReadsSame
PROPERTIES
  ImplementsLogFile
