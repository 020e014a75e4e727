SPECIFICATION Spec
SYMMETRY FileSymmetry
CONSTANTS
  Inodes = {i1, i2}
  Handles = {h1, h2}
  Bytes = {1}
  MaxLen = 2
  MaxCalls = 9
  SeedContent <- SeedFiles
CHECK_DEADLOCK FALSE
INVARIANTS
  TypeOK
  PosixContent
  SizeIsLength
  
