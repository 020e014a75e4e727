SPECIFICATION Spec
SYMMETRY NameSymmetry
CONSTANTS
  Names = {a, b, c}
  MaxLinks = 3
  Bounds <- DeepOrLong
CHECK_DEADLOCK FALSE
INVARIANTS
  TypeOK
  EntriesResolve
  LinksAreNames
  NumbersSpent
  CountIsExact
