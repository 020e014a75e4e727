SPECIFICATION Spec
SYMMETRY WriterSymmetry
CONSTANTS
  Writers = {w1, w2}
  Data <- TwoData
  BlockSize = 2
  Positions = {1, 2}
  BitsOf <- FewBits
  MaxCrashes = 1
  MaxCollects = 1
INVARIANTS
  TypeOK
  BlocksWhole
  NoFalseNegatives
  IndexedIsStored
  StoredIsReadable
