SPECIFICATION BlobSpec
CONSTANTS
  Writers = {w1, w2, w3}
  Digests = {d1, d2}
  Nothing = Nothing
SYMMETRY Symmetry
INVARIANTS
  BlobTypeOK
  NeverPartial
PROPERTIES
  ImplementsContentStore
CHECK_DEADLOCK FALSE
