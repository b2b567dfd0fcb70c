CONSTANTS
  a = a
  b = b
  c = c
  d = d
  None = None
  Object <- MCObject
  Rank <- MCRank
SPECIFICATION Spec
INVARIANTS
  TypeOK
  HeldOnce
  LengthExact
PROPERTY ImplementsLeastFirst
