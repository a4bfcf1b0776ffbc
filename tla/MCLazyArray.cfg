SPECIFICATION SpecAccessor
CONSTANTS
  Fields = {f}
  Values = {0, 1, 2}
  Stored <- MCStored
  Chunks = {c1, c2}
  Capacity = 2
  MaxLength = 3
  MaxDeleted = 1
  Hole = Hole
SYMMETRY MCSymmetry
INVARIANTS
  CacheAgrees
  IntervalsAgree
PROPERTIES
  ImplementsItemArray
  CollectsWhatGoes
CHECK_DEADLOCK FALSE
