CONSTANTS
  Threads = {t1, t2}
  Vectors <- SmallVectors
  LevelsOf <- SmallLevels
  M = 2
  EfConstruction = 2
  EfSearch = 4
  Queries = {3, 12}
  MaxRemovals = 1
SYMMETRY Symmetry
SPECIFICATION Spec
CHECK_DEADLOCK FALSE
INVARIANTS
  HTypeOK
  SearchIsSound
  EntryIsHighest
  ExactWhileSmall
