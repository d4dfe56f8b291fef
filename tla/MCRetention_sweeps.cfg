CONSTANTS
  a = a
  b = b
  Writers = {w1, w2}
  Readers = {reader}
  Rows = {a, b}
  WriteSets <- MCWriteSets
  Bootstrap <- MCBootstrap
  PruneThreshold = 2
  MinSamples = 2
  RetrainEvery = 2
  MaxSamples = 2
  MaxTransactions = 4
SYMMETRY Symmetry
SPECIFICATION Spec
CHECK_DEADLOCK FALSE
INVARIANTS
  BootstrapSweeps
  EveryWriteIsCountedOnce
