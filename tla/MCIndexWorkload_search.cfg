CONSTANTS
  Lanes = 2
  LinearWidth = 2
  WindowWidth = 4
  GrowthDivisor = 1
  Keys <- MCKeys
  Probes <- MCProbes
  ErrorBound = 1
  BufferCapacity = 1
  Order = 3
  MaxInserts = 6
SPECIFICATION Spec
CHECK_DEADLOCK FALSE
INVARIANTS
  SearchesFind
  RangesAreRight
  RebuildsAreAmortised
  TreeIsBalancedMap
  KernelsMatchScalar
  EstimatesAreFractions
