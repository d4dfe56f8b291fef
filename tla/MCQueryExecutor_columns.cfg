CONSTANTS
  Lanes = 4
  LinearWidth = 16
  WindowWidth = 32
  GrowthDivisor = 8
  MaxSearched = 8
  Catalog <- MCCatalog
  Contents <- MCContents
  Selects <- ColumnFilters
  IndexedBy <- IndexOnA
  MaxCommits = 2
SPECIFICATION Spec
CHECK_DEADLOCK FALSE
INVARIANTS
  AnythingElseIsScanned
