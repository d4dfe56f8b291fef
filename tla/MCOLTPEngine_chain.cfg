SPECIFICATION Spec
CONSTANTS
    Tx = {t1, t2, t3}
    Row = {r1, r2}
    Data = {d1, d2}
    NoRow = NoRow
    NoTx = NoTx
    MaxTs = 3
    MaxOps = 1
    UniqueKeys = TRUE
CHECK_DEADLOCK FALSE
SYMMETRY Symmetry
INVARIANT TypeOK
INVARIANT SnapshotReadsAreExact
INVARIANT LockedReadIsCurrent
INVARIANT EndedHoldsNothing
PROPERTY SweepKeepsRegistered
