SPECIFICATION Spec
CONSTANTS
    Tx = {t1, t2, t3}
    Row = {r1}
    Data = {d1}
    NoRow = NoRow
    NoTx = NoTx
    MaxTs = 3
    MaxOps = 1
    UniqueKeys = TRUE
CHECK_DEADLOCK FALSE
SYMMETRY Symmetry
PROPERTY SweepIsSafe
