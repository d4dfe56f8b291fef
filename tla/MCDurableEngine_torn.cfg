SPECIFICATION DSpec
CONSTANTS
    Tx = {t1, t2}
    Row = {r1}
    Data = {d1}
    NoRow = NoRow
    NoTx = NoTx
    Torn = Torn
    MaxTs = 2
    MaxOps = 1
    UniqueKeys = TRUE
    Fault = {"crash", "torn"}
CHECK_DEADLOCK FALSE
SYMMETRY Symmetry
INVARIANT AckedSurvives
