SPECIFICATION DSpec
CONSTANTS
    Tx = {t1, t2}
    Row = {r1, r2}
    Data = {d1, d2}
    NoRow = NoRow
    NoTx = NoTx
    Torn = Torn
    MaxTs = 2
    MaxOps = 2
    UniqueKeys = TRUE
    Fault = {"crash", "error", "torn", "sync"}
CHECK_DEADLOCK FALSE
SYMMETRY Symmetry
INVARIANT AckedSurvivesTornTail
INVARIANT TimestampsAreUnique
INVARIANT StoreMatchesLog
INVARIANT FailedStaysFailed
INVARIANT PkIndexComplete
