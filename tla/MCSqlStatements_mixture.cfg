SPECIFICATION SqlSpec
CONSTANTS
    r1 = r1
    r2 = r2
    Tx = {t0, t1, t2, t3}
    Row = {r1, r2}
    Data = {0, 1}
    NoRow = NoRow
    NoTx = NoTx
    MaxTs = 4
    MaxOps = 4
    UniqueKeys = TRUE
    Loader = t0
    Loaded <- OnlyR1
    Statements <- Mixture
    EvalError = EvalError
CHECK_DEADLOCK FALSE
SYMMETRY Symmetry
INVARIANT UpdatesFollowTheirPredecessor
INVARIANT IndexFindsRowsUnlessRaced
INVARIANT SelectSeesReturned
