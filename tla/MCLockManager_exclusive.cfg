SPECIFICATION FairSpec
CONSTANTS
    Tx = {t1, t2, t3}
    Key = {k1, k2}
    Mode = {"X"}
INVARIANT TypeOK
INVARIANT HeldByMatchesHolders
INVARIANT NoLostWakeup
PROPERTY ImplementsRowLock
PROPERTY AcquireReturns
