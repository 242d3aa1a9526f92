SPECIFICATION FairSpec
CONSTANTS
    Workers = {w1, w2}
    Master = m
    Checks = {c1, c2, c3, b1}
    Bad = {b1}
    nBatchSize = 2
INVARIANTS
    TypeOK
    ControlFindsIdle
    WaitReturnsConjunction
    NTodoCountsPending
    PoolCounters
PROPERTY
    WaitReturns
