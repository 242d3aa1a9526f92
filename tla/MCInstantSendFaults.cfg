SPECIFICATION Spec
CONSTANTS
    A = A  B = B  o1 = o1  o2 = o2  m1 = m1  m2 = m2  m3 = m3
    Txs = {A, B}
    Outpoints = {o1, o2}
    vin <- TwoVin
    Masternodes = {m1, m3}
    Quorum <- SomeRank
    PeerVotes <- RivalVotes
    Self = m1
    NoTx = NoTx
    SIGNATURES_REQUIRED = 1
    LockTimeout = 0
    FailedTimeout = 1
    KeepLock = 2
    BaseHeight = 3
    RareEvents <- Two
    MaxBlocks = 1
    OtherThreads = FALSE
CHECK_DEADLOCK FALSE
INVARIANTS
    LocksHaveQuorums
    LocksAreWhole
    MempoolRespectsLocks
    VotesOnceUntilRestart
PROPERTIES
    VotesBehindLocksKept
