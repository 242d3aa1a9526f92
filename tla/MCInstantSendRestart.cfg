SPECIFICATION Spec
CONSTANTS
    A = A  B = B  o1 = o1  o2 = o2  m1 = m1  m2 = m2  m3 = m3
    Txs = {A, B}
    Outpoints = {o1}
    vin <- OneVin
    Masternodes = {m1, m2, m3}
    Quorum <- AllRank
    PeerVotes <- RaceVotes
    Self = m1
    NoTx = NoTx
    SIGNATURES_REQUIRED = 2
    LockTimeout = 0
    FailedTimeout = 1
    KeepLock = 0
    BaseHeight = 1
    RareEvents <- OneRestart
    MaxBlocks = 0
    OtherThreads = FALSE
CHECK_DEADLOCK FALSE
INVARIANTS
    VotesOncePerOutpoint
