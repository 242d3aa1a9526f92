SPECIFICATION Spec
CONSTANTS
    A = A  B = B  o1 = o1  m1 = m1  m2 = m2  m3 = m3  f = f  n1 = n1
    Txs = {A, B}
    Outpoints = {o1}
    Spends <- BothSpend
    Masternodes = {m1, m2, m3, f}
    Quorum <- AllRank
    Nodes = {m1, n1}
    Faulty = {f}
    NoTx = NoTx
    SIGNATURES_REQUIRED = 3
SYMMETRY Symmetry
INVARIANTS
    Agreement
    LocksAgree
PROPERTY
    NodesAreInstantLocks
