SPECIFICATION Spec
CONSTANTS
    Txs = {"P", "C", "D", "E", "F", "R", "G"}
    Coinbases = {"X", "Y", "Z", "W"}
    In <- Ins
    Size <- Sizes
    Fee <- Fees
    LockHeight <- LockHeights
    Replaceable = {"C"}
    Blocks <- BlockSet
    COINBASE_MATURITY = 2
    Limits <- LimitRecord
    maxDescendantsToVisit = 1
    MaxEntries = 4
    Expiry = 0
    minReasonableRelayFee = 10
    FeeDeltas <- Priorities
    HalfLives = {0, 4}
    MaxTime = 1
    MaxHeight = 3
CHECK_DEADLOCK FALSE
INVARIANTS
    CheckPasses
    DescendantStateExact
    TrimmedStaysOut
