SPECIFICATION FairSpec
CONSTANTS
    h = h
    f = f
    g = g
    b1 = b1
    b2 = b2
    b3 = b3
    c2 = c2
    None = None
    vNodes <- Order
    Honest = {h}
    Preferred = {h, f}
    Whitelisted = {h}
    PeerTip <- Tips
    Announced <- Announcements
    Pushed <- Announcements
    Genesis = g
    PathTo <- Tree
    Recent = {b2, b3}
    MAX_HEADERS_RESULTS = 2
    MAX_BLOCKS_IN_TRANSIT_PER_PEER = 2
    BLOCK_DOWNLOAD_WINDOW = 2
    BLOCK_STALLING_TIMEOUT = 2
    BLOCK_DOWNLOAD_TIMEOUT_BASE = 2
    BLOCK_DOWNLOAD_TIMEOUT_PER_PEER = 1
    HEADERS_DOWNLOAD_TIMEOUT = 0
CHECK_DEADLOCK FALSE
INVARIANTS
    InFlightIsQueued
    CountersExact
    StallersOweBlocks
    HonestPeersStay
PROPERTIES
    SyncCompletes
