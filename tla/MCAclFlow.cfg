SPECIFICATION FairSpec
CONSTANTS
    p1 = p1
    p2 = p2
    Peer <- MCPeer
    BufCount = 3
    Threshold = 1
    MaxFragments = 2
    MaxOverlap = 1
    None = None
INVARIANTS
    TypeOK
    CreditsAreKept
    NothingIsDropped
    CountIsExplained
PROPERTIES
    FreedIsReported
CHECK_DEADLOCK FALSE
