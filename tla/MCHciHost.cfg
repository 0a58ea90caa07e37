SPECIFICATION FairSpec
CONSTANTS
    MaxFaults = 4
    LateAcks = FALSE
    None = None
INVARIANTS
    TypeOK
    OwnAck
    BeliefHolds
PROPERTIES
    CleanBringup
    FoundAgain
CHECK_DEADLOCK FALSE
