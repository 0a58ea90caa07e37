SPECIFICATION FairSpec
CONSTANTS
    c1 = c1
    c2 = c2
    m1 = m1
    m2 = m2
    tooLong = tooLong
    Client <- MCOneClient
    Message <- MCOneMessage
    TooLong <- MCTooLong
    TestMessage = TestMessage
    DefaultText = DefaultText
    None = None
    MaxConnections = 3
    DebugSerial = TRUE
    ResetInStart = TRUE
    MaxResets = 1
    MaxWrites = 2
INVARIANTS
    TypeOK
    PayloadsAreTransient
PROPERTIES
    CanBeFound
    RequestsAreAnswered
CHECK_DEADLOCK FALSE
