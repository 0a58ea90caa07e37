SPECIFICATION Spec
CONSTANTS
    c1 = c1
    c2 = c2
    m1 = m1
    m2 = m2
    tooLong = tooLong
    Client <- MCClient
    Message <- MCMessage
    TooLong <- MCTooLong
    TestMessage = TestMessage
    DefaultText = DefaultText
    None = None
    MaxConnections = 3
    DebugSerial = TRUE
    ResetInStart = FALSE
    MaxResets = 2
    MaxWrites = 3
SYMMETRY ClientSymmetry
INVARIANTS
    AnswersMatchWrites
CHECK_DEADLOCK FALSE
