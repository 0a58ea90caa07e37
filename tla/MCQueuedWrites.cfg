SPECIFICATION QWFairSpec
CONSTANTS
    c1 = c1
    c2 = c2
    x = x
    y = y
    Client <- MCClient
    Octet <- MCOctet
    Entry <- MCEntry
    Accepts <- MCAccepts
    MaxLen = 2
    PoolSize = 3
    Timeout = 2
    Off = Off
INVARIANTS
    QWTypeOK
    PoolIsConserved
PROPERTIES
    WritesAreWhole
    QueuesEnd
