SPECIFICATION Spec
CONSTANTS
    user = user
    walletA = walletA
    walletB = walletB
    chip1 = chip1
    chip2 = chip2
    Account = {user, walletA, walletB}
    Contract = {walletA, walletB}
    Chip = {chip1, chip2}
    TokenId = {0, 1}
    Nobody = Nobody
    NoToken = NoToken
    NoChip = NoChip
    ZeroHash = ZeroHash
    Window = 1
    EvmWindow = 2
    MaxBlock = 3
    MaxSigned = 2
    MaxDepth = 2
SYMMETRY Symmetry
INVARIANTS
    TypeOK
    EnumerationIsConsistent
    MintIsAnnouncedOnce
PROPERTIES
    ImplementsLedger
    UpdateKeepsTokensReachable
CHECK_DEADLOCK FALSE
