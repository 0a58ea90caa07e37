SPECIFICATION ClaimSpec
SYMMETRY SessionSymmetry
CONSTANTS
    a1 = a1
    a2 = a2
    d1 = d1
    d2 = d2
    f1 = f1
    Account <- MCAccount
    Device <- MCDevice
    Flow <- MCFlow
    OtherText = OtherText
    None = None
    Overlap = FALSE
    MaxBlock = 1
    Window = 1
INVARIANTS
    ClaimTypeOK
    StoredPairMatches
    UsesPickedDevice
PROPERTIES
    SignerIsReleased
    RefusedForAReason
