SPECIFICATION Spec
CONSTANTS
    a1 = a1
    a2 = a2
    d1 = d1
    d2 = d2
    f1 = f1
    f2 = f2
    Account <- MCAccount
    Device <- MCDevice
    Flow <- MCFlow
    OtherText = OtherText
    None = None
    Overlap = TRUE
    MaxBlock = 2
SYMMETRY SessionSymmetry
INVARIANTS
    StoredPairMatches
