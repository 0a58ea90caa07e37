SPECIFICATION FairSpec
CONSTANTS
    k1 = k1
    k2 = k2
    k3 = k3
    k4 = k4
    Key <- MCKey
    Erased = Erased
    Cleared = Cleared
    BootFlag = BootFlag
    None = None
    MaxLosses = 3
INVARIANTS
    TypeOK
    AddressIsPermanent
    FlashHoldsOneWallet
    ServedAddressSigns
PROPERTIES
    ComesUp
CHECK_DEADLOCK FALSE
