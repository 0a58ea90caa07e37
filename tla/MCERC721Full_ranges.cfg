SPECIFICATION Spec
CONSTANTS
    minter = minter
    wallet = wallet
    Account = {minter, wallet}
    Contract = {wallet}
    Minter = {minter}
    Operator <- MCOperator
    TokenId = {0, 1}
    Nobody = Nobody
    Reverted = Reverted
    NoRoyalty = NoRoyalty
    MaxBurns = 1
    MaxDepth = 2
INVARIANTS
    RangesAreReturned
