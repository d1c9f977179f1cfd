SPECIFICATION Spec
CONSTANTS
    Names <- MCNames
    Markets <- MCMarkets
    Tokens <- MCTokens
    Perps <- MCPerps
    Outcomes <- MCOutcomes
    OutcomeMarket <- MCOutcomeMarket
    Dexs <- MCDexs
    BaseDex = ""
    DexOf <- MCDexOf
    Listings <- MCListings
    Universe <- MCUniverse
    Requests <- MCRequests
    Calls = {c1}
    MaxValue = 1
    MaxMoved = 2
    None = None
CHECK_DEADLOCK FALSE
INVARIANTS
    DirectionIsOwn
    CommandsInv
PROPERTIES
    OneCurrentSnapshot
