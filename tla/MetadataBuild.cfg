SPECIFICATION Spec
CONSTANTS
    dex0 = dex0
    dexA = dexA
    dexB = dexB
    p1 = p1
    p2 = p2
    p3 = p3
    a1 = a1
    a2 = a2
    b1 = b1
    s1 = s1
    s2 = s2
    hype = hype
    usdc = usdc
    PerpNames = {p1, p2, p3, a1, a2, b1}
    PairNames <- MCPairNames
    TokenNames = {hype, usdc, p1}
    DexNames = {dex0, dexA, dexB}
    BaseDex = dex0
    DexOf <- MCDexOf
    Responses <- MCResponses
    Encodings = {0, 1, 2, 9, 10, 11}
    SpotOffset = 2
    DexOffset = 4
    Stride = 2
    OutcomeOffset = 8
CHECK_DEADLOCK FALSE
INVARIANTS
    AssetMeansOneMarket
    NamesKeepTheirMarkets
    AliasesAreTruthful
    BuiltIffConsistent
    BuiltAsListed
    BuildInv
