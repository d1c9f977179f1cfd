SPECIFICATION Spec
CONSTANTS
    t1 = t1
    t2 = t2
    Tasks = {t1, t2}
    Coins <- MCCoins
    ListedAt <- MCListedAt
    EndpointOf <- MCEndpointOf
    DexVersions <- MCDexVersions
    MaxVersion = 2
    MaxCalls = 3
    None = None
SYMMETRY TaskSymmetry
CHECK_DEADLOCK FALSE
PROPERTIES
    PublishedAdvances
    PublishedIsFresh
    RefreshIsFresh
    ImplementsRegister
