SPECIFICATION Spec
CONSTANTS
    t1 = t1
    t2 = t2
    t3 = t3
    Tasks = {t1, t2, t3}
    Coins <- MCCoins
    ListedAt <- AllListedAtOne
    EndpointOf <- MCEndpointOf
    DexVersions <- MCDexVersions
    MaxVersion = 1
    MaxCalls = 3
    None = None
SYMMETRY TaskSymmetry
CHECK_DEADLOCK FALSE
INVARIANTS
    LoadsUnderLock
    LockHandedOn
    CacheInv
PROPERTIES
    AnswersAreCurrent
    ReloadsInTurn
