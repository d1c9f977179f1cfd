SPECIFICATION FairSpec
CONSTANTS
    t1 = t1
    t2 = t2
    t3 = t3
    Tasks = {t1, t2, t3}
    Coins <- OneCoin
    ListedAt <- OneListedAt
    EndpointOf <- OneEndpointOf
    DexVersions <- MCDexVersions
    MaxVersion = 0
    MaxCalls = 3
    None = None
CHECK_DEADLOCK FALSE
PROPERTIES
    EveryCallEnds
