SPECIFICATION Spec
CONSTANTS
    btc = btc
    purr = purr
    abc = abc
    base = base
    xyz = xyz
    c1 = c1
    c2 = c2
    None = None
    Coins <- MCCoins
    SpotCoins = {purr}
    Dexs = {base, xyz}
    BaseDex = base
    CoinDex <- MCCoinDex
    DefaultDexs = {base}
    Requests <- MCRequests
    Calls = {c1}
    MaxSize = 2
    MaxTrades = 1
    MaxPrice = 1
CHECK_DEADLOCK FALSE
INVARIANTS
    FaithfulBatch
    UndisturbedCloseCloses
    NothingLeftBehind
