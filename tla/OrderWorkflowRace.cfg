SPECIFICATION Spec
CONSTANTS
    btc = btc
    purr = purr
    abc = abc
    base = base
    xyz = xyz
    c1 = c1
    c2 = c2
    None = None
    Coins <- MCCoins
    SpotCoins = {purr}
    Dexs = {base, xyz}
    BaseDex = base
    CoinDex <- MCCoinDex
    DefaultDexs = {base, xyz}
    Requests <- MCRacing
    Calls = {c1, c2}
    MaxSize = 1
    MaxTrades = 0
    MaxPrice = 0
INVARIANT
    WorkflowInv
PROPERTY
    CloseOnlyReduces
CHECK_DEADLOCK FALSE
