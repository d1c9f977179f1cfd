SPECIFICATION Spec
CONSTANTS
    t1 = t1
    t2 = t2
    Tasks = {t1, t2}
    ExplicitNonces <- MCExplicitNonces
    NonceLimit = 5
    MaxClock = 2
    MaxCalls = 3
    MaxRestarts = 1
    None = None
SYMMETRY TaskSymmetry
CHECK_DEADLOCK FALSE
INVARIANTS
    NoncesAdvance
    HonestOutcome
    OnlyReuseIsRefused
    ExchangeInv
