SPECIFICATION Spec
CONSTANTS
    Base = 2
    Scale = 8
    Sig = 3
    WireDecimals = 5
    Tolerance = 2
    SpotDecimals = 5
    PerpDecimals = 4
    OutcomeDecimals = 3
    Markets <- MCMarkets
    Prices <- MCPrices
    Sizes <- MCSizes
    Triggers <- MCTriggers
    Amounts <- MCAmounts
    TokenDecimals <- MCTokenDecimals
    Slippages <- MCSlippages
    MaxDigits = 13
    Quantum = 6
    None = None
INVARIANTS
    PriceIsTradable
    NearestToAsked
    ReplaceKeeps
    NeverRefusedLate
    AmountsAreHonest
CHECK_DEADLOCK FALSE
