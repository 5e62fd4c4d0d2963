\* One other fill that breaches the limit is enough.
SPECIFICATION Spec
CONSTANTS
    MaxAbsPosition = 1
    QuantityModulus = 65536
    TradePrices = {1}
    TradeQuantities = {1, 2}
    MaxTrades = 1
    MaxPieces = 1
    MaxExposure = 4
    FullDepth = TRUE
CHECK_DEADLOCK FALSE
INVARIANTS
    BreachNeverSilent
