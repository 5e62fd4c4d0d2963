\* Two other fills, and every order filled at once and in full.  MaxExposure is
\* not reached.
SPECIFICATION Spec
CONSTANTS
    MaxAbsPosition = 1
    QuantityModulus = 65536
    TradePrices = {1}
    TradeQuantities = {2, 3}
    MaxTrades = 2
    MaxPieces = 1
    MaxExposure = 12
    FullDepth = TRUE
CHECK_DEADLOCK FALSE
PROPERTIES
    BreachIsCorrected
