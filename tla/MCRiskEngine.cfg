\* Three other fills, flattening orders in up to two fills and perhaps not in
\* full, prices of either sign.
SPECIFICATION MCSpec
CONSTANTS
    MaxAbsPosition = 1
    QuantityModulus = 65536
    TradePrices <- MixedPrices
    TradeQuantities = {1, 2}
    MaxTrades = 3
    MaxPieces = 2
    MaxExposure = 3
    MaxClosed = 2
    FullDepth = FALSE
CHECK_DEADLOCK FALSE
INVARIANTS
    TypeOK
    PositionMatchesExposure
    HaltLoggedOnBreach
    RealizedWithinTruncation
    LoggedPnlIsMarkToMarket
