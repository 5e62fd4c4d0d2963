\* Another participant takes half of a quote.
SPECIFICATION MCSpec
CONSTANTS
    OrderIds = {1, 2, 3, 4, 5, 6, 7}
    MinPrice <- BelowZero
    MaxPrice = 3
    Quantities = {1, 2}
    NoOrder = NoOrder
    MaxTimestamp = 30
    Offset = 1
    Size = 2
    FeedPrices = {0, 2}
    MaxTicks = 3
    Others <- HalfSize
    NoQuote = NoQuote
    LongBytes = 2
    QuantityBytes = 1
CHECK_DEADLOCK FALSE
INVARIANTS
    NoOrphanedQuote
