\* Four interchangeable ids, three prices, quantities 0..2.
SPECIFICATION MCSpec
CONSTANTS
    OrderIds = {a, b, c, d}
    MinPrice = 1
    MaxPrice = 3
    Quantities = {0, 1, 2}
    NoOrder = NoOrder
    MaxTimestamp = 3
SYMMETRY Symmetry
INVARIANTS
    BookTypeOK
    NoEmptyLevel
    IndexMatchesBook
    RestingIsLive
    BookNotCrossed
    TimePriority
    LoopComputesAllocation
PROPERTIES
    ImplementsPriceTimePriority
