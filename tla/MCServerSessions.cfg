\* Two clients, of which one writes two requests; no symmetry, for liveness.
SPECIFICATION MCSpec
CONSTANTS
    OrderIds = {1, 2}
    MinPrice = 1
    MaxPrice = 1
    Quantities = {1}
    NoOrder = NoOrder
    MaxTimestamp = 20
    Peers = {p1, p2}
    Nobody = Nobody
    MaxFd = 2
    Requests <- TradingAndCancel
    MaxRequests = 2
    MaxTotal = 3
CHECK_DEADLOCK FALSE
INVARIANTS
    OneAckPerRequest
    AckPrecedesFills
PROPERTIES
    RequestsAreAnswered
