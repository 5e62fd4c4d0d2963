\* A client that leaves while the server writes to it.
SPECIFICATION MCSpec
CONSTANTS
    OrderIds = {1, 2}
    MinPrice = 1
    MaxPrice = 1
    Quantities = {1}
    NoOrder = NoOrder
    MaxTimestamp = 20
    Peers = {p1, p2}
    Nobody = Nobody
    MaxFd = 2
    Requests <- Trading
    MaxRequests = 1
    MaxTotal = 2
SYMMETRY Symmetry
CHECK_DEADLOCK FALSE
INVARIANTS
    ServerStaysUp
