\* Three clients, two descriptors: descriptors are reused; every kind of request.
SPECIFICATION MCSpec
CONSTANTS
    OrderIds = {1, 2}
    MinPrice = 1
    MaxPrice = 1
    Quantities = {1}
    NoOrder = NoOrder
    MaxTimestamp = 20
    Peers = {p1, p2, p3}
    Nobody = Nobody
    MaxFd = 2
    Requests <- Everything
    MaxRequests = 1
    MaxTotal = 3
SYMMETRY Symmetry
CHECK_DEADLOCK FALSE
INVARIANTS
    ServerTypeOK
    OwnersAreResting
    ReadyIsReadable
    ConnectionsMatchFds
    FillsReachEntitled
