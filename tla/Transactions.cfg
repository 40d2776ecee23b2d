SPECIFICATION MCSpec
CONSTANTS
    k1 = k1
    k2 = k2
    Keys = {k1, k2}
    Counter = k1
    Databases = 2
    Strings = {1, 2, 3}
    Fields = {1}
    MaxId = 1
    NoEntry = NoEntry
    NoTtl = NoTtl
    Clients = {c1, c2}
    Requests <- TxRequests
    FreshRequests <- EveryRequest
    MaxNow = 1
    MaxQueue = 2
    Nobody = Nobody
    Unwatched = Unwatched
SYMMETRY Symmetry
INVARIANTS TypeOK OneHolder NoLostUpdate
PROPERTIES NothingLeftBehind WatchedUnchanged StaysVolatile NoResurrection
