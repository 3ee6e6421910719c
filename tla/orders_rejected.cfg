\* See README.md for what this run shows.
CONSTANTS
    o1 = o1
    o2 = o2
    o3 = o3
    hedger = hedger
    rpc = rpc
    Orders = {o1}
    Placers = {hedger, rpc}
    PlacerOf <- OneOrder
    Rpc = rpc
    NoOrder = NoOrder
    MaxId = 3
    RequestIds = {}
    Budget <- NoEvents
    EarlyAck = FALSE
    RejectShowsOrder = FALSE
    StatusAlone = TRUE
SPECIFICATION FairSpec
PROPERTIES PlaceReturns
CHECK_DEADLOCK FALSE
