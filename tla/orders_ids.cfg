\* See README.md for what this run shows.
CONSTANTS
    o1 = o1
    o2 = o2
    o3 = o3
    hedger = hedger
    rpc = rpc
    Orders = {o1, o2, o3}
    Placers = {hedger, rpc}
    PlacerOf <- ThreeOrders
    Rpc = rpc
    NoOrder = NoOrder
    MaxId = 6
    RequestIds = {3}
    Budget <- NoEvents
    EarlyAck = FALSE
    RejectShowsOrder = FALSE
    StatusAlone = TRUE
SPECIFICATION Spec
INVARIANTS UniqueIds NoOrphans
CONSTRAINT PlainBroker
CHECK_DEADLOCK FALSE
