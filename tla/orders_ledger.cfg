\* See README.md for what this run shows.
CONSTANTS
    o1 = o1
    o2 = o2
    o3 = o3
    hedger = hedger
    rpc = rpc
    Orders = {o1, o2}
    Placers = {hedger, rpc}
    PlacerOf <- TwoOrders
    Rpc = rpc
    NoOrder = NoOrder
    MaxId = 4
    RequestIds = {3}
    Budget <- OneOfEachAndClash
    EarlyAck = FALSE
    RejectShowsOrder = TRUE
    StatusAlone = FALSE
SPECIFICATION Spec
INVARIANTS RowsAcknowledged
PROPERTIES ImplementsLedger
CONSTRAINT PromptBroker
CHECK_DEADLOCK FALSE
