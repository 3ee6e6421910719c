\* See README.md for what this run shows.
CONSTANTS
    call = call
    june = june
    Options = {call}
    ExpiryOf <- Expiries
    Spy = Spy
    UnitDeltas <- Deltas
    Margin = 1
    other = other
    Orders = {1, 2, 3, 4, 5, 6}
    UserOrders = {6}
    StockOf <- OrderStocks
    Allowed <- FewEvents
    None = None
    Absent = Absent
SPECIFICATION FairSpec
INVARIANTS TypeOK TurnoverBounded
PROPERTIES Rebalances
CHECK_DEADLOCK FALSE
