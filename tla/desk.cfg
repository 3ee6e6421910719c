\* See README.md for what this run shows.
CONSTANTS
    order = order
    account = account
    Calls = {order, account}
    KindOf <- Kinds
    Budget <- Once
    MaxEvents = 2
    NoCall = NoCall
SPECIFICATION FairSpec
INVARIANTS TypeOK NothingLost AnswersTrue
PROPERTIES ImplementsService Served Stops
CHECK_DEADLOCK FALSE
