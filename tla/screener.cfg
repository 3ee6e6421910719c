\* See README.md for what this run shows.
CONSTANTS
    Expiries <- Days
    Strikes = {1, 2, 3}
    Snapshots <- Brought
    Smiles <- Curves
    ShortTarget = 25
    LongTarget = 10
    MaxPrice = 4
    NoQuote = NoQuote
    NoChain = NoChain
    LastDay = 2
    TradingDays = {0, 1, 2}
    ScheduleDays = 2
SPECIFICATION FairSpec
INVARIANTS TypeOK LossBounded ReadersServed
PROPERTIES Stops
CHECK_DEADLOCK FALSE
