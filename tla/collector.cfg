\* See README.md for what this run shows.
CONSTANTS
    spy = spy
    qqq = qqq
    Symbols = {spy, qqq}
    Expiries <- PerSymbol
    BATCH_SIZE = 2
    LastDay = 3
    TradingDays <- Week
    ScheduleDays = 2
    Back = 1
    ResetBack = 2
    Ahead = 1
    MaxMissed = 1
SPECIFICATION FairSpec
INVARIANTS TypeOK Collects InTurn ClosingSnapshot
PROPERTIES Drains EveryoneSeen
CHECK_DEADLOCK FALSE
