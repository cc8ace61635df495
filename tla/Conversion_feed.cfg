CONSTANTS
    TTL = 2
    MaxLatency = 1
    MaxTime = 4
    MaxItems = 3
    MarketRates = {1, 2}
SPECIFICATION FXSpec
INVARIANTS RatesRecent
CHECK_DEADLOCK FALSE
