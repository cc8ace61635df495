CONSTANTS
    r1 = r1
    r2 = r2
    Runs = {r1, r2}
    Modes = {"online", "offline", "sync"}
    Queries <- MCQueries
    Ref <- MCRef
    Prices = {0, 1, 2}
    PriceLists <- MCPriceLists
    MaxTime = 2
    TTL = 1
    MaxLatency = 1
    Unreliable = TRUE
    ReadsFail = TRUE
SPECIFICATION MCSpec
SYMMETRY MCSymmetry
INVARIANTS RowsAreQuotes ZerosExplained
PROPERTIES OnlyMissedPricesStubbed
