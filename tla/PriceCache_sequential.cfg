CONSTANTS
    r1 = r1
    r2 = r2
    Runs = {r1}
    Modes = {"online", "nocache", "offline", "sync"}
    Queries <- MCQueries
    Ref <- MCRef
    Prices = {0, 1}
    PriceLists <- MCShortPriceLists
    MaxTime = 3
    TTL = 1
    MaxLatency = 1
    Unreliable = TRUE
    ReadsFail = FALSE
SPECIFICATION Spec
VIEW MCView
INVARIANTS AnswersAreQuotes
PROPERTIES OracleSpec MemoStable LookupsEnd
