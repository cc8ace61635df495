CONSTANTS
    MaxAttempts = 3
    InitialDelay = 4
    MaxDelay = 20
    Multiplier = 2
    Errors <- AllErrors
SPECIFICATION RetrySpec
INVARIANTS  ListedErrorsRetried CancelEnds
PROPERTIES LookupReturns
