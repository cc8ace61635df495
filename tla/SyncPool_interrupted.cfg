CONSTANTS
    Workers = {w1, w2, w3}
    Total = 3
    MaxPages = 2
    NoWorker = NoWorker
SPECIFICATION Spec
INVARIANTS SuccessMeansComplete CauseReported TotalsMatchCache ProgressSerial
PROPERTIES ReturnsQuiet SyncReturns
