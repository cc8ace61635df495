CONSTANTS
    Procs = {p1, p2}
    Versions = {1, 2, 3}
    Valid = {1, 2}
    MaxAge = 1
    MaxLatency = 1
    MaxTime = 4
    MaxRaceTime = 2
    NoFile = NoFile
    Torn = Torn
    Embedded = Embedded
SPECIFICATION Spec
INVARIANTS UsedWasDeployed RevalidatedIsCurrent FreshIsYoung
PROPERTIES LoadEnds
