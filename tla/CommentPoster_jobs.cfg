CONSTANTS
    NumJobs = 3
    Forges = {"github", "gitlab", "bitbucket", "azure"}
    PageSize = 2
    PageLimit = 4
    MaxUsers = 3
    MaxComments = 6
    MaxRaceComments = 3
SPECIFICATION Spec
INVARIANTS OneComment OnlyQuotesTouched
PROPERTIES ReportsSpec PostEnds
CHECK_DEADLOCK FALSE
