CONSTANTS
    Failed = Failed
    Broken = Broken
    None = None
    Torn = Torn
    CentGrain = 1
    DiskAttributes <- MCDiskAttributes
    NonProdNames <- MCNonProdNames
    Prefix <- MCPrefix
    Mentions <- MCMentions
    Directories <- MCDirectories
    LocalSources <- MCLocalSources
    Fetched <- MCFetched
    MaxModuleDepth = 2
    Units <- MCUnits
    SourcePath <- MCSourcePath
    Files <- MCFiles
    Parse <- ParsePath
    Orders <- MCOrders
    Subtotal <- MCSubtotal
    PriceLists <- MCPriceLists
    Stub <- MCStub
    ProjectConfig <- MCProjectConfig
    UserConfigs <- MCUserConfigs
    Invocations <- MCInvocations
    MaxCommands = 3
SPECIFICATION Spec
INVARIANTS ParsesAsMeant SavedIsPrinted QuietDiff FollowedPays TrafficConserved
CHECK_DEADLOCK FALSE
