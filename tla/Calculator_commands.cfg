CONSTANTS
    Catalogs <- MCCatalogs
    LegitimatelyFree = {"mystery"}
    Sizes <- MCSizes
    Projects <- MCProjects
    Chains <- MCChains
    ItemGrain = 2
    CentGrain = 4
    MaxProposals = 2
    Failed = Failed
    Broken = Broken
    Static = Static
    None = None
SPECIFICATION Spec
INVARIANTS EstimatesMatchCatalog DiffAddsUp SavingsAreReal
CHECK_DEADLOCK FALSE
