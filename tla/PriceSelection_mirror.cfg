CONSTANTS
    a = a
    b = b
    F = F
    G = G
    s1 = s1
    s2 = s2
    ref = ref
    eu = eu
    global = global
    hours = hours
    gigs = gigs
    od = od
    ri = ri
    None = None
    Any = Any
    Dynamic = Dynamic
    Bad = Bad
    DefaultOption = od
    Mappings <- SomeMappings
    Regions <- SomeRegions
    Products <- SomeProducts
    Values <- SomeValues
    Amounts <- SomeAmounts
    MaxProducts = 2
    Limit = 50
SPECIFICATION SelectionSpec
INVARIANTS MirrorsLive
CHECK_DEADLOCK FALSE
