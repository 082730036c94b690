SPECIFICATION AnnouncingSpec
CONSTANTS
    k1 = k1
    k2 = k2
    s1 = s1
    d1 = d1
    d2 = d2
    Keys <- MCKeys
    SeedOwned <- MCSeeds
    Dispatches <- MCDispatches
    BudgetCaps <- MCBudgets
    n1 = n1
    o1 = o1
    o2 = o2
    l1 = l1
    LanPaths <- MCLanPaths
    LanKeys <- MCLanKeys
    KeyOf <- MCKeyOf
    Excluded <- MCNone
    Lookups <- MCLanLookups
    PathLimits <- MCLimit
    Permits = 2
    SaveOutcomes <- MCSaved
    MaxCrashes <- MCNoCrash
    LanNode = "n"
    LanPeers = {"p"}
    PathHashes = {1}
    PathFacts <- MCNoFacts
    LanSetups = {}
    LanBudgets = {0}
    LanTimeout = 1
    LateTicks = 1
    MaxNarSize = 1
    FetchedSlots = 1
    FetchedTries = 1
    MaxRequests = 1
INVARIANTS
    BudgetConserved
    LiveIsTracked
PROPERTIES
    WithdrawnStaysWithdrawn
    GoneIsWithdrawn
    AliasIsSupplied
