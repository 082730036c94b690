SPECIFICATION EdgesSpec
CONSTANTS
    n1 = n1
    o1 = o1
    o2 = o2
    l1 = l1
    l2 = l2
    c1 = c1
    c2 = c2
    LanPaths <- MCLanPaths
    LanKeys <- MCLanKeys
    KeyOf <- MCKeyOf
    Excluded <- MCNone
    Lookups <- MCLanLookups
    PathLimits <- MCLimits
    Permits = 2
    SaveOutcomes <- MCAnyOutcome
    MaxCrashes <- MCSmallCrash
    LanNode = "n"
    LanPeers = {"p","q"}
    PathHashes = {1,2}
    PathFacts <- MCPathFacts
    LanSetups <- MCLanSetups
    LanBudgets <- MCLanBudgets
    LanTimeout = 2
    LateTicks = 1
    MaxNarSize = 2
    FetchedSlots = 1
    FetchedTries = 2
    MaxRequests = 2
    Depth = 2
    MsTicks = 2
    MaxTime = 5
    Setups <- MCSetups
    Routes = {"cache-info","narinfo","nar"}
    Heads <- MCHeads
    TotalBudget = 3
    ConnectBudget = 2
    HandshakeBudget = 2
    MaxTlsTime = 6
    Addresses = 2
    Clients <- MCClients
    Bootstraps = 1
    MaxHolders = 1
    MaxShifts = 1
SYMMETRY EdgesSymmetry
INVARIANTS
    AliasesAreKept
    
CHECK_DEADLOCK FALSE
