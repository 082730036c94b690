SPECIFICATION DiscoverySpec
CONSTANTS
    k1 = k1
    p1 = p1
    p2 = p2
    l1 = l1
    l2 = l2
    Keys <- MCKeys
    Providers <- MCProviders
    Assertions <- MCAssertions
    Lookups <- MCLookups
    MaxPeersBudgets <- MCBudgets
    Cap = 1
    Durable = TRUE
    MaxTime = 1
    MaxRestarts = 1
    BatchKeys = {1, 2}
    Registered <- MCRegistered
    Plans <- MCPlans
    Holders = {"h1","h2","h3"}
    Contents = {"c1","c2"}
    ClaimTtl = 1
    MaxBookTime = 2
    MaxPlaces = 4
    NodeConfigs <- MCNodeConfigs
    Relays = {1, 2, 3}
    RelayAddresses = {1, 2}
    MaxRelayHints = 2
    MinPeers = 1
    MaxRouteChanges = 1
    d1 = d1
    d2 = d2
    d3 = d3
    t1 = t1
    t2 = t2
    r1 = r1
    r2 = r2
    Hashes <- MCHashes
    Docs <- MCDocs
    AnswersOf <- MCAnswersOf
    Tokens <- MCTokens
    TokenOf <- MCTokenOf
    Requests <- MCRequests
    MaxEntries = 2
    PositiveTTL = 1
    NegativeTTL = 1
    MaxCacheTime = 1
    MaxFaults = 1
    Absent = Absent
    NoToken = NoToken
    NoFile = NoFile
    Corrupt = Corrupt
    NoRecord = NoRecord
    NoSidecar = NoSidecar
    NoHash = NoHash
SYMMETRY DiscoverySymmetry
INVARIANTS
    MissIsAuthoritative
    
PROPERTIES
    
    FloorIsKept
    ClaimsAreWeighed
    
CHECK_DEADLOCK FALSE
