SPECIFICATION TransferSpec
CONSTANTS
    p1 = p1
    s1 = s1
    s2 = s2
    g1 = g1
    j1 = j1
    t1 = t1
    t2 = t2
    Peers = {p1}
    WindowLength = 1
    SweepThreshold = 9
    GlobalBytes = 2
    GlobalDumps = 2
    PeerBytes = 2
    PeerDumps = 2
    UploadCap = 1
    Streams = {s1, s2}
    Gates = {g1}
    Sizes = {1}
    MaxNar = 1
    Budgets <- MCBudgets
    BaoWorkers = 1
    Octets = 1
    Staleness = 1
    Jobs = {j1}
    Plain = {t1, t2}
    MaxOwnedTasks = 2
    Leaves = 6
    OutDepth = 3
    Nars <- MCNars
    LeafBytes = 2
    Slack = 2
    MinCompress = 1
    MaxAlterations = 1
    Claims <- MCClaims
    OfferSizes = {0, 1, 2}
    Size = 2
    MaxLeaves = 3
    HoldKeys <- MCKeys
    AskOrder <- MCOrder
    Answerer <- MCAnswerers
    Closures <- MCClosures
    Stock <- MCStock
    MaxBatchKeys = 2
    MaxBatchOffers = 4
    MaxPerAnswer = 2
    MaxBatchDerive = 1
    ProbeTimeout = 2
    TotalTimeout = 3
INVARIANTS
    
    OwnedWorkIsKnown
    FetchIsExact
PROPERTIES
    ImplementsCounters
    ImplementsOwnedProcess
    TransfersEnd
CHECK_DEADLOCK FALSE
