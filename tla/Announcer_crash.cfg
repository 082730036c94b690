SPECIFICATION RecordsSpec
CONSTANTS
    k1 = k1
    k2 = k2
    t1 = t1
    t2 = t2
    Keys <- MCKeys1
    Tasks <- MCTasks1
    Ttls <- MCTtls
    MaxRecordTtl = 2
    MinTombstoneTtl = 2
    OneOwner = TRUE
    MaxSequence = 3
    MaxTime = 1
    MaxCrashes = 1
    Daemons = {d1, d2}
    Nars = {a, b, x}
    Provable = {a, b}
    Readable = 2
    PowerFails = TRUE
    Nodes = {1, 2}
    Identities = {1, 2}
    ContentKeys = {1, 2}
    Drafts <- MCAllDrafts
    MaxOffers = 2
    MaxRelayHints = 2
    MaxRecordBytes = 1024
    MaxClock = 1
    MaxFaults = 1
    Builds <- MCBuilds
    Locators = {"n1", "n2"}
    HashKeys = {"k1", "k2", "k3"}
    MaxOffersPerAnswer = 2
    MaxBatchKeys = 2
    StrayOffers <- MCStrays
    MaxOffersSent = 2
INVARIANTS
    NextIsNewerThanEverything
CHECK_DEADLOCK FALSE
