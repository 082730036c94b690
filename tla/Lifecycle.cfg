SPECIFICATION LifecycleSpec
CONSTANTS
    Commands <- MCCommands
    Builds <- MCBuilds
    Overrides <- MCOverrides
    MaxU64 = 7
    NsPerMs = 2
    Parties = {1, 2}
    Strangers = {3}
    Meetings <- MCMeetings
    MaxAddrs = 2
    CycleTime = 2
    WarmupTime = 1
    WarmupCycles = 1
    Reannounce = 1
    MaxFaults = 1
    c1 = c1
    c2 = c2
    q1 = q1
    q2 = q2
    l1 = l1
    i1 = i1
    Dials = {c1, c2}
    Inbound = {i1}
    Queries = {q1, q2, q3, q4, q5}
    q3 = q3
    q4 = q4
    q5 = q5
    Listeners = {l1}
    CallScenarios <- MCScenarios
    KindOf <- MCKindOf
    MayRelay <- MCMayRelay
    Providers = {1,2,3}
    MaxPeers = 1
    MaxExactDials = 1
    Operations = {"f"}
    Locations = {"direct", "relay"}
    Setups <- MCSetups
    BlobLeaves = 1
    MaxAddressMoves = 1
    Arms <- MCArms
    Gets = {"r1", "r2"}
    Blobs <- MCBlobs
    SizeOf <- MCSizeOf
    Seedable = {"b1"}
    Suppliable <- MCSuppliable
    MaxNarSize = 2
    MaxInflight = 2
    MaterialiseAttempts = 2
INVARIANTS
    DaemonIsAsReported
    SwarmIsDisciplined
    
PROPERTIES
    LifecycleSettles
CHECK_DEADLOCK FALSE
