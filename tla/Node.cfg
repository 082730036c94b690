SPECIFICATION NodeSpec
CONSTANTS
    actor1 = actor1
    actor2 = actor2
    Configs <- MCConfigs
    Restarts <- MCRestarts
    RecordTtl = 3
    MaxStarts = 2
    MaxLosses = 1
    Peers = {1,2}
    Links = {1,2}
    Foreign = {2}
    AdmissionCap = 1
    AdmissionWindow = 1
    Fanout = 1
    MetadataSlots = 1
    MaxMeetings = 1
    Ttl = 2
    Second = 2
    Nowhere = Nowhere
    Locs = {a, b}
    Home = a
    StartMargin = 1
    CompletionReserve = 0
    MaxPublicationTime = 2
    MaxSeq = 5
    MaxBoots = 2
    MaxOutages = 1
    MaxUpdates = 1
    LookupNodes = {n1, n2}
    Askers <- MCActors
    Signed <- Packets
    LiveFor = 2
    Grace = 1
    TableCapacity = 1
    MaxMono = 3
    MaxWall = 4
    MaxLookups = 3
    Starters <- MCActors
    MaxRestarts = 2
    MaxPowerLosses = 1
    MaxSwaps = 1
    BindProfiles <- MCProfiles
    Alpns = {"", "a", "b"}
    Relays = {"r1", "r2"}
    MaxCalls = 2
    MaxAliasChanges = 1
    Signers = {1}
    Addresses <- MCAddresses
    Tokens = {1}
    MaxNodeLocations = 2
    RecordTtls = {1}
    Stamps = {2}
    WholeSecond = 1
    MaxMicros = 3
    MaxEdits = 1
    Processes <- MCActors
    Roles = {"publisher", "authority"}
    MaxVersion = 2
    MaxFit = 1
    MaxDisturbances = 2
    MaxInodes = 3
    HttpSigners = {1, 2}
    HeaderBytes = {1, 2, 3}
    BodyBytes = {0, 1, 2}
    MaxHeaderBytes = 2
    MaxPayloadBytes = 1
    ChunkBytes = 2
    Deadline = 1
    EvidenceSetups <- MCSetups
    FixtureLifetime = 10
    HangDuration = 6
    IoDeadline = 1
    SurplusObservation = 1
    LookupDeadline = 5
    CaseTtl = 15
    MicrosPerSecond = 4
    StartSecond = 5
    LatestStart = 7
SYMMETRY NodeSymmetry
INVARIANTS
    
    LanIsConfined
    
    NodeStateIsKept
PROPERTIES
    LookupIsSound
CHECK_DEADLOCK FALSE
