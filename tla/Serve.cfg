SPECIFICATION ServeSpec
CONSTANTS
    d1 = d1
    d2 = d2
    n1 = n1
    tx = tx
    tr = tr
    t0 = t0
    p1 = p1
    Docs = {d1, d2}
    Nars = {n1}
    Tokens = {tx, tr, t0}
    NarOf <- MCNarOf
    TokenOf <- MCTokenOf
    FormOf <- MCFormOf
    PathOf <- MCPathOf
    Complete <- MCComplete
    RawToken <- MCRawToken
    Handlers = {h1, h2}
    MaxOffers = 2
    MaxChanges = 2
    MaxRestarts = 1
    NoDoc = NoDoc
    NoPath = NoPath
    NoMeta = NoMeta
    MaxFrames = 2
    ForwardDepth = 1
    NoCap = NoCap
    NoSize = NoSize
    MaxRequests = 2
    ProxyPaths = {"a.narinfo", "nar/a", "other"}
    Faults <- MCFaults
    Size = 2
    MaxKills = 1
INVARIANTS
    AnswerIsExplained
    BodyIsFair
    ProxyIsFaithful
PROPERTIES
    RequestsAnswered
CHECK_DEADLOCK FALSE
