SPECIFICATION AvailabilitySpec
CONSTANTS
    k1 = k1
    k2 = k2
    p1 = p1
    p2 = p2
    q = q
    t1 = t1
    t2 = t2
    Keys <- MCKeys1
    Paths <- MCPaths1
    NarHashOf <- MCNarHashOf1
    Threads <- MCThreads2
    MaxArcs = 2
    MaxRestarts = 0
    IndexKeys = {1, 2}
    IndexPaths = {"p", "q", "odd"}
    Utf8Paths = {"p", "q"}
    MaxBindings = 3
    MaxMishaps = 2
    Registrations = {1, 2}
    StorePaths = {"p"}
    Dumps <- MCDumps
    Dumpers = {"command", "copy", "thin", "memory"}
    MaxFileChanges = 1
    MaxPublishes = 1
SYMMETRY AvailabilitySymmetry
PROPERTIES
    RematerialisedSurvives
CHECK_DEADLOCK FALSE
