SPECIFICATION Spec
CONSTANTS
    a = a
    b = b
    c = c
    w1 = w1
    w2 = w2
    c1 = c1
    c2 = c2
    h1 = h1
    None = None
    Console = Console
    s1 = s1
    Startups <- MCStartups
    SGroups <- MCSGroups
    Workers <- MCWorkers
    FreeAtStart <- MCFreeAtStart
    Cores <- MCCores
    Handlers <- MCHandlers
    MaxRpcConnTrials = 2
    MaxRpcCallTrials = 1
    MaxRpcFaults = 2
    MaxReports = 2
    MaxFailures = 1
    MaxCommands = 1
    Detailed <- MCDetailed
INVARIANTS
    TypeOK
    CoreExclusive
    CrashNeedsFailures
    AnnouncedOnce
    RetriesEnough
    HoldBound
PROPERTIES
    ScaleUpEnds
CHECK_DEADLOCK FALSE
