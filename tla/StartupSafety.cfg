SPECIFICATION Spec
CONSTANTS
    g1 = g1
    g2 = g2
    p1 = p1
    p2 = p2
    p3 = p3
    SGroups = {g1, g2}
    Pods = {p1, p2, p3}
    Ports <- MCPorts
    ChainLen <- MCChainLen
    MaxFailures = 1
    RepeatReports = TRUE
    Scheduler = Scheduler
    None = None
INVARIANTS
    TypeOK
    LockedPreprocess
    BarrierOpensWhenAllUp
    JoinsBarrierOnce
    NoLostReadiness
    FreeIsClean
