SPECIFICATION Spec
CONSTANTS
    g1 = g1
    g2 = g2
    p1 = p1
    p2 = p2
    SGroups = {g1, g2}
    Pods = {p1, p2}
    Ports <- MCPorts
    ChainLen <- MCSingle
    MaxFailures = 0
    RepeatReports = FALSE
    Scheduler = Scheduler
    None = None
INVARIANT IdleCoreHoldsReady
