SPECIFICATION MCFairSpec
CONSTANTS
    SGroups = {g1, g2, g3}
    Cores = {c1, c2}
    IdleCore = c1
    Others = {c2}
    Flows = {f1}
    MIN_IDLE_DURATION = 1
    SupportQueueLength = FALSE
    FaultKinds = {"lost", "late"}
    MaxFaults = 1
    StartupMayFail = FALSE
    Scheduler = Scheduler
    None = None
PROPERTIES
    IdleIsDetached
    ActiveRuns
