SPECIFICATION Spec
CONSTANTS
    SGroups = {g1, g2}
    Cores = {c1, c2, c3}
    IdleCore = c1
    Others = {c2, c3}
    Flows = {f1}
    MIN_IDLE_DURATION = 1
    SupportQueueLength = FALSE
    FaultKinds = {}
    MaxFaults = 0
    StartupMayFail = FALSE
    Scheduler = Scheduler
    None = None
PROPERTY ActiveOnOwnCore
