SPECIFICATION Spec
CONSTANTS
    SGroups = {g1, g2}
    Cores = {c1, c2, c3}
    IdleCore = c1
    Others = {c2, c3}
    Flows = {f1}
    MIN_IDLE_DURATION = 2
    SupportQueueLength = TRUE
    FaultKinds = {"lost", "late"}
    MaxFaults = 2
    StartupMayFail = TRUE
    Scheduler = Scheduler
    None = None
SYMMETRY Symmetry
INVARIANTS
    TypeOK
    NoPacking
    ViewsAgree
    ExclusiveUnlessFailed
