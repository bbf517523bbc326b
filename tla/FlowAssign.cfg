SPECIFICATION Spec
CONSTANTS
    a = a
    b = b
    w1 = w1
    u1 = u1
    None = None
    Users <- MCUsers
    Workers <- MCWorkers
    SGroups <- MCSGroups
    FreeAtStart <- MCFreeAtStart
    Flows <- MCFlows
    TypedFlows <- MCTypedFlows
    ExpFlowlet <- MCExpFlowlet
    MaxCommands = 2
    MaxNFs = 3
    MaxFaults = 1
INVARIANTS
    TypeOK
    OneOwner
    RuleServes
    WholeChain
PROPERTIES
    UpdateFlowReturns
    FlowRecovers
CHECK_DEADLOCK FALSE
