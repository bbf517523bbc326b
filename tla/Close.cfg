SPECIFICATION Spec
CONSTANTS
    w1 = w1
    w2 = w2
    Workers <- MCWorkers
    IdleSamples = 2
    MinSamples = 3
    MaxSamples = 3
    MaxTests = 2
    None = None
INVARIANTS
    TypeOK
    FileIsTheTest
    FileHasOwnMetrics
    CloseNil
PROPERTIES
    CloseReturns
CHECK_DEADLOCK FALSE
