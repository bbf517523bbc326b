SPECIFICATION Spec
CONSTANTS
    a = a
    b = b
    None = None
    SGroups <- MCSGroups
    NumPCIe = 3
    MaxFailures = 1
INVARIANTS
    TypeOK
    OnePlace
    DeviceHasOneManager
    CleanClose
PROPERTIES
    PCIePool
    CloseReturns
CHECK_DEADLOCK FALSE
