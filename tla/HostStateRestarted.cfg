CONSTANTS
    ContainerLimit = 4
    ScheduleLimit = 2
    FaultLimit = 1
    FaultKinds = {"crash"}
    MayShutDown = FALSE
SPECIFICATION Spec
INVARIANTS NoOrphan
CHECK_DEADLOCK FALSE
