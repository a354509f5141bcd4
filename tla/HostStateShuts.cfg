CONSTANTS
    ContainerLimit = 4
    ScheduleLimit = 3
    FaultLimit = 1
    FaultKinds = {"call", "stop", "lookup", "session"}
    MayShutDown = TRUE
SPECIFICATION Spec
PROPERTIES ShutsDown
CHECK_DEADLOCK FALSE
