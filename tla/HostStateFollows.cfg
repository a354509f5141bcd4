CONSTANTS
    ContainerLimit = 6
    ScheduleLimit = 4
    FaultLimit = 2
    FaultKinds = {"call", "exit", "session", "address"}
    MayShutDown = FALSE
SPECIFICATION Spec
INVARIANTS NoOrphan PausedMeansQuiesced
PROPERTIES Follows
CHECK_DEADLOCK FALSE
