CONSTANTS
    ContainerLimit = 6
    ScheduleLimit = 4
    FaultLimit = 2
    FaultKinds = {"call", "exit", "session", "address", "crash"}
    MayShutDown = FALSE
SPECIFICATION Spec
INVARIANTS TypeOK OneContainerAtATime RecordsAreTrue
CHECK_DEADLOCK FALSE
