CONSTANTS
    Hosts = {h1, h2}
    MaxInstances = 3
    Options = {"None", "RestartAllOnInstanceZeroDown", "RestartAllOnInstanceChanged"}
    EditLimit = 1
    StopLimit = 0
    RestartLimit = 1
    FailureLimit = 2
    OutageLimit = 0
SPECIFICATION Spec
SYMMETRY HostSymmetry
INVARIANTS TypeOK UniqueInstanceIDs StartsFreshID NeverOverstarts SurplusStopsHighest
PROPERTIES RestartsTogether
CHECK_DEADLOCK FALSE
