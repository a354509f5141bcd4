CONSTANTS
    Hosts = {h1, h2}
    MaxInstances = 2
    Options = {"None"}
    EditLimit = 1
    StopLimit = 1
    RestartLimit = 0
    FailureLimit = 1
    OutageLimit = 1
SPECIFICATION Spec
PROPERTIES Converges
CHECK_DEADLOCK FALSE
