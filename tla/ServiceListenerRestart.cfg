CONSTANTS
    Hosts = {h1, h2}
    MaxInstances = 1
    Options = {"None"}
    EditLimit = 1
    StopLimit = 0
    RestartLimit = 1
    FailureLimit = 0
    OutageLimit = 0
SPECIFICATION Spec
PROPERTIES Converges
CHECK_DEADLOCK FALSE
