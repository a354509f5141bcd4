SPECIFICATION regSpec
CONSTANTS
    Hosts = {h1, h2}
    RegInstances = {i1}
    Static = {i1}
    EventKinds = {"outage"}
    EventLimit = 1
PROPERTIES NothingScheduledOffline
CHECK_DEADLOCK FALSE
