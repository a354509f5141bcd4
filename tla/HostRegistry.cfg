SPECIFICATION regSpec
CONSTANTS
    Hosts = {h1, h2}
    RegInstances = {i1}
    Static = {i1}
    EventKinds = {"outage", "shutdown", "stop", "call", "leader"}
    EventLimit = 2
INVARIANTS RegistrySound
PROPERTIES OnlineHostGrants ChannelServesAll
CHECK_DEADLOCK FALSE
