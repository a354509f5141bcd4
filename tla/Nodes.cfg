SPECIFICATION Spec
CONSTANTS
    Labels = {"l1"}
    Contents = {"c0", "c1"}
    Fresh = "c0"
    Tags = {"t"}
    MaxDevices = 4
    MaxThinFaults = 2
    SnapLabels = {"l1", "l2"}
    Data = {"c0", "c1"}
    Empty = "c0"
    MaxDirOps = 5
    MaxDirFaults = 2
    Hashes = {"base", "a", "b", "c"}
    MaxDeviceID = 2
    MaxDmFailures = 1
    MaxDmCrashes = 1
    MaxTransactions = 6
    Tenants <- MCTenants
    EntriesEach = 2
    MaxBackupOps = 3
    MaxBackupFaults = 2
    Clients = {c1, c2}
    LifeLimit = 2
    UpdateLimit = 2
    DeleteLimit = 2
    FaultLimit = 1
    VipHosts = {h1, h2}
    Ips = {i1}
    MaxVipChanges = 2
    MaxVipOutages = 1
    MaxVipFailures = 1
    MaxExits = 1
    KillCountLimit = 2
    IServices = {"es", "kibana"}
    StartGroup <- MCStartGroup
    Recovers = {"es"}
    Flapping = 2
    MaxContainers = 3
    MaxManagerOps = 2
    MaxIsvcFailures = 1
    MaxDaemonRestarts = 1
    ExInstances = {0, 1}
    MaxExNodes = 2
    MaxExLosses = 1
    MaxCeFailures = 0
    DgPools = {"p", "q"}
    DgDfsPools = {"p"}
    MaxHostMoves = 2
    MaxDgFailures = 2
    MaxStorageLeads = 1
    MaxDgSignals = 1
INVARIANTS   NodesSound  
PROPERTIES  NoLostUpdate NoStartAfterShutdown
CHECK_DEADLOCK FALSE
