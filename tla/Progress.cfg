SPECIFICATION Spec
CONSTANTS
    MaxLockFailures = 1
    MaxSchedules = 2
    MaxRemovals = 1
    WithWaiter = TRUE
    TreeServices = {"t", "s"}
    ParentOf <- MCParentOf
    NoParent = "nobody"
    Pools = {"p"}
    FirstPool = "p"
    TreeClients = {"c"}
    MaxTreeOps = 2
    MaxTreeFailures = 0
    RestartInstances = 2
    MaxRestartFailures = 1
    MaxKills = 1
    SnapServices = {"a"}
    SnapKinds = {"backup", "force"}
    MaxSnapOps = 1
    MaxSnapRequests = 1
    MaxEmergencies = 1
    MaxSnapFailures = 1
    MaxSnapCrashes = 1
    PoolIds = {"default", "p"}
    DefaultPool = "default"
    HostIds = {"h"}
    VipIds = {"v1"}
    Admins = {"a1"}
    PoolOps = {"addPool", "addHost", "updateHost", "removeHost"}
    MaxPoolOps = 2
    MaxPoolFailures = 1
    VipHosts = {"h1", "h2"}
    Ips = {"i1"}
    MaxVipChanges = 2
    MaxVipOutages = 1
    MaxVipFailures = 0
    Tenants <- MCTenants
    EntriesEach = 1
    MaxBackupOps = 2
    MaxBackupFaults = 1
    MaxExits = 0
    KillCountLimit = 1
    IServices = {"es"}
    StartGroup <- MCStartGroup
    Recovers = {"es"}
    Flapping = 2
    MaxContainers = 3
    MaxManagerOps = 2
    MaxIsvcFailures = 1
    MaxDaemonRestarts = 1
    MaxKeys = 2
    MaxTokenFailures = 1
    MaxLeaderChanges = 0
    MaxGrants = 0
    MaxDelegateStarts = 0
    PubExports = {"e1"}
    MaxPortOps = 2
    MaxExportChanges = 1
    MaxPortFailures = 0
    MaxServeFailures = 0
    MaxMasterStarts = 0
    MaxAccepted = 1
    VHosts = {"v1"}
    Browsers = {"r1", "r2"}
    MaxVHostChanges = 2
    ExInstances = {0}
    MaxExNodes = 2
    MaxExLosses = 0
    MaxCeFailures = 1
    Masters = {"m1", "m2"}
    MaxCandidates = 4
    MaxHiccups = 0
    MaxExpirations = 1
    MaxResetFailures = 1
    MaxWorkerEnds = 0
    MaxMasterStops = 0
    DmnPools = {"d"}
    FirstPoolId = "d"
    DmnTenants = {"t1"}
    OrphanImages = {"i1"}
    MaxFatals = 1
    MaxImageErrors = 1
    MaxSignals = 1
    MaxDmnOps = 1
    NfsTenants = {"t1"}
    Delegates = {"d1"}
    MaxNfsOps = 2
    MaxNfsFailures = 1
    MaxPermissions = 1
    MaxLeads = 2
    DgPools = {"p", "q"}
    DgDfsPools = {"p"}
    MaxHostMoves = 2
    MaxDgFailures = 1
    MaxStorageLeads = 1
    MaxDgSignals = 1
PROPERTIES CallsEnd   MastersServe  
CHECK_DEADLOCK FALSE
