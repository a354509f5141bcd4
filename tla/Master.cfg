SPECIFICATION Spec
CONSTANTS
    Services = {a}
    StartLevel <- MCStartLevel
    ShutdownLevel <- MCShutdownLevel
    Orders <- MCOrders
    MaxRequests = 2
    MaxFailures = 1
    MaxLockFailures = 1
    MaxSchedules = 3
    MaxRemovals = 2
    WithWaiter = TRUE
    TreeServices = {"t", "s"}
    ParentOf <- MCParentOf
    NoParent = "nobody"
    Pools = {"p", "q"}
    FirstPool = "p"
    TreeClients = {"c"}
    MaxTreeOps = 2
    MaxTreeFailures = 1
    RestartInstances = 3
    MaxRestartFailures = 1
    MaxKills = 1
    SnapServices = {"a"}
    SnapKinds = {"snapshot", "backup", "rollback", "force"}
    MaxSnapOps = 2
    MaxSnapRequests = 1
    MaxEmergencies = 1
    MaxSnapFailures = 1
    MaxSnapCrashes = 1
    PoolIds = {"default", "p"}
    DefaultPool = "default"
    HostIds = {"h"}
    VipIds = {"v1", "v2"}
    Admins = {"a1", "a2"}
    PoolOps = {"addPool", "removePool", "updatePool", "addVip", "removeVip", "addHost", "updateHost", "removeHost"}
    MaxPoolOps = 2
    MaxPoolFailures = 1
    IpServices = {"t", "a", "b"}
    PortOf <- MCPortOf
    WalkOf <- MCWalkOf
    PoolIps = {"i1", "i2"}
    IpClients = {"c1", "c2"}
    MaxIpOps = 2
    MaxIpFailures = 1
    MaxArgs = 5
    MaxFeFailures = 2
    MaxKeys = 2
    MaxTokenFailures = 0
    MaxLeaderChanges = 1
    MaxGrants = 1
    MaxDelegateStarts = 1
    Callers = {"r1", "r2", "r3"}
    PoolSize = 2
    MaxConnections = 3
    MaxDialFailures = 1
    PubExports = {"e1"}
    MaxPortOps = 2
    MaxExportChanges = 1
    MaxPortFailures = 1
    MaxServeFailures = 1
    MaxMasterStarts = 1
    MaxAccepted = 0
    VHosts = {"v1", "v2"}
    Browsers = {"r1", "r2"}
    MaxVHostChanges = 2
    MaxAcCalls = 2
    MaxTokenMoves = 1
    Masters = {"m1", "m2"}
    MaxCandidates = 3
    MaxHiccups = 1
    MaxExpirations = 1
    MaxResetFailures = 0
    MaxWorkerEnds = 1
    MaxMasterStops = 0
    DmnPools = {"d", "p"}
    FirstPoolId = "d"
    DmnTenants = {"t1"}
    OrphanImages = {"i1", "i2"}
    MaxFatals = 1
    MaxImageErrors = 1
    MaxSignals = 2
    MaxDmnOps = 2
    NfsTenants = {"t1"}
    Delegates = {"d1"}
    MaxNfsOps = 3
    MaxNfsFailures = 1
    MaxPermissions = 1
    MaxLeads = 1
INVARIANTS   TreeSound RestartSound  PoolsSound  FrontEndsSound 
CHECK_DEADLOCK FALSE
