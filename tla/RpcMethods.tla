------------------------------ MODULE RpcMethods ------------------------------
(***************************************************************************)
(* What can be called from another process.  A server file registers the   *)
(* methods of a receiver (Master, ControlCenter, Agent, ControlCenterAgent)*)
(* and a client file has a function for each call that it makes by name.   *)
(* Of a method the tables say whether it only asks or changes something.   *)
(***************************************************************************)
EXTENDS Naturals, Sequences

Serves(asks, tells) == [asks |-> asks, tells |-> tells]
Both(a, b) == Serves(a.asks \cup b.asks, a.tells \cup b.tells)

-----------------------------------------------------------------------------
\* The receiver Master: the files rpc/master/*_server.go and servicetemplate_master.go.
HostsServer ==
    Serves({"GetHost", "GetHosts", "GetActiveHostIDs", "FindHostsInPool", "GetHostPublicKey", "HostsAuthenticated"},
           {"AddHost", "AddHostPrivate", "UpdateHost", "RemoveHost", "AuthenticateHost", "ResetHostKey"})
PoolServer ==
    Serves({"GetResourcePools", "GetResourcePool", "GetPoolIPs"},
           {"AddResourcePool", "UpdateResourcePool", "RemoveResourcePool", "AddVirtualIP", "RemoveVirtualIP"})
ServiceServer ==
    Serves({"WaitService", "GetAllServiceDetails", "GetServiceDetails", "GetServiceDetailsByTenantID", "GetService",
            "GetEvaluatedService", "GetTenantID", "ResolveServicePath"},
           {"ServiceUse", "ClearEmergency", "RemoveIPs", "SetIPs"})
TemplateServer == Serves({"GetServiceTemplates"}, {"AddServiceTemplate", "RemoveServiceTemplate", "DeployTemplate"})
EndpointServer == Serves({"GetServiceEndpoints"}, {})
PublicEndpointServer ==
    Serves({"GetAllPublicEndpoints"},
           {"AddPublicEndpointPort", "RemovePublicEndpointPort", "EnablePublicEndpointPort",
            "AddPublicEndpointVHost", "RemovePublicEndpointVHost", "EnablePublicEndpointVHost"})
HealthServer == Serves({"GetISvcsHealth", "GetServicesHealth"}, {"ReportHealthStatus", "ReportInstanceDead"})
InstanceServer == Serves({"GetServiceInstances", "LocateServiceInstance"}, {"StopServiceInstance", "SendDockerAction"})
DockerServer == Serves({}, {"ResetRegistry", "SyncRegistry", "UpgradeRegistry", "DockerOverride"})
DebugServer == Serves({}, {"DebugEnableMetrics", "DebugDisableMetrics"})
UserServer == Serves({"GetSystemUser", "ValidateCredentials"}, {})
VolumeServer == Serves({"GetVolumeStatus"}, {})

MasterServer ==
    Both(HostsServer, Both(PoolServer, Both(ServiceServer, Both(TemplateServer, Both(EndpointServer,
    Both(PublicEndpointServer, Both(HealthServer, Both(InstanceServer, Both(DockerServer, Both(DebugServer,
    Both(UserServer, VolumeServer)))))))))))

\* The receiver ControlCenter: dao/elasticsearch.
DaoServices ==
    Serves({"GetServiceList", "GetService", "GetTenantIDs", "FindChildService"},
           {"AddService", "CloneService", "UpdateService", "MigrateServices", "RemoveService"})
DaoScheduling ==
    Serves({"WaitService"},
           {"StartService", "RestartService", "RebalanceService", "StopService", "PauseService", "AssignIPs", "DeployService"})
DaoRunning == Serves({"GetRunningServices", "GetRunningServicesForHost", "GetRunningServicesForService"}, {})
DaoStates == Serves({"GetServiceStatus"}, {"StopRunningInstance"})
DaoLogs == Serves({"GetServiceLogs", "GetServiceStateLogs"}, {})
DaoMetrics == Serves({"GetHostMemoryStats", "GetServiceMemoryStats", "GetInstanceMemoryStats"}, {})
DaoBackups == Serves({"GetBackupEstimate", "ListBackups", "BackupStatus"}, {"Backup", "AsyncBackup", "Restore", "AsyncRestore"})
DaoSnapshots ==
    Serves({"ListSnapshots", "GetSnapshotByServiceIDAndTag", "ReadyDFS"},
           {"Snapshot", "Rollback", "DeleteSnapshot", "DeleteSnapshots", "ResetRegistry", "RepairRegistry",
            "TagSnapshot", "RemoveSnapshotTag"})
DaoAction == Serves({}, {"Action"})

ControlCenterServer ==
    Both(DaoServices, Both(DaoScheduling, Both(DaoRunning, Both(DaoStates, Both(DaoLogs, Both(DaoMetrics,
    Both(DaoBackups, Both(DaoSnapshots, DaoAction))))))))

\* The receivers of a host: rpc/agent and node/agent_proxy.go.
AgentServer == Serves({"BuildHost", "GetDockerLogs"}, {"PullImage"})
LoadBalancer ==
    Serves({"Ping", "GetISvcEndpoints", "GetEvaluatedService", "GetProxySnapshotQuiece", "AckProxySnapshotQuiece",
            "GetHostID", "GetZkInfo"},
           {"SendLogMessage", "ReportHealthStatus", "ReportInstanceDead", "GetServiceBindMounts"})

Registered ==
    [Master |-> MasterServer, ControlCenter |-> ControlCenterServer, Agent |-> AgentServer, ControlCenterAgent |-> LoadBalancer]
MethodsOf(r) == Registered[r].asks \cup Registered[r].tells

-----------------------------------------------------------------------------
\* The functions of the clients, one for each call.
HostsClient ==
    {"GetHost", "GetHosts", "GetActiveHostIDs", "AddHost", "AddHostPrivate", "UpdateHost", "RemoveHost", "FindHostsInPool",
     "AuthenticateHost", "GetHostPublicKey", "ResetHostKey", "HostsAuthenticated"}
PoolClient ==
    {"GetResourcePool", "GetResourcePools", "AddResourcePool", "UpdateResourcePool", "RemoveResourcePool", "GetPoolIPs",
     "AddVirtualIP", "RemoveVirtualIP"}
ServiceClient ==
    {"ServiceUse", "WaitService", "GetAllServiceDetails", "GetServiceDetailsByTenantID", "GetServiceDetails", "GetService",
     "GetEvaluatedService", "GetTenantID", "ResolveServicePath", "ClearEmergency", "RemoveIPs", "SetIPs"}
TemplateClient == {"AddServiceTemplate", "GetServiceTemplates", "RemoveServiceTemplate", "DeployTemplate"}
EndpointClient == {"GetServiceEndpoints"}
PublicEndpointClient ==
    {"AddPublicEndpointPort", "RemovePublicEndpointPort", "EnablePublicEndpointPort", "AddPublicEndpointVHost",
     "RemovePublicEndpointVHost", "EnablePublicEndpointVHost", "GetAllPublicEndpoints"}
HealthClient == {"GetISvcsHealth", "GetServicesHealth", "ReportHealthStatus", "ReportInstanceDead"}
InstanceClient == {"GetServiceInstances", "StopServiceInstance", "LocateServiceInstance", "SendDockerAction"}
DockerClient == {"ResetRegistry", "SyncRegistry", "UpgradeRegistry", "DockerOverride"}
DebugClient == {"DebugEnableMetrics", "DebugDisableMetrics"}
UserClient == {"GetSystemUser", "ValidateCredentials"}
VolumeClient == {"GetVolumeStatus"}

\* Client.call puts the receiver in front of the name.
Named(r, names) == {<<r, m>> : m \in names}
MasterClient ==
    Named("Master", HostsClient \cup PoolClient \cup ServiceClient \cup TemplateClient \cup EndpointClient
                      \cup PublicEndpointClient \cup HealthClient \cup InstanceClient \cup DockerClient \cup DebugClient
                      \cup UserClient \cup VolumeClient)

\* dao/client: services, scheduling and what runs; then snapshots and backups.
ControlClientServices ==
    {"GetServiceEndpoints", "GetTenantIDs", "GetService", "FindChildService", "AddService", "CloneService", "DeployService",
     "UpdateService", "MigrateServices", "GetServiceList", "RemoveService", "AssignIPs", "GetServiceLogs",
     "GetServiceStateLogs", "GetRunningServicesForHost", "GetRunningServicesForService", "StopRunningInstance",
     "GetRunningServices", "StartService", "RestartService", "RebalanceService", "StopService", "PauseService",
     "WaitService", "GetServiceStatus", "Action", "GetHostMemoryStats"}
ControlClientStorage ==
    {"TagSnapshot", "RemoveSnapshotTag", "GetSnapshotByServiceIDAndTag", "AsyncSnapshot", "GetServiceMemoryStats",
     "GetInstanceMemoryStats", "Backup", "GetBackupEstimate", "AsyncBackup", "Restore", "AsyncRestore", "ListBackups",
     "BackupStatus", "Snapshot", "Rollback", "DeleteSnapshot", "DeleteSnapshots", "ListSnapshots", "ResetRegistry",
     "RepairRegistry", "ReadyDFS"}
ControlClient == Named("ControlCenter", ControlClientServices \cup ControlClientStorage)

AgentClient == Named("Agent", {"BuildHost", "GetDockerLogs", "PullImage"})
LBClient ==
    Named("ControlCenterAgent",
          {"Ping", "SendLogMessage", "GetISvcEndpoints", "GetEvaluatedService", "GetProxySnapshotQuiece",
           "AckProxySnapshotQuiece", "ReportHealthStatus", "ReportInstanceDead", "GetHostID", "GetZkInfo",
           "GetServiceBindMounts"})

\* What the agent itself asks of the master: its token, its host document, the services that it
\* starts, and what it passes on from its containers.
AgentCalls ==
    Named("Master", {"AuthenticateHost", "GetHost", "UpdateHost", "GetEvaluatedService", "GetService",
                     "ReportHealthStatus", "ReportInstanceDead"})
\* What a container's controller asks of the agent of its host.
ContainerCalls ==
    Named("ControlCenterAgent", {"GetEvaluatedService", "GetHostID", "GetZkInfo", "GetISvcEndpoints", "SendLogMessage",
                                 "ReportHealthStatus", "ReportInstanceDead"})
\* The command line, and the master itself, use the clients for everything else.
OtherCalls == MasterClient \cup ControlClient \cup AgentClient \cup LBClient
=============================================================================
