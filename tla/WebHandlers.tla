------------------------------ MODULE WebHandlers ------------------------------
(***************************************************************************)
(* The handlers of the web server as plans.  A request is first checked    *)
(* for a login; then its parameters and its body are decoded.  Both are    *)
(* part of the first call here: a failure of either is answered with an    *)
(* error and nothing has been done.  Handlers talk to the facade, to the   *)
(* control client or to the master client.  Handlers that stand together   *)
(* in a file are one set, named after the first or the most involved.      *)
(***************************************************************************)
EXTENDS CallPlans

\* restServerError, restBadRequest and writeJSON with an error code.
Rest(calls) == Plan(1, <<Once(calls, "fail")>>)
\* Handlers that make one call: those that read and those that change something.
restReads(ms) == UNION {Rest(<<Asks(m)>>) : m \in ms}
restWrites(ms) == UNION {Rest(<<Tells(m)>>) : m \in ms}

-----------------------------------------------------------------------------
(* web/resources.go                                                         *)
\* By tag, by name or all.
getServices == {<<Asks("GetTaggedServices")>>, <<Asks("GetServices")>>}
\* The services with their metrics.
restGetAllServices ==
    restWrites({"MigrateServices"}) \cup UNION {Rest(<<Asks("getInternalMetrics")>> \o calls) : calls \in getServices}
\* Each tenant is read by itself, the first failure ends it.
restGetTopServices ==
    restReads({"GetRunningServicesForHost", "GetRunningServicesForService"}) \cup restWrites({"StopRunningInstance"})
      \cup Plan(0, <<Once(<<Asks("GetServiceDetailsByParentID")>>, "fail"), ForAll(<<Asks("GetService")>>, "fail")>>)
\* The endpoint templates are filled in from the tree, the service is added and gets addresses.
restAddService ==
    UNION {Rest(<<Asks("getInternalMetrics"), Asks(m)>>) : m \in {"GetServiceList", "GetService"}}
      \cup Rest(<<Asks("EvaluateEndpointTemplates"), Asks("ReBuild"), Tells("AddService"), Tells("AssignIPs")>>)
restUpdateService == restWrites({"DeployService", "UpdateService", "RemoveService"}) \cup restReads({"GetServiceLogs"})
\* One service or several at once.
restStartService == restWrites({"RestartService", "StartService"})
restStopService == restWrites({"StopService", "Snapshot"}) \cup restReads({"GetServiceStateLogs"})
RestBackup ==
    Rest(<<Asks("GetStatus"), Asks("ReBuild")>>) \cup restReads({"GetBackupEstimate", "ListBackups", "BackupStatus"})
      \cup restWrites({"AsyncBackup", "AsyncRestore"})
ServiceRequests ==
    restGetAllServices \cup restGetTopServices \cup restAddService \cup restUpdateService \cup restStartService
      \cup restStopService \cup RestBackup

-----------------------------------------------------------------------------
(* web/hostresource.go, api_hosts.go and api_services.go                    *)
buildHostMonitoringProfile == <<Asks("ReBuild")>>
\* The hosts; the instances of a host and of a service; the profile of a service, which is
\* answered without the tenant's part when there is no tenant.
restGetHosts ==
    Plan(0, <<Once(<<Asks("GetHosts")>>, "fail"), ForAll(buildHostMonitoringProfile, "fail")>>)
      \cup restReads({"GetHostInstances", "GetServiceInstances"})
      \cup Plan(1, <<Once(<<Asks("GetServiceMonitoringProfile"), Asks("getInternalMetrics"), Asks("GetService")>>, "fail"),
                     Once(<<Asks("GetTenantID"), Asks("getTenantMetrics")>>, "ignore")>>)
restGetServiceConfigFiles ==
    restReads({"GetServiceConfigs", "GetServiceConfig"})
      \cup restWrites({"AddServiceConfig", "UpdateServiceConfig", "DeleteServiceConfig"})
restGetAggregateServices ==
    restReads({"GetServicePublicEndpoints", "GetServiceAddressAssignmentDetails", "GetServiceExportedEndpoints",
               "CountDescendantStates", "GetAggregateServices"})
      \cup Rest(<<Asks("QueryServiceDetails"), Asks("GetAggregateServices")>>)
restGetHost == restReads({"GetActiveHostIDs"}) \cup Rest(<<Asks("GetHost")>> \o buildHostMonitoringProfile)
\* The host describes itself, is added, and is given its key; the answer holds the key in
\* any case, and says whether the host has it.
restAddHost ==
    Plan(1, <<Once(<<Asks("BuildHost"), Tells("AddHost")>>, "fail"), Once(<<Tells("RegisterHostKeys")>>, "ignore"),
              Once(<<Tells("WriteJson")>>, "fail")>>)
      \cup restWrites({"UpdateHost"})
restRemoveHost == restWrites({"RemoveHost"}) \cup Rest(<<Tells("ResetHostKey"), Tells("WriteJson")>>)
getHosts ==
    restReads({"GetReadHosts", "FindReadHostsInPool", "GetHostStatuses"}) \cup Rest(<<Asks("GetReadHosts"), Asks("GetHostStatuses")>>)
getServiceDetails == restReads({"QueryServiceDetails", "GetServiceDetailsAncestry", "GetServiceDetails", "GetServiceDetailsByParentID", "GetService"})
\* Details and context: what is given is laid over what is stored.
putServiceDetails == Rest(<<Asks("GetService"), Tells("UpdateService")>>)
HostRequests ==
    restGetHosts \cup restGetServiceConfigFiles \cup restGetAggregateServices \cup restGetHost \cup restAddHost
      \cup restRemoveHost \cup getHosts \cup getServiceDetails \cup putServiceDetails

-----------------------------------------------------------------------------
(* web/poolresource.go, publicendpointresource.go, servicetemplateresource.go  *)
(* serviceresource.go, virtualipresource.go, api_pools.go and status.go        *)
buildPoolMonitoringProfile == <<Asks("FindHostsInPool"), Asks("GetHost"), Asks("ReBuild")>>
restGetPools ==
    Plan(0, <<Once(<<Asks("GetResourcePools")>>, "fail"), ForAll(buildPoolMonitoringProfile, "fail")>>)
      \cup Rest(<<Asks("GetResourcePool")>> \o buildPoolMonitoringProfile)
      \cup restWrites({"AddResourcePool", "UpdateResourcePool", "RemoveResourcePool"})
restGetPoolIps == restReads({"FindHostsInPool", "GetPoolIPs"})
getPools == restReads({"GetReadPools"})
restAddVirtualHost == restWrites({"AddPublicEndpointVHost", "RemovePublicEndpointVHost", "EnablePublicEndpointVHost"})
restAddPort == restWrites({"AddPublicEndpointPort", "RemovePublicEndpointPort", "EnablePublicEndpointPort"})
\* "This error is never reported to the client": addresses that could not be assigned.
restDeployAppTemplate ==
    restReads({"GetServiceTemplates", "DeployTemplateStatus", "DeployTemplateActive"}) \cup restWrites({"RemoveServiceTemplate"})
      \cup Rest(<<Asks("FromFile"), Tells("AddServiceTemplate")>>)
      \cup Plan(1, <<Once(<<Tells("DeployTemplate")>>, "fail"), ForAll(<<Tells("AssignIPs")>>, "ignore")>>)
restServiceAssignIP == restWrites({"AssignIPs"}) \cup restReads({"GetServicesHealth"})
restAddPoolVirtualIP == restWrites({"AddVirtualIP", "RemoveVirtualIP"})
\* The instances; what memory and health are not known is left out.
restGetConciseServiceStatus ==
    Plan(0, <<Once(<<Asks("GetRunningServices")>>, "fail"), Once(<<Asks("GetInstanceMemoryStats")>>, "ignore"),
              Once(<<Asks("GetServicesHealth")>>, "ignore"), ForAll(<<Asks("GetHealthStatus")>>, "ignore")>>)
\* The internal services are known to the process itself, the hosts of ZooKeeper are looked up.
getInternalServiceInstances == Plan(1, <<Once(<<Asks("GetReadHosts")>>, "ignore"), Once(<<Asks("GetHealthStatus")>>, "ignore")>>)
getInternalServiceStatuses == Plan(0, <<ForAll(<<Asks("GetZooKeeperStatsByID")>>, "ignore"), ForAll(<<Asks("GetHealthStatus")>>, "ignore")>>)
PoolRequests ==
    restGetPools \cup restGetPoolIps \cup getPools \cup restAddVirtualHost \cup restAddPort \cup restDeployAppTemplate
      \cup restServiceAssignIP \cup restAddPoolVirtualIP \cup restGetConciseServiceStatus \cup getInternalServiceInstances
      \cup getInternalServiceStatuses

WebRequests == ServiceRequests \cup HostRequests \cup PoolRequests
=============================================================================
