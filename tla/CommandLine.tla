------------------------------ MODULE CommandLine ------------------------------
(***************************************************************************)
(* The command line: the functions of cli/api as the calls that they make  *)
(* to the master (or to the agent, to docker and to files), and the        *)
(* commands of cli/cmd as plans over them.  Connecting to the master is    *)
(* part of the first call.  Functions that stand together in a file are    *)
(* the fields of one record; commands that stand together are one set.     *)
(***************************************************************************)
EXTENDS CallPlans, SequencesExt

-----------------------------------------------------------------------------
(* cli/api/service.go                                                       *)
\* Of a service the status is asked for itself and those up to the tenant, or for all.
apiServiceDetails ==
    [GetAllServiceDetails |-> <<Asks("GetAllServiceDetails")>>,
     GetServiceDetails |-> <<Asks("GetServiceDetails")>>,
     GetServiceStatus |-> <<Asks("GetServiceDetails"), Asks("GetServiceStatus")>>]
\* What was added, copied or changed is read again.
apiService ==
    [GetEndpoints |-> <<Asks("GetServiceEndpoints")>>,
     GetService |-> <<Asks("GetService")>>,
     AddService |-> <<Tells("DeployService"), Asks("GetServiceDetails")>>,
     CloneService |-> <<Tells("CloneService"), Asks("GetServiceDetails")>>,
     RemoveService |-> <<Tells("RemoveService")>>,
     UpdateService |-> <<Tells("UpdateService"), Asks("GetServiceDetails")>>]
apiSchedule ==
    [StartService |-> <<Tells("StartService")>>,
     RestartService |-> <<Tells("RestartService")>>,
     RebalanceService |-> <<Tells("RebalanceService")>>,
     StopService |-> <<Tells("StopService")>>,
     PauseService |-> <<Tells("PauseService")>>,
     AssignIP |-> <<Tells("AssignIPs")>>,
     RemoveIP |-> <<Tells("RemoveIPs")>>,
     SetIP |-> <<Tells("SetIPs")>>,
     GetHostMap |-> <<Asks("GetHosts")>>,
     ResolveServicePath |-> <<Asks("ResolveServicePath")>>,
     ClearEmergency |-> <<Tells("ClearEmergency")>>]

(* cli/api/instance.go and shell.go                                         *)
\* On the host itself docker is asked, from another one the command goes through ssh.
apiInstance ==
    LET getSSHCommand == <<Asks("LocateServiceInstance"), Asks("GetHost")>>
    IN  [StopServiceInstance |-> <<Tells("StopServiceInstance")>>,
         AttachServiceInstance |-> getSSHCommand \o <<Tells("exec")>>,
         LogsForServiceInstance |-> getSSHCommand \o <<Asks("docker logs")>>,
         SendDockerAction |-> <<Tells("SendDockerAction")>>]
buildMounts == <<Asks("GetServiceBindMounts")>>
StartShell == buildMounts \o <<Asks("StartDocker"), Tells("run")>>
\* The container is committed when the command has succeeded, and removed otherwise.
RunShell == <<Asks("GetService")>> \o buildMounts \o <<Asks("StartDocker"), Tells("run"), Asks("WaitContainer"), Tells("Snapshot")>>

(* cli/api/host.go and pool.go                                              *)
apiHost ==
    [GetHostWithAuthInfo |-> <<Asks("GetHost"), Asks("HostsAuthenticated")>>,
     GetHostsWithAuthInfo |-> <<Asks("GetHosts"), Asks("HostsAuthenticated")>>,
     GetHosts |-> <<Asks("GetHosts")>>,
     GetHost |-> <<Asks("GetHost")>>,
     GetHostMemory |-> <<Asks("GetHostMemoryStats")>>]
\* The host describes itself; the master answers with the new private key; then the host is read.
apiChangeHost ==
    [AddHost |-> <<Asks("BuildHost"), Tells("AddHost"), Asks("GetHost")>>,
     AddHostPrivate |-> <<Asks("BuildHost"), Tells("AddHostPrivate")>>,
     RemoveHost |-> <<Tells("RemoveHost")>>,
     SetHostMemory |-> <<Asks("GetHost"), Tells("UpdateHost")>>]
apiKey ==
    [GetHostPublicKey |-> <<Asks("GetHostPublicKey")>>,
     ResetHostKey |-> <<Tells("ResetHostKey")>>,
     RegisterHost |-> <<Tells("RegisterHost")>>,
     RegisterRemoteHost |-> <<Tells("RegisterRemoteHost")>>,
     WriteDelegateKey |-> <<Tells("WriteDelegateKey")>>]
apiPool ==
    [GetResourcePools |-> <<Asks("GetResourcePools")>>,
     GetResourcePool |-> <<Asks("GetResourcePool")>>,
     AddResourcePool |-> <<Tells("AddResourcePool"), Asks("GetResourcePool")>>,
     RemoveResourcePool |-> <<Tells("RemoveResourcePool")>>,
     UpdateResourcePool |-> <<Tells("UpdateResourcePool")>>,
     GetPoolIPs |-> <<Asks("GetPoolIPs")>>,
     AddVirtualIP |-> <<Tells("AddVirtualIP")>>,
     RemoveVirtualIP |-> <<Tells("RemoveVirtualIP")>>]

(* cli/api/snapshot.go, backup.go and template.go                           *)
apiSnapshot ==
    [GetSnapshots |-> <<Asks("GetAllServiceDetails"), Asks("ListSnapshots")>>,
     GetSnapshotsByServiceID |-> <<Asks("ListSnapshots")>>,
     GetSnapshotByServiceIDAndTag |-> <<Asks("GetSnapshotByServiceIDAndTag")>>,
     AddSnapshot |-> <<Tells("Snapshot")>>,
     RemoveSnapshot |-> <<Tells("DeleteSnapshot")>>,
     Rollback |-> <<Tells("Rollback")>>,
     TagSnapshot |-> <<Tells("TagSnapshot")>>,
     RemoveSnapshotTag |-> <<Tells("RemoveSnapshotTag")>>]
apiBackup ==
    [Backup |-> <<Asks("GetBackupEstimate"), Tells("Backup")>>,
     Restore |-> <<Tells("Restore")>>,
     GetBackupEstimate |-> <<Asks("GetBackupEstimate")>>]
apiTemplate ==
    [GetServiceTemplates |-> <<Asks("GetServiceTemplates")>>,
     GetServiceTemplate |-> <<Asks("GetServiceTemplates")>>,
     AddServiceTemplate |-> <<Tells("AddServiceTemplate"), Asks("GetServiceTemplates")>>,
     RemoveServiceTemplate |-> <<Tells("RemoveServiceTemplate")>>,
     CompileServiceTemplate |-> <<Asks("BuildFromPath")>>,
     DeployServiceTemplate |-> <<Tells("DeployTemplate"), Asks("GetServiceDetails")>>]

(* cli/api/publicendpoint.go, docker.go and the rest                        *)
apiPublicEndpoint ==
    [AddPublicEndpointPort |-> <<Tells("AddPublicEndpointPort")>>,
     RemovePublicEndpointPort |-> <<Tells("RemovePublicEndpointPort")>>,
     EnablePublicEndpointPort |-> <<Tells("EnablePublicEndpointPort")>>,
     GetAllPublicEndpoints |-> <<Asks("GetAllPublicEndpoints")>>,
     AddPublicEndpointVHost |-> <<Tells("AddPublicEndpointVHost")>>,
     RemovePublicEndpointVHost |-> <<Tells("RemovePublicEndpointVHost")>>,
     EnablePublicEndpointVHost |-> <<Tells("EnablePublicEndpointVHost")>>]
apiDocker ==
    [ResetRegistry |-> <<Tells("ResetRegistry")>>,
     RegistrySync |-> <<Tells("SyncRegistry")>>,
     UpgradeRegistry |-> <<Tells("UpgradeRegistry")>>,
     DockerOverride |-> <<Tells("DockerOverride")>>]
GetVolumeStatus == <<Asks("GetVolumeStatus")>>
PostMetric == <<Tells("PostMetric")>>
ServicedHealthCheck == <<Asks("GetISvcsHealth")>>
apiDebug == [DebugEnableMetrics |-> <<Tells("DebugEnableMetrics")>>, DebugDisableMetrics |-> <<Tells("DebugDisableMetrics")>>]

-----------------------------------------------------------------------------
(* cli/cmd/service.go                                                       *)
\* The one service that a keyword stands for; none or several are an error.
searchForService == apiSchedule.ResolveServicePath
Finds(api) == <<Once(searchForService, "stop"), Once(api, "stop")>>

\* Completion of the shell prints what it gets.
completeServices ==
    Plan(0, <<Once(apiServiceDetails.GetAllServiceDetails, "ignore")>>) \cup Plan(0, <<Once(apiService.GetService, "ignore")>>)
cmdServiceStatus ==
    Plan(1, Finds(apiServiceDetails.GetServiceStatus)) \cup Plan(0, <<Once(apiServiceDetails.GetServiceStatus, "stop")>>)
\* The parents that are missing in the list are read one by one.
buildServicePaths == apiServiceDetails.GetServiceDetails
cmdServiceList ==
    Plan(1, Finds(apiService.GetService))
      \cup Plan(0, <<Once(apiServiceDetails.GetAllServiceDetails \o buildServicePaths, "stop")>>)
\* Add, clone, remove and edit: the user edits what was read, and the master refuses it when
\* it has changed meanwhile.
cmdServiceEdit ==
    Plan(3, Finds(apiService.AddService)) \cup Plan(1, Finds(apiService.CloneService)) \cup Plan(1, Finds(apiService.RemoveService))
      \cup Plan(1, Finds(apiService.GetService) \o <<Once(<<Asks("openEditor")>> \o apiService.UpdateService, "stop")>>)
cmdServiceIPs == Plan(1, Finds(apiSchedule.AssignIP)) \cup Plan(2, Finds(apiSchedule.RemoveIP)) \cup Plan(3, Finds(apiSchedule.SetIP))

\* Start, stop and pause look all services up before the first is started; restart does so
\* too, takes the services together and then the instances one by one.
cmdServiceStart ==
    UNION {Plan(1, <<ForAll(searchForService, "stop"), Once(api, "stop")>>) :
             api \in {apiSchedule.StartService, apiSchedule.StopService, apiSchedule.PauseService}}
      \cup UNION {Plan(1, <<ForAll(searchForService, "stop"), Once(api, "note"), ForAll(apiInstance.StopServiceInstance, "note")>>) :
                    api \in {apiSchedule.RestartService, apiSchedule.RebalanceService}}

cmdServiceShell == Plan(1, <<Once(searchForService, "fail"), Once(StartShell, "fail")>>)
\* Run and attach.
cmdServiceRun ==
    Plan(2, <<Once(searchForService \o apiService.GetService, "fail"), Once(RunShell, "fail")>>)
      \cup Plan(1, Finds(apiInstance.AttachServiceInstance))
\* Action, logs and the list of snapshots.
cmdServiceAction ==
    Plan(2, Finds(apiInstance.SendDockerAction)) \cup Plan(1, Finds(apiInstance.LogsForServiceInstance))
      \cup Plan(1, Finds(apiSnapshot.GetSnapshotsByServiceID))
\* Snapshot, endpoints and the end of an emergency.
cmdServiceSnapshot ==
    Plan(1, <<Once(searchForService, "fail"), Once(apiSnapshot.AddSnapshot, "fail")>>)
      \cup Plan(1, Finds(apiService.GetEndpoints \o apiSchedule.GetHostMap)) \cup Plan(1, Finds(apiSchedule.ClearEmergency))

\* The table of the commands: from list to restart, and from stop to endpoints.
ServiceCommands == cmdServiceStatus \cup cmdServiceList \cup cmdServiceEdit \cup cmdServiceIPs \cup cmdServiceStart
InstanceCommands == cmdServiceShell \cup cmdServiceRun \cup cmdServiceAction \cup cmdServiceSnapshot \cup completeServices

-----------------------------------------------------------------------------
(* cli/cmd/host.go and key.go                                               *)
\* Completion, and the list, which shows the memory of each host, here of one, unless all is
\* printed as it came.
cmdHostList ==
    Plan(0, <<Once(apiHost.GetHosts, "ignore")>>) \cup Plan(1, <<Once(apiHost.GetHostWithAuthInfo, "stop")>>)
      \cup Plan(0, <<Once(apiHost.GetHostsWithAuthInfo, "stop")>>)
      \cup Plan(0, <<Once(apiHost.GetHostsWithAuthInfo, "stop"), Once(apiHost.GetHostMemory, "note")>>)

\* The private key of a host is given to the host over ssh, or written to a file: when it
\* is not to be given, when that fails, or when a file is asked for.  The common key of
\* outputCommonKey is both.
outputBoth == <<Once(apiKey.RegisterRemoteHost, "note"), Once(apiKey.WriteDelegateKey, "note")>>
outputDelegateKey ==
    {<<Once(apiKey.WriteDelegateKey, "note")>>,
     <<Once(apiKey.RegisterRemoteHost, "note"), Otherwise(apiKey.WriteDelegateKey, "note")>>,
     outputBoth}
cmdHostAdd ==
    UNION {Plan(2, <<Once(apiChangeHost.AddHost, "stop")>> \o out) : out \in outputDelegateKey}
      \cup Plan(2, <<Once(apiChangeHost.AddHostPrivate, "fail")>> \o outputBoth)
\* Remove, set-memory and register.
cmdHostRemove ==
    Plan(1, <<ForAll(apiChangeHost.RemoveHost, "note")>>) \cup Plan(2, <<Once(apiChangeHost.SetHostMemory, "stop")>>)
      \cup Plan(1, <<Once(<<Asks("ReadFile")>> \o apiKey.RegisterHost, "fail")>>)
cmdHostKey ==
    Plan(1, <<Once(apiKey.GetHostPublicKey, "stop")>>)
      \cup UNION {Plan(1, <<Once(apiHost.GetHost, "stop"), Once(apiKey.ResetHostKey, "stop")>> \o out) : out \in outputDelegateKey}
HostCommands == cmdHostList \cup cmdHostAdd \cup cmdHostRemove \cup cmdHostKey

(* cli/cmd/pool.go                                                          *)
\* Completion and list.
cmdPoolList ==
    Plan(0, <<Once(apiPool.GetResourcePools, "ignore")>>)
      \cup Plan(1, <<Once(apiPool.GetResourcePool, "stop")>>) \cup Plan(0, <<Once(apiPool.GetResourcePools, "stop")>>)
\* Add, remove and list-ips.
cmdPoolAdd ==
    Plan(1, <<Once(apiPool.AddResourcePool, "stop")>>)
      \cup Plan(1, <<ForAll(apiPool.GetResourcePool \o apiPool.RemoveResourcePool, "note")>>)
      \cup Plan(1, <<Once(apiPool.GetPoolIPs, "stop")>>)
\* Virtual ips, the connection timeout and the permissions.
cmdAddVirtualIP ==
    LET changes == <<Once(apiPool.GetResourcePool, "stop"), Once(apiPool.UpdateResourcePool, "stop")>>
    IN  Plan(4, <<Once(apiPool.AddVirtualIP, "stop")>>) \cup Plan(2, <<Once(apiPool.RemoveVirtualIP, "stop")>>)
          \cup Plan(2, changes) \cup Plan(1, changes)
PoolCommands == cmdPoolList \cup cmdPoolAdd \cup cmdAddVirtualIP

(* cli/cmd/snapshot.go, backup.go and template.go                           *)
\* Completion and list.
cmdSnapshotList ==
    UNION {Plan(1, <<Once(apiSnapshot.GetSnapshotsByServiceID, on)>>) \cup Plan(0, <<Once(apiSnapshot.GetSnapshots, on)>>) :
             on \in {"ignore", "stop"}}
\* Add and commit; remove takes all of them, one, or the one with a tag.
cmdSnapshotRemove ==
    Plan(1, <<Once(apiSnapshot.AddSnapshot, "fail")>>) \cup Plan(1, <<Once(apiSnapshot.AddSnapshot, "stop")>>)
      \cup Plan(0, <<Once(apiSnapshot.GetSnapshots, "stop"), ForAll(apiSnapshot.RemoveSnapshot, "note")>>)
      \cup Plan(1, <<Once(apiSnapshot.RemoveSnapshot, "note")>>)
      \cup Plan(2, <<Once(apiSnapshot.GetSnapshotByServiceIDAndTag, "stop"), Once(apiSnapshot.RemoveSnapshot, "note")>>)
\* Rollback and the tags.
cmdSnapshotRollback ==
    Plan(1, <<Once(apiSnapshot.Rollback, "fail")>>) \cup Plan(2, <<Once(apiSnapshot.TagSnapshot, "stop")>>)
      \cup Plan(2, <<Once(apiSnapshot.RemoveSnapshotTag, "stop")>>)
cmdBackup ==
    Plan(1, <<Once(apiBackup.GetBackupEstimate, "fail")>>) \cup Plan(1, <<Once(apiBackup.Backup, "fail")>>)
      \cup Plan(1, <<Once(apiBackup.Restore, "stop")>>)
SnapshotCommands == cmdSnapshotList \cup cmdSnapshotRemove \cup cmdSnapshotRollback
\* Completion and list.
cmdTemplateList ==
    Plan(0, <<Once(apiTemplate.GetServiceTemplates, "ignore")>>)
      \cup Plan(1, <<Once(apiTemplate.GetServiceTemplate, "stop")>>) \cup Plan(0, <<Once(apiTemplate.GetServiceTemplates, "stop")>>)
\* Add, remove, deploy and compile.  Each service that was deployed is read, and gets addresses
\* when it can, unless that is left to the user.
cmdTemplateDeploy ==
    Plan(0, <<Once(apiTemplate.AddServiceTemplate, "stop")>>) \cup Plan(1, <<ForAll(apiTemplate.RemoveServiceTemplate, "note")>>)
      \cup Plan(3, <<Once(apiTemplate.DeployServiceTemplate, "stop"), ForAll(apiSchedule.AssignIP, "ignore")>>)
      \cup Plan(3, <<Once(apiTemplate.DeployServiceTemplate, "stop")>>)
      \cup Plan(1, <<Once(apiTemplate.CompileServiceTemplate, "stop")>>)
TemplateCommands == cmdTemplateList \cup cmdTemplateDeploy

(* cli/cmd/publicendpoint.go and the small ones                             *)
cmdPublicEndpointsList ==
    Plan(1, Finds(apiService.GetService)) \cup Plan(0, <<Once(apiPublicEndpoint.GetAllPublicEndpoints, "stop")>>)
cmdPublicEndpointsPort ==
    Plan(5, Finds(apiPublicEndpoint.AddPublicEndpointPort)) \cup Plan(3, Finds(apiPublicEndpoint.RemovePublicEndpointPort))
      \cup Plan(4, Finds(apiPublicEndpoint.EnablePublicEndpointPort))
cmdPublicEndpointsVHost ==
    Plan(4, Finds(apiPublicEndpoint.AddPublicEndpointVHost)) \cup Plan(3, Finds(apiPublicEndpoint.RemovePublicEndpointVHost))
      \cup Plan(4, Finds(apiPublicEndpoint.EnablePublicEndpointVHost))
PublicEndpointCommands == cmdPublicEndpointsList \cup cmdPublicEndpointsPort \cup cmdPublicEndpointsVHost
cmdRegistrySync ==
    UNION {Plan(0, <<Once(api, "fail")>>) : api \in {apiDocker.RegistrySync, apiDocker.ResetRegistry, apiDocker.UpgradeRegistry}}
      \cup Plan(2, <<Once(apiDocker.DockerOverride, "stop")>>)
cmdVolumeStatus == Plan(0, <<Once(GetVolumeStatus, "stop")>>)
cmdMetric == Plan(2, <<Once(PostMetric, "stop")>>)
cmdHealthCheck == Plan(0, <<Once(ServicedHealthCheck, "fail")>>)
cmdEnableDebugMetrics ==
    Plan(0, <<Once(apiDebug.DebugEnableMetrics, "stop")>>) \cup Plan(0, <<Once(apiDebug.DebugDisableMetrics, "stop")>>)
cmdExportLogs == Plan(0, <<ForAll(searchForService, "stop"), Once(<<Asks("GetAllServiceDetails"), Asks("search the logs")>>, "stop")>>)

-----------------------------------------------------------------------------
(* Scripts: cli/api/script.go and script                                    *)
\* What a script can call.
scriptConfig ==
    [TenantLookup |-> <<Asks("GetTenantID")>>, SvcIDFromPath |-> <<Asks("GetServiceDetailsByTenantID")>>,
     Snapshot |-> apiSnapshot.AddSnapshot, Commit |-> apiSnapshot.AddSnapshot, Restore |-> apiSnapshot.Rollback,
     SvcStart |-> apiSchedule.StartService, SvcStop |-> apiSchedule.StopService, SvcRestart |-> apiSchedule.RestartService,
     SvcWait |-> <<Asks("WaitService")>>, SvcUse |-> <<Tells("ServiceUse")>>]

\* The commands of a script as the calls that each makes.
evalSnapshot == [REQUIRE_SVC |-> scriptConfig.TenantLookup, SNAPSHOT |-> scriptConfig.Snapshot]
evalSvcWait == [SVC_USE |-> scriptConfig.SvcUse, SVC_WAIT |-> scriptConfig.SvcIDFromPath \o scriptConfig.SvcWait]
evalSvcStart ==
    [SVC_START |-> scriptConfig.SvcIDFromPath \o scriptConfig.SvcStart,
     SVC_STOP |-> scriptConfig.SvcIDFromPath \o scriptConfig.SvcStop,
     SVC_RESTART |-> scriptConfig.SvcIDFromPath \o scriptConfig.SvcRestart]
\* The container of SVC_EXEC is committed when the script says so.
evalSvcExec ==
    [SVC_RUN |-> scriptConfig.SvcIDFromPath \o <<Tells("serviced service run")>>,
     SVC_EXEC |-> scriptConfig.SvcIDFromPath \o <<Tells("serviced service shell")>>,
     SVC_COMMIT |-> scriptConfig.SvcIDFromPath \o <<Tells("serviced service shell")>> \o scriptConfig.Commit]
cmdEval == evalSnapshot @@ evalSvcWait @@ evalSvcStart @@ evalSvcExec

\* What the parser lets through: REQUIRE_SVC at most once, and before all that needs it.
nodeFactories(s) ==
    \A i \in 1 .. Len(s) : IF s[i] = "REQUIRE_SVC" THEN \A k \in 1 .. i - 1 : s[k] # "REQUIRE_SVC"
                           ELSE \E k \in 1 .. i - 1 : s[k] = "REQUIRE_SVC"
\* The scripts of up to ScriptLength commands.
ScriptLength == 3
parseDescriptor == {s \in UNION {[1 .. n -> DOMAIN cmdEval] : n \in 1 .. ScriptLength} : nodeFactories(s)}

\* After each command the runner looks whether it was told to stop, which ends the script like a failure.
evalNodes(s) == FlattenSeq([i \in 1 .. Len(s) |-> cmdEval[s[i]] \o <<Asks("go on")>>])
\* From the first snapshot on a failure rolls the tenant back, to the last snapshot taken; when all
\* went well the snapshots of committed containers are removed.
runnerRun(s) ==
    LET snaps == {i \in 1 .. Len(s) : s[i] = "SNAPSHOT"}
        cleans == IF \E i \in 1 .. Len(s) : s[i] = "SVC_COMMIT" THEN <<Finally(apiSnapshot.RemoveSnapshot, "note")>> ELSE <<>>
    IN  IF snaps = {} THEN <<Once(evalNodes(s), "fail")>> \o cleans
        ELSE LET k == CHOOSE i \in snaps : \A j \in snaps : i <= j
             IN  <<Once(evalNodes(SubSeq(s, 1, k - 1)) \o cmdEval.SNAPSHOT, "fail"),
                   Once(<<Asks("go on")>> \o evalNodes(SubSeq(s, k + 1, Len(s))), "undo"),
                   Otherwise(scriptConfig.Restore, "note")>> \o cleans
\* A dry run only looks the services up.
dryRun(s) == <<Once(SelectSeq(evalNodes(s), LAMBDA c : ~c.tells /\ c.m # "WaitService"), "fail")>>

\* Run, with the service that the script is for or with an empty script, and parse.
cmdScriptRun ==
    LET starts == <<Once(searchForService, "fail"), Once(<<Asks("parse")>>, "fail")>>
    IN  UNION {Plan(1, starts \o runnerRun(s)) \cup Plan(1, starts \o dryRun(s)) : s \in parseDescriptor}
          \cup Plan(1, <<Once(<<Asks("parse")>>, "fail")>>) \cup Plan(1, <<Once(<<Asks("parse")>>, "stop")>>)

CliCommands ==
    ServiceCommands \cup InstanceCommands \cup HostCommands \cup PoolCommands \cup SnapshotCommands \cup cmdBackup
      \cup TemplateCommands \cup PublicEndpointCommands \cup cmdRegistrySync \cup cmdVolumeStatus \cup cmdMetric
      \cup cmdHealthCheck \cup cmdEnableDebugMetrics \cup cmdExportLogs \cup cmdScriptRun
=============================================================================
