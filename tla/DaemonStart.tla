----------------------------- MODULE DaemonStart ------------------------------
(***************************************************************************)
(* How serviced starts on a master and ends (cli/api/daemon.go).  The      *)
(* steps of run and startMaster come one after the other, and any of them  *)
(* may end the process, which is then started again: checkVersion and the  *)
(* volumes of the tenants must come out right whatever was done before.    *)
(* The internal services are containers and outlive the process.           *)
(***************************************************************************)
EXTENDS Leadership, TenantLocks     \* a master that has started, for LeadersAlone

CONSTANTS DmnPools,        \* pools
          FirstPoolId,     \* the pool that the master makes
          DmnTenants,      \* tenants
          OrphanImages,         \* images in the registry that no service uses
          MaxFatals,       \* how many starts may fail, or the process be killed
          MaxImageErrors,  \* how many images cannot be checked
          MaxSignals,      \* how many signals are sent
          MaxDmnOps        \* how many changes are made by users

ASSUME DaemonStartAssumption ==
    FirstPoolId \in DmnPools /\ {MaxFatals, MaxImageErrors, MaxSignals, MaxDmnOps} \subseteq Nat

VARIABLES dmnAt,       \* where run is
          storedVersion,   \* properties.StoredProperties: "none", "old" (before 1.5.0), "new"
          permissions, \* of the pools that are in the data store
          images,      \* the orphans in the registry's index
          tenantDocs,  \* the tenants in the data store
          tenantVols,  \* their volumes on the disk
          nfsExports,  \* the volumes that are exported
          isvcsUp,     \* the internal services run
          todo,        \* what is left of the loop that run is in
          dmnSignal,   \* the signal that ended the loop
          \* what happened
          revoked,     \* pools without a permission by the will of a user
          skipped,     \* orphans were left: an image could not be checked, or nobody looked
          dmnLeft
dmnVars == <<dmnAt, storedVersion, permissions, images, tenantDocs, tenantVols, nfsExports, isvcsUp, todo, dmnSignal,
             revoked, skipped, dmnLeft>>
storeVars == <<storedVersion, permissions, images, tenantDocs, revoked, skipped>>
diskVars == <<tenantVols, nfsExports>>

\* A new installation, or one made by an older version.
dmnInit ==
    /\ dmnAt = "off"
    /\ \/ storedVersion = "none" /\ permissions = <<>> /\ images = {} /\ tenantDocs = {}
       \/ /\ storedVersion \in {"none", "old"} /\ images = OrphanImages
          /\ permissions = [p \in {FirstPoolId} |-> IF storedVersion = "none" THEN "none" ELSE "all"]
          /\ tenantDocs = DmnTenants
    /\ tenantVols = tenantDocs
    /\ nfsExports = {} /\ isvcsUp = FALSE /\ todo = {} /\ dmnSignal = "none"
    /\ revoked = {} /\ skipped = FALSE
    /\ dmnLeft = [fatals |-> MaxFatals, images |-> MaxImageErrors, signals |-> MaxSignals, ops |-> MaxDmnOps]

DmnSpend(what) == dmnLeft[what] > 0 /\ dmnLeft' = [dmnLeft EXCEPT ![what] = @ - 1]
DmnStep(from, to) == dmnAt = from /\ dmnAt' = to
With(perms, P, v) == [p \in DOMAIN perms \cup P |-> IF p \in P THEN v ELSE perms[p]]

-----------------------------------------------------------------------------
(* run                                                                      *)

\* The host id, docker, the driver of the volumes; the port of the RPC server is bound before
\* anything is registered with it.
startRPC ==
    /\ DmnStep("off", "rpc")
    /\ dmnSignal' = "none" /\ nfsExports' = {}
    /\ UNCHANGED <<tenantVols, isvcsUp, todo, dmnLeft>> /\ UNCHANGED storeVars

startISVCS ==
    /\ DmnStep("rpc", "isvcs") /\ isvcsUp' = TRUE
    /\ UNCHANGED <<todo, dmnSignal, dmnLeft>> /\ UNCHANGED storeVars /\ UNCHANGED diskVars

\* Fatal, a signal before Notify, or a crash: what was in memory is gone.
Fatal ==
    /\ dmnAt \notin {"off", "ended"} /\ DmnSpend("fatals") /\ dmnAt' = "off"
    /\ todo' = {} /\ nfsExports' = {}
    /\ UNCHANGED <<tenantVols, isvcsUp, dmnSignal>> /\ UNCHANGED storeVars

-----------------------------------------------------------------------------
(* startMaster                                                              *)

\* Keys, driver, NFS server, data store, facade and the state manager.
initFacade ==
    /\ DmnStep("isvcs", "version") /\ isvcsUp
    /\ UNCHANGED <<isvcsUp, todo, dmnSignal, dmnLeft>> /\ UNCHANGED storeVars /\ UNCHANGED diskVars

\* checkVersion: without a stored version all pools get all permissions, and a version before
\* 1.5.0 has left orphans in the registry.
checkVersion ==
    /\ \/ storedVersion = "none" /\ DmnStep("version", "grant") /\ todo' = DOMAIN permissions
       \/ storedVersion = "old" /\ DmnStep("version", "images") /\ todo' = images
       \/ storedVersion = "new" /\ DmnStep("version", "volumes") /\ todo' = tenantDocs
    /\ UNCHANGED <<isvcsUp, dmnSignal, dmnLeft>> /\ UNCHANGED storeVars /\ UNCHANGED diskVars

UpdatePermission ==
    /\ dmnAt = "grant" /\ \E p \in todo : permissions' = With(permissions, {p}, "all") /\ todo' = todo \ {p}
    /\ UNCHANGED <<dmnAt, isvcsUp, dmnSignal, dmnLeft, storedVersion, images, tenantDocs, revoked, skipped>>
    /\ UNCHANGED diskVars

\* removeOrphanRegistryImages: after an image that cannot be checked the loop ends, and the
\* error that it returns is nil.
removeOrphanRegistryImages ==
    /\ dmnAt = "images"
    /\ \/ \E i \in todo : images' = images \ {i} /\ todo' = todo \ {i} /\ UNCHANGED <<skipped, dmnLeft>>
       \/ todo # {} /\ DmnSpend("images") /\ skipped' = TRUE /\ todo' = {} /\ UNCHANGED images
    /\ UNCHANGED <<dmnAt, isvcsUp, dmnSignal, storedVersion, permissions, tenantDocs, revoked>> /\ UNCHANGED diskVars

\* An installation without a version is never searched for orphans.
PutVersion ==
    /\ dmnAt \in {"grant", "images"} /\ todo = {} /\ dmnAt' = "volumes"
    /\ storedVersion' = "new" /\ todo' = tenantDocs /\ skipped' = (skipped \/ images # {})
    /\ UNCHANGED <<isvcsUp, dmnSignal, dmnLeft, permissions, images, tenantDocs, revoked>> /\ UNCHANGED diskVars

\* A tenant without a volume gets a new one.
TenantVolume ==
    /\ dmnAt = "volumes" /\ \E t \in todo : tenantVols' = tenantVols \cup {t} /\ todo' = todo \ {t}
    /\ UNCHANGED <<dmnAt, nfsExports, isvcsUp, dmnSignal, dmnLeft>> /\ UNCHANGED storeVars

\* All volumes are exported.
AddVolumes ==
    /\ DmnStep("volumes", "pool") /\ todo = {} /\ nfsExports' = tenantVols
    /\ UNCHANGED <<tenantVols, isvcsUp, todo, dmnSignal, dmnLeft>> /\ UNCHANGED storeVars

CreateDefaultPool ==
    /\ DmnStep("pool", "registry")
    /\ permissions' = IF FirstPoolId \in DOMAIN permissions THEN permissions ELSE With(permissions, {FirstPoolId}, "all")
    /\ UNCHANGED <<isvcsUp, todo, dmnSignal, dmnLeft, storedVersion, images, tenantDocs, revoked, skipped>>
    /\ UNCHANGED diskVars

\* UpgradeRegistry, then the receivers are registered, and the web server, the templates, the
\* scheduler and the pool listener start.
registerMasterRPC ==
    /\ DmnStep("registry", "serves")
    /\ UNCHANGED <<isvcsUp, todo, dmnSignal, dmnLeft>> /\ UNCHANGED storeVars /\ UNCHANGED diskVars

DmnServes == dmnAt \in {"serves", "signal"}

-----------------------------------------------------------------------------
(* The end                                                                  *)
SignalNotify ==
    /\ DmnStep("serves", "signal")
    /\ UNCHANGED <<isvcsUp, todo, dmnSignal, dmnLeft>> /\ UNCHANGED storeVars /\ UNCHANGED diskVars

\* The loop over the signals ends and d.shutdown is closed.
Interrupt ==
    /\ DmnStep("signal", "waits") /\ DmnSpend("signals") /\ dmnSignal' \in {"term", "hup"}
    /\ UNCHANGED <<isvcsUp, todo>> /\ UNCHANGED storeVars /\ UNCHANGED diskVars

\* The agent has returned, or sixty seconds are over (see DelegateStart); the connections to
\* ZooKeeper are closed.
ShutdownAll ==
    /\ DmnStep("waits", "closes")
    /\ UNCHANGED <<isvcsUp, todo, dmnSignal, dmnLeft>> /\ UNCHANGED storeVars /\ UNCHANGED diskVars

\* SIGHUP runs the program again in the same process, any other signal stops the internal
\* services.
ExecOrStop ==
    /\ dmnAt = "closes" /\ dmnAt' = IF dmnSignal = "hup" THEN "off" ELSE "ended"
    /\ isvcsUp' = (dmnSignal = "hup" /\ isvcsUp)
    /\ UNCHANGED <<todo, dmnSignal, dmnLeft>> /\ UNCHANGED storeVars /\ UNCHANGED diskVars

-----------------------------------------------------------------------------
(* What users do while the master serves, and to the disk while it does not *)
UserChanges ==
    /\ DmnServes /\ DmnSpend("ops")
    /\ \/ /\ \E p \in DOMAIN permissions : permissions' = With(permissions, {p}, "none") /\ revoked' = revoked \cup {p}
          /\ UNCHANGED <<tenantDocs, tenantVols, nfsExports>>
       \/ /\ \E p \in DmnPools \ DOMAIN permissions : permissions' = With(permissions, {p}, "none") /\ revoked' = revoked \cup {p}
          /\ UNCHANGED <<tenantDocs, tenantVols, nfsExports>>
       \/ /\ \E t \in DmnTenants \ tenantDocs :
               tenantDocs' = tenantDocs \cup {t} /\ tenantVols' = tenantVols \cup {t} /\ nfsExports' = nfsExports \cup {t}
          /\ UNCHANGED <<permissions, revoked>>
    /\ UNCHANGED <<dmnAt, isvcsUp, todo, dmnSignal, storedVersion, images, skipped>>
VolumeLost ==
    /\ dmnAt = "off" /\ DmnSpend("ops") /\ \E t \in tenantVols : tenantVols' = tenantVols \ {t}
    /\ UNCHANGED <<dmnAt, nfsExports, isvcsUp, todo, dmnSignal>> /\ UNCHANGED storeVars

dmnRuns ==
    \/ startRPC \/ startISVCS \/ initFacade \/ checkVersion \/ UpdatePermission \/ removeOrphanRegistryImages \/ PutVersion
    \/ TenantVolume \/ AddVolumes \/ CreateDefaultPool \/ registerMasterRPC \/ SignalNotify
    \/ ShutdownAll \/ ExecOrStop
dmnNext == dmnRuns \/ Fatal \/ Interrupt \/ UserChanges \/ VolumeLost
dmnSpec == dmnInit /\ [][dmnNext]_dmnVars /\ WF_dmnVars(dmnRuns)

-----------------------------------------------------------------------------
\* Nobody is served before the upgrade is complete, however often it was begun: the version is
\* stored, the orphans are out of the registry's index unless one could not be checked or there was no
\* version before, the first pool is there, and every tenant has a volume that is exported.
ServedComplete ==
    DmnServes =>
        /\ isvcsUp /\ storedVersion = "new" /\ FirstPoolId \in DOMAIN permissions
        /\ images = {} \/ skipped
        /\ tenantDocs \subseteq tenantVols \cap nfsExports

\* A start gives no permission back that a user has taken away, though it gives permissions to
\* every pool it finds the first time.
RevokedStays == \A p \in revoked : permissions[p] = "none"

\* A restart by SIGHUP finds the internal services running, and they run no longer when the
\* process was ended by another signal.
ServicesFollowSignal ==
    /\ dmnAt = "ended" => ~isvcsUp
    /\ dmnAt = "off" /\ dmnSignal = "hup" /\ dmnLeft.fatals = MaxFatals => isvcsUp

StartSound == ServedComplete /\ RevokedStays /\ ServicesFollowSignal

\* Who may work: a master that leads (src/scheduler, src/coordinator) and has started in order
\* (src/cli/api/daemon.go), and the batches of a service with its tenant locked (src/facade).
LeadersAlone == LoopsWithTenant /\ LeadershipSound /\ StartSound

\* Where a master that is not killed again comes to rest.
ServesOrEnded == dmnAt \in {"signal", "ended"}
=============================================================================
