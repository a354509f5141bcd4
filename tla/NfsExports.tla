------------------------------ MODULE NfsExports ------------------------------
(***************************************************************************)
(* The export of the tenants' volumes (dfs/nfs/server.go).  Two parties    *)
(* use the server: operations on a tenant (dfs/create.go, destroy.go and   *)
(* rollback.go), one after the other under the lock of the file system,    *)
(* and the loop of the storage server (coordinator/storage/server.go),     *)
(* which follows the delegates that ask for access.  Each method of the    *)
(* server holds its mutex, so it is one step that may fail in the middle.  *)
(* A volume is exported through a bind mount, which goes on pointing to    *)
(* the device that was there when it was made.                             *)
(***************************************************************************)
EXTENDS Naturals, FiniteSets, Snapshots

CONSTANTS NfsTenants,     \* tenants
          Delegates,      \* hosts that may mount the export
          MaxNfsOps,      \* how many operations on tenants there are
          MaxNfsFailures, \* how many calls may fail
          MaxPermissions, \* how many times the permission of a delegate's pool changes
          MaxLeads        \* how many times the loop of the storage server starts

ASSUME NfsExportsAssumption ==
    {MaxNfsOps, MaxNfsFailures, MaxPermissions, MaxLeads} \subseteq Nat

VARIABLES device,    \* [tenant -> its device, 0 when it has no volume]
          nextDevice,
          toExport,   \* c.volumes: what shall be exported
          exported,  \* c.exported: what writeExports last wrote or began to
          exportsFile, \* /etc/exports
          binds,     \* [tenant -> the device that its bind mount leads to, 0 when there is none]
          nfsd,      \* the NFS server of the system runs
          nfsClients, hostsAllow, \* c.clients and /etc/hosts.allow
          nfsOp,     \* the operation on a tenant
          hasDfs,    \* the delegates whose pool has access
          clientNodes, \* /storage/clients
          loopAt, childrenEvent, \* Server.Run
          \* what happened
          stuckBinds, \* tenants whose bind mount could not be unmounted, or whose export failed
          stalePerms, \* delegates whose permission has changed since SetClients looked
          nfsLeft
nfsVars == <<device, nextDevice, toExport, exported, exportsFile, binds, nfsd, nfsClients, hostsAllow, nfsOp, hasDfs, clientNodes,
             loopAt, childrenEvent, stuckBinds, stalePerms, nfsLeft>>
serverVars == <<toExport, exported, exportsFile, binds, nfsd, nfsClients, hostsAllow, stuckBinds>>
delegateVars == <<hasDfs, clientNodes, childrenEvent, stalePerms>>
diskState == <<device, nextDevice>>

NoNfsOp == [kind |-> "none", t |-> "none", at |-> "idle"]

nfsInit ==
    /\ device = [t \in NfsTenants |-> 0] /\ nextDevice = 1
    /\ toExport = {} /\ exported = {} /\ exportsFile = {} /\ binds = [t \in NfsTenants |-> 0] /\ nfsd = TRUE
    /\ nfsClients = {} /\ hostsAllow = {} /\ nfsOp = NoNfsOp
    /\ hasDfs = Delegates /\ clientNodes = {} /\ loopAt = "off" /\ childrenEvent = FALSE
    /\ stuckBinds = {} /\ stalePerms = {}
    /\ nfsLeft = [ops |-> MaxNfsOps, failures |-> MaxNfsFailures, permissions |-> MaxPermissions, leads |-> MaxLeads]

NfsSpend(what) == nfsLeft[what] > 0 /\ nfsLeft' = [nfsLeft EXCEPT ![what] = @ - 1]

-----------------------------------------------------------------------------
(* The methods of the server                                                *)

\* bindMount leaves what is mounted as it is.
Bound(vols) == [t \in NfsTenants |-> IF t \in vols /\ binds[t] = 0 THEN device[t] ELSE binds[t]]
\* cleanupBindMounts: directories that are not exported are unmounted.
Cleaned(bs, exps) == [t \in NfsTenants |-> IF t \in exps THEN bs[t] ELSE 0]

\* hostsDeny, hostsAllow, writeExports, start or restart, reload, cleanupBindMounts.  A call that
\* fails leaves what was done before it, and an unmount that fails is only logged.
WritesAll ==
    /\ hostsAllow' = nfsClients /\ exported' = toExport /\ exportsFile' = toExport /\ nfsd' = TRUE
    /\ \/ binds' = Cleaned(Bound(toExport), toExport) /\ stuckBinds' = stuckBinds \cap {t \in toExport : binds[t] # 0} /\ UNCHANGED nfsLeft
       \/ \E t \in NfsTenants \ toExport :
            /\ binds[t] # 0 /\ NfsSpend("failures")
            /\ binds' = [Cleaned(Bound(toExport), toExport) EXCEPT ![t] = binds[t]]
            /\ stuckBinds' = (stuckBinds \cap {u \in toExport : binds[u] # 0}) \cup {t}
WritesPart ==
    /\ NfsSpend("failures")
    /\ \/ UNCHANGED <<hostsAllow, exported, exportsFile, binds>>
       \/ hostsAllow' = nfsClients /\ \E part \in SUBSET toExport : binds' = Bound(part) /\ UNCHANGED <<exported, exportsFile>>
       \/ hostsAllow' = nfsClients /\ binds' = Bound(toExport) /\ exported' = toExport /\ exportsFile' \in {exportsFile, toExport}
    /\ nfsd' = nfsd /\ stuckBinds' = stuckBinds \cup {t \in NfsTenants \ toExport : binds[t] # 0}

-----------------------------------------------------------------------------
(* Operations on a tenant                                                   *)
NfsOpStep(at, to) == nfsOp.at = at /\ nfsOp' = [nfsOp EXCEPT !.at = to]
OpEnds(at) == nfsOp.at = at /\ nfsOp' = NoNfsOp
DeviceMade(t) == device' = [device EXCEPT ![t] = nextDevice] /\ nextDevice' = nextDevice + 1

BeginNfsOp(t) ==
    /\ nfsOp = NoNfsOp /\ NfsSpend("ops")
    /\ \/ nfsOp' = [kind |-> "create", t |-> t, at |-> "create"] /\ device[t] = 0
       \/ \E k \in {"rollback", "destroy"} : nfsOp' = [kind |-> k, t |-> t, at |-> "remove"] /\ device[t] # 0
    /\ UNCHANGED <<diskState, serverVars, delegateVars, loopAt>>

\* Create: the volume is made on the disk.
DiskCreate ==
    /\ NfsOpStep("create", "add") /\ DeviceMade(nfsOp.t)
    /\ UNCHANGED <<serverVars, delegateVars, loopAt, nfsLeft>>

\* export: AddVolume and Sync.
ExportAdded ==
    /\ NfsOpStep("add", "sync") /\ toExport' = toExport \cup {nfsOp.t}
    /\ UNCHANGED <<diskState, exported, exportsFile, binds, nfsd, nfsClients, hostsAllow, stuckBinds, delegateVars, loopAt, nfsLeft>>
OpSync ==
    /\ OpEnds("sync") /\ (WritesAll \/ WritesPart) /\ UNCHANGED <<toExport, nfsClients>>
    /\ UNCHANGED <<diskState, delegateVars, loopAt>>

\* unexport: RemoveVolume, Stop and Restart.
RemoveExport ==
    /\ NfsOpStep("remove", "stop") /\ toExport' = toExport \ {nfsOp.t}
    /\ UNCHANGED <<diskState, exported, exportsFile, binds, nfsd, nfsClients, hostsAllow, stuckBinds, delegateVars, loopAt, nfsLeft>>

\* Stop looks at what was written last, where the volume still is: nothing is unmounted.
StopServer ==
    /\ nfsOp.at = "stop"
    /\ \/ NfsOpStep("stop", "restart") /\ nfsd' = FALSE /\ binds' = Cleaned(binds, exported) /\ UNCHANGED <<nfsLeft, stuckBinds>>
       \/ /\ NfsSpend("failures") /\ UNCHANGED <<nfsd, binds>> /\ stuckBinds' = stuckBinds \cup {nfsOp.t}
          /\ nfsOp' = IF nfsOp.kind = "destroy" THEN [nfsOp EXCEPT !.at = "delete"] ELSE NoNfsOp
    /\ UNCHANGED <<diskState, toExport, exported, exportsFile, nfsClients, hostsAllow, delegateVars, loopAt>>

\* Only the server is stopped before the device is changed.
RestartServerSkipped ==
    /\ NfsOpStep("restart", IF nfsOp.kind = "destroy" THEN "delete" ELSE "rollback")
    /\ UNCHANGED <<diskState, serverVars, delegateVars, loopAt, nfsLeft>>
\* Restart fails: a rollback gives up, and its volume stays out of what shall be exported; a
\* removal of the tenant goes on.
RestartServer ==
    /\ nfsOp.at = "restart"
    /\ \/ WritesAll /\ nfsOp' = [nfsOp EXCEPT !.at = IF nfsOp.kind = "destroy" THEN "delete" ELSE "rollback"]
       \/ WritesPart /\ nfsOp' = IF nfsOp.kind = "destroy" THEN [nfsOp EXCEPT !.at = "delete"] ELSE NoNfsOp
    /\ UNCHANGED <<toExport, nfsClients>> /\ UNCHANGED <<diskState, delegateVars, loopAt>>

\* volume.Rollback replaces the device, and the volume is exported again whatever comes of it.
DiskRollback ==
    /\ NfsOpStep("rollback", "add")
    /\ \/ DeviceMade(nfsOp.t) /\ UNCHANGED nfsLeft
       \/ NfsSpend("failures") /\ UNCHANGED diskState
    /\ UNCHANGED <<serverVars, delegateVars, loopAt>>
DiskRemove ==
    /\ OpEnds("delete")
    /\ \/ device' = [device EXCEPT ![nfsOp.t] = 0] /\ UNCHANGED <<nextDevice, nfsLeft>>
       \/ NfsSpend("failures") /\ UNCHANGED diskState
    /\ UNCHANGED <<serverVars, delegateVars, loopAt>>

-----------------------------------------------------------------------------
(* Server.Run of the storage server, and the delegates                      *)
LoopGoesOn(at, to) == loopAt = at /\ loopAt' = to

RunStarts ==
    /\ LoopGoesOn("off", "list") /\ NfsSpend("leads")
    /\ UNCHANGED <<diskState, serverVars, delegateVars, nfsOp>>

\* ValidateClient: the host is known and its pool may mount.
Permitted(clients) == clients \cap hasDfs

\* ChildrenW and SetClients, which asks for the permission of every client.
SetClients ==
    /\ LoopGoesOn("list", "sync") /\ childrenEvent' = FALSE
    /\ nfsClients' = Permitted(clientNodes) /\ stalePerms' = {}
    /\ UNCHANGED <<diskState, toExport, exported, exportsFile, binds, nfsd, hostsAllow, stuckBinds, hasDfs, clientNodes, nfsOp, nfsLeft>>

LoopSync ==
    /\ loopAt = "sync"
    /\ \/ WritesAll /\ loopAt' = "wait"
       \/ WritesPart /\ loopAt' = "off"
    /\ UNCHANGED <<toExport, nfsClients>> /\ UNCHANGED <<diskState, delegateVars, nfsOp>>
LoopWakes ==
    /\ LoopGoesOn("wait", "list") /\ childrenEvent
    /\ UNCHANGED <<diskState, serverVars, delegateVars, nfsOp, nfsLeft>>

\* A delegate that may and does not yet have a node makes one; the node stays for ever.
ClientCreates(d) ==
    /\ d \in hasDfs \ clientNodes
    /\ clientNodes' = clientNodes \cup {d} /\ childrenEvent' = TRUE
    /\ UNCHANGED <<diskState, serverVars, hasDfs, stalePerms, loopAt, nfsOp, nfsLeft>>
PermissionChanges(d) ==
    /\ NfsSpend("permissions") /\ hasDfs' = IF d \in hasDfs THEN hasDfs \ {d} ELSE hasDfs \cup {d}
    /\ stalePerms' = stalePerms \cup {d}
    /\ UNCHANGED <<diskState, serverVars, clientNodes, childrenEvent, loopAt, nfsOp>>

nfsOperates ==
    DiskCreate \/ ExportAdded \/ OpSync \/ RemoveExport \/ StopServer \/ RestartServer \/ DiskRollback \/ DiskRemove
nfsLoop == RunStarts \/ SetClients \/ LoopSync \/ LoopWakes
nfsNext ==
    \/ nfsOperates \/ nfsLoop \/ (\E t \in NfsTenants : BeginNfsOp(t))
    \/ \E d \in Delegates : ClientCreates(d) \/ PermissionChanges(d)
nfsSpec == nfsInit /\ [][nfsNext]_nfsVars /\ WF_nfsVars(nfsOperates) /\ WF_nfsVars(nfsLoop)

-----------------------------------------------------------------------------
\* A bind mount leads to the present device of the tenant, so that the hosts see what the
\* master sees (VerifyTenantMounts), and no volume is bound while its device is replaced,
\* unless a call to the system failed for it.
BindsCurrent ==
    \A t \in NfsTenants \ stuckBinds :
        /\ binds[t] # 0 => binds[t] = device[t]
        /\ nfsOp.t = t /\ nfsOp.at \in {"rollback", "delete"} => binds[t] = 0

\* What the NFS server offers is mounted: no host gets an empty directory for a volume.
ExportsAreBound == nfsd => \A t \in exportsFile : binds[t] # 0 \/ t \in stuckBinds

\* Nobody may mount who had no permission when it was last looked at.
AllowedHadPermission == hostsAllow \subseteq clientNodes /\ nfsClients \subseteq hasDfs \cup stalePerms

NfsSound == BindsCurrent /\ ExportsAreBound /\ AllowedHadPermission

\* The volumes: nothing writes to one while it is read as a whole (src/dfs), and what is
\* exported is the volume as it is now (src/dfs/nfs).
VolumesSound == VolumeIsQuiet /\ NfsSound

\* In the end every delegate with a node is let in exactly if its pool has access, and all
\* volumes of the tenants are offered.  A change of a permission is looked at only when a node
\* is made, and an operation or a loop that failed leaves things as they are.
DelegatesLetIn ==
    <>[](loopAt # "off" /\ stalePerms = {}) => <>[](hostsAllow = clientNodes \cap hasDfs)
=============================================================================
