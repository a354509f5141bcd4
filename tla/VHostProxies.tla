----------------------------- MODULE VHostProxies ------------------------------
(***************************************************************************)
(* The virtual hosts of the master's web server (web/vhost.go).  Every     *)
(* request that names a host goes through the manager and holds its lock   *)
(* for reading until it is answered; the threads of the listener           *)
(* (zzk/registry/vhost.go) take it for writing to tell the manager what    *)
(* has changed.  A writer that waits keeps new readers out                 *)
(* (sync.RWMutex).                                                         *)
(***************************************************************************)
EXTENDS Naturals, FiniteSets

CONSTANTS VHosts,          \* names of virtual hosts
          Browsers,     \* requests of browsers
          MaxVHostChanges  \* how many times a node or the exports of a virtual host change

ASSUME VHostProxiesAssumption == MaxVHostChanges \in Nat

VARIABLES vhFlag,     \* each virtual host in its service's document: "none", "off", "on"
          vhExported, \* those whose endpoint has exports
          vhThread,   \* Spawn of each: [pc, isEnabled, told]
          vhHandler,  \* VHostHandler: [enabled, exports]
          vhWriter,   \* who holds the manager's lock for writing, or "nobody"
          webRequest, \* of each request: where it is, for which virtual host
          vhLeft
vhVars == <<vhFlag, vhExported, vhThread, vhHandler, vhWriter, webRequest, vhLeft>>

\* NewVHostManager, NewVHostHandler: nothing is enabled.
vhInit ==
    /\ vhFlag = [v \in VHosts |-> "none"] /\ vhExported = VHosts
    /\ vhThread = [v \in VHosts |-> [pc |-> "none", isEnabled |-> FALSE, told |-> FALSE]]
    /\ vhHandler = [v \in VHosts |-> [enabled |-> FALSE, exports |-> FALSE]]
    /\ vhWriter = "nobody" /\ vhLeft = MaxVHostChanges
    /\ webRequest = [r \in Browsers |-> [pc |-> "new", vhost |-> "none"]]

\* syncServiceVHosts: the enabled ones have a node below /net/vhost/master, written in one
\* transaction when the document has changed.
vhNode == {v \in VHosts : vhFlag[v] = "on"}

VhAt(v, pc) == vhThread[v].pc = pc
VhGoes(v, pc) == vhThread' = [vhThread EXCEPT ![v].pc = pc]
ReqAt(r, pc) == webRequest[r].pc = pc
ReqGoes(r, pc) == webRequest' = [webRequest EXCEPT ![r].pc = pc]

-----------------------------------------------------------------------------
(* VHostManager.mu and VHostHandler.mu                                      *)

InManager == {r \in Browsers : webRequest[r].pc \in {"inside", "proxied", "endless"}}
Disabling == {v \in VHosts : VhAt(v, "disabling")}
Served(v) == {r \in Browsers : webRequest[r].pc \in {"proxied", "endless"} /\ webRequest[r].vhost = v}
WriterWaits == \E v \in VHosts : vhThread[v].pc \in {"setting", "enabling"}
CanRLock == vhWriter = "nobody" /\ ~WriterWaits
CanLock == vhWriter = "nobody" /\ InManager = {} /\ Disabling = {}

-----------------------------------------------------------------------------
(* The nodes and the exports                                                *)
VhChanges == vhLeft > 0 /\ vhLeft' = vhLeft - 1 /\ UNCHANGED <<vhThread, vhHandler, vhWriter, webRequest>>
AddPublicEndpointVHost ==
    \E v \in VHosts, on \in {"on", "off"} :
        vhFlag[v] = "none" /\ VhChanges /\ vhFlag' = [vhFlag EXCEPT ![v] = on] /\ UNCHANGED vhExported
RemovePublicEndpointVHost ==
    \E v \in VHosts : vhFlag[v] # "none" /\ VhChanges /\ vhFlag' = [vhFlag EXCEPT ![v] = "none"] /\ UNCHANGED vhExported
EnablePublicEndpointVHost ==
    \E v \in VHosts :
        /\ vhFlag[v] # "none" /\ VhChanges /\ UNCHANGED vhExported
        /\ vhFlag' = [vhFlag EXCEPT ![v] = IF @ = "on" THEN "off" ELSE "on"]
ExportsChange ==
    \E v \in VHosts : /\ VhChanges /\ UNCHANGED vhFlag
                      /\ vhExported' = (vhExported \ {v}) \cup ({v} \ vhExported)

-----------------------------------------------------------------------------
(* VHostListener.Spawn                                                      *)
UnchangedByVhThread == UNCHANGED <<vhFlag, vhExported, webRequest, vhLeft>>

\* The node and the exports are read; an update is sent when they differ from the last one.
VhReads(v) ==
    /\ \/ VhAt(v, "none") /\ v \in vhNode
       \/ VhAt(v, "waits") /\ (v \notin vhNode \/ (v \in vhExported) # vhThread[v].told)
    /\ vhThread' = [vhThread EXCEPT
          ![v].pc = IF v \notin vhNode THEN "disable"
                    ELSE IF (v \in vhExported) # vhThread[v].told THEN "setting" ELSE "enabling",
          ![v].told = v \in vhExported]
    /\ UNCHANGED <<vhHandler, vhWriter>> /\ UnchangedByVhThread

\* VHostManager.Set
VhLockToSet(v) ==
    /\ VhAt(v, "setting") /\ CanLock /\ vhWriter' = v
    /\ VhGoes(v, "set") /\ UNCHANGED vhHandler /\ UnchangedByVhThread
VhSet(v) ==
    /\ VhAt(v, "set") /\ vhWriter' = "nobody"
    /\ vhHandler' = [vhHandler EXCEPT ![v].exports = vhThread[v].told]
    /\ VhGoes(v, IF vhThread[v].isEnabled THEN "waits" ELSE "enabling") /\ UnchangedByVhThread

\* VHostManager.Enable
VhLockToEnable(v) ==
    /\ VhAt(v, "enabling") /\ CanLock /\ vhWriter' = v
    /\ VhGoes(v, "enable") /\ UNCHANGED vhHandler /\ UnchangedByVhThread
VhEnable(v) ==
    /\ VhAt(v, "enable") /\ vhWriter' = "nobody"
    /\ vhHandler' = [vhHandler EXCEPT ![v].enabled = TRUE]
    /\ vhThread' = [vhThread EXCEPT ![v].pc = "waits", ![v].isEnabled = TRUE] /\ UnchangedByVhThread

\* VHostManager.Disable, for reading ...
VhDisable(v) ==
    /\ VhAt(v, "disable") /\ CanRLock
    /\ VhGoes(v, "disabling") /\ UNCHANGED <<vhHandler, vhWriter>> /\ UnchangedByVhThread
\* ... and VHostHandler.Disable, which waits for the requests of this virtual host.
VhDisabled(v) ==
    /\ VhAt(v, "disabling") /\ Served(v) = {}
    /\ vhHandler' = [vhHandler EXCEPT ![v].enabled = FALSE]
    /\ vhThread' = [vhThread EXCEPT ![v] = [pc |-> "none", isEnabled |-> FALSE, told |-> FALSE]]
    /\ UNCHANGED vhWriter /\ UnchangedByVhThread

-----------------------------------------------------------------------------
(* ServiceConfig.Serve, VHostManager.Handle                                 *)
UnchangedByRequest == UNCHANGED <<vhFlag, vhExported, vhThread, vhHandler, vhWriter, vhLeft>>

\* A request for a virtual host, or for the user interface by its full name.
WebRequestComes(r) ==
    /\ ReqAt(r, "new")
    /\ \E v \in VHosts \cup {"none"} : webRequest' = [webRequest EXCEPT ![r] = [pc |-> "asks", vhost |-> v]]
    /\ UnchangedByRequest
Handle(r) == ReqAt(r, "asks") /\ CanRLock /\ ReqGoes(r, "inside") /\ UnchangedByRequest

\* There is such a virtual host, it is enabled and has an export.
PassesOn(v) == v \in VHosts /\ vhHandler[v].enabled /\ vhHandler[v].exports

\* VHostHandler.Handle: the lock of the handler is held while the request is proxied.  The instance
\* may answer, or may never end its answer.
HandleVHost(r) ==
    LET v == webRequest[r].vhost
    IN /\ ReqAt(r, "inside") /\ v \notin Disabling
       /\ \/ ~PassesOn(v) /\ ReqGoes(r, "done")
          \/ PassesOn(v) /\ \E pc \in {"proxied", "endless"} : ReqGoes(r, pc)
       /\ UnchangedByRequest
VHostAnswered(r) == ReqAt(r, "proxied") /\ ReqGoes(r, "done") /\ UnchangedByRequest

VhThreadStep(v) ==
    VhReads(v) \/ VhLockToSet(v) \/ VhSet(v) \/ VhLockToEnable(v) \/ VhEnable(v) \/ VhDisable(v) \/ VhDisabled(v)
RequestStep(r) == Handle(r) \/ HandleVHost(r) \/ VHostAnswered(r)
vhNext ==
    \/ AddPublicEndpointVHost \/ RemovePublicEndpointVHost \/ EnablePublicEndpointVHost \/ ExportsChange
    \/ \E v \in VHosts : VhThreadStep(v)
    \/ \E r \in Browsers : WebRequestComes(r) \/ RequestStep(r)

\* Threads and requests go on; a lock is given to everybody who waits for it.
vhSpec ==
    /\ vhInit /\ [][vhNext]_vhVars
    /\ \A v \in VHosts : SF_vhVars(VhThreadStep(v))
    /\ \A r \in Browsers : SF_vhVars(RequestStep(r))

-----------------------------------------------------------------------------
\* A virtual host without a thread passes nothing on: Disable has waited for the last request.
NobodyServedDisabled ==
    \A v \in VHosts : VhAt(v, "none") => Served(v) = {} /\ ~vhHandler[v].enabled

\* Every request is let in and every change of a virtual host is heard of, except when a
\* change waits for a request that never ends: then the change stops all other requests.
VHostsAnswer ==
    \/ <>[](/\ \E r \in Browsers : ReqAt(r, "endless")
            /\ \E v \in VHosts : vhThread[v].pc \in {"setting", "enabling", "disable", "disabling"})
    \/ <>[](/\ \A r \in Browsers : ~ReqAt(r, "asks")
            /\ \A v \in VHosts : vhHandler[v].enabled <=> v \in vhNode)
=============================================================================
