---------------------------- MODULE PublicEndpoints ----------------------------
(***************************************************************************)
(* A public port of the master.  Its flag in the document of its service   *)
(* (facade/publicendpoint.go) is copied to a node of ZooKeeper through a   *)
(* cache of what the service has there (facade/serviceregistry_cache.go).  *)
(* A listener has one thread for the node (zzk/registry/pub.go), which     *)
(* tells the handler of the port (web/pub.go) to listen, where the         *)
(* endpoint's exports are, and to stop.                                    *)
(***************************************************************************)
EXTENDS Naturals, FiniteSets

CONSTANTS PubExports,          \* instances that may export the endpoint
          MaxPortOps,       \* how many times the port is added, removed, enabled or disabled
          MaxExportChanges, \* how many times an export comes or goes
          MaxPortFailures,  \* how many calls to ZooKeeper fail
          MaxServeFailures, \* how many times the port cannot be opened
          MaxMasterStarts,  \* how many times the master starts again
          MaxAccepted       \* how many connections of clients are accepted

ASSUME PublicEndpointsAssumption ==
    {MaxPortOps, MaxExportChanges, MaxPortFailures, MaxServeFailures, MaxMasterStarts, MaxAccepted} \subseteq Nat

VARIABLES portDoc,     \* the port in the service's document: "none", "off", "on"; "gone" without a document
          portNode,    \* the node below /net/pub/master exists
          portCache,   \* svcRegistry: the service has the port in ZooKeeper
          portOp,      \* the caller of the facade: "idle", "sync", "remove", "delete"
          portSync,    \* the local synchroniser: "idle", or the flag that it has read
          exportDir,   \* /net/export/<tenant>/<application> exists
          registered,  \* the exports below it
          nodeWatch, exportWatch,  \* "none", "armed", "fired"
          portThread,  \* Spawn: [pc, isEnabled, ch, exportMap]
          pubPort,        \* PublicPortHandler: [cancelOpen, serving, exports]
          clientLink,        \* the connection of a client: "none", "dialing", "proxied", "left", "closed"
          deaf,        \* the thread has closed the watch of its node
          portFacts,   \* an answer of ZooKeeper was lost; the master has started again; the port could not be opened
          portLeft
portDocVars == <<portDoc, portNode, portCache, portOp, portSync>>
exportVars == <<exportDir, registered>>
threadVars == <<portThread, pubPort, deaf>>
peVars == <<portDocVars, exportVars, nodeWatch, exportWatch, threadVars, clientLink, portFacts, portLeft>>

AtRest == [pc |-> "none", isEnabled |-> FALSE, ch |-> {}, exportMap |-> {}]

\* NewPublicPortHandler: the channel is closed, nothing is served.
NewPublicPortHandler == [cancelOpen |-> FALSE, serving |-> FALSE, exports |-> {}]

\* NewServiceRegistryCache: the cache is empty and stays so, for it is not nil.
NewServiceRegistryCache == FALSE

peInit ==
    /\ portDoc = "none" /\ portNode = FALSE /\ portCache = NewServiceRegistryCache /\ portOp = "idle" /\ portSync = "idle"
    /\ exportDir = FALSE /\ registered = {} /\ nodeWatch = "none" /\ exportWatch = "none"
    /\ portThread = AtRest /\ pubPort = NewPublicPortHandler /\ clientLink = "none" /\ deaf = FALSE
    /\ portFacts = [lost |-> FALSE, restarted |-> FALSE, unserved |-> FALSE]
    /\ portLeft = [ops |-> MaxPortOps, exports |-> MaxExportChanges, failures |-> MaxPortFailures,
                   serve |-> MaxServeFailures, starts |-> MaxMasterStarts, accepts |-> MaxAccepted]

PortFires(w) == IF w = "armed" THEN "fired" ELSE w
UsesPort(what) == portLeft[what] > 0 /\ portLeft' = [portLeft EXCEPT ![what] = @ - 1]

-----------------------------------------------------------------------------
(* The document and its copy                                                *)

PortWritten(d, op) == portOp = "idle" /\ UsesPort("ops") /\ portDoc' = d /\ portOp' = op
UnchangedPort == UNCHANGED <<portNode, portCache, portSync, exportVars, nodeWatch, exportWatch, threadVars, clientLink, portFacts>>

\* checkPort: the port is opened and closed again, so nobody may listen on it.
checkPort == ~pubPort.serving
AddPublicEndpointPort == portDoc = "none" /\ checkPort /\ (\E d \in {"on", "off"} : PortWritten(d, "sync")) /\ UnchangedPort
RemovePublicEndpointPort == portDoc \in {"on", "off"} /\ PortWritten("none", "sync") /\ UnchangedPort
EnablePublicEndpointPort ==
    /\ \/ portDoc = "off" /\ checkPort /\ PortWritten("on", "sync")
       \/ portDoc = "on" /\ PortWritten("off", "sync")
    /\ UnchangedPort

\* BuildSyncRequest for a document that says d: only what the cache knows is deleted.
ToPublish(d) == d = "on"
ToDelete(d) == portCache /\ d # "on"

\* zkr.SyncServiceRegistry: one transaction, which fails when the node to delete is not there.
CommitFails(d) == ToDelete(d) /\ ~portNode
Commits(d) ==
    /\ ~CommitFails(d)
    /\ portNode' = (ToPublish(d) \/ (portNode /\ ~ToDelete(d)))
    /\ nodeWatch' = IF ToPublish(d) \/ ToDelete(d) THEN PortFires(nodeWatch) ELSE nodeWatch

\* zkf.SyncServiceRegistry under its lock: the cache is written after the commit.  A call fails
\* before the commit, or its answer is lost.
Synced(d) == Commits(d) /\ portCache' = ToPublish(d) /\ UNCHANGED <<portFacts, portLeft>>
PortSyncFails(d) ==
    /\ UNCHANGED portCache
    /\ \/ CommitFails(d) /\ UNCHANGED <<portNode, nodeWatch, portFacts, portLeft>>
       \/ UsesPort("failures") /\ UNCHANGED <<portNode, nodeWatch, portFacts>>
       \/ UsesPort("failures") /\ Commits(d) /\ portFacts' = [portFacts EXCEPT !.lost = TRUE]
SyncServiceRegistry(d) == Synced(d) \/ PortSyncFails(d)

\* syncService: the document is read again and copied.
syncService ==
    /\ portOp = "sync" /\ portOp' = "idle" /\ SyncServiceRegistry(portDoc)
    /\ UNCHANGED <<portDoc, portSync, exportVars, exportWatch, threadVars, clientLink>>

\* removeService: the endpoints are taken from ZooKeeper first, and the document is deleted then.
removeService == portDoc # "gone" /\ PortWritten(portDoc, "remove") /\ UnchangedPort
RemoveServiceEndpoints ==
    /\ portOp = "remove"
    /\ \/ Synced("gone") /\ portOp' = "delete"
       \/ PortSyncFails("gone") /\ portOp' = "idle"
    /\ UNCHANGED <<portDoc, portSync, exportVars, exportWatch, threadVars, clientLink>>
DeleteService == portOp = "delete" /\ portOp' = "idle" /\ portDoc' = "gone" /\ UNCHANGED portLeft /\ UnchangedPort

\* doSync of the local synchroniser: the documents of a pool are read, and copied one by one later.
GetServicesByPool ==
    /\ portSync = "idle" /\ portDoc # "gone" /\ portSync' = portDoc
    /\ UNCHANGED <<portDoc, portNode, portCache, portOp, exportVars, nodeWatch, exportWatch, threadVars, clientLink, portFacts, portLeft>>
doSync ==
    /\ portSync # "idle" /\ portSync' = "idle" /\ SyncServiceRegistry(portSync)
    /\ UNCHANGED <<portDoc, portOp, exportVars, exportWatch, threadVars, clientLink>>

-----------------------------------------------------------------------------
(* The exports                                                              *)
UnchangedButExports == UNCHANGED <<portDocVars, nodeWatch, threadVars, clientLink, portFacts>>

\* RegisterExport: the node is created with its directory; it goes with its session or its agent.
RegisterExport ==
    /\ UsesPort("exports") /\ \E e \in PubExports \ registered : registered' = registered \cup {e}
    /\ exportDir' = TRUE /\ exportWatch' = PortFires(exportWatch) /\ UnchangedButExports
ExportGoes ==
    /\ UsesPort("exports") /\ \E e \in registered : registered' = registered \ {e}
    /\ exportWatch' = PortFires(exportWatch) /\ UNCHANGED exportDir /\ UnchangedButExports
\* DeleteExports: the tenant is removed.
DeleteExports ==
    /\ exportDir /\ UsesPort("exports") /\ exportDir' = FALSE /\ registered' = {}
    /\ exportWatch' = PortFires(exportWatch) /\ UnchangedButExports

-----------------------------------------------------------------------------
(* PublicPortListener.Spawn                                                 *)
ThreadAt(pc) == portThread.pc = pc
ThreadGoes(pc) == portThread' = [portThread EXCEPT !.pc = pc]
UnchangedByThread == UNCHANGED <<portDocVars, exportVars, clientLink, portFacts, portLeft>>

\* zzk.Listen finds a node that has no thread.
SpawnPort ==
    /\ ThreadAt("none") /\ portNode
    /\ portThread' = [AtRest EXCEPT !.pc = "get"] /\ deaf' = FALSE
    /\ UNCHANGED <<pubPort, nodeWatch, exportWatch>> /\ UnchangedByThread
GetPort ==
    /\ ThreadAt("get")
    /\ IF portNode THEN ThreadGoes("exists") /\ nodeWatch' = "armed" /\ deaf' = FALSE
                   ELSE ThreadGoes("ends") /\ nodeWatch' = "none" /\ UNCHANGED deaf
    /\ exportWatch' = "none" /\ UNCHANGED pubPort /\ UnchangedByThread
CheckExports ==
    /\ ThreadAt("exists") /\ exportWatch' = "armed"
    /\ portThread' = [portThread EXCEPT !.pc = IF exportDir THEN "children" ELSE "set", !.ch = {}]
    /\ UNCHANGED <<pubPort, deaf, nodeWatch>> /\ UnchangedByThread
\* The directory was deleted in between: the channel that is closed is the one that the watch of
\* the node hangs on as well.
TrackExports ==
    /\ ThreadAt("children")
    /\ IF exportDir
       THEN portThread' = [portThread EXCEPT !.pc = "set", !.ch = registered] /\ exportWatch' = "armed"
            /\ UNCHANGED <<deaf, nodeWatch>>
       ELSE ThreadGoes("exists") /\ exportWatch' = "none"
            /\ IF nodeWatch = "fired" THEN UNCHANGED <<deaf, nodeWatch>> ELSE deaf' = TRUE /\ nodeWatch' = "none"
    /\ UNCHANGED pubPort /\ UnchangedByThread

\* An export that is gone by the time it is read is left out.
ReadExports == portThread.ch \cap (portThread.exportMap \cup registered)
SetTold(told) ==
    /\ pubPort' = [pubPort EXCEPT !.exports = IF told THEN ReadExports ELSE @]
    /\ portThread' = [portThread EXCEPT !.pc = IF portThread.isEnabled THEN "waits" ELSE "enable", !.exportMap = ReadExports]
    /\ UNCHANGED <<deaf, nodeWatch, exportWatch>> /\ UnchangedByThread
SetExports ==
    /\ ThreadAt("set")
    /\ SetTold(Cardinality(portThread.ch) # Cardinality(portThread.exportMap) \/ ~(portThread.ch \subseteq portThread.exportMap))

\* PublicPortManager.Enable, PublicPortHandler.Serve: cancel is made first; when the port cannot be
\* opened it stays open, and isEnabled is set all the same.
Enable ==
    /\ ThreadAt("enable")
    /\ \/ /\ ~pubPort.cancelOpen /\ pubPort' = [pubPort EXCEPT !.cancelOpen = TRUE, !.serving = TRUE]
          /\ portThread' = [portThread EXCEPT !.pc = "waits", !.isEnabled = TRUE]
          /\ UNCHANGED <<portFacts, portLeft>>
       \/ /\ pubPort.cancelOpen /\ UNCHANGED <<pubPort, portLeft>>
          /\ portThread' = [portThread EXCEPT !.pc = "fails", !.isEnabled = TRUE]
          /\ portFacts' = [portFacts EXCEPT !.unserved = TRUE]
       \/ /\ ~pubPort.cancelOpen /\ UsesPort("serve") /\ pubPort' = [pubPort EXCEPT !.cancelOpen = TRUE]
          /\ portThread' = [portThread EXCEPT !.pc = "fails", !.isEnabled = TRUE]
          /\ portFacts' = [portFacts EXCEPT !.unserved = TRUE]
    /\ UNCHANGED <<portDocVars, exportVars, nodeWatch, exportWatch, deaf, clientLink>>

\* onFailure: the endpoint of the node is disabled in its document, and copied, by this thread.
OnFailure ==
    /\ ThreadAt("fails")
    /\ IF portNode /\ portDoc = "on" THEN portDoc' = "off" /\ ThreadGoes("fails sync")
                                     ELSE UNCHANGED portDoc /\ ThreadGoes("waits")
    /\ UNCHANGED <<portNode, portCache, portOp, portSync, exportVars, nodeWatch, exportWatch, pubPort, deaf, clientLink, portFacts, portLeft>>
OnFailureSync ==
    /\ ThreadAt("fails sync") /\ ThreadGoes("waits")
    /\ IF portDoc = "gone" THEN UNCHANGED <<portNode, nodeWatch, portCache, portFacts, portLeft>>
                           ELSE SyncServiceRegistry(portDoc)
    /\ UNCHANGED <<portDoc, portOp, portSync, exportVars, exportWatch, pubPort, deaf, clientLink>>

\* The select: one of the watches has fired, and the other one is closed.
Wakes ==
    /\ ThreadAt("waits") /\ "fired" \in {nodeWatch, exportWatch}
    /\ ThreadGoes("get") /\ nodeWatch' = "none" /\ exportWatch' = "none"
    /\ UNCHANGED <<pubPort, deaf>> /\ UnchangedByThread
\* shutdown, or a call that fails: the thread returns.
ThreadLosesSession ==
    /\ portThread.pc \in {"get", "exists", "children", "set", "waits"} /\ UsesPort("failures")
    /\ ThreadGoes("ends") /\ nodeWatch' = "none" /\ exportWatch' = "none"
    /\ UNCHANGED <<portDocVars, exportVars, pubPort, deaf, clientLink, portFacts>>

\* The deferred Disable, PublicPortHandler.Stop: cancel is closed ...
Disable ==
    /\ ThreadAt("ends")
    /\ IF portThread.isEnabled
       THEN ThreadGoes("stopping") /\ pubPort' = [pubPort EXCEPT !.cancelOpen = FALSE]
       ELSE portThread' = AtRest /\ UNCHANGED pubPort
    /\ UNCHANGED <<deaf, nodeWatch, exportWatch>> /\ UnchangedByThread
\* ... ServeTCP closes the listener and stopChan and waits for the connections that it counts.
StopServing ==
    /\ ThreadAt("stopping") /\ pubPort.serving /\ pubPort' = [pubPort EXCEPT !.serving = FALSE]
    /\ UNCHANGED <<portThread, deaf, nodeWatch, exportWatch>> /\ UnchangedByThread
PortStopped ==
    /\ ThreadAt("stopping") /\ ~pubPort.serving /\ clientLink # "proxied"
    /\ portThread' = AtRest
    /\ UNCHANGED <<pubPort, deaf, nodeWatch, exportWatch>> /\ UnchangedByThread

-----------------------------------------------------------------------------
(* ServeTCP: a connection of a client                                       *)
UnchangedByClient == UNCHANGED <<portDocVars, exportVars, nodeWatch, exportWatch, threadVars, portFacts>>

\* Without an export the connection is closed at once.
AcceptTCP ==
    /\ pubPort.serving /\ clientLink \in {"none", "closed"} /\ pubPort.exports # {} /\ UsesPort("accepts")
    /\ clientLink' = "dialing" /\ UnchangedByClient
\* The instance cannot be reached: the client's connection is left open, nobody reads from it.
DialRemoteFails == clientLink = "dialing" /\ clientLink' = "left" /\ UNCHANGED portLeft /\ UnchangedByClient
\* ProxyLoop; when stopChan is closed by now it returns at once.
DialRemote ==
    /\ clientLink = "dialing" /\ clientLink' = IF pubPort.serving THEN "proxied" ELSE "closed"
    /\ UNCHANGED portLeft /\ UnchangedByClient

ProxyEndsByPeer == clientLink = "proxied" /\ clientLink' = "closed" /\ pubPort.serving /\ UNCHANGED portLeft /\ UnchangedByClient
NobodyStops == FALSE /\ UNCHANGED peVars
\* ProxyLoop takes stopChan.
ProxyLoopStops == clientLink = "proxied" /\ ~pubPort.serving /\ clientLink' = "closed" /\ UNCHANGED portLeft /\ UnchangedByClient

\* The master ends and starts again: what is in memory is gone.
MasterStarts ==
    /\ UsesPort("starts") /\ portCache' = NewServiceRegistryCache /\ portOp' = "idle" /\ portSync' = "idle"
    /\ portThread' = AtRest /\ pubPort' = NewPublicPortHandler /\ clientLink' = "none" /\ deaf' = FALSE
    /\ nodeWatch' = "none" /\ exportWatch' = "none"
    /\ portFacts' = [portFacts EXCEPT !.restarted = TRUE]
    /\ UNCHANGED <<portDoc, portNode, exportVars>>

ThreadStep ==
    \/ SpawnPort \/ GetPort \/ CheckExports \/ TrackExports \/ SetExports \/ Enable
    \/ OnFailure \/ OnFailureSync \/ Wakes \/ Disable \/ StopServing \/ PortStopped
CallGoesOn == syncService \/ RemoveServiceEndpoints \/ DeleteService
SyncStep == GetServicesByPool \/ doSync
peNext ==
    \/ AddPublicEndpointPort \/ RemovePublicEndpointPort \/ EnablePublicEndpointPort \/ CallGoesOn
    \/ removeService \/ SyncStep
    \/ RegisterExport \/ ExportGoes \/ DeleteExports
    \/ ThreadStep \/ ThreadLosesSession
    \/ AcceptTCP \/ DialRemoteFails \/ DialRemote \/ ProxyEndsByPeer \/ ProxyLoopStops
    \/ MasterStarts

\* The thread and the caller go on, and the synchroniser comes round again and again.
peSpec ==
    /\ peInit /\ [][peNext]_peVars
    /\ WF_peVars(ThreadStep) /\ WF_peVars(CallGoesOn) /\ WF_peVars(SyncStep) /\ WF_peVars(ProxyLoopStops)

-----------------------------------------------------------------------------
\* A port listens only while a thread of the listener is there to stop it, and the thread never
\* finds its port taken by an earlier one: a failed Serve leaves cancel open, but isEnabled says so.
PortHasThread ==
    /\ pubPort.serving => portThread.isEnabled
    /\ ThreadAt("enable") => ~pubPort.cancelOpen

\* The cache says no more than ZooKeeper, unless the answer to a delete was lost: then every later
\* copy of the service fails.  It says no less either, unless the answer to a create was lost or
\* the master has started again: then the node is not deleted with the port.
CacheTellsNodes ==
    /\ portCache /\ ~portNode => portFacts.lost
    /\ portNode /\ ~portCache => portFacts.lost \/ portFacts.restarted

\* What holds of a public port.
EndpointsSound == PortHasThread /\ CacheTellsNodes

\* The node is in the end there exactly when the port is enabled, except for a node that the cache
\* does not know, and for one that the synchroniser or a failed port has copied from a document
\* that was deleted since.
NodeFollowsFlag == <>[]((portNode <=> portDoc = "on") \/ (portNode /\ (~portCache \/ portDoc = "gone")))

\* A new thread that finds no export sends no update, and the handler keeps those of the last one.
OldExports == IF registered = {} THEN SUBSET PubExports ELSE {}

\* The port is in the end open for exactly the registered exports while the node is there, and closed
\* without it, except for a port that could not be opened, for a thread that lost its watch and for
\* exports of an earlier thread when there is none.
PortFollowsNode ==
    <>[](\/ portThread.isEnabled /\ portNode /\ (pubPort.serving \/ portFacts.unserved) /\ pubPort.exports \in {registered} \cup OldExports
         \/ ThreadAt("none") /\ ~portNode /\ ~pubPort.serving
         \/ deaf)

=============================================================================
