--------------------------- MODULE ContainerEndpoints ---------------------------
(***************************************************************************)
(* What a container sees of the endpoints of other containers.  Each       *)
(* container registers its exports in the coordinator as ephemeral nodes   *)
(* (zzk/registry/exportdetails.go).  A container that imports them tracks  *)
(* the nodes and keeps a proxy for each port (container/endpoint.go,       *)
(* container/proxy.go), with an interface for a virtual address            *)
(* (container/vif.go).  The virtual ips of the agent that runs the         *)
(* container (VirtualIPs) are beside it.                                   *)
(***************************************************************************)
EXTENDS VirtualIPs, Sequences

CONSTANTS ExInstances,    \* instances of the exporting service, as numbers
          MaxExNodes,     \* how many nodes are created at most
          MaxExLosses,    \* how many sessions may be lost
          MaxCeFailures   \* how many ports or interfaces may fail

ASSUME CeAssumption == ExInstances \subseteq Nat /\ {MaxExNodes, MaxExLosses, MaxCeFailures} \subseteq Nat

VARIABLES ceBind,     \* purpose of the import: import or import_all
          ceOwn,      \* ports: those that the container exports itself
          exNodes,    \* /net/export/<tenant>/<application>
          exMade, exLost,
          exporters,   \* of each instance: whether it runs, and its own node
          tracker,    \* TrackExports
          ceUpdates,    \* AddImport: the exports that it still has to bring to a proxy
          proxies,    \* proxyCache: of each port, the lists on their way and the one in use
          vifs,       \* VIFRegistry: of each port, the address of its interface
          ceFailed    \* ports that could not be opened, and how much has failed
ceVars == <<ceBind, ceOwn, exNodes, exMade, exLost, exporters, tracker, ceUpdates, proxies, vifs, ceFailed>>

BasePort == 10
NoNode == [id |-> 0, inst |-> 0]
NoProxy == [open |-> FALSE, queue |-> <<>>, addrs |-> {}]
CePorts == {BasePort} \cup {BasePort + i : i \in ExInstances}

\* ImportBinding.GetPortNumber: import_all has a port for each instance, import one for all.
GetPortNumber(n) == IF ceBind = "import_all" THEN BasePort + n.inst ELSE BasePort

\* NewContainerEndpoints, loadState: the bindings come with the state of the instance.
ceInit ==
    /\ ceBind \in {"import", "import_all"} /\ ceOwn \in {{}, {BasePort + 1}}
    /\ exNodes = {} /\ exMade = 0 /\ exLost = 0
    /\ exporters = [i \in ExInstances |-> [runs |-> FALSE, node |-> NoNode]]
    /\ tracker = [pc |-> "waits", watch |-> "none", names |-> {}, known |-> {}, list |-> {}]
    /\ ceUpdates = [busy |-> FALSE, todo |-> {}]
    /\ proxies = [p \in CePorts |-> NoProxy] /\ vifs = [p \in CePorts |-> 0]
    /\ ceFailed = [n |-> 0, ports |-> {}]

UnchangedImport == UNCHANGED <<ceBind, ceOwn, ceUpdates, proxies, vifs, ceFailed>>
\* A watch fires when the children change.
Fires(t) == IF t.watch = "armed" THEN [t EXCEPT !.watch = "fired"] ELSE t
SetNodes(ns) == exNodes' = ns /\ tracker' = IF ns = exNodes THEN tracker ELSE Fires(tracker)

-----------------------------------------------------------------------------
\* Another instance starts or ends.  One that ends deletes its node, or is killed and leaves
\* it to the end of its session.
InstanceRuns(i) ==
    /\ ~exporters[i].runs /\ exMade < MaxExNodes
    /\ exporters' = [exporters EXCEPT ![i] = [runs |-> TRUE, node |-> NoNode]]
    /\ UNCHANGED <<exNodes, exMade, exLost, tracker>> /\ UnchangedImport
InstanceEnds(i) ==
    /\ exporters[i].node # NoNode
    /\ exporters' = [exporters EXCEPT ![i] = [runs |-> FALSE, node |-> NoNode]]
    /\ \/ SetNodes(exNodes \ {exporters[i].node}) /\ UNCHANGED exLost
       \/ exLost < MaxExLosses /\ exLost' = exLost + 1 /\ UNCHANGED <<exNodes, tracker>>
    /\ UNCHANGED exMade /\ UnchangedImport

\* AddExport, RegisterExport: every node has a name of its own.
AddExport(i) ==
    /\ exporters[i].runs /\ exporters[i].node = NoNode /\ exMade < MaxExNodes
    /\ exMade' = exMade + 1
    /\ LET n == [id |-> exMade + 1, inst |-> i]
       IN exporters' = [exporters EXCEPT ![i].node = n] /\ SetNodes(exNodes \cup {n})
    /\ UNCHANGED exLost /\ UnchangedImport

\* The session of a container is lost: it registers again, the old node goes when the
\* coordinator notices.
SessionLost(i) ==
    /\ exporters[i].node # NoNode /\ exLost < MaxExLosses
    /\ exLost' = exLost + 1 /\ exporters' = [exporters EXCEPT ![i].node = NoNode]
    /\ UNCHANGED <<exNodes, exMade, tracker>> /\ UnchangedImport
Orphans == {n \in exNodes : \A i \in ExInstances : exporters[i].node # n}
SessionExpires ==
    /\ \E n \in Orphans : SetNodes(exNodes \ {n})
    /\ UNCHANGED <<exMade, exLost, exporters>> /\ UnchangedImport

-----------------------------------------------------------------------------
UnchangedExport == UNCHANGED <<ceBind, ceOwn, exNodes, exMade, exporters>>
UnchangedProxies == UNCHANGED <<ceUpdates, proxies, vifs, ceFailed>>

\* RunImportListener: the application appears below the tenant with its first export, and stays.
Matches == exMade > 0
RunImportListener ==
    /\ tracker.pc = "waits" /\ Matches
    /\ tracker' = [tracker EXCEPT !.pc = "down"]
    /\ UnchangedExport /\ UnchangedProxies /\ UNCHANGED exLost

\* AddImport: with a connection the tracking starts from nothing, after the last list is done.
AddImport ==
    /\ tracker.pc = "down" /\ ~ceUpdates.busy
    /\ tracker' = [tracker EXCEPT !.pc = "look", !.known = {}]
    /\ UnchangedExport /\ UnchangedProxies /\ UNCHANGED exLost
TrackingEnds ==
    /\ tracker.pc \notin {"waits", "down"} /\ exLost < MaxExLosses /\ exLost' = exLost + 1
    /\ tracker' = [tracker EXCEPT !.pc = "down", !.watch = "none", !.names = {}, !.list = {}]
    /\ UnchangedExport /\ UnchangedProxies

\* ExistsW, ChildrenW: the names and a watch.
Look ==
    /\ tracker.pc = "look"
    /\ tracker' = [tracker EXCEPT !.pc = "reads", !.watch = "armed", !.names = exNodes]
    /\ UnchangedExport /\ UnchangedProxies /\ UNCHANGED exLost

\* Each name is read once; one that is gone by now is left out.
GetExports ==
    /\ tracker.pc = "reads"
    /\ LET list == {n \in tracker.names : n \in tracker.known \/ n \in exNodes}
       IN tracker' = [tracker EXCEPT !.pc = "sends", !.names = {}, !.list = list, !.known = list]
    /\ UnchangedExport /\ UnchangedProxies /\ UNCHANGED exLost

\* The list is handed over when AddImport is done with the one before.
SendExports ==
    /\ tracker.pc = "sends" /\ ~ceUpdates.busy
    /\ tracker' = [tracker EXCEPT !.pc = "rests", !.list = {}]
    /\ ceUpdates' = [busy |-> TRUE, todo |-> tracker.list]
    /\ UnchangedExport /\ UNCHANGED <<exLost, proxies, vifs, ceFailed>>

\* The watch: a list that nobody has taken yet is thrown away.
TrackEvent ==
    /\ tracker.pc \in {"sends", "rests"} /\ tracker.watch = "fired"
    /\ tracker' = [tracker EXCEPT !.pc = "look", !.watch = "none", !.list = {}]
    /\ UnchangedExport /\ UnchangedProxies /\ UNCHANGED exLost

-----------------------------------------------------------------------------
\* VIFRegistry.nextIP and RegisterVirtualAddress: only a new proxy gets an interface, and one
\* that fails is not tried again.
Interfaces == {p \in CePorts : vifs[p] # 0}
nextIP == Cardinality(Interfaces) + 2
MayFail == ceFailed.n < MaxCeFailures
RegisterVirtualAddress(p) ==
    \/ vifs' = [vifs EXCEPT ![p] = nextIP] /\ UNCHANGED ceFailed
    \/ MayFail /\ ceFailed' = [ceFailed EXCEPT !.n = @ + 1] /\ UNCHANGED vifs

\* proxy.SetNewAddresses: the channel holds two lists.
SetNewAddresses(p, list) ==
    /\ Len(proxies[p].queue) < 2
    /\ proxies' = [proxies EXCEPT ![p] = [open |-> TRUE, queue |-> Append(@.queue, list), addrs |-> @.addrs]]

\* proxyCache.Set, and the interface when the proxy is new.
SetProxy(p, list) ==
    /\ SetNewAddresses(p, list)
    /\ IF proxies[p].open THEN UNCHANGED <<vifs, ceFailed>> ELSE RegisterVirtualAddress(p)

\* The port cannot be opened: the rest of the list is dropped.
ListenFails(p) ==
    /\ ~proxies[p].open /\ MayFail
    /\ ceFailed' = [n |-> ceFailed.n + 1, ports |-> ceFailed.ports \cup {p}]
    /\ UNCHANGED <<proxies, vifs>>

\* UpdateRemoteExports for import: all exports behind one port.
UpdateImport ==
    /\ ceUpdates.busy /\ ceBind = "import"
    /\ \/ BasePort \in ceOwn /\ UNCHANGED <<proxies, vifs, ceFailed>>
       \/ BasePort \notin ceOwn /\ (SetProxy(BasePort, ceUpdates.todo) \/ ListenFails(BasePort))
    /\ ceUpdates' = [busy |-> FALSE, todo |-> {}]
    /\ UnchangedExport /\ UNCHANGED <<exLost, tracker>>

\* UpdateRemoteExports for import_all: one export after the other, each with its port; a port
\* of the container itself is passed over.
UpdateImportAll ==
    /\ ceUpdates.busy /\ ceBind = "import_all" /\ ceUpdates.todo # {}
    /\ \E n \in ceUpdates.todo :
         LET p == GetPortNumber(n)
         IN \/ /\ \/ p \in ceOwn /\ UNCHANGED <<proxies, vifs, ceFailed>>
                  \/ p \notin ceOwn /\ SetProxy(p, {n})
               /\ ceUpdates' = [ceUpdates EXCEPT !.todo = @ \ {n}]
            \/ p \notin ceOwn /\ ListenFails(p) /\ ceUpdates' = [busy |-> FALSE, todo |-> {}]
    /\ UnchangedExport /\ UNCHANGED <<exLost, tracker>>
UpdateDone ==
    /\ ceUpdates.busy /\ ceBind = "import_all" /\ ceUpdates.todo = {}
    /\ ceUpdates' = [ceUpdates EXCEPT !.busy = FALSE]
    /\ UnchangedExport /\ UNCHANGED <<exLost, tracker, proxies, vifs, ceFailed>>

\* proxy.listenAndproxy takes the next list.
TakeAddresses(p) ==
    /\ proxies[p].queue # <<>>
    /\ proxies' = [proxies EXCEPT ![p] = [open |-> @.open, queue |-> Tail(@.queue), addrs |-> Head(@.queue)]]
    /\ UnchangedExport /\ UNCHANGED <<exLost, tracker, ceUpdates, vifs, ceFailed>>

TrackStep == RunImportListener \/ AddImport \/ Look \/ GetExports \/ SendExports \/ TrackEvent
UpdateStep == UpdateImport \/ UpdateImportAll \/ UpdateDone
ProxyStep == \E p \in CePorts : TakeAddresses(p)
ceNext ==
    \/ \E i \in ExInstances : InstanceRuns(i) \/ InstanceEnds(i) \/ AddExport(i) \/ SessionLost(i)
    \/ SessionExpires \/ TrackingEnds \/ TrackStep \/ UpdateStep \/ ProxyStep
ceSpec == ceInit /\ [][ceNext]_ceVars

-----------------------------------------------------------------------------
\* The importing container has nothing left to do.
Settled ==
    /\ tracker.pc = "rests" /\ tracker.watch # "fired" /\ ~ceUpdates.busy
    /\ \A p \in CePorts : proxies[p].queue = <<>>

\* An import that has settled sends nobody to a container that is gone, and leaves none out.
\* With import_all each registered instance is behind its port; the port of one that is gone
\* keeps the last address, because no list mentions it (container/endpoint.go:339).
ProxiesFollowExports ==
    Settled /\ ceFailed.ports = {} =>
        \/ ceBind = "import" /\ (BasePort \notin ceOwn => proxies[BasePort].addrs = exNodes)
        \/ /\ ceBind = "import_all"
           /\ \A p \in CePorts \ ceOwn :
                LET here == {n \in exNodes : GetPortNumber(n) = p}
                IN here # {} => proxies[p].addrs \subseteq here /\ proxies[p].addrs # {}

\* A port of the container itself is never taken by a proxy, two interfaces never share an
\* address, and an interface has a proxy.
PortsKept ==
    /\ \A p \in ceOwn \cap CePorts : ~proxies[p].open
    /\ \A p, q \in Interfaces : p # q => vifs[p] # vifs[q]
    /\ \A p \in Interfaces : proxies[p].open

\* What holds of the imports of a container.
ImportsSound == ProxiesFollowExports /\ PortsKept

\* The addresses that a host and its containers keep: a virtual ip that is bound is known to
\* somebody who will release it, and proxies lead to where the exports are (node/virtualip.go,
\* container/proxy.go).
AddressesTracked == BindingTracked /\ ImportsSound

\* When the exporters come to rest, the importing container settles, if there is anything to
\* import.
ImportsFollow == <>[](Settled \/ ~Matches)
=============================================================================
