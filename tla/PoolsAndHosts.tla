---------------------------- MODULE PoolsAndHosts ----------------------------
(***************************************************************************)
(* Resource pools and hosts in the facade (facade/pool.go, facade/host.go, *)
(* facade/pool_cache.go), their nodes (zzk/service/pool.go,                *)
(* zzk/service/host.go) and the local sync of the scheduler                *)
(* (scheduler/localsync.go).  Most operations hold the lock of the file    *)
(* system (DFSLock); the two that add and remove a virtual ip do not, and  *)
(* rely on the version of the pool's document.                             *)
(***************************************************************************)
EXTENDS Naturals, FiniteSets

CONSTANTS
    PoolIds, DefaultPool,
    HostIds,
    VipIds,             \* the virtual ips
    Admins,             \* the callers of the facade
    PoolOps,            \* the operations they start
    MaxPoolOps,         \* bound on operations
    MaxPoolFailures     \* bound on failing writes

\* The default pool is always there; no name stands for two things.
ASSUME PoolsAssumption ==
    /\ DefaultPool \in PoolIds /\ "nowhere" \notin PoolIds /\ HostIds # {}
    /\ "no document" \notin VipIds /\ {"nobody", "sync"} \cap Admins = {}
    /\ PoolOps \subseteq {"addPool", "removePool", "updatePool", "addVip", "removeVip", "addHost", "updateHost", "removeHost"}

VARIABLES
    poolDoc,    \* pool -> the virtual ips of its document, or NoDoc
    poolNode,   \* the same in the coordinator
    hostDoc,    \* host -> the pool of its document, or Nowhere
    hostNodes,  \* pool -> the hosts that have a node in it
    onHost,     \* host -> what its states do: "none", "runs" or "told" to stop
    hostAlive,  \* the hosts whose agent runs
    poolCache,  \* the pools and their hosts as GetReadPools serves them
    admin,      \* what each caller does
    dfsOwner,   \* who holds the DFS lock: a caller, "sync" or "nobody"
    syncing,    \* what the local sync has read
    lostVip,    \* history: a pool was written over a version that the writer had not seen
    halfDone,   \* history: an operation failed between its writes
    poolLeft

poolVars == <<poolDoc, poolNode, hostDoc, hostNodes, onHost, hostAlive, poolCache, admin, dfsOwner, syncing, lostVip, halfDone, poolLeft>>
docVars == <<poolDoc, hostDoc>>
nodeVars == <<poolNode, hostNodes>>

NoPoolDoc == {"no document"}
Nowhere == "nowhere"
PoolIdle == [op |-> "none", at |-> "", pool |-> DefaultPool, host |-> CHOOSE h \in HostIds : TRUE, seen |-> NoPoolDoc, want |-> {}, outdated |-> FALSE]
Listing == {<<p, {h \in HostIds : hostDoc[h] = p}>> : p \in {q \in PoolIds : poolDoc[q] # NoPoolDoc}}
SpendPool(what) == poolLeft[what] > 0 /\ poolLeft' = [poolLeft EXCEPT ![what] = @ - 1]
PoolGoes(c, at) == admin' = [admin EXCEPT ![c].at = at]
Locks(op) == op \notin {"addVip", "removeVip"}

\* The call returns, and what it holds is released.
Returns(c) ==
    /\ admin' = [admin EXCEPT ![c] = PoolIdle]
    /\ dfsOwner' = IF dfsOwner = c THEN "nobody" ELSE dfsOwner
PoolFails(c) == SpendPool("failures") /\ Returns(c)
Dirty == poolCache' = [poolCache EXCEPT !.dirty = TRUE]
-----------------------------------------------------------------------------
\* A caller has looked at the pool and asks for a change; "seen" is the version it sends along.
Call(c, op, p, h, want) ==
    /\ admin[c] = PoolIdle /\ SpendPool("ops")
    /\ op \in {"updatePool", "addVip", "removeVip"} \/ want = CHOOSE w \in {{v} : v \in VipIds} : TRUE
    /\ op # "removeHost" \/ p = DefaultPool
    /\ admin' = [admin EXCEPT ![c] = [op |-> op, at |-> IF Locks(op) THEN "lock" ELSE "check", pool |-> p, host |-> h,
                                      seen |-> poolDoc[p], want |-> want, outdated |-> FALSE]]
    /\ UNCHANGED <<docVars, nodeVars, onHost, hostAlive, poolCache, dfsOwner, syncing, lostVip, halfDone>>

TakeNoLock(c) ==
    /\ admin[c].at = "lock" /\ PoolGoes(c, "check")
    /\ UNCHANGED <<docVars, nodeVars, onHost, hostAlive, poolCache, dfsOwner, syncing, lostVip, halfDone, poolLeft>>

\* LockWithTimeout.
TakeDFSLock(c) ==
    /\ admin[c].at = "lock"
    /\ \/ dfsOwner = "nobody" /\ dfsOwner' = c /\ PoolGoes(c, "check")
       \/ dfsOwner # "nobody" /\ Returns(c)
    /\ UNCHANGED <<docVars, nodeVars, onHost, hostAlive, poolCache, syncing, lostVip, halfDone, poolLeft>>

\* What each operation asks for before it writes.
HasDoc(p) == poolDoc[p] # NoPoolDoc
AddResourcePool(a) == a.op = "addPool" /\ ~HasDoc(a.pool)
RemoveResourcePool(a) ==
    a.op = "removePool" /\ a.pool # DefaultPool /\ HasDoc(a.pool) /\ \A h \in HostIds : hostDoc[h] # a.pool
UpdateResourcePool(a) == a.op = "updatePool" /\ HasDoc(a.pool)
AddVirtualIP(a) == a.op = "addVip" /\ HasDoc(a.pool) /\ a.want \cap poolDoc[a.pool] = {}
RemoveVirtualIP(a) == a.op = "removeVip" /\ HasDoc(a.pool) /\ a.want \subseteq poolDoc[a.pool]
AddHost(a) == a.op = "addHost" /\ hostDoc[a.host] = Nowhere /\ HasDoc(a.pool)
UpdateHost(a) == a.op = "updateHost" /\ hostDoc[a.host] # Nowhere /\ HasDoc(a.pool)
RemoveHost(a) == a.op = "removeHost" /\ hostDoc[a.host] # Nowhere
GoAhead(a) ==
    \/ AddResourcePool(a) \/ RemoveResourcePool(a) \/ UpdateResourcePool(a) \/ AddVirtualIP(a) \/ RemoveVirtualIP(a)
    \/ AddHost(a) \/ UpdateHost(a) \/ RemoveHost(a)

\* The checks of each operation.  AddVirtualIP and RemoveVirtualIP read the pool here, and
\* so does AddResourcePool and UpdateHost for their own documents.
CheckPool(c) ==
    /\ admin[c].at = "check"
    /\ IF GoAhead(admin[c])
       THEN /\ admin' = [admin EXCEPT ![c].at = IF admin[c].op = "removeHost" THEN "drain" ELSE "put",
                                      ![c].seen = IF admin[c].op = "updatePool" THEN @ ELSE poolDoc[admin[c].pool],
                                      ![c].outdated = IF admin[c].op = "updatePool" THEN @ ELSE FALSE]
            /\ UNCHANGED dfsOwner
       ELSE Returns(c)
    /\ UNCHANGED <<docVars, nodeVars, onHost, hostAlive, poolCache, syncing, lostVip, halfDone, poolLeft>>

NewVips(a) ==
    CASE a.op = "addPool"    -> {}
      [] a.op = "removePool" -> NoPoolDoc
      [] a.op = "updatePool" -> a.want
      [] a.op = "addVip"     -> a.seen \cup a.want
      [] a.op = "removeVip"  -> a.seen \ a.want

Outdate(p) == [c \in Admins |-> IF admin[c].op # "none" /\ admin[c].pool = p THEN [admin[c] EXCEPT !.outdated = TRUE] ELSE admin[c]]
\* A pool is written with the version that was read; a document that has changed since is a
\* conflict.  Delete has no version.
PutPool(c) ==
    LET a == admin[c] IN
    /\ a.at = "put" /\ a.op \notin {"addHost", "updateHost"}
    /\ \/ /\ ~a.outdated \/ a.op = "removePool"
          /\ poolDoc' = [poolDoc EXCEPT ![a.pool] = NewVips(a)]
          /\ admin' = [Outdate(a.pool) EXCEPT ![c].at = "zk"]
          /\ lostVip' = (lostVip \/ (a.op # "removePool" /\ a.seen # poolDoc[a.pool]))
          /\ UNCHANGED <<dfsOwner, poolLeft>>
       \/ a.outdated /\ a.op # "removePool" /\ Returns(c) /\ UNCHANGED <<poolDoc, lostVip, poolLeft>>
       \/ PoolFails(c) /\ UNCHANGED <<poolDoc, lostVip>>
    /\ UNCHANGED <<hostDoc, nodeVars, onHost, hostAlive, poolCache, syncing, halfDone>>

PutHost(c) ==
    LET a == admin[c] IN
    /\ a.at = "put" /\ a.op \in {"addHost", "updateHost"}
    /\ \/ hostDoc' = [hostDoc EXCEPT ![a.host] = a.pool] /\ PoolGoes(c, "zk") /\ UNCHANGED <<dfsOwner, poolLeft>>
       \/ PoolFails(c) /\ UNCHANGED hostDoc
    /\ UNCHANGED <<poolDoc, nodeVars, onHost, hostAlive, poolCache, syncing, lostVip, halfDone>>

\* The node of a pool is updated, or removed with all that is below it.
WritePoolNode(a) == IF a.op \in {"addHost", "updateHost"} THEN poolNode ELSE [poolNode EXCEPT ![a.pool] = NewVips(a)]
WriteHostNode(a) ==
    CASE a.op = "addHost" -> [hostNodes EXCEPT ![a.pool] = @ \cup {a.host}]
      [] a.op = "removePool" -> [hostNodes EXCEPT ![a.pool] = {}]
      [] OTHER -> hostNodes

\* The node is written after the document.  RemoveResourcePool marks the cache before, the
\* operations on a host whether the node could be written or not, the others at the very end;
\* UpdateHost only finds a node in the pool of the document.
WriteNode(c) ==
    LET a == admin[c] IN
    /\ a.at = "zk"
    /\ \/ /\ poolNode' = WritePoolNode(a) /\ hostNodes' = WriteHostNode(a)
          /\ IF a.op \in {"addVip", "removeVip"} THEN UNCHANGED poolCache ELSE Dirty
          /\ Returns(c) /\ UNCHANGED <<halfDone, poolLeft>>
       \/ /\ PoolFails(c) /\ UNCHANGED nodeVars
          /\ IF a.op \in {"removePool", "addHost", "updateHost"} THEN Dirty ELSE UNCHANGED poolCache
          /\ halfDone' = (halfDone \/ a.op \in {"addPool", "updatePool"})
    /\ UNCHANGED <<docVars, onHost, hostAlive, syncing, lostVip>>
-----------------------------------------------------------------------------
(* RemoveHost: the states on the host are told to stop and the agent has    *)
(* two minutes to remove them; then key and document go.                    *)
TellStates(c) ==
    /\ admin[c].at = "drain" /\ onHost[admin[c].host] = "runs"
    /\ onHost' = [onHost EXCEPT ![admin[c].host] = "told"]
    /\ UNCHANGED <<docVars, nodeVars, hostAlive, poolCache, admin, dfsOwner, syncing, lostVip, halfDone, poolLeft>>

AgentStops(h) ==
    /\ onHost[h] = "told" /\ h \in hostAlive
    /\ onHost' = [onHost EXCEPT ![h] = "none"]
    /\ UNCHANGED <<docVars, nodeVars, hostAlive, poolCache, admin, dfsOwner, syncing, lostVip, halfDone, poolLeft>>

\* The host has no state left and its node is removed, or the time is over and the node stays.
Drained(c) ==
    LET h == admin[c].host IN
    /\ admin[c].at = "drain"
    /\ \/ onHost[h] = "none" /\ hostNodes' = [hostNodes EXCEPT ![hostDoc[h]] = @ \ {h}]
       \/ onHost[h] = "told" /\ UNCHANGED hostNodes
    /\ PoolGoes(c, "delete")
    /\ UNCHANGED <<docVars, poolNode, onHost, hostAlive, poolCache, dfsOwner, syncing, lostVip, halfDone, poolLeft>>

DeleteHost(c) ==
    LET h == admin[c].host IN
    /\ admin[c].at = "delete"
    /\ \/ hostDoc' = [hostDoc EXCEPT ![h] = Nowhere] /\ PoolGoes(c, "reassign") /\ UNCHANGED <<dfsOwner, poolLeft>>
       \/ PoolFails(c) /\ UNCHANGED hostDoc
    /\ UNCHANGED <<poolDoc, nodeVars, onHost, hostAlive, poolCache, syncing, lostVip, halfDone>>

\* The services with an address of the host are looked up and moved to others; when the look
\* up fails the call returns without marking the cache.
Reassign(c) ==
    /\ admin[c].at = "reassign"
    /\ \/ Returns(c) /\ Dirty /\ UNCHANGED <<halfDone, poolLeft>>
       \/ PoolFails(c) /\ halfDone' = TRUE /\ UNCHANGED poolCache
    /\ UNCHANGED <<docVars, nodeVars, onHost, hostAlive, syncing, lostVip>>

AgentGone(h) ==
    /\ h \in hostAlive /\ SpendPool("failures")
    /\ hostAlive' = hostAlive \ {h}
    /\ UNCHANGED <<docVars, nodeVars, onHost, poolCache, admin, dfsOwner, syncing, lostVip, halfDone>>

RefillCache == poolCache' = [dirty |-> FALSE, pools |-> Listing]
\* GetReadPools: read again when marked.
GetReadPools ==
    /\ poolCache.dirty /\ RefillCache
    /\ UNCHANGED <<docVars, nodeVars, onHost, hostAlive, admin, dfsOwner, syncing, lostVip, halfDone, poolLeft>>
-----------------------------------------------------------------------------
(* The local sync: the pools are read under the DFS lock and written to the *)
(* coordinator, then the hosts of each pool.                                *)
ReleaseDFSLock == dfsOwner' = "nobody"
SyncResourcePools == poolNode' = syncing.pools
SyncReads ==
    /\ syncing.at = "rest" /\ dfsOwner = "nobody" /\ dfsOwner' = "sync"
    /\ syncing' = [at |-> "write", pools |-> poolDoc]
    /\ UNCHANGED <<docVars, nodeVars, onHost, hostAlive, poolCache, admin, lostVip, halfDone, poolLeft>>

SyncWritesPresent ==
    /\ syncing.at = "write"
    /\ poolNode' = [p \in PoolIds |-> IF syncing.pools[p] = NoPoolDoc THEN poolNode[p] ELSE syncing.pools[p]]
    /\ hostNodes' = [p \in PoolIds |-> hostNodes[p] \cup {h \in HostIds : hostDoc[h] = p}]
    /\ ReleaseDFSLock /\ syncing' = [at |-> "rest", pools |-> {}]
    /\ UNCHANGED <<docVars, onHost, hostAlive, poolCache, admin, lostVip, halfDone, poolLeft>>

SyncWrites ==
    /\ syncing.at = "write"
    /\ SyncResourcePools
    /\ hostNodes' = [p \in PoolIds |-> {h \in HostIds : hostDoc[h] = p}]
    /\ ReleaseDFSLock /\ syncing' = [at |-> "rest", pools |-> {}]
    /\ UNCHANGED <<docVars, onHost, hostAlive, poolCache, admin, lostVip, halfDone, poolLeft>>
-----------------------------------------------------------------------------
poolInit ==
    /\ poolDoc = [p \in PoolIds |-> {}] /\ poolNode = poolDoc
    /\ hostDoc = [h \in HostIds |-> DefaultPool]
    /\ hostNodes = [p \in PoolIds |-> IF p = DefaultPool THEN HostIds ELSE {}]
    /\ onHost = [h \in HostIds |-> "runs"] /\ hostAlive = HostIds
    /\ poolCache = [dirty |-> TRUE, pools |-> {}]
    /\ admin = [c \in Admins |-> PoolIdle] /\ dfsOwner = "nobody" /\ syncing = [at |-> "rest", pools |-> {}]
    /\ lostVip = FALSE /\ halfDone = FALSE
    /\ poolLeft = [ops |-> MaxPoolOps, failures |-> MaxPoolFailures]

CallStep(c) ==
    \/ TakeDFSLock(c) \/ CheckPool(c) \/ PutPool(c) \/ PutHost(c) \/ WriteNode(c)
    \/ TellStates(c) \/ Drained(c) \/ DeleteHost(c) \/ Reassign(c)
PoolSyncStep == SyncReads \/ SyncWrites
poolNext ==
    \/ \E c \in Admins : CallStep(c)
        \/ \E op \in PoolOps, p \in PoolIds, h \in HostIds, want \in {{v} : v \in VipIds} : Call(c, op, p, h, want)
    \/ GetReadPools \/ PoolSyncStep
    \/ \E h \in HostIds : AgentStops(h) \/ AgentGone(h)

poolFairness ==
    /\ SF_poolVars(PoolSyncStep)
    /\ \A c \in Admins : WF_poolVars(CallStep(c))
poolSpec == poolInit /\ [][poolNext]_poolVars /\ poolFairness
-----------------------------------------------------------------------------
\* A host never belongs to a pool that is gone, whichever of AddHost, UpdateHost and
\* RemoveResourcePool run at the same time.
HostsHavePools == \A h \in HostIds : hostDoc[h] # Nowhere => poolDoc[hostDoc[h]] # NoPoolDoc

\* The two unlocked operations on virtual ips and the locked ones never undo a change that
\* they have not seen: the version of the document stops the later one.
VipsNotLost == ~lostVip

\* The list of pools that GetReadPools serves is out of date only while an operation has
\* written a document and not yet returned, or after one that failed half way.
CacheFresh ==
    ~poolCache.dirty /\ poolCache.pools # Listing =>
        halfDone \/ \E c \in Admins : admin[c].at \in {"zk", "reassign"}

\* In the end the nodes are what the documents say, also for a host whose removal timed out
\* with its node still there, and for one that moved to another pool.
PoolNodesFollow ==
    <>[](poolNode = poolDoc /\ \A p \in PoolIds : hostNodes[p] = {h \in HostIds : hostDoc[h] = p})

\* What the documents of pools and hosts and the cache of pools keep to (facade/pool.go and
\* facade/host.go).
PoolsSound == HostsHavePools /\ VipsNotLost /\ CacheFresh

=============================================================================
