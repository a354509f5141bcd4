----------------------------- MODULE ServiceTree -----------------------------
(***************************************************************************)
(* The services of one tenant: their documents in the data store, their    *)
(* nodes in zookeeper, the tenant lock that orders the operations          *)
(* (facade/service.go, facade/lock.go), and the local synchronisation of   *)
(* the scheduler, which brings the nodes of every pool in line with the    *)
(* documents (scheduler/localsync.go, zzk/service/service.go).             *)
(*                                                                         *)
(* A node is a pair <<pool, service>>.  Adding and updating share the lock *)
(* of the tenant; removing, restoring and resetting own it.                *)
(***************************************************************************)
EXTENDS Naturals, FiniteSets

CONSTANTS
    TreeServices,
    ParentOf,        \* the parent of each service; the tenant has NoParent
    NoParent,
    Pools,
    FirstPool,       \* the pool the services are deployed to
    TreeClients,
    MaxTreeOps,      \* bound on requests
    MaxTreeFailures  \* bound on failed calls of the store and of zookeeper

ASSUME TreeAssumption ==
    /\ NoParent \notin TreeServices \cup TreeClients /\ FirstPool \in Pools
    /\ ParentOf \in [TreeServices -> TreeServices \cup {NoParent}]

NoServiceDoc == [pool |-> "none", ver |-> 0]
TreeIdle == [pc |-> "idle", op |-> "none", svc |-> NoParent, pool |-> "none", ver |-> 0, todo |-> {}]
SyncIdle == [pc |-> "idle", pool |-> "none", seen |-> {}, drop |-> {}, rest |-> {}]

VARIABLES
    store,      \* the document of each service
    nodes,      \* the service nodes
    treeLocked,     \* the nodes whose Locked flag is set
    treeReaders,    \* clients that share the tenant lock
    treeWriter,     \* the client that owns it, or NoParent
    client,     \* the request each client is in
    sync2,      \* the pass of the local synchronisation
    dfsLock,    \* the lock of the file system: "free", "sync" or "restore"
    leaked,     \* ResetLock has failed and kept the tenant lock
    treeLeft

treeVars == <<store, nodes, treeLocked, treeReaders, treeWriter, client, sync2, dfsLock, leaked, treeLeft>>

Stored == {s \in TreeServices : store[s] # NoServiceDoc}
Home(s) == <<store[s].pool, s>>
TreeFails == treeLeft.failures > 0 /\ treeLeft' = [treeLeft EXCEPT !.failures = @ - 1]
TreeGoto(c, pc) == client' = [client EXCEPT ![c].pc = pc]
FinishReader(c) == client' = [client EXCEPT ![c] = TreeIdle] /\ treeReaders' = treeReaders \ {c}

\* The clients' requests.  GetTenantID walks to the tenant before the lock is taken.
BeginTree(c, op, s, p) ==
    /\ client[c] = TreeIdle /\ treeLeft.ops > 0 /\ treeLeft' = [treeLeft EXCEPT !.ops = @ - 1]
    /\ CASE op = "add" -> ParentOf[s] = NoParent \/ ParentOf[s] \in Stored
         [] op = "update" -> s \in Stored
         [] op = "remove" -> s \in Stored /\ p = FirstPool
         [] op = "reset" -> s \in Stored /\ p = FirstPool /\ ParentOf[s] = NoParent
         [] OTHER -> ParentOf[s] = NoParent /\ p = FirstPool
    /\ client' = [client EXCEPT ![c] = [pc |-> "wait", op |-> op, svc |-> s, pool |-> p,
                                        ver |-> store[s].ver, todo |-> {}]]
    /\ UNCHANGED <<store, nodes, treeLocked, treeReaders, treeWriter, sync2, dfsLock, leaked>>

ShareLock(c) ==
    /\ client[c].pc = "wait" /\ client[c].op \in {"add", "update"}
    /\ treeWriter = NoParent /\ treeReaders' = treeReaders \cup {c}
    /\ TreeGoto(c, "check")
    /\ UNCHANGED <<store, nodes, treeLocked, treeWriter, sync2, dfsLock, leaked, treeLeft>>

\* validateServiceAdd and validateServiceUpdate read the store under the lock.
CheckTree(c, ok) ==
    /\ client[c].pc = "check"
    /\ IF ok THEN TreeGoto(c, "put") /\ UNCHANGED treeReaders ELSE FinishReader(c)
    /\ UNCHANGED <<store, nodes, treeLocked, treeWriter, sync2, dfsLock, leaked, treeLeft>>

ValidateAdd(c) ==
    /\ client[c].op = "add"
    /\ LET s == client[c].svc IN
       CheckTree(c, s \notin Stored /\ (ParentOf[s] = NoParent \/ ParentOf[s] \in Stored))

ValidateUpdate(c) ==
    /\ client[c].op = "update"
    /\ CheckTree(c, client[c].svc \in Stored)

\* The document in the data store.
PutService(s, d) == store' = [store EXCEPT ![s] = d]
\* The lock flags of nodes, set or cleared in one transaction.
LockNodesOf(ns) == treeLocked' = treeLocked \cup ns
UnlockNodesOf(ns) == treeLocked' = treeLocked \ ns

\* A new document has no version to check: Put creates it, or overwrites the one that
\* another client has created since the check.
PutNew(c) ==
    /\ client[c].pc = "put" /\ client[c].op = "add"
    /\ \/ /\ PutService(client[c].svc, [pool |-> client[c].pool, ver |-> store[client[c].svc].ver + 1])
          /\ TreeGoto(c, "read") /\ UNCHANGED <<treeReaders, treeLeft>>
       \/ TreeFails /\ FinishReader(c) /\ UNCHANGED store
    /\ UNCHANGED <<nodes, treeLocked, treeWriter, sync2, dfsLock, leaked>>

\* The data store refuses a document that is older than the stored one.
Conflict(c) == store[client[c].svc].ver # client[c].ver

\* The pool in the client's record becomes the one that the service leaves.
PutDoc(c) ==
    /\ client[c].pc = "put" /\ client[c].op = "update"
    /\ LET s == client[c].svc IN
       \/ /\ ~Conflict(c)
          /\ PutService(s, [pool |-> client[c].pool, ver |-> store[s].ver + 1])
          /\ client' = [client EXCEPT ![c] = [@ EXCEPT !.pc = IF store[s].pool = client[c].pool THEN "read" ELSE "move", !.pool = store[s].pool]]
          /\ UNCHANGED <<treeReaders, treeLeft>>
       \/ /\ (Conflict(c) /\ UNCHANGED treeLeft) \/ (~Conflict(c) /\ TreeFails)
          /\ FinishReader(c) /\ UNCHANGED store
    /\ UNCHANGED <<nodes, treeLocked, treeWriter, sync2, dfsLock, leaked>>

\* The service leaves its pool.  When its node cannot be removed the old document,
\* with DesiredState Stop, is written there again.
MovePool(c) ==
    /\ client[c].pc = "move"
    /\ LET n == <<client[c].pool, client[c].svc>> IN
       \/ n \in nodes /\ nodes' = nodes \ {n} /\ UNCHANGED treeLeft
       \/ nodes' = nodes \cup {n} /\ ((n \notin nodes /\ UNCHANGED treeLeft) \/ (n \in nodes /\ TreeFails))
    /\ treeLocked' = treeLocked \ {<<client[c].pool, client[c].svc>>}
    /\ TreeGoto(c, "read")
    /\ UNCHANGED <<store, treeReaders, treeWriter, sync2, dfsLock, leaked>>

\* syncService reads the document again and then writes its node.
SyncRead(c) ==
    /\ client[c].pc = "read"
    /\ client' = [client EXCEPT ![c] = [@ EXCEPT !.pc = "write", !.pool = store[client[c].svc].pool]]
    /\ UNCHANGED <<store, nodes, treeLocked, treeReaders, treeWriter, sync2, dfsLock, leaked, treeLeft>>

\* UpdateServices creates the node, or overwrites it: either way with the lock flag of the call.
UpdateNode(n, setLock) ==
    /\ nodes' = nodes \cup {n}
    /\ treeLocked' = IF setLock THEN treeLocked \cup {n} ELSE treeLocked \ {n}

SyncWrite(c) ==
    /\ client[c].pc = "write"
    /\ \/ UpdateNode(<<client[c].pool, client[c].svc>>, FALSE) /\ UNCHANGED treeLeft
       \/ TreeFails /\ UNCHANGED <<nodes, treeLocked>>
    /\ FinishReader(c)
    /\ UNCHANGED <<store, treeWriter, sync2, dfsLock, leaked>>
-----------------------------------------------------------------------------
(* Operations that own the lock.                                            *)
OwnLock(c) ==
    /\ client[c].pc = "wait" /\ client[c].op \in {"remove", "restore", "reset"}
    /\ client[c].op = "restore" => dfsLock = "free"
    /\ treeWriter = NoParent /\ treeReaders = {} /\ treeWriter' = c
    /\ dfsLock' = IF client[c].op = "restore" THEN "restore" ELSE dfsLock
    /\ TreeGoto(c, IF client[c].op = "reset" THEN "reset" ELSE "lock")
    /\ UNCHANGED <<store, nodes, treeLocked, treeReaders, sync2, leaked, treeLeft>>

ReleaseTree(c) ==
    /\ treeWriter' = NoParent /\ client' = [client EXCEPT ![c] = TreeIdle]
    /\ dfsLock' = IF client[c].op = "restore" THEN "free" ELSE dfsLock

\* The services at and below s: those in every set that has s and the children of its members.
Below(s) ==
    {t \in TreeServices : \A S \in SUBSET TreeServices :
        s \in S /\ (\A u \in TreeServices : ParentOf[u] \in S => u \in S) => t \in S}

\* lockTenant locks the nodes of all stored services in one transaction, or gives up.
LockServices(c) ==
    /\ client[c].pc = "lock"
    /\ LET all == {Home(s) : s \in Stored} IN
       \/ /\ all \subseteq nodes /\ LockNodesOf(all)
          /\ client' = [client EXCEPT ![c] = [@ EXCEPT !.pc = "walk", !.todo = Below(client[c].svc) \cap Stored]]
          /\ UNCHANGED <<treeWriter, dfsLock, treeLeft>>
       \/ /\ (TreeFails \/ (~(all \subseteq nodes) /\ UNCHANGED treeLeft))
          /\ ReleaseTree(c) /\ UNCHANGED treeLocked
    /\ UNCHANGED <<store, nodes, treeReaders, sync2, leaked>>

Leaves(todo) == {s \in todo : \A t \in todo : ParentOf[t] # s}

\* removeService visits the children before their parent: the node goes, then the document.
RemoveNode(c, s) ==
    /\ client[c].pc = "walk" /\ s \in Leaves(client[c].todo)
    /\ \/ /\ Home(s) \in nodes /\ nodes' = nodes \ {Home(s)} /\ treeLocked' = treeLocked \ {Home(s)}
          /\ client' = [client EXCEPT ![c] = [@ EXCEPT !.pc = "delete", !.svc = s]] /\ UNCHANGED treeLeft
       \/ /\ (TreeFails \/ (Home(s) \notin nodes /\ UNCHANGED treeLeft))
          /\ TreeGoto(c, "unlock") /\ UNCHANGED <<nodes, treeLocked>>
    /\ UNCHANGED <<store, treeReaders, treeWriter, sync2, dfsLock, leaked>>

DeleteDoc(c) ==
    /\ client[c].pc = "delete"
    /\ LET s == client[c].svc IN
       \/ /\ PutService(s, NoServiceDoc) /\ UNCHANGED treeLeft
          /\ client' = [client EXCEPT ![c] = [@ EXCEPT !.pc = "walk", !.todo = client[c].todo \ {s}]]
       \/ TreeFails /\ TreeGoto(c, "unlock") /\ UNCHANGED store
    /\ UNCHANGED <<nodes, treeLocked, treeReaders, treeWriter, sync2, dfsLock, leaked>>

\* The walk has ended: a restore now adds the services of the snapshot.
WalkEnds(c) ==
    /\ client[c].pc = "walk" /\ client[c].todo = {}
    /\ client' = [client EXCEPT ![c] = IF client[c].op = "restore" THEN [@ EXCEPT !.pc = "add", !.todo = TreeServices]
                                      ELSE [@ EXCEPT !.pc = "unlock", !.todo = {}]]
    /\ UNCHANGED <<store, nodes, treeLocked, treeReaders, treeWriter, sync2, dfsLock, leaked, treeLeft>>

RestoreOneUnlocked(c, s) ==
    /\ client[c].pc = "add" /\ s \in client[c].todo /\ ParentOf[s] \notin client[c].todo
    /\ \/ /\ PutService(s, [pool |-> client[c].pool, ver |-> 1])
          /\ \/ /\ UpdateNode(<<client[c].pool, s>>, FALSE) /\ UNCHANGED treeLeft
                /\ client' = [client EXCEPT ![c].todo = @ \ {s}]
             \/ TreeFails /\ TreeGoto(c, "unlock") /\ UNCHANGED <<nodes, treeLocked>>
       \/ TreeFails /\ TreeGoto(c, "unlock") /\ UNCHANGED <<store, nodes, treeLocked>>
    /\ UNCHANGED <<treeReaders, treeWriter, sync2, dfsLock, leaked>>

\* RestoreServices goes from the parent to its children; the new nodes are locked.
RestoreOne(c, s) ==
    /\ client[c].pc = "add" /\ s \in client[c].todo /\ ParentOf[s] \notin client[c].todo
    /\ \/ /\ PutService(s, [pool |-> client[c].pool, ver |-> 1])
          /\ \/ /\ UpdateNode(<<client[c].pool, s>>, TRUE) /\ UNCHANGED treeLeft
                /\ client' = [client EXCEPT ![c].todo = @ \ {s}]
             \/ TreeFails /\ TreeGoto(c, "unlock") /\ UNCHANGED <<nodes, treeLocked>>
       \/ TreeFails /\ TreeGoto(c, "unlock") /\ UNCHANGED <<store, nodes, treeLocked>>
    /\ UNCHANGED <<treeReaders, treeWriter, sync2, dfsLock, leaked>>

RestoreEnds(c) ==
    /\ client[c].pc = "add" /\ client[c].todo = {}
    /\ TreeGoto(c, "unlock")
    /\ UNCHANGED <<store, nodes, treeLocked, treeReaders, treeWriter, sync2, dfsLock, leaked, treeLeft>>

\* unlockTenant, until it succeeds (retryUnlockTenant).
UnlockTree(c) ==
    /\ client[c].pc = "unlock"
    /\ \/ UnlockNodesOf({Home(s) : s \in Stored}) /\ ReleaseTree(c) /\ UNCHANGED treeLeft
       \/ TreeFails /\ UNCHANGED <<treeLocked, treeWriter, client, dfsLock>>
    /\ UNCHANGED <<store, nodes, treeReaders, sync2, leaked>>

\* ResetLock calls unlockTenant once, and keeps the lock when that fails.
ResetLock(c) ==
    /\ client[c].pc = "reset"
    /\ client' = [client EXCEPT ![c] = TreeIdle]
    /\ \/ UnlockNodesOf({Home(s) : s \in Stored}) /\ treeWriter' = NoParent /\ UNCHANGED <<leaked, treeLeft>>
       \/ TreeFails /\ leaked' = TRUE /\ UNCHANGED <<treeLocked, treeWriter>>
    /\ UNCHANGED <<store, nodes, treeReaders, sync2, dfsLock>>
-----------------------------------------------------------------------------
(* Local synchronisation: pool by pool, the documents are read, then the    *)
(* children; the documents are written and the other children deleted.      *)
InPool(p) == {s \in Stored : store[s].pool = p}

SyncBegin ==
    /\ sync2.pc = "idle" /\ dfsLock = "free" /\ dfsLock' = "sync"
    /\ sync2' = [SyncIdle EXCEPT !.pc = "docs", !.rest = Pools]
    /\ UNCHANGED <<store, nodes, treeLocked, treeReaders, treeWriter, client, leaked, treeLeft>>

NextOf(S) == CHOOSE x \in S : TRUE

SyncDocs ==
    /\ sync2.pc = "docs"
    /\ LET p == NextOf(sync2.rest) IN
       sync2' = [sync2 EXCEPT !.pc = "children", !.pool = p, !.seen = InPool(p), !.rest = @ \ {p}]
    /\ UNCHANGED <<store, nodes, treeLocked, treeReaders, treeWriter, client, dfsLock, leaked, treeLeft>>

SyncChildren ==
    /\ sync2.pc = "children"
    /\ sync2' = [sync2 EXCEPT !.pc = "nodes", !.drop = {n \in nodes : n[1] = sync2.pool /\ n[2] \notin sync2.seen}]
    /\ UNCHANGED <<store, nodes, treeLocked, treeReaders, treeWriter, client, dfsLock, leaked, treeLeft>>

SyncUpdate ==
    /\ sync2.pc = "nodes" /\ sync2.seen # {}
    /\ UpdateNode(<<sync2.pool, NextOf(sync2.seen)>>, FALSE)
    /\ sync2' = [sync2 EXCEPT !.seen = @ \ {NextOf(sync2.seen)}]
    /\ UNCHANGED <<store, treeReaders, treeWriter, client, dfsLock, leaked, treeLeft>>

\* A node that someone else has deleted by now is an error, and ends the pass.
SyncDelete(n) ==
    /\ sync2.pc = "nodes" /\ sync2.seen = {} /\ n \in sync2.drop
    /\ nodes' = nodes \ {n} /\ treeLocked' = treeLocked \ {n}
    /\ IF n \in nodes THEN sync2' = [sync2 EXCEPT !.drop = @ \ {n}] /\ UNCHANGED dfsLock
                       ELSE sync2' = SyncIdle /\ dfsLock' = "free"
    /\ UNCHANGED <<store, treeReaders, treeWriter, client, leaked, treeLeft>>

\* The pool is done; after the last one, or an error, the pass ends and another follows.
SyncPoolDone ==
    /\ sync2.pc = "nodes" /\ sync2.seen = {} /\ sync2.drop = {}
    /\ IF sync2.rest = {} THEN sync2' = SyncIdle /\ dfsLock' = "free"
                          ELSE sync2' = [sync2 EXCEPT !.pc = "docs"] /\ UNCHANGED dfsLock
    /\ UNCHANGED <<store, nodes, treeLocked, treeReaders, treeWriter, client, leaked, treeLeft>>

SyncFails ==
    /\ sync2.pc \in {"docs", "nodes"} /\ TreeFails
    /\ sync2' = SyncIdle /\ dfsLock' = "free"
    /\ UNCHANGED <<store, nodes, treeLocked, treeReaders, treeWriter, client, leaked>>

ClientStep(c) ==
    \/ ShareLock(c) \/ ValidateAdd(c) \/ ValidateUpdate(c) \/ PutNew(c) \/ PutDoc(c) \/ MovePool(c) \/ SyncRead(c) \/ SyncWrite(c)
    \/ OwnLock(c) \/ LockServices(c) \/ DeleteDoc(c) \/ WalkEnds(c) \/ RestoreEnds(c) \/ UnlockTree(c) \/ ResetLock(c)
    \/ \E s \in TreeServices : RemoveNode(c, s) \/ RestoreOne(c, s)
TreeSyncStep ==
    \/ SyncBegin \/ SyncDocs \/ SyncChildren \/ SyncUpdate \/ SyncPoolDone \/ SyncFails
    \/ \E n \in sync2.drop : SyncDelete(n)

treeInit ==
    /\ store = [s \in TreeServices |-> [pool |-> FirstPool, ver |-> 1]]
    /\ nodes = {FirstPool} \X TreeServices /\ treeLocked = {}
    /\ treeReaders = {} /\ treeWriter = NoParent /\ client = [c \in TreeClients |-> TreeIdle]
    /\ sync2 = SyncIdle /\ dfsLock = "free" /\ leaked = FALSE
    /\ treeLeft = [ops |-> MaxTreeOps, failures |-> MaxTreeFailures]

treeNext ==
    \/ \E c \in TreeClients : ClientStep(c)
    \/ \E c \in TreeClients, s \in TreeServices, p \in Pools : \E op \in {"add", "update", "remove", "restore", "reset"} : BeginTree(c, op, s, p)
    \/ TreeSyncStep

treeFairness ==
    /\ \A c \in TreeClients : WF_treeVars(ClientStep(c)) /\ SF_treeVars(OwnLock(c))
    /\ WF_treeVars(TreeSyncStep)
treeSpec == treeInit /\ [][treeNext]_treeVars /\ treeFairness
-----------------------------------------------------------------------------
\* A stored service has a stored parent: no order of adding, moving, removing and
\* restoring, and no failure half way, leaves a service without the tree above it.
NoServiceWithoutParent ==
    \A s \in Stored : ParentOf[s] # NoParent => ParentOf[s] \in Stored

\* While a restore owns the tenant the scheduler may not start what it has restored:
\* the nodes it has written stay locked until it unlocks them.
RestoredStaysLocked ==
    \A c \in TreeClients : client[c].op = "restore" /\ client[c].pc = "add" =>
        \A s \in Stored \ client[c].todo : Home(s) \in treeLocked

\* Whatever was lost, raced or failed: once the requests end the synchronisation makes the
\* nodes of every pool those of the documents, and they stay so.
NodesFollowDocs == <>[](nodes = {Home(s) : s \in Stored})

\* Every request ends, unless ResetLock has kept the tenant lock.
RequestsEnd == \A c \in TreeClients : []<>(client[c] = TreeIdle \/ leaked)

\* What Elastic and ZooKeeper hold of a tree of services, through adds, moves, removals and
\* restores (Facade.AddService, RemoveService, RestoreServices).
TreeSound == NoServiceWithoutParent /\ RestoredStaysLocked

=============================================================================
