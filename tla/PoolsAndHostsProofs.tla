-------------------------- MODULE PoolsAndHostsProofs --------------------------
(***************************************************************************)
(* For every set of pools, hosts, virtual ips and callers: the documents   *)
(* and the cache of pools are what PoolsSound says.                        *)
(*                                                                         *)
(* An operation that locks holds the lock from its checks to its last      *)
(* write (LocksHeld), so what it has asked for still holds when it writes  *)
(* (RequestOK).  The two that do not lock know the version of the document *)
(* or know that it has changed.  A list of pools that is out of date will  *)
(* be marked by somebody (CacheMarked).                                    *)
(*                                                                         *)
(* For every tree of services and set of clients: no stored service is     *)
(* without its parent, and what a restore has written stays locked.  The   *)
(* lock of the tenant is shared or owned (HasLocks, LocksApart), so what   *)
(* a client has found out is true until it has acted on it (RequestKept).  *)
(*                                                                         *)
(* For every set of callers, exports, virtual hosts and browsers: the      *)
(* master is reached as AccessSound says.  Its parts share no variable, so *)
(* each has its invariant.  TokenInv speaks of the key that is being read. *)
(* The pool of connections keeps apart what is idle, what is lent and what *)
(* has left it: ConnInv says where each connection is, and CallerStep what *)
(* a step of one caller may do to the connections of the others.           *)
(* ThreadInv says what the thread of a port knows of its port; VHostInv    *)
(* only adds types.  AccessInv says what of a call may be on the wire, and *)
(* that an answer fits the call; that every call has its method in a       *)
(* server is read off the tables (CallsAreKnown).                          *)
(*                                                                         *)
(* The front ends before all this: FeInv says that what is ahead of a      *)
(* command is as PlansAssumption has it of whole plans.  Its new key is    *)
(* handed on by a call that will be made; no lookup is behind a change.    *)
(***************************************************************************)
EXTENDS PoolsAndHosts, ServiceTree, RpcAccess, FrontEnds, WellFoundedInduction,
        SequenceTheorems, FiniteSetTheorems, TLAPS

Operations == {"addPool", "removePool", "updatePool", "addVip", "removeVip", "addHost", "updateHost", "removeHost"}
Documents == (SUBSET VipIds) \cup {NoPoolDoc}
Requests == [op : Operations \cup {"none"}, at : {"", "lock", "check", "put", "zk", "drain", "delete", "reassign"},
             pool : PoolIds, host : HostIds, seen : Documents, want : SUBSET VipIds, outdated : BOOLEAN]
Caches == [dirty : BOOLEAN, pools : SUBSET (PoolIds \X SUBSET HostIds)]

\* The documents, the requests and the cache have their types.
PoolTypeOK ==
    /\ poolDoc \in [PoolIds -> Documents] /\ hostDoc \in [HostIds -> PoolIds \cup {Nowhere}]
    /\ admin \in [Admins -> Requests] /\ poolCache \in Caches

\* A request is where its operation leads, knows the document of its pool or that the
\* document has changed, and what it has asked for before a write still holds.
RequestOK(k) ==
    /\ k.op = "none" <=> k.at = ""
    /\ k.at \in {"put", "zk"} => k.op # "removeHost"
    /\ k.at \in {"drain", "delete", "reassign"} => k.op = "removeHost"
    /\ k.op # "none" /\ ~k.outdated => k.seen = poolDoc[k.pool]
    /\ k.at = "put" /\ k.op \in {"addVip", "removeVip"} => k.seen # NoPoolDoc
    /\ k.at = "put" /\ k.op \in {"addHost", "updateHost"} => HasDoc(k.pool)
    /\ k.at = "put" /\ k.op = "removePool" => \A h \in HostIds : hostDoc[h] # k.pool

\* Who holds the lock of the file system.
Holding(k) == Locks(k.op) /\ k.at \notin {"", "lock"}
LocksHeld ==
    /\ \A c \in Admins : Holding(admin[c]) => dfsOwner = c
    /\ syncing.at = "write" => dfsOwner = "sync"

\* A cache that is out of date is marked when a request that has written comes to its end.
Marking(k) == (k.at = "zk" /\ k.op \notin {"addVip", "removeVip"}) \/ k.at = "reassign"
CacheMarked == ~poolCache.dirty /\ poolCache.pools # Listing => halfDone \/ \E c \in Admins : Marking(admin[c])

PoolInv ==
    /\ PoolTypeOK /\ (\A c \in Admins : RequestOK(admin[c])) /\ LocksHeld
    /\ HostsHavePools /\ VipsNotLost /\ CacheMarked

-----------------------------------------------------------------------------

\* No document is none of the documents, and no pool is called nowhere.
LEMMA Names ==
    /\ NoPoolDoc \notin SUBSET VipIds /\ NoPoolDoc \in Documents /\ SUBSET VipIds \subseteq Documents
    /\ Nowhere \notin PoolIds /\ DefaultPool \in PoolIds
    /\ \A c \in Admins : c # "nobody" /\ c # "sync"
    /\ (CHOOSE h \in HostIds : TRUE) \in HostIds
  <1>1. NoPoolDoc \notin SUBSET VipIds
    BY PoolsAssumption DEF NoPoolDoc
  <1>2. NoPoolDoc \in Documents /\ SUBSET VipIds \subseteq Documents
    BY DEF Documents
  <1>3. Nowhere \notin PoolIds /\ DefaultPool \in PoolIds
    BY PoolsAssumption DEF Nowhere
  <1>4. \A c \in Admins : c # "nobody" /\ c # "sync"
    BY PoolsAssumption
  <1>5. (CHOOSE h \in HostIds : TRUE) \in HostIds
    BY PoolsAssumption
  <1>6. QED
    BY <1>1, <1>2, <1>3, <1>4, <1>5

\* A caller that asks for nothing.
LEMMA Idle ==
    /\ PoolIdle \in Requests /\ PoolIdle.op = "none" /\ PoolIdle.at = "" /\ RequestOK(PoolIdle)
    /\ ~Holding(PoolIdle)
  <1>1. PoolIdle \in Requests /\ PoolIdle.op = "none" /\ PoolIdle.at = ""
    BY Names DEF PoolIdle, Requests
  <1>2. QED
    BY <1>1 DEF RequestOK, Holding

\* What a request writes for a pool that it does not remove is a document.
LEMMA Written ==
    ASSUME NEW k \in Requests, RequestOK(k), k.at = "put", k.op \in Operations \ {"addHost", "updateHost", "removePool"}
    PROVE  NewVips(k) \in SUBSET VipIds
  <1>1. k.want \in SUBSET VipIds /\ k.seen \in Documents
    BY DEF Requests
  <1>2. k.op # "removeHost" /\ (k.op \in {"addVip", "removeVip"} => k.seen # NoPoolDoc)
    BY DEF RequestOK
  <1>3. k.op \in {"addVip", "removeVip"} => k.seen \in SUBSET VipIds
    BY <1>1, <1>2 DEF Documents
  <1>4. k.op \in {"addPool", "updatePool", "addVip", "removeVip"}
    BY <1>2 DEF Operations
  <1>5. CASE k.op = "addPool"
    BY <1>5 DEF NewVips
  <1>6. CASE k.op = "updatePool"
    BY <1>1, <1>6 DEF NewVips
  <1>7. CASE k.op = "addVip"
    BY <1>1, <1>3, <1>7 DEF NewVips
  <1>8. CASE k.op = "removeVip"
    BY <1>1, <1>3, <1>8 DEF NewVips
  <1>9. QED
    BY <1>4, <1>5, <1>6, <1>7, <1>8

\* A step that leaves the documents leaves the list of pools.
LEMMA SameListing ==
    ASSUME UNCHANGED docVars
    PROVE  Listing' = Listing /\ (HostsHavePools => HostsHavePools')
  BY DEF docVars, Listing, HostsHavePools

\* The cache once it is marked, and the list that it is filled with.
LEMMA Marked ==
    ASSUME poolCache \in Caches
    PROVE  (Dirty => poolCache' \in Caches /\ poolCache'.dirty) /\ Listing \in SUBSET (PoolIds \X SUBSET HostIds)
  <1>1. Dirty => poolCache' \in Caches /\ poolCache'.dirty
    BY DEF Dirty, Caches
  <1>2. Listing \in SUBSET (PoolIds \X SUBSET HostIds)
    BY DEF Listing
  <1>3. QED
    BY <1>1, <1>2

\* A step of one request that leaves the documents.
LEMMA RequestKeeps ==
    ASSUME PoolInv, NEW c \in Admins, NEW k \in Requests, admin' = [admin EXCEPT ![c] = k],
           UNCHANGED docVars, UNCHANGED <<syncing, lostVip>>, RequestOK(k), Holding(k) => dfsOwner' = c,
           \/ dfsOwner' = dfsOwner
           \/ dfsOwner = "nobody" /\ dfsOwner' = c
           \/ dfsOwner = c /\ dfsOwner' = "nobody" /\ ~Holding(k),
           Dirty \/ UNCHANGED poolCache, halfDone => halfDone', Marking(admin[c]) => Marking(k) \/ halfDone' \/ Dirty
    PROVE  PoolInv'
  <1>0. poolCache' \in Caches /\ (Dirty => poolCache'.dirty)
    BY Marked DEF PoolInv, PoolTypeOK
  <1>1. PoolTypeOK' /\ admin'[c] = k /\ \A d \in Admins \ {c} : admin'[d] = admin[d]
    BY <1>0 DEF PoolInv, PoolTypeOK, docVars
  <1>2. ASSUME NEW d \in Admins PROVE RequestOK(admin[d])'
    <2>1. RequestOK(admin'[d])
      BY <1>1 DEF PoolInv
    <2>2. QED
      BY <2>1 DEF docVars, RequestOK, HasDoc
  <1>3. LocksHeld'
    BY <1>1, Names DEF PoolInv, LocksHeld
  <1>4. HostsHavePools' /\ VipsNotLost'
    BY SameListing DEF PoolInv, VipsNotLost
  <1>5. CacheMarked'
    <2>1. SUFFICES ASSUME ~poolCache'.dirty, poolCache'.pools # Listing', ~halfDone' PROVE \E d \in Admins : Marking(admin'[d])
      BY DEF CacheMarked
    <2>2. PICK d \in Admins : Marking(admin[d])
      BY <1>0, <2>1, SameListing DEF PoolInv, CacheMarked
    <2>3. QED
      BY <1>0, <1>1, <2>1, <2>2
  <1>6. QED
    BY <1>1, <1>2, <1>3, <1>4, <1>5 DEF PoolInv

\* A call that returns releases what it holds.
LEMMA ReturnKeeps ==
    ASSUME PoolInv, NEW c \in Admins, Returns(c), UNCHANGED docVars, UNCHANGED <<syncing, lostVip>>,
           Dirty \/ UNCHANGED poolCache, halfDone => halfDone', Marking(admin[c]) => halfDone' \/ Dirty
    PROVE  PoolInv'
  <1>1. admin' = [admin EXCEPT ![c] = PoolIdle] /\ (dfsOwner' = dfsOwner \/ (dfsOwner = c /\ dfsOwner' = "nobody"))
    BY DEF Returns
  <1>2. QED
    BY <1>1, Idle, RequestKeeps

\* A step that no request takes part in.
LEMMA OthersKeep ==
    ASSUME PoolInv, UNCHANGED docVars, UNCHANGED <<admin, lostVip>>,
           \/ UNCHANGED <<dfsOwner, syncing>>
           \/ dfsOwner = "nobody" /\ dfsOwner' = "sync" /\ syncing'.at = "write"
           \/ dfsOwner = "sync" /\ syncing'.at # "write",
           UNCHANGED poolCache \/ RefillCache, halfDone' = halfDone
    PROVE  PoolInv'
  <1>0. poolCache' \in Caches /\ (RefillCache => poolCache'.pools = Listing)
    <2>1. poolCache \in Caches /\ Listing \in SUBSET (PoolIds \X SUBSET HostIds)
      BY Marked DEF PoolInv, PoolTypeOK
    <2>2. ASSUME RefillCache PROVE poolCache' \in Caches /\ poolCache'.pools = Listing
      BY <2>1, <2>2 DEF RefillCache, Caches
    <2>3. QED
      BY <2>1, <2>2
  <1>1. PoolTypeOK' /\ HostsHavePools' /\ VipsNotLost' /\ Listing' = Listing
    BY <1>0, SameListing DEF PoolInv, PoolTypeOK, docVars, VipsNotLost
  <1>2. ASSUME NEW d \in Admins PROVE RequestOK(admin[d])'
    <2>1. RequestOK(admin[d])
      BY DEF PoolInv
    <2>2. QED
      BY <2>1 DEF docVars, RequestOK, HasDoc
  <1>3. LocksHeld'
    BY Names DEF PoolInv, LocksHeld
  <1>4. CacheMarked'
    BY <1>0, <1>1 DEF PoolInv, CacheMarked
  <1>5. QED
    BY <1>1, <1>2, <1>3, <1>4 DEF PoolInv

\* A caller begins an operation.
LEMMA CallKeeps ==
    ASSUME PoolInv, NEW c \in Admins, NEW op \in PoolOps, NEW p \in PoolIds, NEW h \in HostIds, NEW want \in SUBSET VipIds,
           Call(c, op, p, h, want)
    PROVE  PoolInv'
  <1> DEFINE k == [op |-> op, at |-> IF Locks(op) THEN "lock" ELSE "check", pool |-> p, host |-> h,
                   seen |-> poolDoc[p], want |-> want, outdated |-> FALSE]
  <1>1. op \in Operations /\ poolDoc[p] \in Documents
    BY PoolsAssumption DEF PoolInv, PoolTypeOK, Operations
  <1>2. k \in Requests /\ k.op = op /\ k.at \in {"lock", "check"} /\ k.seen = poolDoc[k.pool] /\ (k.at = "lock" <=> Locks(op))
    BY <1>1 DEF Requests
  <1>3. RequestOK(k) /\ ~Holding(k)
    BY <1>1, <1>2 DEF RequestOK, Holding, Operations
  <1>4. ~Marking(admin[c])
    BY Idle DEF Call, Marking
  <1>5. admin' = [admin EXCEPT ![c] = k] /\ UNCHANGED <<docVars, poolCache, dfsOwner, syncing, lostVip, halfDone>>
    BY DEF Call
  <1> HIDE DEF k
  <1>6. QED
    BY <1>2, <1>3, <1>4, <1>5, RequestKeeps

\* A request as it goes on: only where it is changes.
Goes(k, at) == [k EXCEPT !.at = at]

\* It is a request again, of the same kind and for the same pool.
LEMMA GoesFields ==
    ASSUME NEW k \in Requests, NEW at \in {"check", "drain", "delete", "reassign", "zk"}
    PROVE  /\ Goes(k, at) \in Requests /\ Goes(k, at).at = at /\ Goes(k, at).op = k.op /\ Goes(k, at).pool = k.pool
           /\ Goes(k, at).seen = k.seen /\ Goes(k, at).outdated = k.outdated
  BY DEF Requests, Goes

\* LockWithTimeout takes the lock, or the call returns.
LEMMA LockKeeps ==
    ASSUME PoolInv, NEW c \in Admins, TakeDFSLock(c)
    PROVE  PoolInv'
  <1> DEFINE a == admin[c]
  <1>1. a \in Requests /\ RequestOK(a) /\ a.at = "lock"
        /\ UNCHANGED <<docVars, poolCache, syncing, lostVip, halfDone>> /\ ~Marking(a)
    BY DEF PoolInv, PoolTypeOK, TakeDFSLock, Marking
  <1>2. CASE Returns(c)
    BY <1>1, <1>2, ReturnKeeps
  <1>3. CASE dfsOwner = "nobody" /\ dfsOwner' = c /\ PoolGoes(c, "check")
    <2> DEFINE k == Goes(a, "check")
    <2>1. admin' = [admin EXCEPT ![c] = k]
      BY <1>3 DEF PoolGoes, Goes, PoolInv, PoolTypeOK
    <2>2. k \in Requests /\ k.at = "check" /\ k.op = a.op /\ k.pool = a.pool /\ k.seen = a.seen /\ k.outdated = a.outdated
      BY <1>1, GoesFields
    <2> HIDE DEF k
    <2>3. RequestOK(k)
      BY <1>1, <2>2 DEF RequestOK
    <2>4. QED
      BY <1>1, <1>3, <2>1, <2>2, <2>3, RequestKeeps
  <1>4. QED
    BY <1>2, <1>3 DEF TakeDFSLock

\* The checks: what they have asked for holds.
LEMMA CheckKeeps ==
    ASSUME PoolInv, NEW c \in Admins, CheckPool(c)
    PROVE  PoolInv'
  <1> DEFINE a == admin[c]
  <1>1. a \in Requests /\ RequestOK(a) /\ a.at = "check" /\ UNCHANGED <<docVars, poolCache, syncing, lostVip, halfDone>>
        /\ ~Marking(a) /\ a.op # "none" /\ poolDoc[a.pool] \in Documents
    BY DEF PoolInv, PoolTypeOK, CheckPool, Marking, RequestOK, Requests
  <1>2. CASE Returns(c)
    BY <1>1, <1>2, ReturnKeeps
  <1>3. CASE ~Returns(c)
    <2> DEFINE k == [a EXCEPT !.at = IF a.op = "removeHost" THEN "drain" ELSE "put",
                              !.seen = IF a.op = "updatePool" THEN @ ELSE poolDoc[a.pool],
                              !.outdated = IF a.op = "updatePool" THEN @ ELSE FALSE]
    <2>1. GoAhead(a) /\ dfsOwner' = dfsOwner /\ admin' = [admin EXCEPT ![c] = k]
      BY <1>3 DEF CheckPool, PoolInv, PoolTypeOK
    <2>2. /\ k \in Requests /\ k.op = a.op /\ k.pool = a.pool
          /\ k.at = IF a.op = "removeHost" THEN "drain" ELSE "put"
          /\ k.seen = IF a.op = "updatePool" THEN a.seen ELSE poolDoc[a.pool]
          /\ k.outdated = IF a.op = "updatePool" THEN a.outdated ELSE FALSE
      BY <1>1 DEF Requests
    <2>3. /\ a.op \in {"addVip", "removeVip", "addHost", "updateHost"} => HasDoc(a.pool)
          /\ a.op = "removePool" => \A h \in HostIds : hostDoc[h] # a.pool
      BY <2>1 DEF GoAhead, AddResourcePool, RemoveResourcePool, UpdateResourcePool, AddVirtualIP,
         RemoveVirtualIP, AddHost,
                  UpdateHost, RemoveHost
    <2>4. RequestOK(k)
      BY <1>1, <2>2, <2>3 DEF RequestOK, HasDoc
    <2>5. Holding(k) => dfsOwner' = c
      BY <1>1, <2>1, <2>2 DEF Holding, PoolInv, LocksHeld
    <2> HIDE DEF k
    <2>6. QED
      BY <1>1, <2>1, <2>2, <2>4, <2>5, RequestKeeps
  <1>4. QED
    BY <1>2, <1>3

\* Every request that has looked at the pool learns that its document has changed.
Outdated(k, p) == IF k.op # "none" /\ k.pool = p THEN [k EXCEPT !.outdated = TRUE] ELSE k

\* That is all it changes of the request.
LEMMA OutdatedFields ==
    ASSUME NEW k \in Requests, NEW p
    PROVE  /\ Outdated(k, p) \in Requests /\ Outdated(k, p).op = k.op /\ Outdated(k, p).at = k.at
           /\ Outdated(k, p).pool = k.pool /\ Outdated(k, p).seen = k.seen
           /\ k.op # "none" /\ k.pool = p => Outdated(k, p).outdated
           /\ ~(k.op # "none" /\ k.pool = p) => Outdated(k, p).outdated = k.outdated
  BY DEF Requests, Outdated

\* A pool is written: whoever has read it learns of it, and nobody who relies on it is at a write.
LEMMA PoolWritten ==
    ASSUME PoolInv, NEW c \in Admins, admin[c].at = "put", admin[c].op \notin {"addHost", "updateHost"},
           ~admin[c].outdated \/ admin[c].op = "removePool",
           poolDoc' = [poolDoc EXCEPT ![admin[c].pool] = NewVips(admin[c])],
           admin' = [Outdate(admin[c].pool) EXCEPT ![c].at = "zk"],
           (admin[c].op = "removePool" \/ admin[c].seen = poolDoc[admin[c].pool]) => (lostVip' <=> lostVip),
           UNCHANGED <<dfsOwner, hostDoc, poolCache, syncing, halfDone>>
    PROVE  PoolInv'
  <1> DEFINE a == admin[c]
             p == a.pool
             k == Goes(Outdated(a, p), "zk")
  <1>1. a \in Requests /\ RequestOK(a) /\ a.at = "put" /\ a.op # "none" /\ p \in PoolIds
        /\ a.op \in {"addPool", "removePool", "updatePool", "addVip", "removeVip"}
    BY DEF PoolInv, PoolTypeOK, RequestOK, Requests, Operations
  <1>2. a.op # "removePool" => NewVips(a) \in SUBSET VipIds
    BY <1>1, Written DEF Operations
  <1>3. a.op = "removePool" => NewVips(a) = NoPoolDoc
    BY DEF NewVips
  <1>4. NewVips(a) \in Documents /\ (a.op # "removePool" => NewVips(a) # NoPoolDoc)
    BY <1>2, <1>3, Names
  <1>5. /\ k \in Requests /\ k.at = "zk" /\ k.op = a.op /\ k.outdated
        /\ \A d \in Admins \ {c} : Outdated(admin[d], p) \in Requests
    BY <1>1, OutdatedFields, GoesFields DEF PoolInv, PoolTypeOK
  <1>6. /\ admin'[c] = k /\ (\A d \in Admins \ {c} : admin'[d] = Outdated(admin[d], p)) /\ admin' \in [Admins -> Requests]
    <2>1. Outdate(p) = [d \in Admins |-> Outdated(admin[d], p)]
      BY DEF Outdate, Outdated
    <2>2. admin' = [d \in Admins |-> IF d = c THEN k ELSE Outdated(admin[d], p)]
      <3> DEFINE all == [d \in Admins |-> Outdated(admin[d], p)]
      <3>1. admin' = [all EXCEPT ![c] = Goes(all[c], "zk")]
        BY <2>1 DEF Goes
      <3>2. all[c] = Outdated(a, p)
        OBVIOUS
      <3>3. QED
        BY <3>1, <3>2
    <2>3. admin'[c] = k /\ \A d \in Admins \ {c} : admin'[d] = Outdated(admin[d], p)
      BY <2>2
    <2>4. \A d \in Admins : (IF d = c THEN k ELSE Outdated(admin[d], p)) \in Requests
      BY <1>5
    <2>5. QED
      BY <2>2, <2>3, <2>4
  <1>7. /\ poolDoc \in [PoolIds -> Documents] /\ poolDoc'[p] = NewVips(a) /\ (\A q \in PoolIds \ {p} : poolDoc'[q] = poolDoc[q])
        /\ poolDoc' \in [PoolIds -> Documents]
    BY <1>1, <1>4 DEF PoolInv, PoolTypeOK
  <1> HIDE DEF k
  <1>8. PoolTypeOK'
    BY <1>6, <1>7 DEF PoolInv, PoolTypeOK
  <1>9. ASSUME NEW d \in Admins PROVE RequestOK(admin[d])'
    <2>1. ASSUME d = c PROVE RequestOK(admin[d])'
      <3>1. admin'[d].op = a.op /\ admin'[d].at = "zk" /\ admin'[d].outdated
        BY <1>5, <1>6, <2>1
      <3>2. QED
        BY <1>1, <3>1 DEF RequestOK
    <2>2. ASSUME d # c PROVE RequestOK(admin[d])'
      <3> DEFINE b == admin[d]
                 l == Outdated(b, p)
      <3>1. b \in Requests /\ RequestOK(b) /\ b.pool \in PoolIds
        BY DEF PoolInv, PoolTypeOK, Requests
      <3>2. /\ admin'[d] = l /\ l.op = b.op /\ l.at = b.at /\ l.pool = b.pool /\ l.seen = b.seen
            /\ (b.op # "none" /\ b.pool = p => l.outdated) /\ (~(b.op # "none" /\ b.pool = p) => l.outdated = b.outdated)
        BY <1>6, <2>2, <3>1, OutdatedFields
      <3>3. b.op # "none" /\ ~l.outdated => b.seen = poolDoc'[b.pool]
        BY <1>7, <3>1, <3>2 DEF RequestOK
      <3>4. b.at = "put" /\ b.op \in {"addHost", "updateHost"} => poolDoc'[b.pool] # NoPoolDoc
        <4>1. b.at = "put" /\ b.op \in {"addHost", "updateHost"} => a.op # "removePool"
          BY <1>1, <2>2 DEF PoolInv, LocksHeld, Holding, Locks
        <4>2. QED
          BY <1>4, <1>7, <3>1, <4>1 DEF RequestOK, HasDoc
      <3> HIDE DEF l
      <3>5. QED
        BY <3>1, <3>2, <3>3, <3>4 DEF RequestOK, HasDoc
    <2>3. QED
      BY <2>1, <2>2
  <1>10. LocksHeld'
    <2>1. ASSUME NEW d \in Admins PROVE Holding(admin'[d]) => Holding(admin[d])
      <3>1. admin[d] \in Requests
        BY DEF PoolInv, PoolTypeOK
      <3>2. d # c => admin'[d].op = admin[d].op /\ admin'[d].at = admin[d].at
        BY <1>6, <3>1, OutdatedFields
      <3>3. d = c => admin'[d].op = a.op /\ a.at = "put"
        BY <1>1, <1>5, <1>6
      <3>4. QED
        BY <3>2, <3>3 DEF Holding
    <2>2. QED
      BY <2>1 DEF PoolInv, LocksHeld
  <1>11. HostsHavePools'
    BY <1>1, <1>4, <1>7 DEF PoolInv, PoolTypeOK, HostsHavePools, RequestOK
  <1>12. VipsNotLost'
    BY <1>1 DEF PoolInv, VipsNotLost, RequestOK
  <1>13. CacheMarked'
    <2>1. CASE a.op \notin {"addVip", "removeVip"}
      BY <1>5, <1>6, <2>1 DEF CacheMarked, Marking
    <2>2. CASE a.op \in {"addVip", "removeVip"}
      <3>1. \A q \in PoolIds : poolDoc'[q] # NoPoolDoc <=> poolDoc[q] # NoPoolDoc
        BY <1>1, <1>4, <1>7, <2>2 DEF RequestOK
      <3>2. Listing' = Listing
        BY <3>1 DEF Listing
      <3>3. \A d \in Admins : Marking(admin[d]) => Marking(admin'[d])
        BY <1>1, <1>6, OutdatedFields DEF PoolInv, PoolTypeOK, Marking
      <3>4. QED
        BY <3>2, <3>3 DEF PoolInv, CacheMarked
    <2>3. QED
      BY <2>1, <2>2
  <1>14. QED
    BY <1>8, <1>9, <1>10, <1>11, <1>12, <1>13 DEF PoolInv

\* A pool is written, or the call returns: the version is an old one, or the write has failed.
LEMMA PutPoolKeeps ==
    ASSUME PoolInv, NEW c \in Admins, PutPool(c)
    PROVE  PoolInv'
  <1> DEFINE a == admin[c]
  <1>1. a.at = "put" /\ a.op \notin {"addHost", "updateHost"} /\ UNCHANGED <<hostDoc, poolCache, syncing, halfDone>>
        /\ ~Marking(a)
    BY DEF PutPool, Marking
  <1>2. ASSUME ~a.outdated \/ a.op = "removePool",
               poolDoc' = [poolDoc EXCEPT ![a.pool] = NewVips(a)], admin' = [Outdate(a.pool) EXCEPT ![c].at = "zk"],
               lostVip' = (lostVip \/ (a.op # "removePool" /\ a.seen # poolDoc[a.pool])), UNCHANGED dfsOwner
        PROVE  PoolInv'
    <2>1. (a.op = "removePool" \/ a.seen = poolDoc[a.pool]) => (lostVip' <=> lostVip)
      BY <1>2
    <2>2. QED
      BY <1>1, <1>2, <2>1, PoolWritten
  <1>3. ASSUME Returns(c), UNCHANGED <<poolDoc, lostVip>> PROVE PoolInv'
    BY <1>1, <1>3, ReturnKeeps DEF docVars
  <1>4. QED
    BY <1>2, <1>3 DEF PutPool, PoolFails

\* The document of a host is written by one that holds the lock.
LEMMA HostWritten ==
    ASSUME PoolInv, NEW c \in Admins, Holding(admin[c]), NEW k \in Requests, admin' = [admin EXCEPT ![c] = k],
           k.at \in {"zk", "reassign"}, RequestOK(k), Marking(k),
           NEW h \in HostIds, NEW q \in PoolIds \cup {Nowhere}, q # Nowhere => HasDoc(q), hostDoc' = [hostDoc EXCEPT ![h] = q],
           UNCHANGED <<poolDoc, poolCache, dfsOwner, syncing, lostVip, halfDone>>
    PROVE  PoolInv'
  <1>1. PoolTypeOK' /\ admin'[c] = k /\ (\A d \in Admins \ {c} : admin'[d] = admin[d])
    BY DEF PoolInv, PoolTypeOK
  <1>2. hostDoc'[h] = q /\ \A g \in HostIds \ {h} : hostDoc'[g] = hostDoc[g]
    BY DEF PoolInv, PoolTypeOK
  <1>3. ASSUME NEW d \in Admins, d # c PROVE RequestOK(admin[d])'
    <2>1. admin'[d] = admin[d] /\ RequestOK(admin[d])
      BY <1>1, <1>3 DEF PoolInv
    <2>2. ~(admin[d].at = "put" /\ admin[d].op = "removePool")
      BY <1>3 DEF PoolInv, LocksHeld, Holding, Locks
    <2>3. QED
      BY <2>1, <2>2 DEF RequestOK, HasDoc
  <1>4. RequestOK(admin[c])'
    <2>1. RequestOK(admin'[c])
      BY <1>1
    <2>2. admin'[c].at # "put"
      BY <1>1
    <2>3. QED
      BY <2>1, <2>2 DEF RequestOK
  <1>5. LocksHeld'
    BY <1>1 DEF PoolInv, LocksHeld
  <1>6. HostsHavePools'
    BY <1>2 DEF PoolInv, HostsHavePools, HasDoc
  <1>7. VipsNotLost' /\ CacheMarked'
    BY <1>1 DEF PoolInv, VipsNotLost, CacheMarked
  <1>8. QED
    BY <1>1, <1>3, <1>4, <1>5, <1>6, <1>7 DEF PoolInv

\* AddHost and UpdateHost write the document of the host.
LEMMA PutHostKeeps ==
    ASSUME PoolInv, NEW c \in Admins, PutHost(c)
    PROVE  PoolInv'
  <1> DEFINE a == admin[c]
  <1>1. /\ a \in Requests /\ RequestOK(a) /\ a.at = "put" /\ a.op \in {"addHost", "updateHost"} /\ HasDoc(a.pool)
        /\ a.pool \in PoolIds /\ a.host \in HostIds /\ UNCHANGED <<poolDoc, poolCache, syncing, lostVip, halfDone>> /\ ~Marking(a)
    BY DEF PoolInv, PoolTypeOK, PutHost, RequestOK, Requests, Marking
  <1>2. ASSUME Returns(c), UNCHANGED hostDoc PROVE PoolInv'
    BY <1>1, <1>2, ReturnKeeps DEF docVars
  <1>3. ASSUME hostDoc' = [hostDoc EXCEPT ![a.host] = a.pool], PoolGoes(c, "zk"), UNCHANGED dfsOwner PROVE PoolInv'
    <2> DEFINE k == Goes(a, "zk")
    <2>1. admin' = [admin EXCEPT ![c] = k]
      BY <1>3 DEF PoolGoes, Goes, PoolInv, PoolTypeOK
    <2>2. k \in Requests /\ k.at = "zk" /\ k.op = a.op /\ k.pool = a.pool /\ k.seen = a.seen /\ k.outdated = a.outdated
      BY <1>1, GoesFields
    <2> HIDE DEF k
    <2>3. RequestOK(k) /\ Marking(k) /\ Holding(a)
      BY <1>1, <2>2 DEF RequestOK, Marking, Holding, Locks
    <2>4. QED
      BY <1>1, <1>3, <2>1, <2>2, <2>3, HostWritten
  <1>4. QED
    BY <1>2, <1>3 DEF PutHost, PoolFails

\* RemoveHost deletes the document of the host.
LEMMA DeleteHostKeeps ==
    ASSUME PoolInv, NEW c \in Admins, DeleteHost(c)
    PROVE  PoolInv'
  <1> DEFINE a == admin[c]
  <1>1. /\ a \in Requests /\ RequestOK(a) /\ a.at = "delete" /\ a.op = "removeHost"
        /\ a.host \in HostIds /\ UNCHANGED <<poolDoc, poolCache, syncing, lostVip, halfDone>> /\ ~Marking(a)
    BY DEF PoolInv, PoolTypeOK, DeleteHost, RequestOK, Requests, Marking
  <1>2. ASSUME Returns(c), UNCHANGED hostDoc PROVE PoolInv'
    BY <1>1, <1>2, ReturnKeeps DEF docVars
  <1>3. ASSUME hostDoc' = [hostDoc EXCEPT ![a.host] = Nowhere], PoolGoes(c, "reassign"), UNCHANGED dfsOwner PROVE PoolInv'
    <2> DEFINE k == Goes(a, "reassign")
    <2>1. admin' = [admin EXCEPT ![c] = k]
      BY <1>3 DEF PoolGoes, Goes, PoolInv, PoolTypeOK
    <2>2. k \in Requests /\ k.at = "reassign" /\ k.op = a.op /\ k.pool = a.pool /\ k.seen = a.seen /\ k.outdated = a.outdated
      BY <1>1, GoesFields
    <2> HIDE DEF k
    <2>3. RequestOK(k) /\ Marking(k) /\ Holding(a)
      BY <1>1, <2>2 DEF RequestOK, Marking, Holding, Locks
    <2>4. QED
      BY <1>1, <1>3, <2>1, <2>2, <2>3, HostWritten
  <1>4. QED
    BY <1>2, <1>3 DEF DeleteHost, PoolFails

\* The node is written, or not: in both cases the cache is marked or the failure is known.
LEMMA WriteNodeKeeps ==
    ASSUME PoolInv, NEW c \in Admins, WriteNode(c)
    PROVE  PoolInv'
  <1> DEFINE a == admin[c]
  <1>1. a \in Requests /\ RequestOK(a) /\ a.at = "zk" /\ Returns(c) /\ UNCHANGED docVars /\ UNCHANGED <<syncing, lostVip>>
    BY DEF PoolInv, PoolTypeOK, WriteNode, PoolFails
  <1>2. a.op \in Operations \ {"removeHost"}
    BY <1>1 DEF RequestOK, Requests
  <1>3. Dirty \/ UNCHANGED poolCache
    BY DEF WriteNode
  <1>4. (halfDone => halfDone') /\ (Marking(a) => halfDone' \/ Dirty)
    <2>1. CASE IF a.op \in {"addVip", "removeVip"} THEN UNCHANGED poolCache ELSE Dirty
      <3>1. Marking(a) => Dirty
        BY <1>1, <2>1 DEF Marking
      <3>2. halfDone => halfDone'
        BY DEF WriteNode
      <3>3. QED
        BY <3>1, <3>2
    <2>2. CASE /\ IF a.op \in {"removePool", "addHost", "updateHost"} THEN Dirty ELSE UNCHANGED poolCache
               /\ halfDone' = (halfDone \/ a.op \in {"addPool", "updatePool"})
      BY <1>1, <1>2, <2>2 DEF Marking, Operations
    <2>3. QED
      BY <2>1, <2>2 DEF WriteNode
  <1>5. QED
    BY <1>1, <1>3, <1>4, ReturnKeeps

\* The agent has had its time: the document of the host can go.
LEMMA DrainedKeeps ==
    ASSUME PoolInv, NEW c \in Admins, Drained(c)
    PROVE  PoolInv'
  <1> DEFINE a == admin[c]
             k == Goes(a, "delete")
  <1>1. a \in Requests /\ RequestOK(a) /\ a.at = "drain" /\ a.op = "removeHost" /\ ~Marking(a)
    BY DEF PoolInv, PoolTypeOK, Drained, RequestOK, Marking
  <1>2. admin' = [admin EXCEPT ![c] = k] /\ UNCHANGED docVars /\ UNCHANGED <<poolCache, dfsOwner, syncing, lostVip, halfDone>>
    BY DEF Drained, PoolGoes, Goes, PoolInv, PoolTypeOK
  <1>3. k \in Requests /\ k.at = "delete" /\ k.op = a.op /\ k.pool = a.pool /\ k.seen = a.seen /\ k.outdated = a.outdated
    BY <1>1, GoesFields
  <1> HIDE DEF k
  <1>4. RequestOK(k)
    BY <1>1, <1>3 DEF RequestOK
  <1>5. dfsOwner = c
    BY <1>1 DEF PoolInv, LocksHeld, Holding, Locks
  <1>6. QED
    BY <1>1, <1>2, <1>3, <1>4, <1>5, RequestKeeps

\* The services that had an address of the host have been moved, or have not been found.
LEMMA ReassignKeeps ==
    ASSUME PoolInv, NEW c \in Admins, Reassign(c)
    PROVE  PoolInv'
  <1>1. Returns(c) /\ UNCHANGED docVars /\ UNCHANGED <<syncing, lostVip>> /\ (Dirty \/ UNCHANGED poolCache)
        /\ (halfDone => halfDone') /\ (halfDone' \/ Dirty)
    BY DEF Reassign, PoolFails
  <1>2. QED
    BY <1>1, ReturnKeeps

\* The initial states.
LEMMA PoolInitOK == poolInit => PoolInv
  <1> SUFFICES ASSUME poolInit PROVE PoolInv
    OBVIOUS
  <1>1. PoolTypeOK
    <2>1. poolDoc \in [PoolIds -> Documents] /\ hostDoc \in [HostIds -> PoolIds \cup {Nowhere}] /\ admin \in [Admins -> Requests]
      BY Names, Idle DEF poolInit, Documents
    <2>2. poolCache \in Caches
      BY DEF poolInit, Caches
    <2>3. QED
      BY <2>1, <2>2 DEF PoolTypeOK
  <1>2. \A c \in Admins : admin[c] = PoolIdle
    BY DEF poolInit
  <1>3. \A c \in Admins : RequestOK(admin[c]) /\ ~Holding(admin[c])
    BY <1>2, Idle
  <1>4. LocksHeld
    BY <1>3 DEF LocksHeld, poolInit
  <1>5. HostsHavePools
    <2>1. {} # NoPoolDoc
      BY DEF NoPoolDoc
    <2>2. QED
      BY <2>1, Names DEF HostsHavePools, poolInit
  <1>6. VipsNotLost /\ CacheMarked
    BY DEF VipsNotLost, CacheMarked, poolInit
  <1>7. QED
    BY <1>1, <1>3, <1>4, <1>5, <1>6 DEF PoolInv

\* Every step.
LEMMA PoolStepKeeps == PoolInv /\ [poolNext]_poolVars => PoolInv'
  <1> SUFFICES ASSUME PoolInv, [poolNext]_poolVars PROVE PoolInv'
    OBVIOUS
  <1>1. ASSUME NEW c \in Admins, CallStep(c) PROVE PoolInv'
    <2>1. ASSUME TellStates(c) PROVE PoolInv'
      BY <2>1, OthersKeep DEF TellStates
    <2>2. QED
      BY <1>1, <2>1, LockKeeps, CheckKeeps, PutPoolKeeps, PutHostKeeps, WriteNodeKeeps, DrainedKeeps,
         DeleteHostKeeps,
         ReassignKeeps DEF CallStep
  <1>2. ASSUME NEW c \in Admins, NEW op \in PoolOps, NEW p \in PoolIds, NEW h \in HostIds, NEW want \in {{v} : v \in VipIds},
               Call(c, op, p, h, want)
        PROVE  PoolInv'
    <2>1. want \in SUBSET VipIds
      OBVIOUS
    <2>2. QED
      BY <1>2, <2>1, CallKeeps
  <1>3. ASSUME GetReadPools PROVE PoolInv'
    BY <1>3, OthersKeep DEF GetReadPools
  <1>4. ASSUME SyncReads PROVE PoolInv'
    BY <1>4, OthersKeep DEF SyncReads
  <1>5. ASSUME SyncWrites PROVE PoolInv'
    <2>1. dfsOwner = "sync" /\ syncing'.at = "rest"
      BY <1>5 DEF SyncWrites, PoolInv, LocksHeld
    <2>2. QED
      BY <1>5, <2>1, OthersKeep DEF SyncWrites
  <1>6. ASSUME NEW h \in HostIds, AgentStops(h) \/ AgentGone(h) PROVE PoolInv'
    BY <1>6, OthersKeep DEF AgentStops, AgentGone
  <1>7. ASSUME UNCHANGED poolVars PROVE PoolInv'
    BY <1>7, OthersKeep DEF poolVars, docVars
  <1>8. QED
    BY <1>1, <1>2, <1>3, <1>4, <1>5, <1>6, <1>7 DEF poolNext, PoolSyncStep

\* No host belongs to a pool that is gone, no change of a pool is undone by one that had not
\* seen it, and the list of pools is out of date only while a writer is under way.
THEOREM PoolsAreSound == poolSpec => []PoolsSound
  <1>1. PoolInv => PoolsSound
    <2>1. CacheMarked => CacheFresh
      BY DEF CacheMarked, CacheFresh, Marking
    <2>2. QED
      BY <2>1 DEF PoolInv, PoolsSound
  <1>2. QED
    BY <1>1, PoolInitOK, PoolStepKeeps, PTL DEF poolSpec

-----------------------------------------------------------------------------
(* The services of a tenant (facade/service.go, facade/lock.go).            *)

\* Where a client shares the lock of the tenant, and where it owns it.
Shared == {"check", "put", "move", "read", "write"}
Owned == {"lock", "walk", "delete", "add", "unlock", "reset"}

\* The places and the requests of clients, and the documents.
TreePlaces == Shared \cup Owned \cup {"idle", "wait"}
TreeRequests == [pc : TreePlaces, op : {"none", "add", "update", "remove", "restore", "reset"},
                 svc : TreeServices \cup {NoParent}, pool : Pools \cup {"none"}, ver : Nat, todo : SUBSET TreeServices]
ServiceDocs == [pool : Pools \cup {"none"}, ver : Nat]

\* What is kept of the types.
TreeTyped ==
    /\ store \in [TreeServices -> ServiceDocs]
    /\ client \in [TreeClients -> TreeRequests]
    /\ sync2 = [pc |-> sync2.pc, pool |-> sync2.pool, seen |-> sync2.seen, drop |-> sync2.drop, rest |-> sync2.rest]

\* A client has the locks of its place.
HasLocks(c) ==
    /\ client[c].pc \in Shared => c \in treeReaders /\ client[c].op \in {"add", "update"}
    /\ client[c].pc \in Owned => treeWriter = c /\ client[c].op \in {"remove", "restore", "reset"}
    /\ client[c].pc # "idle" => client[c].svc \in TreeServices
    /\ client[c].pc \in Owned /\ client[c].op = "restore" => dfsLock = "restore"
    /\ client[c].pc = "add" => client[c].op = "restore"

\* The lock of the tenant is shared or owned; the synchronisation runs under that of the file system.
LocksApart == (treeReaders # {} => treeWriter = NoParent) /\ (sync2.pc # "idle" => dfsLock = "sync")

\* The parent of s, if it shall have one, is stored.
ParentThere(s) == ParentOf[s] # NoParent => ParentOf[s] \in Stored

\* What a client has found out stays true until it has acted on it: the parent of what it adds,
\* the document it updates; a removal has before it whole trees, so that what goes next has no
\* child in the store, and a restore has put in everything that is not before it.
RequestKept(c) ==
    /\ client[c].pc = "put" /\ client[c].op = "add" => ParentThere(client[c].svc)
    /\ client[c].pc \in {"put", "move", "read", "write"} /\ client[c].op = "update" => client[c].svc \in Stored
    /\ client[c].pc \in {"walk", "delete"} =>
        client[c].todo \subseteq Stored /\ \A s \in client[c].todo : \A t \in Stored : ParentOf[t] = s => t \in client[c].todo
    /\ client[c].pc = "delete" => client[c].svc \in client[c].todo /\ \A t \in client[c].todo : ParentOf[t] # client[c].svc
    /\ client[c].pc = "add" => TreeServices \ client[c].todo \subseteq Stored

TreeInv ==
    /\ TreeTyped /\ LocksApart /\ NoServiceWithoutParent /\ RestoredStaysLocked
    /\ \A c \in TreeClients : HasLocks(c) /\ RequestKept(c)

\* The record of one client changes.
LEMMA ClientMoves ==
    ASSUME TreeTyped, NEW c \in TreeClients, NEW v \in TreeRequests, client' = [client EXCEPT ![c] = v]
    PROVE  client' \in [TreeClients -> TreeRequests] /\ client'[c] = v /\ \A d \in TreeClients \ {c} : client'[d] = client[d]
  BY DEF TreeTyped

\* A client goes on to another place.
LEMMA ClientGoes ==
    ASSUME TreeTyped, NEW c \in TreeClients, NEW pc \in TreePlaces, TreeGoto(c, pc)
    PROVE  /\ client' \in [TreeClients -> TreeRequests] /\ client'[c].pc = pc /\ client'[c].op = client[c].op /\ client'[c].svc = client[c].svc
           /\ client'[c].todo = client[c].todo /\ client'[c].pool = client[c].pool /\ client'[c].ver = client[c].ver
           /\ \A d \in TreeClients \ {c} : client'[d] = client[d]
  BY DEF TreeTyped, TreeGoto, TreeRequests

\* The record of a client that has ended.
LEMMA IdleTyped == TreeIdle \in TreeRequests
  BY DEF TreeIdle, TreeRequests, TreePlaces

\* A document is written.
LEMMA DocWritten ==
    ASSUME TreeTyped, NEW s \in TreeServices, NEW d \in ServiceDocs, PutService(s, d)
    PROVE  /\ store' \in [TreeServices -> ServiceDocs] /\ store'[s] = d /\ \A t \in TreeServices \ {s} : store'[t] = store[t]
           /\ d.ver # 0 => Stored' = Stored \cup {s}
           /\ d = NoServiceDoc => Stored' = Stored \ {s}
  <1>1. store' = [store EXCEPT ![s] = d]
    BY DEF PutService
  <1>2. d.ver # 0 => d # NoServiceDoc
    BY DEF NoServiceDoc
  <1> QED
    BY <1>1, <1>2 DEF TreeTyped, Stored

\* A step of the synchronisation: while it runs nobody restores.
LEMMA SyncMoves ==
    ASSUME TreeInv, UNCHANGED <<store, client, treeReaders, treeWriter>>,
           sync2' = [pc |-> sync2'.pc, pool |-> sync2'.pool, seen |-> sync2'.seen, drop |-> sync2'.drop, rest |-> sync2'.rest],
           sync2.pc # "idle" \/ (dfsLock = "free" /\ UNCHANGED treeLocked), sync2'.pc # "idle" => dfsLock' = "sync"
    PROVE  TreeInv'
  <1>1. Stored' = Stored /\ \A c \in TreeClients : client[c].op = "restore" => client[c].pc \notin Owned
    BY DEF TreeInv, LocksApart, HasLocks, Stored
  <1>2. TreeTyped' /\ LocksApart' /\ NoServiceWithoutParent'
    BY <1>1 DEF TreeInv, TreeTyped, LocksApart, NoServiceWithoutParent
  <1>3. \A c \in TreeClients : HasLocks(c)' /\ RequestKept(c)'
    BY <1>1 DEF TreeInv, HasLocks, RequestKept, ParentThere
  <1>4. RestoredStaysLocked'
    BY <1>1 DEF RestoredStaysLocked, Owned
  <1>5. QED
    BY <1>2, <1>3, <1>4 DEF TreeInv

\* The children of a service below s are below s.
LEMMA ChildrenBelow ==
    ASSUME NEW s, NEW t \in Below(s), NEW u \in TreeServices, ParentOf[u] = t
    PROVE  u \in Below(s)
  BY DEF Below

\* A client shares the lock.
LEMMA ShareLockKeeps ==
    ASSUME TreeInv, NEW c \in TreeClients, ShareLock(c)
    PROVE  TreeInv'
  <1>1. TreeTyped'
    BY ClientGoes DEF TreeInv, ShareLock, TreeTyped, TreePlaces, Shared, Owned
  <1>2. LocksApart'
    BY TreeAssumption DEF TreeInv, ShareLock, TreeTyped, TreeRequests, TreePlaces, ServiceDocs, Shared,
       Owned,LocksApart, HasLocks, TreeIdle, TreeGoto, FinishReader, ReleaseTree, CheckTree, SyncIdle
  <1>3. (\A d \in TreeClients : HasLocks(d))'
    BY TreeAssumption DEF TreeInv, ShareLock, TreeTyped, TreeRequests, TreePlaces, ServiceDocs, Shared, Owned,
       LocksApart, HasLocks, TreeIdle, TreeGoto, FinishReader, ReleaseTree, CheckTree, SyncIdle
  <1>4. NoServiceWithoutParent'
    BY TreeAssumption DEF TreeInv, ShareLock, NoServiceWithoutParent, Stored, PutService, HasLocks, TreeTyped,
       RequestKept, ParentThere, CheckTree, NoServiceDoc, Shared, Owned, LocksApart
  <1>5. RestoredStaysLocked'
    BY TreeAssumption DEF TreeInv, ShareLock, RestoredStaysLocked, Stored, Home, TreeGoto, FinishReader,
       ReleaseTree, CheckTree, PutService, UpdateNode, LockNodesOf, UnlockNodesOf, HasLocks, LocksApart,
       Shared, Owned, TreeTyped, TreeIdle, NoServiceDoc, TreeRequests, TreePlaces, ServiceDocs
  <1>6. (\A d \in TreeClients : RequestKept(d))'
    BY TreeAssumption DEF TreeInv, ShareLock, RequestKept, ParentThere, Stored, TreeGoto, FinishReader,
       ReleaseTree, CheckTree, PutService, HasLocks, LocksApart, Shared, Owned, TreeTyped, TreeIdle,
       NoServiceDoc, TreeRequests, TreePlaces, ServiceDocs
  <1>7. QED
    BY <1>1, <1>2, <1>3, <1>4, <1>5, <1>6 DEF TreeInv

\* The check of a new service: its parent is stored, and nobody can remove it while the lock is shared.
LEMMA ValidateAddKeeps ==
    ASSUME TreeInv, NEW c \in TreeClients, ValidateAdd(c)
    PROVE  TreeInv'
  <1>1. /\ client[c] \in TreeRequests /\ client[c].pc = "check" /\ client[c].op = "add" /\ client[c].svc \in TreeServices
        /\ UNCHANGED <<store, nodes, treeLocked, treeWriter, sync2, dfsLock>>
    BY DEF TreeInv, TreeTyped, ValidateAdd, CheckTree, HasLocks
  <1>2. CASE TreeGoto(c, "put") /\ UNCHANGED treeReaders /\ ParentThere(client[c].svc)
    <2>1. /\ client' \in [TreeClients -> TreeRequests] /\ client'[c].pc = "put" /\ client'[c].op = client[c].op /\ client'[c].svc = client[c].svc
          /\ client'[c].todo = client[c].todo /\ \A d \in TreeClients \ {c} : client'[d] = client[d]
      BY <1>2, ClientGoes DEF TreeInv, TreePlaces, Shared
    <2>2. TreeTyped' /\ Stored' = Stored
      BY <1>1, <2>1 DEF TreeInv, TreeTyped, Stored
    <2>3. LocksApart'
      BY <1>1, <1>2, <2>1, <2>2, TreeAssumption DEF TreeInv, TreeTyped, TreeRequests, TreePlaces, LocksApart
    <2>4. (\A d \in TreeClients : HasLocks(d))'
      BY <1>1, <1>2, <2>1, <2>2, TreeAssumption DEF TreeInv, TreeTyped, TreeRequests, TreePlaces, HasLocks,
         Shared, Owned, LocksApart
    <2>5. NoServiceWithoutParent'
      BY <1>1, <1>2, <2>1, <2>2, TreeAssumption DEF TreeInv, TreeTyped, TreeRequests, TreePlaces,
         NoServiceWithoutParent, ParentThere, RequestKept, HasLocks, Shared, Owned, LocksApart
    <2>6. RestoredStaysLocked'
      BY <1>1, <1>2, <2>1, <2>2, TreeAssumption DEF TreeInv, TreeTyped, TreeRequests, TreePlaces,
         RestoredStaysLocked, Home, HasLocks, LocksApart, Shared, Owned
    <2>7. (\A d \in TreeClients : RequestKept(d))'
      BY <1>1, <1>2, <2>1, <2>2, TreeAssumption DEF TreeInv, TreeTyped, TreeRequests, TreePlaces, RequestKept,
         ParentThere, HasLocks, LocksApart, Shared, Owned
    <2>8. QED
      BY <2>2, <2>3, <2>4, <2>5, <2>6, <2>7 DEF TreeInv
  <1>3. CASE FinishReader(c)
    <2>1. client' \in [TreeClients -> TreeRequests] /\ client'[c] = TreeIdle /\ \A d \in TreeClients \ {c} : client'[d] = client[d]
      BY <1>3, IdleTyped, ClientMoves DEF TreeInv, FinishReader
    <2>2. treeReaders' = treeReaders \ {c} /\ TreeIdle.pc = "idle" /\ TreeIdle.op = "none"
      BY <1>3 DEF FinishReader, TreeIdle
    <2>3. TreeTyped' /\ Stored' = Stored
      BY <1>1, <1>3, <2>1 DEF TreeInv, TreeTyped, Stored
    <2>4. LocksApart'
      BY <1>1, <1>3, <2>1, <2>2, <2>3, TreeAssumption DEF TreeInv, TreeTyped, TreeRequests, TreePlaces,
         LocksApart
    <2>5. (\A d \in TreeClients : HasLocks(d))'
      BY <1>1, <1>3, <2>1, <2>2, <2>3, TreeAssumption DEF TreeInv, TreeTyped, TreeRequests, TreePlaces,
         HasLocks, Shared, Owned, LocksApart
    <2>6. NoServiceWithoutParent'
      BY <1>1, <1>3, <2>1, <2>2, <2>3, TreeAssumption DEF TreeInv, TreeTyped, TreeRequests, TreePlaces,
         NoServiceWithoutParent, ParentThere, RequestKept, HasLocks, Shared, Owned, LocksApart
    <2>7. RestoredStaysLocked'
      BY <1>1, <1>3, <2>1, <2>2, <2>3, TreeAssumption DEF TreeInv, TreeTyped, TreeRequests, TreePlaces,
         RestoredStaysLocked, Home, HasLocks, LocksApart, Shared, Owned
    <2>8. (\A d \in TreeClients : RequestKept(d))'
      BY <1>1, <1>3, <2>1, <2>2, <2>3, TreeAssumption DEF TreeInv, TreeTyped, TreeRequests, TreePlaces,
         RequestKept, ParentThere, HasLocks, LocksApart, Shared, Owned
    <2>9. QED
      BY <2>3, <2>4, <2>5, <2>6, <2>7, <2>8 DEF TreeInv
  <1>4. QED
    BY <1>2, <1>3, Zenon DEF ValidateAdd, CheckTree, ParentThere

\* The check of a changed service.
LEMMA ValidateUpdateKeeps ==
    ASSUME TreeInv, NEW c \in TreeClients, ValidateUpdate(c)
    PROVE  TreeInv'
  <1>1. /\ client[c] \in TreeRequests /\ client[c].pc = "check" /\ client[c].op = "update" /\ client[c].svc \in TreeServices
        /\ UNCHANGED <<store, nodes, treeLocked, treeWriter, sync2, dfsLock>>
    BY DEF TreeInv, TreeTyped, ValidateUpdate, CheckTree, HasLocks
  <1>2. CASE TreeGoto(c, "put") /\ UNCHANGED treeReaders /\ client[c].svc \in Stored
    <2>1. /\ client' \in [TreeClients -> TreeRequests] /\ client'[c].pc = "put" /\ client'[c].op = client[c].op /\ client'[c].svc = client[c].svc
          /\ client'[c].todo = client[c].todo /\ \A d \in TreeClients \ {c} : client'[d] = client[d]
      BY <1>2, ClientGoes DEF TreeInv, TreePlaces, Shared
    <2>2. TreeTyped' /\ Stored' = Stored
      BY <1>1, <2>1 DEF TreeInv, TreeTyped, Stored
    <2>3. LocksApart'
      BY <1>1, <1>2, <2>1, <2>2, TreeAssumption DEF TreeInv, TreeTyped, TreeRequests, TreePlaces, LocksApart
    <2>4. (\A d \in TreeClients : HasLocks(d))'
      BY <1>1, <1>2, <2>1, <2>2, TreeAssumption DEF TreeInv, TreeTyped, TreeRequests, TreePlaces, HasLocks,
         Shared, Owned, LocksApart
    <2>5. NoServiceWithoutParent'
      BY <1>1, <1>2, <2>1, <2>2, TreeAssumption DEF TreeInv, TreeTyped, TreeRequests, TreePlaces,
         NoServiceWithoutParent, ParentThere, RequestKept, HasLocks, Shared, Owned, LocksApart
    <2>6. RestoredStaysLocked'
      BY <1>1, <1>2, <2>1, <2>2, TreeAssumption DEF TreeInv, TreeTyped, TreeRequests, TreePlaces,
         RestoredStaysLocked, Home, HasLocks, LocksApart, Shared, Owned
    <2>7. (\A d \in TreeClients : RequestKept(d))'
      BY <1>1, <1>2, <2>1, <2>2, TreeAssumption DEF TreeInv, TreeTyped, TreeRequests, TreePlaces, RequestKept,
         ParentThere, HasLocks, LocksApart, Shared, Owned
    <2>8. QED
      BY <2>2, <2>3, <2>4, <2>5, <2>6, <2>7 DEF TreeInv
  <1>3. CASE FinishReader(c)
    <2>1. client' \in [TreeClients -> TreeRequests] /\ client'[c] = TreeIdle /\ \A d \in TreeClients \ {c} : client'[d] = client[d]
      BY <1>3, IdleTyped, ClientMoves DEF TreeInv, FinishReader
    <2>2. treeReaders' = treeReaders \ {c} /\ TreeIdle.pc = "idle" /\ TreeIdle.op = "none"
      BY <1>3 DEF FinishReader, TreeIdle
    <2>3. TreeTyped' /\ Stored' = Stored
      BY <1>1, <1>3, <2>1 DEF TreeInv, TreeTyped, Stored
    <2>4. LocksApart'
      BY <1>1, <1>3, <2>1, <2>2, <2>3, TreeAssumption DEF TreeInv, TreeTyped, TreeRequests, TreePlaces,
         LocksApart
    <2>5. (\A d \in TreeClients : HasLocks(d))'
      BY <1>1, <1>3, <2>1, <2>2, <2>3, TreeAssumption DEF TreeInv, TreeTyped, TreeRequests, TreePlaces,
         HasLocks, Shared, Owned, LocksApart
    <2>6. NoServiceWithoutParent'
      BY <1>1, <1>3, <2>1, <2>2, <2>3, TreeAssumption DEF TreeInv, TreeTyped, TreeRequests, TreePlaces,
         NoServiceWithoutParent, ParentThere, RequestKept, HasLocks, Shared, Owned, LocksApart
    <2>7. RestoredStaysLocked'
      BY <1>1, <1>3, <2>1, <2>2, <2>3, TreeAssumption DEF TreeInv, TreeTyped, TreeRequests, TreePlaces,
         RestoredStaysLocked, Home, HasLocks, LocksApart, Shared, Owned
    <2>8. (\A d \in TreeClients : RequestKept(d))'
      BY <1>1, <1>3, <2>1, <2>2, <2>3, TreeAssumption DEF TreeInv, TreeTyped, TreeRequests, TreePlaces,
         RequestKept, ParentThere, HasLocks, LocksApart, Shared, Owned
    <2>9. QED
      BY <2>3, <2>4, <2>5, <2>6, <2>7, <2>8 DEF TreeInv
  <1>4. QED
    BY <1>2, <1>3, Zenon DEF ValidateUpdate, CheckTree, ParentThere

\* A new document is written under its parent.
LEMMA PutNewKeeps ==
    ASSUME TreeInv, NEW c \in TreeClients, PutNew(c)
    PROVE  TreeInv'
  <1>1. /\ client[c] \in TreeRequests /\ client[c].pc = "put" /\ client[c].op = "add" /\ client[c].svc \in TreeServices
        /\ UNCHANGED <<nodes, treeLocked, treeWriter, sync2, dfsLock>>
    BY DEF TreeInv, TreeTyped, PutNew, HasLocks
  <1>2. store[client[c].svc] \in ServiceDocs /\ client[c].pool \in Pools \cup {"none"}
    BY <1>1 DEF TreeInv, TreeTyped, TreeRequests
  <1> DEFINE r == [pool |-> client[c].pool, ver |-> store[client[c].svc].ver + 1]
  <1>3. CASE PutService(client[c].svc, r) /\ TreeGoto(c, "read") /\ UNCHANGED treeReaders
    <2>1. r \in ServiceDocs /\ r.ver # 0
      BY <1>2 DEF ServiceDocs
    <2> HIDE DEF r
    <2>2. /\ store' \in [TreeServices -> ServiceDocs] /\ (\A t \in TreeServices \ {client[c].svc} : store'[t] = store[t])
          /\ Stored' = Stored \cup {client[c].svc}
      BY <1>1, <1>3, <2>1, DocWritten DEF TreeInv
    <2>3. /\ client' \in [TreeClients -> TreeRequests] /\ client'[c].pc = "read" /\ client'[c].op = client[c].op /\ client'[c].svc = client[c].svc
          /\ client'[c].todo = client[c].todo /\ \A d \in TreeClients \ {c} : client'[d] = client[d]
      BY <1>3, ClientGoes DEF TreeInv, TreePlaces, Shared
    <2>4. TreeTyped'
      BY <1>1, <2>2, <2>3 DEF TreeInv, TreeTyped
    <2>5. LocksApart'
      BY <1>1, <1>3, <2>2, <2>3, <2>4, TreeAssumption DEF TreeInv, TreeTyped, TreeRequests, TreePlaces,
         LocksApart
    <2>6. (\A d \in TreeClients : HasLocks(d))'
      BY <1>1, <1>3, <2>2, <2>3, <2>4, TreeAssumption DEF TreeInv, TreeTyped, TreeRequests, TreePlaces,
         HasLocks, Shared, Owned, LocksApart
    <2>7. NoServiceWithoutParent'
      BY <1>1, <1>3, <2>2, <2>3, <2>4, TreeAssumption DEF TreeInv, TreeTyped, TreeRequests, TreePlaces,
         NoServiceWithoutParent, ParentThere, RequestKept, HasLocks, Shared, Owned, LocksApart
    <2>8. RestoredStaysLocked'
      BY <1>1, <1>3, <2>2, <2>3, <2>4, TreeAssumption DEF TreeInv, TreeTyped, TreeRequests, TreePlaces,
         RestoredStaysLocked, Home, HasLocks, LocksApart, Shared, Owned
    <2>9. (\A d \in TreeClients : RequestKept(d))'
      BY <1>1, <1>3, <2>2, <2>3, <2>4, TreeAssumption DEF TreeInv, TreeTyped, TreeRequests, TreePlaces,
         RequestKept, ParentThere, HasLocks, LocksApart, Shared, Owned
    <2>10. QED
      BY <2>4, <2>5, <2>6, <2>7, <2>8, <2>9 DEF TreeInv
  <1>4. CASE FinishReader(c) /\ UNCHANGED store
    <2>1. client' \in [TreeClients -> TreeRequests] /\ client'[c] = TreeIdle /\ \A d \in TreeClients \ {c} : client'[d] = client[d]
      BY <1>4, IdleTyped, ClientMoves DEF TreeInv, FinishReader
    <2>2. treeReaders' = treeReaders \ {c} /\ TreeIdle.pc = "idle" /\ TreeIdle.op = "none"
      BY <1>4 DEF FinishReader, TreeIdle
    <2>3. TreeTyped' /\ Stored' = Stored
      BY <1>1, <1>4, <2>1 DEF TreeInv, TreeTyped, Stored
    <2>4. LocksApart'
      BY <1>1, <1>4, <2>1, <2>2, <2>3, TreeAssumption DEF TreeInv, TreeTyped, TreeRequests, TreePlaces,
         LocksApart
    <2>5. (\A d \in TreeClients : HasLocks(d))'
      BY <1>1, <1>4, <2>1, <2>2, <2>3, TreeAssumption DEF TreeInv, TreeTyped, TreeRequests, TreePlaces,
         HasLocks, Shared, Owned, LocksApart
    <2>6. NoServiceWithoutParent'
      BY <1>1, <1>4, <2>1, <2>2, <2>3, TreeAssumption DEF TreeInv, TreeTyped, TreeRequests, TreePlaces,
         NoServiceWithoutParent, ParentThere, RequestKept, HasLocks, Shared, Owned, LocksApart
    <2>7. RestoredStaysLocked'
      BY <1>1, <1>4, <2>1, <2>2, <2>3, TreeAssumption DEF TreeInv, TreeTyped, TreeRequests, TreePlaces,
         RestoredStaysLocked, Home, HasLocks, LocksApart, Shared, Owned
    <2>8. (\A d \in TreeClients : RequestKept(d))'
      BY <1>1, <1>4, <2>1, <2>2, <2>3, TreeAssumption DEF TreeInv, TreeTyped, TreeRequests, TreePlaces,
         RequestKept, ParentThere, HasLocks, LocksApart, Shared, Owned
    <2>9. QED
      BY <2>3, <2>4, <2>5, <2>6, <2>7, <2>8 DEF TreeInv
  <1>5. QED
    BY <1>3, <1>4 DEF PutNew

\* A changed document is written, unless its version is old.
LEMMA PutDocKeeps ==
    ASSUME TreeInv, NEW c \in TreeClients, PutDoc(c)
    PROVE  TreeInv'
  <1>1. /\ client[c] \in TreeRequests /\ client[c].pc = "put" /\ client[c].op = "update" /\ client[c].svc \in TreeServices
        /\ UNCHANGED <<nodes, treeLocked, treeWriter, sync2, dfsLock>>
    BY DEF TreeInv, TreeTyped, PutDoc, HasLocks
  <1>2. store[client[c].svc] \in ServiceDocs /\ client[c].pool \in Pools \cup {"none"}
    BY <1>1 DEF TreeInv, TreeTyped, TreeRequests
  <1> DEFINE r == [pool |-> client[c].pool, ver |-> store[client[c].svc].ver + 1]
             v == [client[c] EXCEPT !.pc = IF store[client[c].svc].pool = client[c].pool THEN "read" ELSE "move", !.pool = store[client[c].svc].pool]
  <1>3. CASE PutService(client[c].svc, r) /\ client' = [client EXCEPT ![c] = v] /\ UNCHANGED treeReaders
    <2>1. r \in ServiceDocs /\ r.ver # 0
      BY <1>2 DEF ServiceDocs
    <2>2. v \in TreeRequests /\ v.pc \in {"read", "move"} /\ v.op = client[c].op /\ v.svc = client[c].svc /\ v.todo = client[c].todo
      BY <1>1, <1>2 DEF TreeRequests, TreePlaces, Shared, ServiceDocs
    <2> HIDE DEF r, v
    <2>3. /\ store' \in [TreeServices -> ServiceDocs] /\ (\A t \in TreeServices \ {client[c].svc} : store'[t] = store[t])
          /\ Stored' = Stored \cup {client[c].svc}
      BY <1>1, <1>3, <2>1, DocWritten DEF TreeInv
    <2>4. client[c].svc \in Stored
      BY <1>1 DEF TreeInv, RequestKept
    <2>5. client' \in [TreeClients -> TreeRequests] /\ client'[c] = v /\ \A d \in TreeClients \ {c} : client'[d] = client[d]
      BY <1>3, <2>2, ClientMoves DEF TreeInv
    <2>6. TreeTyped' /\ Stored' = Stored
      BY <1>1, <2>3, <2>4, <2>5 DEF TreeInv, TreeTyped
    <2>7. LocksApart'
      BY <1>1, <1>3, <2>2, <2>3, <2>4, <2>5, <2>6, TreeAssumption DEF TreeInv, TreeTyped, TreeRequests,
         TreePlaces, LocksApart
    <2>8. (\A d \in TreeClients : HasLocks(d))'
      BY <1>1, <1>3, <2>2, <2>3, <2>4, <2>5, <2>6, TreeAssumption DEF TreeInv, TreeTyped, TreeRequests,
         TreePlaces, HasLocks, Shared, Owned, LocksApart
    <2>9. NoServiceWithoutParent'
      BY <1>1, <1>3, <2>2, <2>3, <2>4, <2>5, <2>6, TreeAssumption DEF TreeInv, TreeTyped, TreeRequests,
         TreePlaces, NoServiceWithoutParent, ParentThere, RequestKept, HasLocks, Shared, Owned, LocksApart
    <2>10. RestoredStaysLocked'
      BY <1>1, <1>3, <2>2, <2>3, <2>4, <2>5, <2>6, TreeAssumption DEF TreeInv, TreeTyped, TreeRequests,
         TreePlaces, RestoredStaysLocked, Home, HasLocks, LocksApart, Shared, Owned
    <2>11. (\A d \in TreeClients : RequestKept(d))'
      BY <1>1, <1>3, <2>2, <2>3, <2>4, <2>5, <2>6, TreeAssumption DEF TreeInv, TreeTyped, TreeRequests,
         TreePlaces, RequestKept, ParentThere, HasLocks, LocksApart, Shared, Owned
    <2>12. QED
      BY <2>6, <2>7, <2>8, <2>9, <2>10, <2>11 DEF TreeInv
  <1>4. CASE FinishReader(c) /\ UNCHANGED store
    <2>1. client' \in [TreeClients -> TreeRequests] /\ client'[c] = TreeIdle /\ \A d \in TreeClients \ {c} : client'[d] = client[d]
      BY <1>4, IdleTyped, ClientMoves DEF TreeInv, FinishReader
    <2>2. treeReaders' = treeReaders \ {c} /\ TreeIdle.pc = "idle" /\ TreeIdle.op = "none"
      BY <1>4 DEF FinishReader, TreeIdle
    <2>3. TreeTyped' /\ Stored' = Stored
      BY <1>1, <1>4, <2>1 DEF TreeInv, TreeTyped, Stored
    <2>4. LocksApart'
      BY <1>1, <1>4, <2>1, <2>2, <2>3, TreeAssumption DEF TreeInv, TreeTyped, TreeRequests, TreePlaces,
         LocksApart
    <2>5. (\A d \in TreeClients : HasLocks(d))'
      BY <1>1, <1>4, <2>1, <2>2, <2>3, TreeAssumption DEF TreeInv, TreeTyped, TreeRequests, TreePlaces,
         HasLocks, Shared, Owned, LocksApart
    <2>6. NoServiceWithoutParent'
      BY <1>1, <1>4, <2>1, <2>2, <2>3, TreeAssumption DEF TreeInv, TreeTyped, TreeRequests, TreePlaces,
         NoServiceWithoutParent, ParentThere, RequestKept, HasLocks, Shared, Owned, LocksApart
    <2>7. RestoredStaysLocked'
      BY <1>1, <1>4, <2>1, <2>2, <2>3, TreeAssumption DEF TreeInv, TreeTyped, TreeRequests, TreePlaces,
         RestoredStaysLocked, Home, HasLocks, LocksApart, Shared, Owned
    <2>8. (\A d \in TreeClients : RequestKept(d))'
      BY <1>1, <1>4, <2>1, <2>2, <2>3, TreeAssumption DEF TreeInv, TreeTyped, TreeRequests, TreePlaces,
         RequestKept, ParentThere, HasLocks, LocksApart, Shared, Owned
    <2>9. QED
      BY <2>3, <2>4, <2>5, <2>6, <2>7, <2>8 DEF TreeInv
  <1>5. QED
    BY <1>3, <1>4, Zenon DEF PutDoc

\* The node of a service that moves to another pool.
LEMMA MovePoolKeeps ==
    ASSUME TreeInv, NEW c \in TreeClients, MovePool(c)
    PROVE  TreeInv'
  <1>1. TreeTyped'
    BY ClientGoes DEF TreeInv, MovePool, TreeTyped, TreePlaces, Shared, Owned
  <1>2. LocksApart'
    BY TreeAssumption DEF TreeInv, MovePool, TreeTyped, TreeRequests, TreePlaces, ServiceDocs, Shared,
       Owned,LocksApart, HasLocks, TreeIdle, TreeGoto, FinishReader, ReleaseTree, CheckTree, SyncIdle
  <1>3. (\A d \in TreeClients : HasLocks(d))'
    BY TreeAssumption DEF TreeInv, MovePool, TreeTyped, TreeRequests, TreePlaces, ServiceDocs, Shared, Owned,
       LocksApart, HasLocks, TreeIdle, TreeGoto, FinishReader, ReleaseTree, CheckTree, SyncIdle
  <1>4. NoServiceWithoutParent'
    BY TreeAssumption DEF TreeInv, MovePool, NoServiceWithoutParent, Stored, PutService, HasLocks, TreeTyped,
       RequestKept, ParentThere, CheckTree, NoServiceDoc, Shared, Owned, LocksApart
  <1>5. RestoredStaysLocked'
    BY TreeAssumption DEF TreeInv, MovePool, RestoredStaysLocked, Stored, Home, TreeGoto, FinishReader,
       ReleaseTree, CheckTree, PutService, UpdateNode, LockNodesOf, UnlockNodesOf, HasLocks, LocksApart,
       Shared, Owned, TreeTyped, TreeIdle, NoServiceDoc, TreeRequests, TreePlaces, ServiceDocs
  <1>6. (\A d \in TreeClients : RequestKept(d))'
    BY TreeAssumption DEF TreeInv, MovePool, RequestKept, ParentThere, Stored, TreeGoto, FinishReader,
       ReleaseTree, CheckTree, PutService, HasLocks, LocksApart, Shared, Owned, TreeTyped, TreeIdle,
       NoServiceDoc, TreeRequests, TreePlaces, ServiceDocs
  <1>7. QED
    BY <1>1, <1>2, <1>3, <1>4, <1>5, <1>6 DEF TreeInv

\* syncService reads the document.
LEMMA SyncReadKeeps ==
    ASSUME TreeInv, NEW c \in TreeClients, SyncRead(c)
    PROVE  TreeInv'
  <1> DEFINE v == [client[c] EXCEPT !.pc = "write", !.pool = store[client[c].svc].pool]
  <1>1. client[c] \in TreeRequests /\ client[c].pc = "read" /\ client[c].svc \in TreeServices
    BY DEF TreeInv, TreeTyped, SyncRead, HasLocks
  <1>2. store[client[c].svc].pool \in Pools \cup {"none"}
    BY <1>1 DEF TreeInv, TreeTyped, ServiceDocs
  <1>3. v \in TreeRequests /\ v.pc = "write" /\ v.op = client[c].op /\ v.svc = client[c].svc /\ v.todo = client[c].todo
    BY <1>1, <1>2 DEF TreeRequests, TreePlaces, Shared
  <1>4. client' = [client EXCEPT ![c] = v] /\ UNCHANGED <<store, nodes, treeLocked, treeReaders, treeWriter, sync2, dfsLock>>
    BY DEF SyncRead
  <1> HIDE DEF v
  <1>5. client' \in [TreeClients -> TreeRequests] /\ client'[c] = v /\ \A d \in TreeClients \ {c} : client'[d] = client[d]
    BY <1>3, <1>4, ClientMoves DEF TreeInv
  <1>6. TreeTyped' /\ Stored' = Stored
    BY <1>4, <1>5 DEF TreeInv, TreeTyped, Stored
  <1>7. LocksApart'
    BY <1>1, <1>3, <1>4, <1>5, <1>6, TreeAssumption DEF TreeInv, TreeTyped, TreeRequests, TreePlaces,
       LocksApart
  <1>8. (\A d \in TreeClients : HasLocks(d))'
    BY <1>1, <1>3, <1>4, <1>5, <1>6, TreeAssumption DEF TreeInv, TreeTyped, TreeRequests, TreePlaces,
       HasLocks, Shared, Owned, LocksApart
  <1>9. NoServiceWithoutParent'
    BY <1>1, <1>3, <1>4, <1>5, <1>6, TreeAssumption DEF TreeInv, TreeTyped, TreeRequests, TreePlaces,
       NoServiceWithoutParent, ParentThere, RequestKept, HasLocks, Shared, Owned, LocksApart
  <1>10. RestoredStaysLocked'
    BY <1>1, <1>3, <1>4, <1>5, <1>6, TreeAssumption DEF TreeInv, TreeTyped, TreeRequests, TreePlaces,
       RestoredStaysLocked, Home, HasLocks, LocksApart, Shared, Owned
  <1>11. (\A d \in TreeClients : RequestKept(d))'
    BY <1>1, <1>3, <1>4, <1>5, <1>6, TreeAssumption DEF TreeInv, TreeTyped, TreeRequests, TreePlaces,
       RequestKept, ParentThere, HasLocks, LocksApart, Shared, Owned
  <1>12. QED
    BY <1>6, <1>7, <1>8, <1>9, <1>10, <1>11 DEF TreeInv

\* syncService writes the node.
LEMMA SyncWriteKeeps ==
    ASSUME TreeInv, NEW c \in TreeClients, SyncWrite(c)
    PROVE  TreeInv'
  <1>1. TreeTyped'
    BY TreeAssumption DEF TreeInv, SyncWrite, TreeTyped, TreeRequests, TreePlaces, ServiceDocs, Shared, Owned,
       TreeIdle, TreeGoto, FinishReader, ReleaseTree, CheckTree, PutService, SyncIdle, NoServiceDoc
  <1>2. LocksApart'
    BY TreeAssumption DEF TreeInv, SyncWrite, TreeTyped, TreeRequests, TreePlaces, ServiceDocs, Shared,
       Owned,LocksApart, HasLocks, TreeIdle, TreeGoto, FinishReader, ReleaseTree, CheckTree, SyncIdle
  <1>3. (\A d \in TreeClients : HasLocks(d))'
    BY TreeAssumption DEF TreeInv, SyncWrite, TreeTyped, TreeRequests, TreePlaces, ServiceDocs, Shared, Owned,
       LocksApart, HasLocks, TreeIdle, TreeGoto, FinishReader, ReleaseTree, CheckTree, SyncIdle
  <1>4. NoServiceWithoutParent'
    BY TreeAssumption DEF TreeInv, SyncWrite, NoServiceWithoutParent, Stored, PutService, HasLocks, TreeTyped,
       RequestKept, ParentThere, CheckTree, NoServiceDoc, Shared, Owned, LocksApart
  <1>5. RestoredStaysLocked'
    BY TreeAssumption DEF TreeInv, SyncWrite, RestoredStaysLocked, Stored, Home, TreeGoto, FinishReader,
       ReleaseTree, CheckTree, PutService, UpdateNode, LockNodesOf, UnlockNodesOf, HasLocks, LocksApart,
       Shared, Owned, TreeTyped, TreeIdle, NoServiceDoc, TreeRequests, TreePlaces, ServiceDocs
  <1>6. (\A d \in TreeClients : RequestKept(d))'
    BY TreeAssumption DEF TreeInv, SyncWrite, RequestKept, ParentThere, Stored, TreeGoto, FinishReader,
       ReleaseTree, CheckTree, PutService, HasLocks, LocksApart, Shared, Owned, TreeTyped, TreeIdle,
       NoServiceDoc, TreeRequests, TreePlaces, ServiceDocs
  <1>7. QED
    BY <1>1, <1>2, <1>3, <1>4, <1>5, <1>6 DEF TreeInv

\* A client owns the lock when nobody shares it, and a restore that of the file system.
LEMMA OwnLockKeeps ==
    ASSUME TreeInv, NEW c \in TreeClients, OwnLock(c)
    PROVE  TreeInv'
  <1>1. /\ client[c] \in TreeRequests /\ client[c].pc = "wait" /\ client[c].op \in {"remove", "restore", "reset"} /\ client[c].svc \in TreeServices
        /\ treeWriter = NoParent /\ treeReaders = {} /\ treeWriter' = c /\ UNCHANGED <<store, nodes, treeLocked, treeReaders, sync2>>
        /\ (client[c].op = "restore" => dfsLock = "free") /\ dfsLock' = IF client[c].op = "restore" THEN "restore" ELSE dfsLock
    BY DEF TreeInv, TreeTyped, OwnLock, HasLocks
  <1>2. ASSUME NEW pc \in {"reset", "lock"}, TreeGoto(c, pc) PROVE TreeInv'
    <2>1. /\ client' \in [TreeClients -> TreeRequests] /\ client'[c].pc = pc /\ client'[c].op = client[c].op /\ client'[c].svc = client[c].svc
          /\ client'[c].todo = client[c].todo /\ \A d \in TreeClients \ {c} : client'[d] = client[d]
      BY <1>2, ClientGoes DEF TreeInv, TreePlaces, Owned
    <2>2. TreeTyped' /\ Stored' = Stored
      BY <1>1, <2>1 DEF TreeInv, TreeTyped, Stored
    <2>3. LocksApart'
      BY <1>1, <1>2, <2>1, <2>2, TreeAssumption DEF TreeInv, TreeTyped, TreeRequests, TreePlaces, LocksApart
    <2>4. (\A d \in TreeClients : HasLocks(d))'
      BY <1>1, <1>2, <2>1, <2>2, TreeAssumption DEF TreeInv, TreeTyped, TreeRequests, TreePlaces, HasLocks,
         Shared, Owned, LocksApart
    <2>5. NoServiceWithoutParent'
      BY <1>1, <1>2, <2>1, <2>2, TreeAssumption DEF TreeInv, TreeTyped, TreeRequests, TreePlaces,
         NoServiceWithoutParent, ParentThere, RequestKept, HasLocks, Shared, Owned, LocksApart
    <2>6. RestoredStaysLocked'
      BY <1>1, <1>2, <2>1, <2>2, TreeAssumption DEF TreeInv, TreeTyped, TreeRequests, TreePlaces,
         RestoredStaysLocked, Home, HasLocks, LocksApart, Shared, Owned
    <2>7. (\A d \in TreeClients : RequestKept(d))'
      BY <1>1, <1>2, <2>1, <2>2, TreeAssumption DEF TreeInv, TreeTyped, TreeRequests, TreePlaces, RequestKept,
         ParentThere, HasLocks, LocksApart, Shared, Owned
    <2>8. QED
      BY <2>2, <2>3, <2>4, <2>5, <2>6, <2>7 DEF TreeInv
  <1>3. QED
    BY <1>2 DEF OwnLock

\* The nodes of the tenant are locked; what is to be removed is a whole tree.
LEMMA LockServicesKeeps ==
    ASSUME TreeInv, NEW c \in TreeClients, LockServices(c)
    PROVE  TreeInv'
  <1>1. /\ client[c] \in TreeRequests /\ client[c].pc = "lock" /\ client[c].svc \in TreeServices
        /\ treeWriter = c /\ client[c].op \in {"remove", "restore", "reset"} /\ UNCHANGED <<store, nodes, treeReaders, sync2>>
        /\ Stored' = Stored
    BY DEF TreeInv, TreeTyped, TreeRequests, LockServices, HasLocks, Owned, Stored
  <1> DEFINE below == Below(client[c].svc) \cap Stored
             v == [client[c] EXCEPT !.pc = "walk", !.todo = below]
  <1>2. CASE client' = [client EXCEPT ![c] = v] /\ UNCHANGED <<treeWriter, dfsLock>>
    <2>1. below \subseteq Stored /\ Stored \subseteq TreeServices /\ \A s \in below : \A t \in Stored : ParentOf[t] = s => t \in below
      BY <1>1, ChildrenBelow DEF Stored
    <2> HIDE DEF below
    <2>2. v \in TreeRequests /\ v.pc = "walk" /\ v.op = client[c].op /\ v.svc = client[c].svc /\ v.todo = below
      BY <1>1, <2>1 DEF TreeRequests, TreePlaces, Owned
    <2> HIDE DEF v
    <2>3. client' \in [TreeClients -> TreeRequests] /\ client'[c] = v /\ \A d \in TreeClients \ {c} : client'[d] = client[d]
      BY <1>2, <2>2, ClientMoves DEF TreeInv
    <2>4. TreeTyped'
      BY <1>1, <2>3 DEF TreeInv, TreeTyped
    <2>5. LocksApart'
      BY <1>1, <1>2, <2>1, <2>2, <2>3, <2>4, TreeAssumption DEF TreeInv, TreeTyped, TreeRequests, TreePlaces,
         LocksApart
    <2>6. (\A d \in TreeClients : HasLocks(d))'
      BY <1>1, <1>2, <2>1, <2>2, <2>3, <2>4, TreeAssumption DEF TreeInv, TreeTyped, TreeRequests, TreePlaces,
         HasLocks, Shared, Owned, LocksApart
    <2>7. NoServiceWithoutParent'
      BY <1>1, <1>2, <2>1, <2>2, <2>3, <2>4, TreeAssumption DEF TreeInv, TreeTyped, TreeRequests, TreePlaces,
         NoServiceWithoutParent, ParentThere, RequestKept, HasLocks, Shared, Owned, LocksApart
    <2>8. RestoredStaysLocked'
      BY <1>1, <1>2, <2>1, <2>2, <2>3, <2>4, TreeAssumption DEF TreeInv, TreeTyped, TreeRequests, TreePlaces,
         RestoredStaysLocked, Home, HasLocks, LocksApart, Shared, Owned
    <2>9. (\A d \in TreeClients : RequestKept(d))'
      BY <1>1, <1>2, <2>1, <2>2, <2>3, <2>4, TreeAssumption DEF TreeInv, TreeTyped, TreeRequests, TreePlaces,
         RequestKept, ParentThere, HasLocks, LocksApart, Shared, Owned
    <2>10. QED
      BY <2>4, <2>5, <2>6, <2>7, <2>8, <2>9 DEF TreeInv
  <1>3. CASE ReleaseTree(c) /\ UNCHANGED treeLocked
    <2>1. client' \in [TreeClients -> TreeRequests] /\ client'[c] = TreeIdle /\ \A d \in TreeClients \ {c} : client'[d] = client[d]
      BY <1>3, IdleTyped, ClientMoves DEF TreeInv, ReleaseTree
    <2>2. treeWriter' = NoParent /\ TreeIdle.pc = "idle" /\ TreeIdle.op = "none" /\ dfsLock' = IF client[c].op = "restore" THEN "free" ELSE dfsLock
      BY <1>3 DEF ReleaseTree, TreeIdle
    <2>3. TreeTyped' /\ (client[c].op = "restore" => sync2.pc = "idle")
      BY <1>1, <2>1 DEF TreeInv, TreeTyped, LocksApart, HasLocks, Owned
    <2>4. LocksApart'
      BY <1>1, <1>3, <2>1, <2>2, <2>3, TreeAssumption DEF TreeInv, TreeTyped, TreeRequests, TreePlaces,
         LocksApart
    <2>5. (\A d \in TreeClients : HasLocks(d))'
      BY <1>1, <1>3, <2>1, <2>2, <2>3, TreeAssumption DEF TreeInv, TreeTyped, TreeRequests, TreePlaces,
         HasLocks, Shared, Owned, LocksApart
    <2>6. NoServiceWithoutParent'
      BY <1>1, <1>3, <2>1, <2>2, <2>3, TreeAssumption DEF TreeInv, TreeTyped, TreeRequests, TreePlaces,
         NoServiceWithoutParent, ParentThere, RequestKept, HasLocks, Shared, Owned, LocksApart
    <2>7. RestoredStaysLocked'
      BY <1>1, <1>3, <2>1, <2>2, <2>3, TreeAssumption DEF TreeInv, TreeTyped, TreeRequests, TreePlaces,
         RestoredStaysLocked, Home, HasLocks, LocksApart, Shared, Owned
    <2>8. (\A d \in TreeClients : RequestKept(d))'
      BY <1>1, <1>3, <2>1, <2>2, <2>3, TreeAssumption DEF TreeInv, TreeTyped, TreeRequests, TreePlaces,
         RequestKept, ParentThere, HasLocks, LocksApart, Shared, Owned
    <2>9. QED
      BY <2>3, <2>4, <2>5, <2>6, <2>7, <2>8 DEF TreeInv
  <1>4. QED
    BY <1>2, <1>3, Zenon DEF LockServices

\* The document of a service without children is deleted.
LEMMA DeleteDocKeeps ==
    ASSUME TreeInv, NEW c \in TreeClients, DeleteDoc(c)
    PROVE  TreeInv'
  <1>1. /\ client[c] \in TreeRequests /\ client[c].pc = "delete" /\ client[c].svc \in TreeServices /\ client[c].todo \subseteq TreeServices
        /\ treeWriter = c /\ client[c].op \in {"remove", "restore", "reset"} /\ UNCHANGED <<nodes, treeLocked, treeReaders, treeWriter, sync2, dfsLock>>
    BY DEF TreeInv, TreeTyped, TreeRequests, DeleteDoc, HasLocks, Owned
  <1> DEFINE v == [client[c] EXCEPT !.pc = "walk", !.todo = client[c].todo \ {client[c].svc}]
  <1>2. client[c].svc \in client[c].todo /\ (\A t \in Stored : ParentOf[t] # client[c].svc) /\ client[c].todo \subseteq Stored
    BY <1>1 DEF TreeInv, RequestKept
  <1>3. CASE PutService(client[c].svc, NoServiceDoc) /\ client' = [client EXCEPT ![c] = v]
    <2>1. v \in TreeRequests /\ v.pc = "walk" /\ v.op = client[c].op /\ v.svc = client[c].svc /\ v.todo = client[c].todo \ {client[c].svc}
      BY <1>1 DEF TreeRequests, TreePlaces, Owned
    <2>2. NoServiceDoc \in ServiceDocs
      BY DEF NoServiceDoc, ServiceDocs
    <2>3. /\ store' \in [TreeServices -> ServiceDocs] /\ (\A t \in TreeServices \ {client[c].svc} : store'[t] = store[t])
          /\ Stored' = Stored \ {client[c].svc}
      BY <1>1, <1>3, <2>2, DocWritten DEF TreeInv
    <2> HIDE DEF v
    <2>4. client' \in [TreeClients -> TreeRequests] /\ client'[c] = v /\ \A d \in TreeClients \ {c} : client'[d] = client[d]
      BY <1>3, <2>1, ClientMoves DEF TreeInv
    <2>5. TreeTyped'
      BY <1>1, <2>3, <2>4 DEF TreeInv, TreeTyped
    <2>6. LocksApart'
      BY <1>1, <1>2, <2>1, <2>3, <2>4, <2>5, TreeAssumption DEF TreeInv, TreeTyped, TreeRequests, TreePlaces,
         LocksApart
    <2>7. (\A d \in TreeClients : HasLocks(d))'
      BY <1>1, <1>2, <2>1, <2>3, <2>4, <2>5, TreeAssumption DEF TreeInv, TreeTyped, TreeRequests, TreePlaces,
         HasLocks, Shared, Owned, LocksApart
    <2>8. NoServiceWithoutParent'
      BY <1>1, <1>2, <2>1, <2>3, <2>4, <2>5, TreeAssumption DEF TreeInv, TreeTyped, TreeRequests, TreePlaces,
         NoServiceWithoutParent, ParentThere, RequestKept, HasLocks, Shared, Owned, LocksApart
    <2>9. RestoredStaysLocked'
      BY <1>1, <1>2, <2>1, <2>3, <2>4, <2>5, TreeAssumption DEF TreeInv, TreeTyped, TreeRequests, TreePlaces,
         RestoredStaysLocked, Home, HasLocks, LocksApart, Shared, Owned
    <2>10. (\A d \in TreeClients : RequestKept(d))'
      BY <1>1, <1>2, <2>1, <2>3, <2>4, <2>5, TreeAssumption DEF TreeInv, TreeTyped, TreeRequests, TreePlaces,
         RequestKept, ParentThere, HasLocks, LocksApart, Shared, Owned
    <2>11. QED
      BY <2>5, <2>6, <2>7, <2>8, <2>9, <2>10 DEF TreeInv
  <1>4. CASE TreeGoto(c, "unlock") /\ UNCHANGED store
    <2>1. /\ client' \in [TreeClients -> TreeRequests] /\ client'[c].pc = "unlock" /\ client'[c].op = client[c].op /\ client'[c].svc = client[c].svc
          /\ client'[c].todo = client[c].todo /\ \A d \in TreeClients \ {c} : client'[d] = client[d]
      BY <1>4, ClientGoes DEF TreeInv, TreePlaces, Owned
    <2>2. TreeTyped' /\ Stored' = Stored
      BY <1>1, <1>4, <2>1 DEF TreeInv, TreeTyped, Stored
    <2>3. LocksApart'
      BY <1>1, <1>4, <2>1, <2>2, TreeAssumption DEF TreeInv, TreeTyped, TreeRequests, TreePlaces, LocksApart
    <2>4. (\A d \in TreeClients : HasLocks(d))'
      BY <1>1, <1>4, <2>1, <2>2, TreeAssumption DEF TreeInv, TreeTyped, TreeRequests, TreePlaces, HasLocks,
         Shared, Owned, LocksApart
    <2>5. NoServiceWithoutParent'
      BY <1>1, <1>4, <2>1, <2>2, TreeAssumption DEF TreeInv, TreeTyped, TreeRequests, TreePlaces,
         NoServiceWithoutParent, ParentThere, RequestKept, HasLocks, Shared, Owned, LocksApart
    <2>6. RestoredStaysLocked'
      BY <1>1, <1>4, <2>1, <2>2, TreeAssumption DEF TreeInv, TreeTyped, TreeRequests, TreePlaces,
         RestoredStaysLocked, Home, HasLocks, LocksApart, Shared, Owned
    <2>7. (\A d \in TreeClients : RequestKept(d))'
      BY <1>1, <1>4, <2>1, <2>2, TreeAssumption DEF TreeInv, TreeTyped, TreeRequests, TreePlaces, RequestKept,
         ParentThere, HasLocks, LocksApart, Shared, Owned
    <2>8. QED
      BY <2>2, <2>3, <2>4, <2>5, <2>6, <2>7 DEF TreeInv
  <1>5. (PutService(client[c].svc, NoServiceDoc) /\ client' = [client EXCEPT ![c] = v]) \/ (TreeGoto(c, "unlock") /\ UNCHANGED store)
    BY DEF DeleteDoc
  <1>6. QED
    BY <1>3, <1>4, <1>5

\* The walk of a removal ends.
LEMMA WalkEndsKeeps ==
    ASSUME TreeInv, NEW c \in TreeClients, WalkEnds(c)
    PROVE  TreeInv'
  <1> DEFINE v == IF client[c].op = "restore" THEN [client[c] EXCEPT !.pc = "add", !.todo = TreeServices]
                                               ELSE [client[c] EXCEPT !.pc = "unlock", !.todo = {}]
  <1>1. client[c] \in TreeRequests /\ client[c].pc = "walk" /\ client[c].todo = {}
    BY DEF TreeInv, TreeTyped, WalkEnds
  <1>2. /\ v \in TreeRequests /\ v.op = client[c].op /\ v.svc = client[c].svc
        /\ (v.pc = "add" /\ v.op = "restore" /\ v.todo = TreeServices) \/ v.pc = "unlock"
    BY <1>1 DEF TreeRequests, TreePlaces, Owned
  <1>3. client' = [client EXCEPT ![c] = v] /\ UNCHANGED <<store, nodes, treeLocked, treeReaders, treeWriter, sync2, dfsLock>>
    BY DEF WalkEnds
  <1> HIDE DEF v
  <1>4. client' \in [TreeClients -> TreeRequests] /\ client'[c] = v /\ \A d \in TreeClients \ {c} : client'[d] = client[d]
    BY <1>2, <1>3, ClientMoves DEF TreeInv
  <1>5. TreeTyped' /\ Stored' = Stored /\ Stored \subseteq TreeServices
    BY <1>3, <1>4 DEF TreeInv, TreeTyped, Stored
  <1>6. LocksApart'
    BY <1>1, <1>2, <1>3, <1>4, <1>5, TreeAssumption DEF TreeInv, TreeTyped, TreeRequests, TreePlaces,
       LocksApart
  <1>7. (\A d \in TreeClients : HasLocks(d))'
    BY <1>1, <1>2, <1>3, <1>4, <1>5, TreeAssumption DEF TreeInv, TreeTyped, TreeRequests, TreePlaces,
       HasLocks, Shared, Owned, LocksApart
  <1>8. NoServiceWithoutParent'
    BY <1>1, <1>2, <1>3, <1>4, <1>5, TreeAssumption DEF TreeInv, TreeTyped, TreeRequests, TreePlaces,
       NoServiceWithoutParent, ParentThere, RequestKept, HasLocks, Shared, Owned, LocksApart
  <1>9. RestoredStaysLocked'
    BY <1>1, <1>2, <1>3, <1>4, <1>5, TreeAssumption DEF TreeInv, TreeTyped, TreeRequests, TreePlaces,
       RestoredStaysLocked, Home, HasLocks, LocksApart, Shared, Owned
  <1>10. (\A d \in TreeClients : RequestKept(d))'
    BY <1>1, <1>2, <1>3, <1>4, <1>5, TreeAssumption DEF TreeInv, TreeTyped, TreeRequests, TreePlaces,
       RequestKept, ParentThere, HasLocks, LocksApart, Shared, Owned
  <1>11. QED
    BY <1>5, <1>6, <1>7, <1>8, <1>9, <1>10 DEF TreeInv

\* A restore ends.
LEMMA RestoreEndsKeeps ==
    ASSUME TreeInv, NEW c \in TreeClients, RestoreEnds(c)
    PROVE  TreeInv'
  <1>1. TreeTyped'
    BY ClientGoes DEF TreeInv, RestoreEnds, TreeTyped, TreePlaces, Shared, Owned
  <1>2. LocksApart'
    BY TreeAssumption DEF TreeInv, RestoreEnds, TreeTyped, TreeRequests, TreePlaces, ServiceDocs, Shared,
       Owned,LocksApart, HasLocks, TreeIdle, TreeGoto, FinishReader, ReleaseTree, CheckTree, SyncIdle
  <1>3. (\A d \in TreeClients : HasLocks(d))'
    BY TreeAssumption DEF TreeInv, RestoreEnds, TreeTyped, TreeRequests, TreePlaces, ServiceDocs, Shared,
       Owned, LocksApart, HasLocks, TreeIdle, TreeGoto, FinishReader, ReleaseTree, CheckTree, SyncIdle
  <1>4. NoServiceWithoutParent'
    BY TreeAssumption DEF TreeInv, RestoreEnds, NoServiceWithoutParent, Stored, PutService, HasLocks,
       TreeTyped, RequestKept, ParentThere, CheckTree, NoServiceDoc, Shared, Owned, LocksApart
  <1>5. RestoredStaysLocked'
    BY TreeAssumption DEF TreeInv, RestoreEnds, RestoredStaysLocked, Stored, Home, TreeGoto, FinishReader,
       ReleaseTree, CheckTree, PutService, UpdateNode, LockNodesOf, UnlockNodesOf, HasLocks, LocksApart,
       Shared, Owned, TreeTyped, TreeIdle, NoServiceDoc, TreeRequests, TreePlaces, ServiceDocs
  <1>6. (\A d \in TreeClients : RequestKept(d))'
    BY TreeAssumption DEF TreeInv, RestoreEnds, RequestKept, ParentThere, Stored, TreeGoto, FinishReader,
       ReleaseTree, CheckTree, PutService, HasLocks, LocksApart, Shared, Owned, TreeTyped, TreeIdle,
       NoServiceDoc, TreeRequests, TreePlaces, ServiceDocs
  <1>7. QED
    BY <1>1, <1>2, <1>3, <1>4, <1>5, <1>6 DEF TreeInv

\* The nodes are unlocked, then the lock is given back.
LEMMA UnlockTreeKeeps ==
    ASSUME TreeInv, NEW c \in TreeClients, UnlockTree(c)
    PROVE  TreeInv'
  <1>1. TreeTyped'
    BY TreeAssumption DEF TreeInv, UnlockTree, TreeTyped, TreeRequests, TreePlaces, ServiceDocs, Shared,
       Owned, TreeIdle, TreeGoto, FinishReader, ReleaseTree, CheckTree, PutService, SyncIdle, NoServiceDoc
  <1>2. LocksApart'
    BY TreeAssumption DEF TreeInv, UnlockTree, TreeTyped, TreeRequests, TreePlaces, ServiceDocs, Shared,
       Owned,LocksApart, HasLocks, TreeIdle, TreeGoto, FinishReader, ReleaseTree, CheckTree, SyncIdle
  <1>3. (\A d \in TreeClients : HasLocks(d))'
    BY TreeAssumption DEF TreeInv, UnlockTree, TreeTyped, TreeRequests, TreePlaces, ServiceDocs, Shared,
       Owned, LocksApart, HasLocks, TreeIdle, TreeGoto, FinishReader, ReleaseTree, CheckTree, SyncIdle
  <1>4. NoServiceWithoutParent'
    BY TreeAssumption DEF TreeInv, UnlockTree, NoServiceWithoutParent, Stored, PutService, HasLocks,
       TreeTyped, RequestKept, ParentThere, CheckTree, NoServiceDoc, Shared, Owned, LocksApart
  <1>5. RestoredStaysLocked'
    BY TreeAssumption DEF TreeInv, UnlockTree, RestoredStaysLocked, Stored, Home, TreeGoto, FinishReader,
       ReleaseTree, CheckTree, PutService, UpdateNode, LockNodesOf, UnlockNodesOf, HasLocks, LocksApart,
       Shared, Owned, TreeTyped, TreeIdle, NoServiceDoc, TreeRequests, TreePlaces, ServiceDocs
  <1>6. (\A d \in TreeClients : RequestKept(d))'
    BY TreeAssumption DEF TreeInv, UnlockTree, RequestKept, ParentThere, Stored, TreeGoto, FinishReader,
       ReleaseTree, CheckTree, PutService, HasLocks, LocksApart, Shared, Owned, TreeTyped, TreeIdle,
       NoServiceDoc, TreeRequests, TreePlaces, ServiceDocs
  <1>7. QED
    BY <1>1, <1>2, <1>3, <1>4, <1>5, <1>6 DEF TreeInv

\* ResetLock unlocks the nodes, or keeps the lock.
LEMMA ResetLockKeeps ==
    ASSUME TreeInv, NEW c \in TreeClients, ResetLock(c)
    PROVE  TreeInv'
  <1>1. TreeTyped'
    BY TreeAssumption DEF TreeInv, ResetLock, TreeTyped, TreeRequests, TreePlaces, ServiceDocs, Shared, Owned,
       TreeIdle, TreeGoto, FinishReader, ReleaseTree, CheckTree, PutService, SyncIdle, NoServiceDoc
  <1>2. LocksApart'
    BY TreeAssumption DEF TreeInv, ResetLock, TreeTyped, TreeRequests, TreePlaces, ServiceDocs, Shared,
       Owned,LocksApart, HasLocks, TreeIdle, TreeGoto, FinishReader, ReleaseTree, CheckTree, SyncIdle
  <1>3. (\A d \in TreeClients : HasLocks(d))'
    BY TreeAssumption DEF TreeInv, ResetLock, TreeTyped, TreeRequests, TreePlaces, ServiceDocs, Shared, Owned,
       LocksApart, HasLocks, TreeIdle, TreeGoto, FinishReader, ReleaseTree, CheckTree, SyncIdle
  <1>4. NoServiceWithoutParent'
    BY TreeAssumption DEF TreeInv, ResetLock, NoServiceWithoutParent, Stored, PutService, HasLocks, TreeTyped,
       RequestKept, ParentThere, CheckTree, NoServiceDoc, Shared, Owned, LocksApart
  <1>5. RestoredStaysLocked'
    BY TreeAssumption DEF TreeInv, ResetLock, RestoredStaysLocked, Stored, Home, TreeGoto, FinishReader,
       ReleaseTree, CheckTree, PutService, UpdateNode, LockNodesOf, UnlockNodesOf, HasLocks, LocksApart,
       Shared, Owned, TreeTyped, TreeIdle, NoServiceDoc, TreeRequests, TreePlaces, ServiceDocs
  <1>6. (\A d \in TreeClients : RequestKept(d))'
    BY TreeAssumption DEF TreeInv, ResetLock, RequestKept, ParentThere, Stored, TreeGoto, FinishReader,
       ReleaseTree, CheckTree, PutService, HasLocks, LocksApart, Shared, Owned, TreeTyped, TreeIdle,
       NoServiceDoc, TreeRequests, TreePlaces, ServiceDocs
  <1>7. QED
    BY <1>1, <1>2, <1>3, <1>4, <1>5, <1>6 DEF TreeInv

\* The node of a service without children before it is removed.
LEMMA RemoveNodeKeeps ==
    ASSUME TreeInv, NEW c \in TreeClients, NEW s \in TreeServices, RemoveNode(c, s)
    PROVE  TreeInv'
  <1>1. /\ client[c] \in TreeRequests /\ client[c].pc = "walk" /\ client[c].svc \in TreeServices /\ client[c].todo \subseteq TreeServices
        /\ treeWriter = c /\ client[c].op \in {"remove", "restore", "reset"} /\ UNCHANGED <<store, treeReaders, treeWriter, sync2, dfsLock>>
    BY DEF TreeInv, TreeTyped, TreeRequests, RemoveNode, HasLocks, Owned
  <1>2. s \in client[c].todo /\ \A t \in client[c].todo : ParentOf[t] # s
    BY DEF RemoveNode, Leaves
  <1> DEFINE v == [client[c] EXCEPT !.pc = "delete", !.svc = s]
  <1>3. CASE client' = [client EXCEPT ![c] = v]
    <2>1. v \in TreeRequests /\ v.pc = "delete" /\ v.op = client[c].op /\ v.svc = s /\ v.todo = client[c].todo
      BY <1>1 DEF TreeRequests, TreePlaces, Owned
    <2> HIDE DEF v
    <2>2. client' \in [TreeClients -> TreeRequests] /\ client'[c] = v /\ \A d \in TreeClients \ {c} : client'[d] = client[d]
      BY <1>3, <2>1, ClientMoves DEF TreeInv
    <2>3. TreeTyped' /\ Stored' = Stored
      BY <1>1, <2>2 DEF TreeInv, TreeTyped, Stored
    <2>4. LocksApart'
      BY <1>1, <1>2, <1>3, <2>1, <2>2, <2>3, TreeAssumption DEF TreeInv, TreeTyped, TreeRequests, TreePlaces,
         LocksApart
    <2>5. (\A d \in TreeClients : HasLocks(d))'
      BY <1>1, <1>2, <1>3, <2>1, <2>2, <2>3, TreeAssumption DEF TreeInv, TreeTyped, TreeRequests, TreePlaces,
         HasLocks, Shared, Owned, LocksApart
    <2>6. NoServiceWithoutParent'
      BY <1>1, <1>2, <1>3, <2>1, <2>2, <2>3, TreeAssumption DEF TreeInv, TreeTyped, TreeRequests, TreePlaces,
         NoServiceWithoutParent, ParentThere, RequestKept, HasLocks, Shared, Owned, LocksApart
    <2>7. RestoredStaysLocked'
      BY <1>1, <1>2, <1>3, <2>1, <2>2, <2>3, TreeAssumption DEF TreeInv, TreeTyped, TreeRequests, TreePlaces,
         RestoredStaysLocked, Home, HasLocks, LocksApart, Shared, Owned
    <2>8. (\A d \in TreeClients : RequestKept(d))'
      BY <1>1, <1>2, <1>3, <2>1, <2>2, <2>3, TreeAssumption DEF TreeInv, TreeTyped, TreeRequests, TreePlaces,
         RequestKept, ParentThere, HasLocks, LocksApart, Shared, Owned
    <2>9. QED
      BY <2>3, <2>4, <2>5, <2>6, <2>7, <2>8 DEF TreeInv
  <1>4. CASE TreeGoto(c, "unlock")
    <2>1. /\ client' \in [TreeClients -> TreeRequests] /\ client'[c].pc = "unlock" /\ client'[c].op = client[c].op /\ client'[c].svc = client[c].svc
          /\ client'[c].todo = client[c].todo /\ \A d \in TreeClients \ {c} : client'[d] = client[d]
      BY <1>4, ClientGoes DEF TreeInv, TreePlaces, Owned
    <2>2. TreeTyped' /\ Stored' = Stored
      BY <1>1, <1>4, <2>1 DEF TreeInv, TreeTyped, Stored
    <2>3. LocksApart'
      BY <1>1, <2>1, <2>2, TreeAssumption DEF TreeInv, TreeTyped, TreeRequests, TreePlaces, LocksApart
    <2>4. (\A d \in TreeClients : HasLocks(d))'
      BY <1>1, <2>1, <2>2, TreeAssumption DEF TreeInv, TreeTyped, TreeRequests, TreePlaces, HasLocks, Shared,
         Owned, LocksApart
    <2>5. NoServiceWithoutParent'
      BY <1>1, <2>1, <2>2, TreeAssumption DEF TreeInv, TreeTyped, TreeRequests, TreePlaces,
         NoServiceWithoutParent, ParentThere, RequestKept, HasLocks, Shared, Owned, LocksApart
    <2>6. RestoredStaysLocked'
      BY <1>1, <2>1, <2>2, TreeAssumption DEF TreeInv, TreeTyped, TreeRequests, TreePlaces,
         RestoredStaysLocked, Home, HasLocks, LocksApart, Shared, Owned
    <2>7. (\A d \in TreeClients : RequestKept(d))'
      BY <1>1, <2>1, <2>2, TreeAssumption DEF TreeInv, TreeTyped, TreeRequests, TreePlaces, RequestKept,
         ParentThere, HasLocks, LocksApart, Shared, Owned
    <2>8. QED
      BY <2>2, <2>3, <2>4, <2>5, <2>6, <2>7 DEF TreeInv
  <1>5. QED
    BY <1>3, <1>4 DEF RemoveNode

\* A service is restored after its parent; its node is locked.
LEMMA RestoreOneKeeps ==
    ASSUME TreeInv, NEW c \in TreeClients, NEW s \in TreeServices, RestoreOne(c, s)
    PROVE  TreeInv'
  <1>1. /\ client[c] \in TreeRequests /\ client[c].pc = "add" /\ s \in client[c].todo /\ ParentOf[s] \notin client[c].todo
        /\ treeWriter = c /\ client[c].op = "restore" /\ UNCHANGED <<treeReaders, treeWriter, sync2, dfsLock>>
    BY DEF TreeInv, TreeTyped, RestoreOne, HasLocks, Owned
  <1>2. client[c].pool \in Pools \cup {"none"} /\ client[c].todo \subseteq TreeServices
    BY <1>1 DEF TreeRequests
  <1>3. ParentThere(s) /\ TreeServices \ client[c].todo \subseteq Stored /\ Stored \subseteq TreeServices
    BY <1>1, TreeAssumption DEF TreeInv, RequestKept, ParentThere, Stored
  <1> DEFINE r == [pool |-> client[c].pool, ver |-> 1]
             v == [client[c] EXCEPT !.todo = @ \ {s}]
  <1>4. r \in ServiceDocs /\ r.ver # 0 /\ r.pool = client[c].pool
    BY <1>2 DEF ServiceDocs
  <1>5. v \in TreeRequests /\ v.pc = "add" /\ v.op = "restore" /\ v.svc = client[c].svc /\ v.todo = client[c].todo \ {s}
    BY <1>1 DEF TreeRequests
  <1>6. PutService(s, r) => /\ store' \in [TreeServices -> ServiceDocs] /\ store'[s] = r /\ (\A t \in TreeServices \ {s} : store'[t] = store[t])
                            /\ Stored' = Stored \cup {s}
    BY <1>4, DocWritten DEF TreeInv
  <1>7. CASE PutService(s, r) /\ UpdateNode(<<client[c].pool, s>>, TRUE) /\ client' = [client EXCEPT ![c] = v]
    <2> HIDE DEF r, v
    <2>1. client' \in [TreeClients -> TreeRequests] /\ client'[c] = v /\ \A d \in TreeClients \ {c} : client'[d] = client[d]
      BY <1>5, <1>7, ClientMoves DEF TreeInv
    <2>2. treeLocked' = treeLocked \cup {<<client[c].pool, s>>}
      BY <1>7 DEF UpdateNode
    <2>3. TreeTyped'
      BY <1>1, <1>6, <1>7, <2>1 DEF TreeInv, TreeTyped
    <2>4. LocksApart'
      BY <1>1, <1>2, <1>3, <1>4, <1>5, <1>6, <1>7, <2>1, <2>2, <2>3, TreeAssumption DEF TreeInv, TreeTyped,
         TreeRequests, TreePlaces, LocksApart
    <2>5. (\A d \in TreeClients : HasLocks(d))'
      BY <1>1, <1>2, <1>3, <1>4, <1>5, <1>6, <1>7, <2>1, <2>2, <2>3, TreeAssumption DEF TreeInv, TreeTyped,
         TreeRequests, TreePlaces, HasLocks, Shared, Owned, LocksApart
    <2>6. NoServiceWithoutParent'
      BY <1>1, <1>2, <1>3, <1>4, <1>5, <1>6, <1>7, <2>1, <2>2, <2>3, TreeAssumption DEF TreeInv, TreeTyped,
         TreeRequests, TreePlaces, NoServiceWithoutParent, ParentThere, RequestKept, HasLocks, Shared, Owned,
         LocksApart
    <2>7. RestoredStaysLocked'
      BY <1>1, <1>2, <1>3, <1>4, <1>5, <1>6, <1>7, <2>1, <2>2, <2>3, TreeAssumption DEF TreeInv, TreeTyped,
         TreeRequests, TreePlaces, RestoredStaysLocked, Home, HasLocks, LocksApart, Shared, Owned
    <2>8. (\A d \in TreeClients : RequestKept(d))'
      BY <1>1, <1>2, <1>3, <1>4, <1>5, <1>6, <1>7, <2>1, <2>2, <2>3, TreeAssumption DEF TreeInv, TreeTyped,
         TreeRequests, TreePlaces, RequestKept, ParentThere, HasLocks, LocksApart, Shared, Owned
    <2>9. QED
      BY <2>3, <2>4, <2>5, <2>6, <2>7, <2>8 DEF TreeInv
  <1>8. CASE TreeGoto(c, "unlock") /\ (PutService(s, r) \/ UNCHANGED store) /\ UNCHANGED <<nodes, treeLocked>>
    <2> HIDE DEF r
    <2>1. /\ client' \in [TreeClients -> TreeRequests] /\ client'[c].pc = "unlock" /\ client'[c].op = client[c].op /\ client'[c].svc = client[c].svc
          /\ client'[c].todo = client[c].todo /\ \A d \in TreeClients \ {c} : client'[d] = client[d]
      BY <1>8, ClientGoes DEF TreeInv, TreePlaces, Owned
    <2>2. TreeTyped' /\ (Stored' = Stored \/ Stored' = Stored \cup {s})
      BY <1>1, <1>6, <1>8, <2>1 DEF TreeInv, TreeTyped, Stored
    <2>3. LocksApart'
      BY <1>1, <1>3, <2>1, <2>2, TreeAssumption DEF TreeInv, TreeTyped, TreeRequests, TreePlaces, LocksApart
    <2>4. (\A d \in TreeClients : HasLocks(d))'
      BY <1>1, <1>3, <2>1, <2>2, TreeAssumption DEF TreeInv, TreeTyped, TreeRequests, TreePlaces, HasLocks,
         Shared, Owned, LocksApart
    <2>5. NoServiceWithoutParent'
      BY <1>1, <1>3, <2>1, <2>2, TreeAssumption DEF TreeInv, TreeTyped, TreeRequests, TreePlaces,
         NoServiceWithoutParent, ParentThere, RequestKept, HasLocks, Shared, Owned, LocksApart
    <2>6. RestoredStaysLocked'
      BY <1>1, <1>3, <2>1, <2>2, TreeAssumption DEF TreeInv, TreeTyped, TreeRequests, TreePlaces,
         RestoredStaysLocked, Home, HasLocks, LocksApart, Shared, Owned
    <2>7. (\A d \in TreeClients : RequestKept(d))'
      BY <1>1, <1>3, <2>1, <2>2, TreeAssumption DEF TreeInv, TreeTyped, TreeRequests, TreePlaces, RequestKept,
         ParentThere, HasLocks, LocksApart, Shared, Owned
    <2>8. QED
      BY <2>2, <2>3, <2>4, <2>5, <2>6, <2>7 DEF TreeInv
  <1>9. QED
    BY <1>7, <1>8 DEF RestoreOne

\* A request begins.
LEMMA BeginTreeKeeps ==
    ASSUME TreeInv, NEW c \in TreeClients, NEW s \in TreeServices, NEW p \in Pools,
           NEW op \in {"add", "update", "remove", "restore", "reset"}, BeginTree(c, op, s, p)
    PROVE  TreeInv'
  <1>1. TreeTyped'
    BY TreeAssumption DEF TreeInv, BeginTree, TreeTyped, TreeRequests, TreePlaces, ServiceDocs, Shared, Owned,
       TreeIdle, TreeGoto, FinishReader, ReleaseTree, CheckTree, PutService, SyncIdle, NoServiceDoc
  <1>2. LocksApart'
    BY TreeAssumption DEF TreeInv, BeginTree, TreeTyped, TreeRequests, TreePlaces, ServiceDocs, Shared,
       Owned,LocksApart, HasLocks, TreeIdle, TreeGoto, FinishReader, ReleaseTree, CheckTree, SyncIdle
  <1>3. (\A d \in TreeClients : HasLocks(d))'
    BY TreeAssumption DEF TreeInv, BeginTree, TreeTyped, TreeRequests, TreePlaces, ServiceDocs, Shared, Owned,
       LocksApart, HasLocks, TreeIdle, TreeGoto, FinishReader, ReleaseTree, CheckTree, SyncIdle
  <1>4. NoServiceWithoutParent'
    BY TreeAssumption DEF TreeInv, BeginTree, NoServiceWithoutParent, Stored, PutService, HasLocks, TreeTyped,
       RequestKept, ParentThere, CheckTree, NoServiceDoc, Shared, Owned, LocksApart
  <1>5. RestoredStaysLocked'
    BY TreeAssumption DEF TreeInv, BeginTree, RestoredStaysLocked, Stored, Home, TreeGoto, FinishReader,
       ReleaseTree, CheckTree, PutService, UpdateNode, LockNodesOf, UnlockNodesOf, HasLocks, LocksApart,
       Shared, Owned, TreeTyped, TreeIdle, NoServiceDoc, TreeRequests, TreePlaces, ServiceDocs
  <1>6. (\A d \in TreeClients : RequestKept(d))'
    BY TreeAssumption DEF TreeInv, BeginTree, RequestKept, ParentThere, Stored, TreeGoto, FinishReader,
       ReleaseTree, CheckTree, PutService, HasLocks, LocksApart, Shared, Owned, TreeTyped, TreeIdle,
       NoServiceDoc, TreeRequests, TreePlaces, ServiceDocs
  <1>7. QED
    BY <1>1, <1>2, <1>3, <1>4, <1>5, <1>6 DEF TreeInv

\* The synchronisation takes the lock of the file system.
LEMMA SyncBeginKeeps ==
    ASSUME TreeInv, SyncBegin
    PROVE  TreeInv'
  BY SyncMoves DEF TreeInv, TreeTyped, LocksApart, SyncBegin, SyncIdle

\* It reads the documents of a pool.
LEMMA SyncDocsKeeps ==
    ASSUME TreeInv, SyncDocs
    PROVE  TreeInv'
  BY SyncMoves DEF TreeInv, TreeTyped, LocksApart, SyncDocs, SyncIdle

\* It reads the nodes of the pool.
LEMMA SyncChildrenKeeps ==
    ASSUME TreeInv, SyncChildren
    PROVE  TreeInv'
  BY SyncMoves DEF TreeInv, TreeTyped, LocksApart, SyncChildren, SyncIdle

\* It writes the node of a document.
LEMMA SyncUpdateKeeps ==
    ASSUME TreeInv, SyncUpdate
    PROVE  TreeInv'
  BY SyncMoves DEF TreeInv, TreeTyped, LocksApart, SyncUpdate, SyncIdle

\* It goes on to the next pool, or ends.
LEMMA SyncPoolDoneKeeps ==
    ASSUME TreeInv, SyncPoolDone
    PROVE  TreeInv'
  BY SyncMoves DEF TreeInv, TreeTyped, LocksApart, SyncPoolDone, SyncIdle

\* It fails.
LEMMA SyncFailsKeeps ==
    ASSUME TreeInv, SyncFails
    PROVE  TreeInv'
  BY SyncMoves DEF TreeInv, TreeTyped, LocksApart, SyncFails, SyncIdle

\* It deletes a node without a document.
LEMMA SyncDeleteKeeps ==
    ASSUME TreeInv, NEW n \in sync2.drop, SyncDelete(n)
    PROVE  TreeInv'
  BY SyncMoves DEF TreeInv, TreeTyped, LocksApart, SyncDelete, SyncIdle

\* The initial states.
LEMMA TreeInit == treeInit => TreeInv
  <1> SUFFICES ASSUME treeInit PROVE TreeInv
    OBVIOUS
  <1>1. /\ store \in [TreeServices -> ServiceDocs] /\ client \in [TreeClients -> TreeRequests]
        /\ \A s \in TreeServices : store[s].ver = 1
    BY IdleTyped, TreeAssumption DEF treeInit, ServiceDocs
  <1> Stored = TreeServices
    BY <1>1 DEF Stored, NoServiceDoc
  <1> \A c \in TreeClients : client[c].pc = "idle" /\ client[c].op = "none"
    BY DEF treeInit, TreeIdle
  <1>2. TreeTyped /\ LocksApart
    BY <1>1 DEF treeInit, TreeTyped, LocksApart, SyncIdle
  <1>3. NoServiceWithoutParent /\ RestoredStaysLocked
    BY <1>1, TreeAssumption DEF NoServiceWithoutParent, RestoredStaysLocked
  <1>4. \A c \in TreeClients : HasLocks(c) /\ RequestKept(c)
    BY <1>1 DEF HasLocks, RequestKept, Shared, Owned
  <1>5. QED
    BY <1>2, <1>3, <1>4 DEF TreeInv

\* Every step keeps the invariant.
LEMMA TreeStep == TreeInv /\ [treeNext]_treeVars => TreeInv'
  <1> SUFFICES ASSUME TreeInv, [treeNext]_treeVars PROVE TreeInv'
    OBVIOUS
  <1>1. ASSUME NEW c \in TreeClients, ClientStep(c) PROVE TreeInv'
    BY <1>1, ShareLockKeeps, ValidateAddKeeps, ValidateUpdateKeeps, PutNewKeeps, PutDocKeeps, MovePoolKeeps,
       SyncReadKeeps, SyncWriteKeeps, OwnLockKeeps, LockServicesKeeps, DeleteDocKeeps, WalkEndsKeeps,
       RestoreEndsKeeps, UnlockTreeKeeps, ResetLockKeeps, RemoveNodeKeeps, RestoreOneKeeps DEF ClientStep
  <1>2. ASSUME TreeSyncStep PROVE TreeInv'
    BY <1>2, SyncBeginKeeps, SyncDocsKeeps, SyncChildrenKeeps, SyncUpdateKeeps, SyncPoolDoneKeeps,
       SyncFailsKeeps, SyncDeleteKeeps DEF TreeSyncStep
  <1>3. CASE UNCHANGED treeVars
    BY <1>3 DEF treeVars, TreeInv, TreeTyped, LocksApart, NoServiceWithoutParent, RestoredStaysLocked, Stored,
       Home, HasLocks, RequestKept, ParentThere
  <1>4. QED
    BY <1>1, <1>2, <1>3, BeginTreeKeeps DEF treeNext

-----------------------------------------------------------------------------
\* What Elastic and ZooKeeper hold of the services of a tenant: whatever is added, moved, removed
\* and restored at a time, and whatever fails (Facade.AddService, RemoveService,
\* RestoreServices), no stored service is without its parent, and the nodes that a restore has
\* written stay locked while it goes on.
THEOREM TreesAreSound == treeSpec => []TreeSound
  <1>1. TreeInv => TreeSound
    BY DEF TreeInv, TreeSound
  <1>2. QED
    BY <1>1, TreeInit, TreeStep, PTL DEF treeSpec

-----------------------------------------------------------------------------
(* The pool of connections                                                  *)

CallerRecords == [pc : {"start", "set", "ready", "waits", "calls", "ended"}, conn : Nat, removed : BOOLEAN]

Apart(s) == \A a, b \in 1 .. Len(s) : a # b => s[a] # s[b]
Elems(s) == {s[a] : a \in 1 .. Len(s)}

ConnTyped ==
    /\ idleConns \in Seq(Nat) /\ connsMade \in Nat /\ rpcClients \in 0 .. 1
    /\ pooled \subseteq 1 .. connsMade /\ IsFiniteSet(pooled) /\ openConns \subseteq 1 .. connsMade
    /\ rpCaller \in [Callers -> CallerRecords]

\* What is idle is counted, once.
IdleInPool ==
    /\ Apart(idleConns) /\ Elems(idleConns) \subseteq pooled /\ Len(idleConns) = Cardinality(Elems(idleConns))
    /\ Cardinality(pooled) <= PoolSize

\* A connection that carries a call carries no other one.  It is counted and not idle, unless it
\* has given up its place.
CallersOwn ==
    \A c \in Callers : InUse(c) =>
        /\ rpCaller[c].conn \in 1 .. connsMade
        /\ rpCaller[c].removed => rpCaller[c].conn \notin pooled
        /\ ~rpCaller[c].removed => rpCaller[c].conn \in pooled \ Elems(idleConns)
        /\ \A d \in Callers \ {c} : InUse(d) => rpCaller[c].conn # rpCaller[d].conn

ConnInv == ConnTyped /\ IdleInPool /\ CallersOwn /\ NoConnectionLost /\ WaitersAreServed

\* A queue without its first element.
LEMMA TakeFirst ==
    ASSUME NEW s \in Seq(Nat), s # <<>>, Apart(s)
    PROVE  /\ Tail(s) \in Seq(Nat) /\ Apart(Tail(s)) /\ Len(Tail(s)) = Len(s) - 1
           /\ Head(s) \in Elems(s) /\ Elems(Tail(s)) = Elems(s) \ {Head(s)}
<1>1. Len(s) \in Nat /\ Len(s) >= 1 /\ Head(s) = s[1]
  OBVIOUS
<1>2. Tail(s) \in Seq(Nat) /\ Len(Tail(s)) = Len(s) - 1 /\ \A a \in 1 .. Len(Tail(s)) : Tail(s)[a] = s[a + 1]
  OBVIOUS
<1>3. Apart(Tail(s))
  <2> SUFFICES ASSUME NEW a \in 1 .. Len(Tail(s)), NEW b \in 1 .. Len(Tail(s)), a # b
               PROVE  Tail(s)[a] # Tail(s)[b]
    BY DEF Apart
  <2>1. a + 1 \in 1 .. Len(s) /\ b + 1 \in 1 .. Len(s) /\ a + 1 # b + 1
    BY <1>1, <1>2
  <2> QED
    BY <1>2, <2>1 DEF Apart
<1>4. Head(s) \in Elems(s)
  BY <1>1 DEF Elems
<1>5. Elems(Tail(s)) = Elems(s) \ {Head(s)}
  <2>1. ASSUME NEW a \in 1 .. Len(Tail(s)) PROVE Tail(s)[a] \in Elems(s) \ {Head(s)}
    <3>1. a + 1 \in 1 .. Len(s) /\ 1 \in 1 .. Len(s) /\ a + 1 # 1 /\ Tail(s)[a] = s[a + 1]
      BY <1>1, <1>2
    <3> QED
      BY <1>1, <3>1 DEF Apart, Elems
  <2>2. ASSUME NEW a \in 1 .. Len(s), s[a] # Head(s) PROVE s[a] \in Elems(Tail(s))
    <3>1. a - 1 \in 1 .. Len(Tail(s))
      BY <1>1, <1>2, <2>2
    <3>2. Tail(s)[a - 1] = s[a]
      BY <1>2, <3>1
    <3> QED
      BY <3>1, <3>2 DEF Elems
  <2> QED
    BY <2>1, <2>2 DEF Elems
<1> QED
  BY <1>2, <1>3, <1>4, <1>5

\* A queue with one more at its end.
LEMMA OneMore ==
    ASSUME NEW s \in Seq(Nat), NEW n \in Nat, n \notin Elems(s), Apart(s)
    PROVE  /\ Append(s, n) \in Seq(Nat) /\ Apart(Append(s, n)) /\ Len(Append(s, n)) = Len(s) + 1
           /\ Elems(Append(s, n)) = Elems(s) \cup {n}
<1>1. /\ Len(s) \in Nat /\ Append(s, n) \in Seq(Nat) /\ Len(Append(s, n)) = Len(s) + 1
      /\ Append(s, n)[Len(s) + 1] = n /\ \A a \in 1 .. Len(s) : Append(s, n)[a] = s[a]
  OBVIOUS
<1>2. 1 .. Len(s) + 1 = (1 .. Len(s)) \cup {Len(s) + 1}
  BY <1>1
<1>3. Elems(Append(s, n)) = Elems(s) \cup {n}
  BY <1>1, <1>2, Zenon DEF Elems
<1>4. Apart(Append(s, n))
  BY <1>1, <1>2 DEF Apart, Elems
<1> QED
  BY <1>1, <1>3, <1>4

\* The queue stays in step with the pool when a connection leaves it.
LEMMA IdleShrinks ==
    ASSUME ConnTyped, IdleInPool, idleConns # <<>>, idleConns' = Tail(idleConns), UNCHANGED pooled
    PROVE  /\ IdleInPool' /\ idleConns' \in Seq(Nat) /\ Head(idleConns) \in Elems(idleConns)
           /\ Elems(idleConns') = Elems(idleConns) \ {Head(idleConns)}
<1>1. /\ idleConns' \in Seq(Nat) /\ Apart(idleConns') /\ Len(idleConns') = Len(idleConns) - 1
      /\ Head(idleConns) \in Elems(idleConns) /\ Elems(idleConns') = Elems(idleConns) \ {Head(idleConns)}
  BY TakeFirst DEF ConnTyped, IdleInPool
<1>2. IsFiniteSet(Elems(idleConns))
  BY FS_Subset DEF ConnTyped, IdleInPool
<1>3. Cardinality(Elems(idleConns')) = Cardinality(Elems(idleConns)) - 1
  BY <1>1, <1>2, FS_RemoveElement
<1> QED
  BY <1>1, <1>3 DEF IdleInPool

\* A connection that comes back is idle, once.
LEMMA IdleGrows ==
    ASSUME ConnTyped, IdleInPool, NEW n \in Nat, n \notin Elems(idleConns), idleConns' = Append(idleConns, n)
    PROVE  /\ Apart(idleConns') /\ idleConns' \in Seq(Nat) /\ Len(idleConns') = Cardinality(Elems(idleConns'))
           /\ Elems(idleConns') = Elems(idleConns) \cup {n}
<1>1. /\ idleConns' \in Seq(Nat) /\ Apart(idleConns') /\ Len(idleConns') = Len(idleConns) + 1
      /\ Elems(idleConns') = Elems(idleConns) \cup {n}
  BY OneMore DEF ConnTyped, IdleInPool
<1>2. IsFiniteSet(Elems(idleConns))
  BY FS_Subset DEF ConnTyped, IdleInPool
<1>3. Cardinality(Elems(idleConns')) = Cardinality(Elems(idleConns)) + 1
  BY <1>1, <1>2, FS_AddElement
<1> QED
  BY <1>1, <1>3 DEF IdleInPool

\* Where a caller goes, the others are left where they are.
LEMMA CallerGoes ==
    ASSUME ConnTyped, NEW c \in Callers
    PROVE  /\ \A pc \in {"ready", "set", "waits", "ended"} : RpGo(c, pc) =>
                \E r \in CallerRecords : r.pc = pc /\ rpCaller' = [rpCaller EXCEPT ![c] = r]
           /\ \A n \in Nat : Holds(c, n) =>
                \E r \in CallerRecords : /\ r.pc = "calls" /\ r.conn = n /\ ~r.removed
                                         /\ rpCaller' = [rpCaller EXCEPT ![c] = r]
<1>0. rpCaller[c] \in CallerRecords
  BY DEF ConnTyped
<1>1. ASSUME NEW pc \in {"ready", "set", "waits", "ended"}, RpGo(c, pc)
      PROVE  \E r \in CallerRecords : r.pc = pc /\ rpCaller' = [rpCaller EXCEPT ![c] = r]
  <2>1. [rpCaller[c] EXCEPT !.pc = pc] \in CallerRecords /\ [rpCaller[c] EXCEPT !.pc = pc].pc = pc
    BY <1>0 DEF CallerRecords
  <2>2. rpCaller' = [rpCaller EXCEPT ![c] = [rpCaller[c] EXCEPT !.pc = pc]]
    BY <1>1 DEF RpGo
  <2> QED
    BY <2>1, <2>2
<1>2. ASSUME NEW n \in Nat, Holds(c, n)
      PROVE  \E r \in CallerRecords : /\ r.pc = "calls" /\ r.conn = n /\ ~r.removed
                                      /\ rpCaller' = [rpCaller EXCEPT ![c] = r]
  <2>1. [pc |-> "calls", conn |-> n, removed |-> FALSE] \in CallerRecords
    BY DEF CallerRecords
  <2> QED
    BY <1>2, <2>1 DEF Holds
<1> QED
  BY <1>1, <1>2

\* What a step of caller c must not do to the others.
Keeps(c) ==
    \A n \in 1 .. connsMade : (InUse(c) => n # rpCaller[c].conn) =>
        /\ n \in pooled' <=> n \in pooled
        /\ n \in Elems(idleConns)' => n \in Elems(idleConns)

\* The connection that a caller holds after its step.
OwnsAfter(c, r) ==
    r.pc = "calls" =>
        /\ r.conn \in 1 .. connsMade'
        /\ r.removed => r.conn \notin pooled'
        /\ ~r.removed => r.conn \in pooled' \ Elems(idleConns)'
        /\ \A d \in Callers \ {c} : InUse(d) => r.conn # rpCaller[d].conn

\* A step of one caller keeps the invariant if it keeps its part and does the others no harm.
LEMMA CallerStep ==
    ASSUME ConnInv, NEW c \in Callers, NEW r \in CallerRecords, rpCaller' = [rpCaller EXCEPT ![c] = r],
           idleConns' \in Seq(Nat), connsMade' \in Nat, connsMade' >= connsMade, rpcClients' \in 0 .. 1,
           pooled' \subseteq 1 .. connsMade', IsFiniteSet(pooled'), openConns' \subseteq 1 .. connsMade',
           IdleInPool', Keeps(c), OwnsAfter(c, r),
           \A n \in openConns' : \/ n \in pooled' \/ (r.pc = "calls" /\ n = r.conn)
                                 \/ n \in openConns /\ n \notin pooled /\ (InUse(c) => n # rpCaller[c].conn),
           pooled' = {} => lostPlace' \/ (pooled = {} /\ r.pc # "waits"), lostPlace => lostPlace'
    PROVE  ConnInv'
<1>0. rpCaller \in [Callers -> CallerRecords]
  BY DEF ConnInv, ConnTyped
<1>1. /\ rpCaller' \in [Callers -> CallerRecords] /\ rpCaller'[c] = r
      /\ \A d \in Callers \ {c} : rpCaller'[d] = rpCaller[d]
  BY <1>0
<1>2. ConnTyped'
  BY <1>1 DEF ConnTyped
<1>3. CallersOwn'
  <2>1. ASSUME NEW d \in Callers \ {c}, InUse(d)
        PROVE  /\ rpCaller[d].conn \in 1 .. connsMade'
               /\ rpCaller[d].removed => rpCaller[d].conn \notin pooled'
               /\ ~rpCaller[d].removed => rpCaller[d].conn \in pooled' \ Elems(idleConns)'
               /\ r.pc = "calls" => rpCaller[d].conn # r.conn
    <3>1. /\ rpCaller[d].conn \in 1 .. connsMade
          /\ rpCaller[d].removed => rpCaller[d].conn \notin pooled
          /\ ~rpCaller[d].removed => rpCaller[d].conn \in pooled \ Elems(idleConns)
          /\ InUse(c) => rpCaller[d].conn # rpCaller[c].conn
      BY <2>1 DEF ConnInv, CallersOwn
    <3>2. rpCaller[d].conn \in 1 .. connsMade'
      BY <3>1 DEF ConnInv, ConnTyped
    <3> QED
      BY <2>1, <3>1, <3>2 DEF Keeps, OwnsAfter
  <2>2. \A d \in Callers \ {c} : InUse(d)' <=> InUse(d)
    BY <1>1 DEF InUse, RpAt
  <2>3. InUse(c)' <=> r.pc = "calls"
    BY <1>1 DEF InUse, RpAt
  <2>4. ASSUME NEW d \in Callers, NEW e \in Callers \ {d}, InUse(d)', InUse(e)'
        PROVE  rpCaller'[d].conn # rpCaller'[e].conn
    BY <1>1, <2>1, <2>2, <2>3, <2>4 DEF ConnInv, CallersOwn
  <2>5. ASSUME NEW d \in Callers, InUse(d)'
        PROVE  /\ rpCaller'[d].conn \in 1 .. connsMade'
               /\ rpCaller'[d].removed => rpCaller'[d].conn \notin pooled'
               /\ ~rpCaller'[d].removed => rpCaller'[d].conn \in pooled' \ Elems(idleConns)'
    BY <1>1, <2>1, <2>2, <2>3, <2>5 DEF OwnsAfter
  <2> QED
    BY <2>4, <2>5 DEF CallersOwn
<1>4. NoConnectionLost'
  <2> SUFFICES ASSUME NEW n \in openConns', n \notin pooled'
               PROVE  \E d \in Callers : InUse(d)' /\ n = rpCaller'[d].conn
    BY DEF NoConnectionLost
  <2>1. CASE r.pc = "calls" /\ n = r.conn
    BY <1>1, <2>1 DEF InUse, RpAt
  <2>2. CASE n \in openConns /\ n \notin pooled /\ (InUse(c) => n # rpCaller[c].conn)
    <3>1. PICK d \in Callers : InUse(d) /\ n = rpCaller[d].conn
      BY <2>2 DEF ConnInv, NoConnectionLost
    <3> QED
      BY <1>1, <2>2, <3>1 DEF InUse, RpAt
  <2> QED
    BY <2>1, <2>2
<1>5. WaitersAreServed'
  BY <1>1 DEF ConnInv, WaitersAreServed, RpAt
<1> QED
  BY <1>2, <1>3, <1>4, <1>5 DEF ConnInv

\* The pool is left alone by who gets the client, waits or gives up.
LEMMA PoolAlone ==
    ASSUME ConnInv, NEW c \in Callers, ~InUse(c),
           getClient(c) \/ setAndGetClient(c) \/ BorrowWaits(c) \/ TakeTimesOut(c) \/ CallAgain(c)
    PROVE  ConnInv'
<1>1. UnchangedPool /\ rpcClients' \in 0 .. 1
  BY DEF getClient, setAndGetClient, BorrowWaits, TakeTimesOut, CallAgain, ConnInv, ConnTyped
<1>2. PICK pc \in {"ready", "set", "waits", "ended"} : RpGo(c, pc) /\ (pc = "waits" => BorrowWaits(c))
  BY DEF getClient, setAndGetClient, BorrowWaits, TakeTimesOut, CallAgain
<1>3. PICK r \in CallerRecords : r.pc = pc /\ rpCaller' = [rpCaller EXCEPT ![c] = r]
  BY <1>2, CallerGoes DEF ConnInv
<1>4. BorrowWaits(c) => pooled # {}
  <2>1. Cardinality({}) = 0
    BY FS_EmptySet
  <2>2. BorrowWaits(c) => Cardinality(pooled) >= PoolSize
    BY DEF BorrowWaits
  <2> QED
    BY <2>1, <2>2, RpcPoolAssumption
<1>5. UNCHANGED <<pooled, idleConns, openConns, connsMade, lostPlace>>
  BY <1>1 DEF UnchangedPool
<1>6. IdleInPool' /\ Keeps(c) /\ OwnsAfter(c, r)
  BY <1>3, <1>5 DEF ConnInv, IdleInPool, Elems, Apart, Keeps, OwnsAfter
<1>7. /\ idleConns' \in Seq(Nat) /\ connsMade' \in Nat /\ connsMade' >= connsMade
      /\ pooled' \subseteq 1 .. connsMade' /\ IsFiniteSet(pooled') /\ openConns' \subseteq 1 .. connsMade'
  BY <1>5 DEF ConnInv, ConnTyped
<1>8. \A n \in openConns' : n \in pooled' \/ (n \in openConns /\ n \notin pooled /\ (InUse(c) => n # rpCaller[c].conn))
  BY <1>5
<1>9. pooled' = {} => pooled = {} /\ r.pc # "waits"
  BY <1>2, <1>3, <1>4, <1>5
<1> QED
  BY <1>1, <1>3, <1>5, <1>6, <1>7, <1>8, <1>9, CallerStep

\* An idle connection is lent to one caller.
LEMMA IdleTaken ==
    ASSUME ConnInv, NEW c \in Callers, ~InUse(c), BorrowIdle(c) \/ TakeIdle(c)
    PROVE  ConnInv'
<1> DEFINE n == Head(idleConns)
<1>1. /\ idleConns # <<>> /\ Holds(c, n) /\ idleConns' = Tail(idleConns)
      /\ UNCHANGED <<pooled, openConns, connsMade, rpcClients, lostPlace>>
  BY DEF BorrowIdle, TakeIdle
<1>2. /\ IdleInPool' /\ idleConns' \in Seq(Nat) /\ n \in Elems(idleConns)
      /\ Elems(idleConns') = Elems(idleConns) \ {n}
  BY <1>1, IdleShrinks DEF ConnInv
<1> HIDE DEF n
<1>3. n \in pooled /\ n \in 1 .. connsMade /\ n \in Nat
  <2>1. n \in Elems(idleConns)
    BY <1>2
  <2>2. Elems(idleConns) \subseteq pooled
    BY DEF ConnInv, IdleInPool
  <2>3. pooled \subseteq 1 .. connsMade /\ 1 .. connsMade \subseteq Nat
    BY DEF ConnInv, ConnTyped
  <2> QED
    BY <2>1, <2>2, <2>3, Zenon
<1>4. PICK r \in CallerRecords : r.pc = "calls" /\ r.conn = n /\ ~r.removed /\ rpCaller' = [rpCaller EXCEPT ![c] = r]
  BY <1>1, <1>3, CallerGoes DEF ConnInv
<1>5. Keeps(c)
  BY <1>1, <1>2 DEF Keeps
<1>6. \A d \in Callers \ {c} : InUse(d) => n # rpCaller[d].conn
  BY <1>2, <1>3 DEF ConnInv, CallersOwn
<1>7. OwnsAfter(c, r)
  BY <1>1, <1>2, <1>3, <1>4, <1>6 DEF OwnsAfter
<1>8. \A m \in openConns' : m \in pooled' \/ (m \in openConns /\ m \notin pooled /\ (InUse(c) => m # rpCaller[c].conn))
  BY <1>1
<1>9. pooled' # {}
  BY <1>1, <1>3
<1>10. /\ connsMade' \in Nat /\ connsMade' >= connsMade /\ rpcClients' \in 0 .. 1
       /\ pooled' \subseteq 1 .. connsMade' /\ IsFiniteSet(pooled') /\ openConns' \subseteq 1 .. connsMade'
  BY <1>1 DEF ConnInv, ConnTyped
<1> QED
  BY <1>1, <1>2, <1>4, <1>5, <1>7, <1>8, <1>9, <1>10, CallerStep

\* A new connection is nobody's, and the pool has room for it.
LEMMA NewBorrowed ==
    ASSUME ConnInv, NEW c \in Callers, ~InUse(c), BorrowNew(c)
    PROVE  ConnInv'
<1>0. /\ connsMade \in Nat /\ pooled \subseteq 1 .. connsMade /\ IsFiniteSet(pooled) /\ openConns \subseteq 1 .. connsMade
      /\ Elems(idleConns) \subseteq pooled /\ idleConns \in Seq(Nat) /\ rpcClients \in 0 .. 1
  BY DEF ConnInv, ConnTyped, IdleInPool
<1>1. UNCHANGED <<idleConns, rpcClients, lostPlace>> /\ Cardinality(pooled) < PoolSize
  BY DEF BorrowNew
<1>2. CASE /\ connsMade' = connsMade + 1 /\ openConns' = openConns \cup {connsMade + 1}
           /\ pooled' = pooled \cup {connsMade + 1} /\ Holds(c, connsMade + 1)
  <2> DEFINE n == connsMade + 1
  <2>1. n \in Nat /\ n \notin 1 .. connsMade /\ n \in 1 .. connsMade' /\ 1 .. connsMade \subseteq 1 .. connsMade'
    BY <1>0, <1>2
  <2>2. PICK r \in CallerRecords : r.pc = "calls" /\ r.conn = n /\ ~r.removed /\ rpCaller' = [rpCaller EXCEPT ![c] = r]
    BY <1>2, <2>1, CallerGoes DEF ConnInv
  <2>3. pooled' = pooled \cup {n} /\ openConns' = openConns \cup {n} /\ connsMade' \in Nat /\ connsMade' >= connsMade
    BY <1>0, <1>2
  <2> HIDE DEF n
  <2>4. Elems(idleConns)' = Elems(idleConns)
    BY <1>1 DEF Elems
  <2>5. IsFiniteSet(pooled') /\ Cardinality(pooled') <= PoolSize
    <3>1. Cardinality(pooled') = Cardinality(pooled) + 1 /\ IsFiniteSet(pooled')
      BY <1>0, <2>1, <2>3, FS_AddElement
    <3>2. Cardinality(pooled) \in Nat
      BY <1>0, FS_CardinalityType
    <3> QED
      BY <1>1, <3>1, <3>2, RpcPoolAssumption
  <2>6. IdleInPool'
    BY <1>1, <2>3, <2>4, <2>5 DEF ConnInv, IdleInPool, Apart
  <2>7. Keeps(c)
    BY <1>0, <2>1, <2>3, <2>4 DEF Keeps
  <2>8. \A d \in Callers \ {c} : InUse(d) => n # rpCaller[d].conn
    BY <2>1 DEF ConnInv, CallersOwn
  <2>9. OwnsAfter(c, r)
    BY <1>0, <2>1, <2>2, <2>3, <2>4, <2>8 DEF OwnsAfter
  <2>10. pooled' \subseteq 1 .. connsMade' /\ openConns' \subseteq 1 .. connsMade'
    BY <1>0, <2>1, <2>3
  <2>11. \A m \in openConns' : m \in pooled' \/ (m \in openConns /\ m \notin pooled /\ (InUse(c) => m # rpCaller[c].conn))
    BY <2>3
  <2>12. pooled' # {}
    BY <2>3
  <2> QED
    BY <1>0, <1>1, <2>2, <2>3, <2>5, <2>6, <2>7, <2>9, <2>10, <2>11, <2>12, CallerStep
<1>3. CASE UNCHANGED <<connsMade, openConns, pooled>> /\ RpGo(c, "ended")
  <2>1. PICK r \in CallerRecords : r.pc = "ended" /\ rpCaller' = [rpCaller EXCEPT ![c] = r]
    BY <1>3, CallerGoes DEF ConnInv
  <2>2. IdleInPool' /\ Keeps(c) /\ OwnsAfter(c, r)
    BY <1>1, <1>3, <2>1 DEF ConnInv, IdleInPool, Elems, Apart, Keeps, OwnsAfter
  <2>3. \A m \in openConns' : m \in pooled' \/ (m \in openConns /\ m \notin pooled /\ (InUse(c) => m # rpCaller[c].conn))
    BY <1>3
  <2>4. pooled' = {} => pooled = {} /\ r.pc # "waits"
    BY <1>3, <2>1
  <2>5. /\ connsMade' \in Nat /\ connsMade' >= connsMade
        /\ pooled' \subseteq 1 .. connsMade' /\ IsFiniteSet(pooled') /\ openConns' \subseteq 1 .. connsMade'
    BY <1>0, <1>3
  <2> QED
    BY <1>0, <1>1, <2>1, <2>2, <2>3, <2>4, <2>5, CallerStep
<1> QED
  BY <1>2, <1>3 DEF BorrowNew, Dialed, DialFailed

\* What the connection of a call is, while it lasts.
LEMMA CallerHas ==
    ASSUME ConnInv, NEW c \in Callers, InUse(c)
    PROVE  /\ rpCaller[c] \in CallerRecords
           /\ rpCaller[c].conn \in 1 .. connsMade /\ rpCaller[c].conn \in Nat
           /\ rpCaller[c].conn \notin Elems(idleConns)
           /\ ~rpCaller[c].removed => rpCaller[c].conn \in pooled
           /\ rpCaller[c].removed => rpCaller[c].conn \notin pooled
           /\ \A d \in Callers \ {c} : InUse(d) => rpCaller[c].conn # rpCaller[d].conn
           /\ connsMade \in Nat /\ pooled \subseteq 1 .. connsMade /\ IsFiniteSet(pooled)
           /\ openConns \subseteq 1 .. connsMade
           /\ Elems(idleConns) \subseteq pooled /\ idleConns \in Seq(Nat) /\ rpcClients \in 0 .. 1
<1>1. /\ rpCaller[c].conn \in 1 .. connsMade
      /\ rpCaller[c].removed => rpCaller[c].conn \notin pooled
      /\ ~rpCaller[c].removed => rpCaller[c].conn \in pooled \ Elems(idleConns)
      /\ \A d \in Callers \ {c} : InUse(d) => rpCaller[c].conn # rpCaller[d].conn
  BY DEF ConnInv, CallersOwn
<1>2. /\ connsMade \in Nat /\ pooled \subseteq 1 .. connsMade /\ IsFiniteSet(pooled)
      /\ openConns \subseteq 1 .. connsMade
      /\ Elems(idleConns) \subseteq pooled /\ idleConns \in Seq(Nat) /\ rpcClients \in 0 .. 1
      /\ rpCaller[c] \in CallerRecords
  BY DEF ConnInv, ConnTyped, IdleInPool
<1>3. rpCaller[c].removed \in BOOLEAN
  BY <1>2 DEF CallerRecords
<1> QED
  BY <1>1, <1>2, <1>3

\* The connection comes back to the pool, which still counts it.
LEMMA ConnReturned ==
    ASSUME ConnInv, NEW c \in Callers, InUse(c), ~rpCaller[c].removed,
           ReturnItem(c), RpGo(c, "ended"), UNCHANGED <<openConns, rpcClients>>
    PROVE  ConnInv'
<1> DEFINE n == rpCaller[c].conn
<1>1. /\ n \in Nat /\ n \notin Elems(idleConns) /\ n \in pooled /\ idleConns' = Append(idleConns, n)
      /\ UNCHANGED <<pooled, connsMade, lostPlace>>
  BY CallerHas DEF ReturnItem
<1>2. PICK r \in CallerRecords : r.pc = "ended" /\ rpCaller' = [rpCaller EXCEPT ![c] = r]
  BY CallerGoes DEF ConnInv
<1>3. /\ Apart(idleConns') /\ idleConns' \in Seq(Nat) /\ Len(idleConns') = Cardinality(Elems(idleConns'))
      /\ Elems(idleConns') = Elems(idleConns) \cup {n}
  BY <1>1, IdleGrows DEF ConnInv
<1>4. IdleInPool'
  BY <1>1, <1>3 DEF ConnInv, IdleInPool
<1>5. Keeps(c)
  BY <1>1, <1>3 DEF Keeps
<1>6. OwnsAfter(c, r)
  BY <1>2 DEF OwnsAfter
<1>7. \A m \in openConns' : m \in pooled' \/ (m \in openConns /\ m \notin pooled /\ (InUse(c) => m # rpCaller[c].conn))
  BY <1>1
<1>8. pooled' # {}
  BY <1>1
<1>9. /\ connsMade' \in Nat /\ connsMade' >= connsMade /\ rpcClients' \in 0 .. 1
      /\ pooled' \subseteq 1 .. connsMade' /\ IsFiniteSet(pooled') /\ openConns' \subseteq 1 .. connsMade'
  BY <1>1, CallerHas
<1> QED
  BY <1>1, <1>2, <1>3, <1>4, <1>5, <1>6, <1>7, <1>8, <1>9, CallerStep

\* A connection that had left the pool is closed.
LEMMA ConnClosed ==
    ASSUME ConnInv, NEW c \in Callers, InUse(c), rpCaller[c].removed, openConns' = openConns \ {rpCaller[c].conn},
           UNCHANGED <<pooled, idleConns, connsMade, rpcClients, lostPlace>>, RpGo(c, "ended")
    PROVE  ConnInv'
<1>1. PICK r \in CallerRecords : r.pc = "ended" /\ rpCaller' = [rpCaller EXCEPT ![c] = r]
  BY CallerGoes DEF ConnInv
<1>2. IdleInPool' /\ Keeps(c) /\ OwnsAfter(c, r)
  BY <1>1 DEF ConnInv, IdleInPool, Elems, Apart, Keeps, OwnsAfter
<1>3. \A m \in openConns' : m \in pooled' \/ (m \in openConns /\ m \notin pooled /\ (InUse(c) => m # rpCaller[c].conn))
  OBVIOUS
<1>4. pooled' = {} => pooled = {} /\ r.pc # "waits"
  BY <1>1
<1>5. /\ idleConns' \in Seq(Nat) /\ connsMade' \in Nat /\ connsMade' >= connsMade /\ rpcClients' \in 0 .. 1
      /\ pooled' \subseteq 1 .. connsMade' /\ IsFiniteSet(pooled') /\ openConns' \subseteq 1 .. connsMade'
  BY CallerHas
<1> QED
  BY <1>1, <1>2, <1>3, <1>4, <1>5, CallerStep

\* A connection leaves the pool, and a new one takes its place if it can be dialed: the caller
\* ends and the connection is closed, or it goes on with the connection that is now its own.
LEMMA ConnRemoved ==
    ASSUME ConnInv, NEW c \in Callers, InUse(c), NEW os, RemoveItem(c, os), UNCHANGED rpcClients,
           NEW r \in CallerRecords, rpCaller' = [rpCaller EXCEPT ![c] = r],
           \/ r.pc = "ended" /\ os = openConns \ {rpCaller[c].conn}
           \/ r.pc = "calls" /\ r.removed /\ r.conn = rpCaller[c].conn /\ os = openConns
    PROVE  ConnInv'
<1> DEFINE n == rpCaller[c].conn
           m == connsMade + 1
<1>0. /\ n \in 1 .. connsMade /\ n \notin Elems(idleConns) /\ connsMade \in Nat
      /\ pooled \subseteq 1 .. connsMade /\ IsFiniteSet(pooled) /\ openConns \subseteq 1 .. connsMade
      /\ Elems(idleConns) \subseteq pooled /\ idleConns \in Seq(Nat) /\ rpcClients \in 0 .. 1
      /\ \A d \in Callers \ {c} : InUse(d) => n # rpCaller[d].conn
  BY CallerHas
<1>1. os \subseteq openConns /\ (r.pc = "calls" => r.conn = n /\ r.removed) /\ r.pc # "waits"
      /\ \A k \in os : k = n => r.pc = "calls"
  OBVIOUS
<1>2. m \in Nat /\ m \notin 1 .. connsMade /\ m \in 1 .. m /\ 1 .. connsMade \subseteq 1 .. m /\ m >= connsMade
  BY <1>0
<1>3. ASSUME n \in pooled, connsMade' = m, openConns' = os \cup {m}, pooled' = (pooled \ {n}) \cup {m},
             idleConns' = Append(idleConns, m), UNCHANGED lostPlace
      PROVE  ConnInv'
  <2> HIDE DEF n, m
  <2>1. m \notin Elems(idleConns) /\ m \notin pooled /\ m # n
    BY <1>0, <1>2
  <2>2. /\ Apart(idleConns') /\ idleConns' \in Seq(Nat) /\ Len(idleConns') = Cardinality(Elems(idleConns'))
        /\ Elems(idleConns') = Elems(idleConns) \cup {m}
    BY <1>2, <1>3, <2>1, IdleGrows DEF ConnInv
  <2>3. IsFiniteSet(pooled') /\ Cardinality(pooled') = Cardinality(pooled)
    <3>1. IsFiniteSet(pooled \ {n}) /\ Cardinality(pooled \ {n}) = Cardinality(pooled) - 1
      BY <1>0, <1>3, FS_RemoveElement
    <3>2. IsFiniteSet(pooled') /\ Cardinality(pooled') = Cardinality(pooled \ {n}) + 1
      BY <1>3, <2>1, <3>1, FS_AddElement
    <3>3. Cardinality(pooled) \in Nat
      BY <1>0, FS_CardinalityType
    <3> QED
      BY <3>1, <3>2, <3>3
  <2>4. Elems(idleConns') \subseteq pooled'
    BY <1>0, <1>3, <2>2
  <2>5. IdleInPool'
    BY <2>2, <2>3, <2>4 DEF ConnInv, IdleInPool
  <2>6. Keeps(c)
    BY <1>2, <1>3, <2>2 DEF Keeps, n
  <2>7. OwnsAfter(c, r)
    BY <1>0, <1>1, <1>2, <1>3, <2>1 DEF OwnsAfter
  <2>8. \A k \in openConns' : \/ k \in pooled' \/ (r.pc = "calls" /\ k = r.conn)
                              \/ k \in openConns /\ k \notin pooled /\ (InUse(c) => k # rpCaller[c].conn)
    BY <1>1, <1>3 DEF n
  <2>9. pooled' # {}
    BY <1>3
  <2>10. pooled' \subseteq 1 .. connsMade' /\ openConns' \subseteq 1 .. connsMade'
    BY <1>0, <1>1, <1>2, <1>3
  <2> QED
    BY <1>0, <1>2, <1>3, <2>2, <2>3, <2>5, <2>6, <2>7, <2>8, <2>9, <2>10, CallerStep
<1>4. ASSUME UNCHANGED <<connsMade, idleConns>>, openConns' = os,
             pooled' = pooled \ {n}, (n \in pooled => lostPlace') , lostPlace => lostPlace'
      PROVE  ConnInv'
  <2> HIDE DEF n, m
  <2>1. Elems(idleConns)' = Elems(idleConns)
    BY <1>4 DEF Elems
  <2>2. IsFiniteSet(pooled') /\ Cardinality(pooled') <= PoolSize
    <3>1. IsFiniteSet(pooled') /\ Cardinality(pooled') <= Cardinality(pooled)
      BY <1>0, <1>4, FS_Subset
    <3>2. Cardinality(pooled) \in Nat /\ Cardinality(pooled') \in Nat /\ Cardinality(pooled) <= PoolSize
      BY <1>0, <3>1, FS_CardinalityType DEF ConnInv, IdleInPool
    <3> QED
      BY <3>1, <3>2, RpcPoolAssumption
  <2>3. Elems(idleConns) \subseteq pooled'
    BY <1>0, <1>4
  <2>4. IdleInPool'
    BY <1>4, <2>1, <2>2, <2>3 DEF ConnInv, IdleInPool, Apart
  <2>5. Keeps(c)
    BY <1>4, <2>1 DEF Keeps, n
  <2>6. OwnsAfter(c, r)
    BY <1>0, <1>1, <1>4 DEF OwnsAfter
  <2>7. \A k \in openConns' : \/ k \in pooled' \/ (r.pc = "calls" /\ k = r.conn)
                              \/ k \in openConns /\ k \notin pooled /\ (InUse(c) => k # rpCaller[c].conn)
    BY <1>1, <1>4 DEF n
  <2>8. pooled' = {} => lostPlace' \/ (pooled = {} /\ r.pc # "waits")
    BY <1>1, <1>4
  <2>9. /\ connsMade' \in Nat /\ connsMade' >= connsMade
        /\ pooled' \subseteq 1 .. connsMade' /\ openConns' \subseteq 1 .. connsMade'
    BY <1>0, <1>1, <1>4
  <2> QED
    BY <1>0, <1>4, <2>2, <2>4, <2>5, <2>6, <2>7, <2>8, <2>9, CallerStep
<1>5. n \notin pooled => pooled = pooled \ {n}
  OBVIOUS
<1> QED
  BY <1>3, <1>4, <1>5 DEF RemoveItem

\* What a call does to its connection, whichever way it ends.
LEMMA CallSteps ==
    ASSUME ConnInv, NEW c \in Callers, InUse(c), CallTooLate(c) \/ CallAnswered(c) \/ CallFails(c) \/ CallDiscards(c)
    PROVE  ConnInv'
<1>1. CASE CallTooLate(c)
  BY <1>1, ConnReturned DEF CallTooLate
<1>2. CASE CallAnswered(c)
  BY <1>2, ConnReturned, ConnClosed DEF CallAnswered
<1>3. CASE CallFails(c)
  <2>1. PICK r \in CallerRecords : r.pc = "ended" /\ rpCaller' = [rpCaller EXCEPT ![c] = r]
    BY <1>3, CallerGoes DEF CallFails, ConnInv
  <2>2. RemoveItem(c, openConns \ {rpCaller[c].conn}) /\ UNCHANGED rpcClients
    BY <1>3 DEF CallFails
  <2> QED
    BY <2>1, <2>2, ConnRemoved
<1>4. CASE CallDiscards(c)
  <2> DEFINE r == [rpCaller[c] EXCEPT !.removed = TRUE]
  <2>1. r \in CallerRecords /\ r.pc = "calls" /\ r.removed /\ r.conn = rpCaller[c].conn
    BY CallerHas DEF CallerRecords, InUse, RpAt
  <2>2. rpCaller' = [rpCaller EXCEPT ![c] = r] /\ RemoveItem(c, openConns) /\ UNCHANGED rpcClients
    BY <1>4 DEF CallDiscards
  <2> HIDE DEF r
  <2> QED
    BY <2>1, <2>2, ConnRemoved
<1> QED
  BY <1>1, <1>2, <1>3, <1>4

\* At the beginning there is no connection.
LEMMA ConnInit == rpInit => ConnInv
<1> SUFFICES ASSUME rpInit PROVE ConnInv
  OBVIOUS
<1>1. Elems(idleConns) = {} /\ Apart(idleConns) /\ Len(idleConns) = 0
  BY DEF rpInit, Elems, Apart
<1>2. IsFiniteSet(pooled) /\ Cardinality(pooled) = 0
  BY FS_EmptySet DEF rpInit
<1>3. ConnTyped
  BY <1>2 DEF rpInit, ConnTyped, CallerRecords
<1>4. IdleInPool
  BY <1>1, <1>2, FS_EmptySet, RpcPoolAssumption DEF IdleInPool
<1>5. CallersOwn /\ NoConnectionLost /\ WaitersAreServed
  BY DEF rpInit, CallersOwn, NoConnectionLost, WaitersAreServed, InUse, RpAt
<1> QED
  BY <1>3, <1>4, <1>5 DEF ConnInv

\* Every step keeps the invariant.
LEMMA ConnNext == ConnInv /\ [rpNext]_rpVars => ConnInv'
<1> SUFFICES ASSUME ConnInv, [rpNext]_rpVars PROVE ConnInv'
  OBVIOUS
<1>1. ASSUME NEW c \in Callers,
             getClient(c) \/ setAndGetClient(c) \/ BorrowWaits(c) \/ TakeTimesOut(c) \/ CallAgain(c)
      PROVE  ConnInv'
  <2>1. ~InUse(c)
    BY <1>1 DEF getClient, setAndGetClient, BorrowWaits, TakeTimesOut, CallAgain, InUse, RpAt
  <2> QED
    BY <1>1, <2>1, PoolAlone
<1>2. ASSUME NEW c \in Callers, BorrowIdle(c) \/ TakeIdle(c) PROVE ConnInv'
  <2>1. ~InUse(c)
    BY <1>2 DEF BorrowIdle, TakeIdle, InUse, RpAt
  <2> QED
    BY <1>2, <2>1, IdleTaken
<1>3. ASSUME NEW c \in Callers, BorrowNew(c) PROVE ConnInv'
  <2>1. ~InUse(c)
    BY <1>3 DEF BorrowNew, InUse, RpAt
  <2> QED
    BY <1>3, <2>1, NewBorrowed
<1>4. ASSUME NEW c \in Callers, CallTooLate(c) \/ CallAnswered(c) \/ CallFails(c) \/ CallDiscards(c) PROVE ConnInv'
  <2>1. InUse(c)
    BY <1>4 DEF CallTooLate, CallAnswered, CallFails, CallDiscards, InUse
  <2> QED
    BY <1>4, <2>1, CallSteps
<1>5. ASSUME UNCHANGED rpVars PROVE ConnInv'
  <2>1. ConnTyped' /\ IdleInPool'
    BY <1>5 DEF rpVars, ConnInv, ConnTyped, IdleInPool, Apart, Elems
  <2>2. CallersOwn'
    BY <1>5 DEF rpVars, ConnInv, CallersOwn, InUse, RpAt, Elems
  <2>3. NoConnectionLost' /\ WaitersAreServed'
    BY <1>5 DEF rpVars, ConnInv, NoConnectionLost, WaitersAreServed, InUse, RpAt
  <2> QED
    BY <2>1, <2>2, <2>3 DEF ConnInv
<1> QED
  BY <1>1, <1>2, <1>3, <1>4, <1>5 DEF rpNext

\* The callers of an address share one pool of at most PoolSize connections, a connection carries
\* one call at a time, none is left open that nobody knows of, and who waits will get one
\* (commons/pool, reconnectingClient.Call of rpc/rpcutils).
LEMMA ConnectionsAreSound == rpSpec => []ConnectionsSound
<1>1. ConnInv => ConnectionsSound
  <2> SUFFICES ASSUME ConnInv PROVE ConnectionsSound
    OBVIOUS
  <2>1. IdleConns = Elems(idleConns)
    BY DEF IdleConns, Elems
  <2>2. OnePoolInBounds
    BY <2>1 DEF ConnInv, ConnTyped, IdleInPool, OnePoolInBounds
  <2>3. NotShared
    BY <2>1, CallerHas DEF NotShared
  <2> QED
    BY <2>2, <2>3 DEF ConnInv, ConnectionsSound
<1> QED
  BY <1>1, ConnInit, ConnNext, PTL DEF rpSpec

-----------------------------------------------------------------------------
(* The tokens of the hosts                                                 *)

\* A key that is being read is the present one, or the two calls have crossed.
TokenInv ==
    /\ reading # 0 => reading = hostKey \/ crossed
    /\ RecordIsCurrent

\* A record stands for the present key.
LEMMA RecordStaysCurrent == tkSpec => []RecordIsCurrent
<1>1. tkInit => TokenInv
  BY DEF tkInit, TokenInv, RecordIsCurrent
<1>2. TokenInv /\ [tkNext]_tkVars => TokenInv'
  <2> SUFFICES ASSUME TokenInv, [tkNext]_tkVars
               PROVE  TokenInv'
    OBVIOUS
  <2> USE DEF TokenInv, RecordIsCurrent, masterVars
  <2>1. ASSUME generateDelegateKey PROVE TokenInv'
    BY <2>1 DEF generateDelegateKey
  <2>2. ASSUME SetPermission PROVE TokenInv'
    BY <2>2 DEF SetPermission
  <2>3. ASSUME GetHostKey PROVE TokenInv'
    BY <2>3 DEF GetHostKey
  <2>4. ASSUME AuthenticateRefuses PROVE TokenInv'
    BY <2>4 DEF AuthenticateRefuses
  <2>5. ASSUME CreateJWTIdentity PROVE TokenInv'
    BY <2>5 DEF CreateJWTIdentity
  <2>6. ASSUME AuthenticateLost PROVE TokenInv'
    BY <2>6 DEF AuthenticateLost
  <2>7. ASSUME RecordExpires PROVE TokenInv'
    BY <2>7 DEF RecordExpires
  <2>8. ASSUME RegisterHost PROVE TokenInv'
    BY <2>8 DEF RegisterHost
  <2>9. ASSUME LeaderChanges PROVE TokenInv'
    BY <2>9 DEF LeaderChanges
  <2>10. ASSUME DelegateStarts PROVE TokenInv'
    BY <2>10 DEF DelegateStarts
  <2>11. ASSUME \/ loadKeysFirst \/ NotifyOnChange \/ loadKeys \/ KeysReady \/ SignAsDelegate \/ Retry
                \/ TearsFile \/ updateToken \/ RefreshTimer \/ ForceRefresh
                \/ CtrLoadsFirst \/ CtrWatches \/ WatchTokenFile
         PROVE  TokenInv'
    BY <2>11 DEF loadKeysFirst, NotifyOnChange, loadKeys, KeysReady, SignAsDelegate, Retry, TearsFile,
       updateToken,
                 RefreshTimer, ForceRefresh, CtrLoadsFirst, CtrWatches, WatchTokenFile
  <2>12. ASSUME UNCHANGED tkVars PROVE TokenInv'
    BY <2>12 DEF tkVars
  <2> QED
    BY <2>1, <2>2, <2>3, <2>4, <2>5, <2>6, <2>7, <2>8, <2>9, <2>10, <2>11, <2>12 DEF tkNext
<1>3. TokenInv => RecordIsCurrent
  BY DEF TokenInv
<1> QED
  BY <1>1, <1>2, <1>3, PTL DEF tkSpec

-----------------------------------------------------------------------------
(* A public port                                                            *)

\* The variables of a port have their types.
PortTypeOK ==
    /\ portThread = [pc |-> portThread.pc, isEnabled |-> portThread.isEnabled, ch |-> portThread.ch,
                     exportMap |-> portThread.exportMap]
    /\ portThread.isEnabled \in BOOLEAN
    /\ pubPort = [cancelOpen |-> pubPort.cancelOpen, serving |-> pubPort.serving, exports |-> pubPort.exports]
    /\ pubPort.cancelOpen \in BOOLEAN /\ pubPort.serving \in BOOLEAN

\* Without isEnabled nothing was opened; a thread that was told to stop has closed cancel.
ThreadKnowsPort ==
    /\ ~portThread.isEnabled => ~pubPort.cancelOpen /\ ~pubPort.serving
    /\ portThread.pc \in {"none", "enable"} => ~portThread.isEnabled
    /\ portThread.pc = "stopping" => ~pubPort.cancelOpen

\* What the cache says, what there is, and why they differ.
NotesOK == portFacts = [lost |-> portFacts.lost, restarted |-> portFacts.restarted, unserved |-> portFacts.unserved]

ThreadInv == PortTypeOK /\ ThreadKnowsPort
CacheInv == NotesOK /\ CacheTellsNodes

\* The thread goes elsewhere and nothing else about it changes.
LEMMA ThreadMoves ==
    ASSUME ThreadInv, NEW pc, pc \notin {"none", "enable", "stopping"}, ThreadGoes(pc), UNCHANGED pubPort
    PROVE  ThreadInv'
<1>1. portThread' = [pc |-> pc, isEnabled |-> portThread.isEnabled, ch |-> portThread.ch,
                     exportMap |-> portThread.exportMap]
  BY DEF ThreadInv, PortTypeOK, ThreadGoes
<1>2. /\ portThread'.pc = pc /\ portThread'.isEnabled = portThread.isEnabled
      /\ portThread'.ch = portThread.ch /\ portThread'.exportMap = portThread.exportMap
  BY <1>1
<1> QED
  BY <1>1, <1>2 DEF ThreadInv, PortTypeOK, ThreadKnowsPort

\* At rest the thread has nothing to stop.
LEMMA ThreadRests ==
    ASSUME PortTypeOK, portThread' = AtRest, pubPort' = pubPort, ~pubPort.cancelOpen, ~pubPort.serving
    PROVE  ThreadInv'
BY DEF PortTypeOK, ThreadInv, ThreadKnowsPort, AtRest

\* A step of the thread keeps what it knows.
LEMMA ThreadKnows == ASSUME ThreadInv, [peNext]_peVars PROVE ThreadInv'
<1>1. ASSUME SpawnPort PROVE ThreadInv'
  <2>1. portThread' = [pc |-> "get", isEnabled |-> FALSE, ch |-> {}, exportMap |-> {}]
    BY <1>1 DEF SpawnPort, AtRest
  <2>2. portThread'.pc = "get" /\ portThread'.isEnabled = FALSE /\ portThread'.ch = {} /\ portThread'.exportMap = {}
    BY <2>1
  <2>3. portThread' = [pc |-> portThread'.pc, isEnabled |-> portThread'.isEnabled, ch |-> portThread'.ch,
                       exportMap |-> portThread'.exportMap]
    BY <2>1, <2>2
  <2>4. pubPort' = pubPort /\ ~portThread.isEnabled
    BY <1>1 DEF SpawnPort, ThreadAt, ThreadInv, ThreadKnowsPort
  <2> QED
    BY <2>2, <2>3, <2>4 DEF ThreadInv, PortTypeOK, ThreadKnowsPort
<1>2. ASSUME GetPort PROVE ThreadInv'
  BY <1>2, ThreadMoves DEF GetPort
<1>3. ASSUME CheckExports PROVE ThreadInv'
  <2>1. PICK pc \in {"children", "set"} : portThread' = [portThread EXCEPT !.pc = pc, !.ch = {}]
    BY <1>3 DEF CheckExports
  <2>2. portThread' = [pc |-> pc, isEnabled |-> portThread.isEnabled, ch |-> {}, exportMap |-> portThread.exportMap]
    BY <2>1 DEF ThreadInv, PortTypeOK
  <2>3. portThread'.pc = pc /\ portThread'.isEnabled = portThread.isEnabled
    BY <2>2
  <2> QED
    BY <1>3, <2>2, <2>3 DEF CheckExports, ThreadInv, PortTypeOK, ThreadKnowsPort
<1>4. ASSUME TrackExports PROVE ThreadInv'
  <2>1. ASSUME exportDir PROVE ThreadInv'
    <3>1. portThread' = [portThread EXCEPT !.pc = "set", !.ch = registered]
      BY <1>4, <2>1 DEF TrackExports
    <3>2. portThread' = [pc |-> "set", isEnabled |-> portThread.isEnabled, ch |-> registered,
                         exportMap |-> portThread.exportMap]
      BY <3>1 DEF ThreadInv, PortTypeOK
    <3>3. portThread'.pc = "set" /\ portThread'.isEnabled = portThread.isEnabled
      BY <3>2
    <3> QED
      BY <1>4, <3>2, <3>3 DEF TrackExports, ThreadInv, PortTypeOK, ThreadKnowsPort
  <2>2. ASSUME ~exportDir PROVE ThreadInv'
    BY <1>4, <2>2, ThreadMoves DEF TrackExports
  <2> QED
    BY <2>1, <2>2
<1>5. ASSUME SetExports PROVE ThreadInv'
  <2>1. PICK told \in BOOLEAN : SetTold(told)
    <3> DEFINE T == Cardinality(portThread.ch) # Cardinality(portThread.exportMap) \/ ~(portThread.ch \subseteq portThread.exportMap)
    <3>1. SetTold(T) /\ T \in BOOLEAN
      BY <1>5 DEF SetExports
    <3> QED
      BY <3>1
  <2>2. PICK ex : pubPort' = [pubPort EXCEPT !.exports = ex]
    BY <2>1 DEF SetTold
  <2>3. pubPort' = [cancelOpen |-> pubPort.cancelOpen, serving |-> pubPort.serving, exports |-> ex]
    BY <2>2 DEF ThreadInv, PortTypeOK
  <2>p. PICK pc \in {"waits", "enable"} : pc = IF portThread.isEnabled THEN "waits" ELSE "enable"
    OBVIOUS
  <2>e. PICK em : em = ReadExports
    OBVIOUS
  <2>4. /\ portThread' = [portThread EXCEPT !.pc = pc, !.exportMap = em]
        /\ pc = "enable" => ~portThread.isEnabled
    BY <2>1, <2>p, <2>e DEF SetTold
  <2>5. portThread' = [pc |-> pc, isEnabled |-> portThread.isEnabled, ch |-> portThread.ch, exportMap |-> em]
    BY <2>4 DEF ThreadInv, PortTypeOK
  <2>6. /\ portThread'.pc = pc /\ portThread'.isEnabled = portThread.isEnabled
        /\ pubPort'.cancelOpen = pubPort.cancelOpen /\ pubPort'.serving = pubPort.serving
    BY <2>3, <2>5
  <2> QED
    BY <2>3, <2>4, <2>5, <2>6 DEF ThreadInv, PortTypeOK, ThreadKnowsPort
<1>6. ASSUME Enable PROVE ThreadInv'
  <2>1. PICK pc \in {"waits", "fails"} : portThread' = [portThread EXCEPT !.pc = pc, !.isEnabled = TRUE]
    BY <1>6 DEF Enable
  <2>2. portThread' = [pc |-> pc, isEnabled |-> TRUE, ch |-> portThread.ch, exportMap |-> portThread.exportMap]
    BY <2>1 DEF ThreadInv, PortTypeOK
  <2>3. PICK c \in BOOLEAN, s \in BOOLEAN :
            pubPort' = [cancelOpen |-> c, serving |-> s, exports |-> pubPort.exports]
    <3>1. \/ pubPort' = [pubPort EXCEPT !.cancelOpen = TRUE, !.serving = TRUE]
          \/ pubPort' = pubPort
          \/ pubPort' = [pubPort EXCEPT !.cancelOpen = TRUE]
      BY <1>6 DEF Enable
    <3>2. \/ pubPort' = [cancelOpen |-> TRUE, serving |-> TRUE, exports |-> pubPort.exports]
          \/ pubPort' = pubPort
          \/ pubPort' = [cancelOpen |-> TRUE, serving |-> pubPort.serving, exports |-> pubPort.exports]
      BY <3>1 DEF ThreadInv, PortTypeOK
    <3> QED
      BY <3>2 DEF ThreadInv, PortTypeOK
  <2>4. portThread'.pc = pc /\ portThread'.isEnabled = TRUE /\ pubPort'.cancelOpen = c /\ pubPort'.serving = s
    BY <2>2, <2>3
  <2> QED
    BY <2>2, <2>3, <2>4 DEF ThreadInv, PortTypeOK, ThreadKnowsPort
<1>7. ASSUME OnFailure PROVE ThreadInv'
  BY <1>7, ThreadMoves DEF OnFailure
<1>8. ASSUME OnFailureSync PROVE ThreadInv'
  BY <1>8, ThreadMoves DEF OnFailureSync
<1>9. ASSUME Wakes PROVE ThreadInv'
  BY <1>9, ThreadMoves DEF Wakes
<1>10. ASSUME ThreadLosesSession PROVE ThreadInv'
  BY <1>10, ThreadMoves DEF ThreadLosesSession
<1>11. ASSUME Disable PROVE ThreadInv'
  <2>1. ASSUME portThread.isEnabled PROVE ThreadInv'
    <3>1. portThread' = [portThread EXCEPT !.pc = "stopping"] /\ pubPort' = [pubPort EXCEPT !.cancelOpen = FALSE]
      BY <1>11, <2>1 DEF Disable, ThreadGoes
    <3>2. /\ portThread' = [pc |-> "stopping", isEnabled |-> portThread.isEnabled, ch |-> portThread.ch,
                            exportMap |-> portThread.exportMap]
          /\ pubPort' = [cancelOpen |-> FALSE, serving |-> pubPort.serving, exports |-> pubPort.exports]
      BY <3>1 DEF ThreadInv, PortTypeOK
    <3>3. /\ portThread'.pc = "stopping" /\ portThread'.isEnabled = portThread.isEnabled
          /\ pubPort'.cancelOpen = FALSE /\ pubPort'.serving = pubPort.serving
      BY <3>2
    <3> QED
      BY <2>1, <3>2, <3>3 DEF ThreadInv, PortTypeOK, ThreadKnowsPort
  <2>2. ASSUME ~portThread.isEnabled PROVE ThreadInv'
    BY <1>11, <2>2, ThreadRests DEF Disable, ThreadInv, ThreadKnowsPort
  <2> QED
    BY <2>1, <2>2
<1>12. ASSUME StopServing PROVE ThreadInv'
  <2>1. pubPort' = [cancelOpen |-> pubPort.cancelOpen, serving |-> FALSE, exports |-> pubPort.exports]
    BY <1>12 DEF StopServing, ThreadInv, PortTypeOK
  <2>2. pubPort'.cancelOpen = pubPort.cancelOpen /\ pubPort'.serving = FALSE
    BY <2>1
  <2> QED
    BY <1>12, <2>1, <2>2 DEF StopServing, ThreadInv, PortTypeOK, ThreadKnowsPort
<1>13. ASSUME PortStopped PROVE ThreadInv'
  BY <1>13, ThreadRests DEF PortStopped, ThreadAt, ThreadInv, ThreadKnowsPort
<1>14. ASSUME MasterStarts PROVE ThreadInv'
  BY <1>14 DEF MasterStarts, ThreadInv, PortTypeOK, ThreadKnowsPort, AtRest, NewPublicPortHandler
<1>15. ASSUME UNCHANGED threadVars PROVE ThreadInv'
  BY <1>15 DEF threadVars, ThreadInv, PortTypeOK, ThreadKnowsPort
<1>16. ASSUME \/ AddPublicEndpointPort \/ RemovePublicEndpointPort \/ EnablePublicEndpointPort \/ CallGoesOn
              \/ removeService \/ SyncStep
       PROVE  UNCHANGED threadVars
  BY <1>16 DEF AddPublicEndpointPort, RemovePublicEndpointPort, EnablePublicEndpointPort, CallGoesOn,
     removeService,
               SyncStep, UnchangedPort, syncService, RemoveServiceEndpoints, DeleteService, GetServicesByPool, doSync
<1>17. ASSUME \/ RegisterExport \/ ExportGoes \/ DeleteExports
              \/ AcceptTCP \/ DialRemoteFails \/ DialRemote \/ ProxyEndsByPeer \/ ProxyLoopStops \/ UNCHANGED peVars
       PROVE  UNCHANGED threadVars
  BY <1>17 DEF RegisterExport, ExportGoes, DeleteExports, UnchangedButExports, AcceptTCP, DialRemoteFails,
     DialRemote,
               ProxyEndsByPeer, ProxyLoopStops, UnchangedByClient, peVars
<1> QED
  BY <1>1, <1>2, <1>3, <1>4, <1>5, <1>6, <1>7, <1>8, <1>9, <1>10, <1>11, <1>12, <1>13, <1>14, <1>15, <1>16,
     <1>17
  DEF peNext, ThreadStep

\* A copy of the document to ZooKeeper, whether it succeeds or not.
LEMMA SyncKeepsCache ==
    ASSUME CacheInv, NEW d, SyncServiceRegistry(d)
    PROVE  CacheInv'
<1>1. ASSUME Synced(d) PROVE CacheInv'
  BY <1>1 DEF Synced, Commits, CommitFails, ToPublish, ToDelete, CacheInv, NotesOK, CacheTellsNodes
<1>2. ASSUME UNCHANGED <<portCache, portNode, portFacts>> PROVE CacheInv'
  BY <1>2 DEF CacheInv, NotesOK, CacheTellsNodes
<1>3. ASSUME portFacts' = [portFacts EXCEPT !.lost = TRUE] PROVE CacheInv'
  <2>1. portFacts' = [lost |-> TRUE, restarted |-> portFacts.restarted, unserved |-> portFacts.unserved]
    BY <1>3 DEF CacheInv, NotesOK
  <2> QED
    BY <2>1 DEF CacheInv, NotesOK, CacheTellsNodes
<1> QED
  BY <1>1, <1>2, <1>3 DEF SyncServiceRegistry, PortSyncFails

\* The cache and the node differ only for a reason.
LEMMA CacheKnows == ASSUME CacheInv, [peNext]_peVars PROVE CacheInv'
<1>1. ASSUME UNCHANGED <<portCache, portNode, portFacts>> PROVE CacheInv'
  BY <1>1 DEF CacheInv, NotesOK, CacheTellsNodes
<1>2. ASSUME syncService \/ doSync PROVE CacheInv'
  BY <1>2, SyncKeepsCache DEF syncService, doSync
<1>3. ASSUME RemoveServiceEndpoints PROVE CacheInv'
  <2>1. SyncServiceRegistry("gone")
    BY <1>3 DEF RemoveServiceEndpoints, SyncServiceRegistry
  <2> QED
    BY <2>1, SyncKeepsCache
<1>4. ASSUME OnFailureSync PROVE CacheInv'
  BY <1>1, <1>4, SyncKeepsCache DEF OnFailureSync
<1>5. ASSUME Enable PROVE CacheInv'
  <2>1. UNCHANGED <<portCache, portNode>>
    BY <1>5 DEF Enable, portDocVars
  <2>2. ASSUME portFacts' = [portFacts EXCEPT !.unserved = TRUE] PROVE CacheInv'
    <3>1. portFacts' = [lost |-> portFacts.lost, restarted |-> portFacts.restarted, unserved |-> TRUE]
      BY <2>2 DEF CacheInv, NotesOK
    <3>2. portFacts'.lost = portFacts.lost /\ portFacts'.restarted = portFacts.restarted /\ portFacts'.unserved = TRUE
      BY <3>1
    <3> QED
      BY <2>1, <3>1, <3>2 DEF CacheInv, NotesOK, CacheTellsNodes
  <2> QED
    BY <1>1, <1>5, <2>1, <2>2 DEF Enable
<1>6. ASSUME MasterStarts PROVE CacheInv'
  <2>1. portFacts' = [lost |-> portFacts.lost, restarted |-> TRUE, unserved |-> portFacts.unserved]
    BY <1>6 DEF MasterStarts, CacheInv, NotesOK
  <2>2. portFacts'.lost = portFacts.lost /\ portFacts'.restarted = TRUE /\ portFacts'.unserved = portFacts.unserved
    BY <2>1
  <2> QED
    BY <1>6, <2>1, <2>2 DEF MasterStarts, NewServiceRegistryCache, CacheInv, NotesOK, CacheTellsNodes
<1>7. ASSUME \/ AddPublicEndpointPort \/ RemovePublicEndpointPort \/ EnablePublicEndpointPort \/ DeleteService
             \/ removeService \/ GetServicesByPool \/ RegisterExport \/ ExportGoes \/ DeleteExports
      PROVE  CacheInv'
  BY <1>1, <1>7 DEF AddPublicEndpointPort, RemovePublicEndpointPort, EnablePublicEndpointPort, DeleteService,
               removeService, GetServicesByPool, RegisterExport, ExportGoes, DeleteExports, UnchangedPort,
               UnchangedButExports, portDocVars
<1>8. ASSUME \/ SpawnPort \/ GetPort \/ CheckExports \/ TrackExports \/ OnFailure \/ Wakes \/ Disable
             \/ StopServing \/ PortStopped \/ ThreadLosesSession
      PROVE  CacheInv'
  BY <1>1, <1>8 DEF SpawnPort, GetPort, CheckExports, TrackExports, OnFailure, Wakes, Disable, StopServing,
               PortStopped, ThreadLosesSession, UnchangedByThread, portDocVars
<1>9. ASSUME SetExports PROVE CacheInv'
  BY <1>1, <1>9 DEF SetExports, SetTold, UnchangedByThread, portDocVars
<1>10. ASSUME \/ AcceptTCP \/ DialRemoteFails \/ DialRemote \/ ProxyEndsByPeer \/ ProxyLoopStops \/ UNCHANGED peVars
       PROVE  CacheInv'
  BY <1>1, <1>10 DEF AcceptTCP, DialRemoteFails, DialRemote, ProxyEndsByPeer, ProxyLoopStops,
     UnchangedByClient, peVars,
               portDocVars
<1> QED
  BY <1>2, <1>3, <1>4, <1>5, <1>6, <1>7, <1>8, <1>9, <1>10 DEF peNext, ThreadStep, CallGoesOn, SyncStep

\* A port listens only for a thread, and the cache says what there is.
LEMMA EndpointsStaySound == peSpec => []EndpointsSound
<1>1. peInit => ThreadInv /\ CacheInv
  BY DEF peInit, ThreadInv, CacheInv, PortTypeOK, ThreadKnowsPort, NotesOK, CacheTellsNodes, AtRest,
         NewPublicPortHandler, NewServiceRegistryCache
<1>2. ThreadInv /\ CacheInv /\ [peNext]_peVars => ThreadInv' /\ CacheInv'
  BY ThreadKnows, CacheKnows
<1>3. ThreadInv /\ CacheInv => EndpointsSound
  BY DEF ThreadInv, CacheInv, ThreadKnowsPort, PortTypeOK, EndpointsSound, PortHasThread, ThreadAt
<1> QED
  BY <1>1, <1>2, <1>3, PTL DEF peSpec

-----------------------------------------------------------------------------
(* The virtual hosts                                                        *)

\* The threads, the handlers and the requests are records for each.
VHostTypeOK ==
    /\ vhThread = [v \in VHosts |-> [pc |-> vhThread[v].pc, isEnabled |-> vhThread[v].isEnabled, told |-> vhThread[v].told]]
    /\ vhHandler = [v \in VHosts |-> [enabled |-> vhHandler[v].enabled, exports |-> vhHandler[v].exports]]
    /\ webRequest = [r \in Browsers |-> [pc |-> webRequest[r].pc, vhost |-> webRequest[r].vhost]]

VHostInv == VHostTypeOK /\ NobodyServedDisabled

\* The thread of v goes elsewhere, as the handler may; what v needs is shown by the step.
LEMMA VHostMoves ==
    ASSUME VHostInv, NEW v \in VHosts, NEW t, NEW h,
           t = [pc |-> t.pc, isEnabled |-> t.isEnabled, told |-> t.told],
           h = [enabled |-> h.enabled, exports |-> h.exports],
           vhThread' = [vhThread EXCEPT ![v] = t],
           vhHandler' = [vhHandler EXCEPT ![v] = h],
           webRequest' = webRequest,
           t.pc = "none" => Served(v) = {} /\ ~h.enabled
    PROVE  VHostInv'
<1>1. \A w \in VHosts : w # v => vhThread'[w] = vhThread[w] /\ vhHandler'[w] = vhHandler[w]
  BY DEF VHostInv, VHostTypeOK
<1>2. vhThread'[v] = t /\ vhHandler'[v] = h
  BY DEF VHostInv, VHostTypeOK
<1>4. vhThread' = [w \in VHosts |-> [pc |-> vhThread'[w].pc, isEnabled |-> vhThread'[w].isEnabled, told |-> vhThread'[w].told]]
  <2>1. vhThread' = [w \in VHosts |-> vhThread'[w]]
    BY DEF VHostInv, VHostTypeOK
  <2>2. \A w \in VHosts : vhThread'[w] = [pc |-> vhThread'[w].pc, isEnabled |-> vhThread'[w].isEnabled, told |-> vhThread'[w].told]
    BY <1>1, <1>2 DEF VHostInv, VHostTypeOK
  <2> QED
    BY <2>1, <2>2, Zenon
<1>5. vhHandler' = [w \in VHosts |-> [enabled |-> vhHandler'[w].enabled, exports |-> vhHandler'[w].exports]]
  <2>1. vhHandler' = [w \in VHosts |-> vhHandler'[w]]
    BY DEF VHostInv, VHostTypeOK
  <2>2. \A w \in VHosts : vhHandler'[w] = [enabled |-> vhHandler'[w].enabled, exports |-> vhHandler'[w].exports]
    BY <1>1, <1>2 DEF VHostInv, VHostTypeOK
  <2> QED
    BY <2>1, <2>2, Zenon
<1>6. \A w \in VHosts : Served(w)' = Served(w)
  BY DEF Served
<1>7. NobodyServedDisabled'
  BY <1>1, <1>2, <1>6 DEF VHostInv, NobodyServedDisabled, VhAt
<1> QED
  BY <1>4, <1>5, <1>7 DEF VHostInv, VHostTypeOK

\* A request goes elsewhere: it is let through only where a thread is.
LEMMA RequestMoves ==
    ASSUME VHostInv, NEW r \in Browsers, NEW pc, NEW v,
           webRequest' = [webRequest EXCEPT ![r] = [pc |-> pc, vhost |-> v]],
           vhThread' = vhThread, vhHandler' = vhHandler,
           pc \in {"proxied", "endless"} => PassesOn(v)
    PROVE  VHostInv'
<1>1. \A q \in Browsers : q # r => webRequest'[q] = webRequest[q]
  BY DEF VHostInv, VHostTypeOK
<1>2. webRequest'[r] = [pc |-> pc, vhost |-> v]
  BY DEF VHostInv, VHostTypeOK
<1>3. webRequest'[r].pc = pc /\ webRequest'[r].vhost = v
  BY <1>2
<1>4. webRequest' = [q \in Browsers |-> [pc |-> webRequest'[q].pc, vhost |-> webRequest'[q].vhost]]
  <2>1. webRequest' = [q \in Browsers |-> webRequest'[q]]
    BY DEF VHostInv, VHostTypeOK
  <2>2. \A q \in Browsers : webRequest'[q] = [pc |-> webRequest'[q].pc, vhost |-> webRequest'[q].vhost]
    BY <1>1, <1>2, <1>3 DEF VHostInv, VHostTypeOK
  <2> QED
    BY <2>1, <2>2, Zenon
<1>5. ASSUME NEW w \in VHosts, VhAt(w, "none")' PROVE Served(w)' = {} /\ ~vhHandler'[w].enabled
  <2>1. Served(w) = {} /\ ~vhHandler[w].enabled
    BY <1>5 DEF VHostInv, NobodyServedDisabled, VhAt
  <2>2. Served(w)' \subseteq Served(w)
    BY <2>1, <1>1, <1>3 DEF Served, PassesOn
  <2> QED
    BY <2>1, <2>2
<1> QED
  BY <1>4, <1>5 DEF VHostInv, VHostTypeOK, NobodyServedDisabled

\* A field of a thread is set.
LEMMA ThreadFields ==
    ASSUME NEW t, t = [pc |-> t.pc, isEnabled |-> t.isEnabled, told |-> t.told], NEW x
    PROVE  /\ [t EXCEPT !.pc = x] = [pc |-> x, isEnabled |-> t.isEnabled, told |-> t.told]
           /\ [t EXCEPT !.isEnabled = x] = [pc |-> t.pc, isEnabled |-> x, told |-> t.told]
           /\ [t EXCEPT !.told = x] = [pc |-> t.pc, isEnabled |-> t.isEnabled, told |-> x]
OBVIOUS

\* A field of a handler is set.
LEMMA HandlerFields ==
    ASSUME NEW h, h = [enabled |-> h.enabled, exports |-> h.exports], NEW x
    PROVE  /\ [h EXCEPT !.enabled = x] = [enabled |-> x, exports |-> h.exports]
           /\ [h EXCEPT !.exports = x] = [enabled |-> h.enabled, exports |-> x]
OBVIOUS

\* A virtual host without a thread passes nothing on.
LEMMA NobodyStaysServed == vhSpec => []NobodyServedDisabled
<1>1. vhInit => VHostInv
  <2> SUFFICES ASSUME vhInit PROVE VHostInv
    OBVIOUS
  <2>1. /\ \A v \in VHosts : vhThread[v] = [pc |-> "none", isEnabled |-> FALSE, told |-> FALSE]
        /\ \A v \in VHosts : vhHandler[v] = [enabled |-> FALSE, exports |-> FALSE]
        /\ \A r \in Browsers : webRequest[r] = [pc |-> "new", vhost |-> "none"]
    BY DEF vhInit
  <2>2. /\ \A v \in VHosts : vhThread[v].pc = "none" /\ vhThread[v].isEnabled = FALSE /\ vhThread[v].told = FALSE
        /\ \A v \in VHosts : vhHandler[v].enabled = FALSE /\ vhHandler[v].exports = FALSE
        /\ \A r \in Browsers : webRequest[r].pc = "new" /\ webRequest[r].vhost = "none"
    BY <2>1
  <2>3. VHostTypeOK
    BY <2>2 DEF vhInit, VHostTypeOK
  <2>4. NobodyServedDisabled
    BY <2>2 DEF NobodyServedDisabled, Served
  <2> QED
    BY <2>3, <2>4 DEF VHostInv
<1>2. VHostInv /\ [vhNext]_vhVars => VHostInv'
  <2> SUFFICES ASSUME VHostInv, [vhNext]_vhVars
               PROVE  VHostInv'
    OBVIOUS
  <2> DEFINE Old(v) == /\ vhThread[v] = [pc |-> vhThread[v].pc, isEnabled |-> vhThread[v].isEnabled, told |-> vhThread[v].told]
                       /\ vhHandler[v] = [enabled |-> vhHandler[v].enabled, exports |-> vhHandler[v].exports]
  <2>0. \A v \in VHosts : Old(v) /\ vhHandler = [vhHandler EXCEPT ![v] = vhHandler[v]]
    BY DEF VHostInv, VHostTypeOK
  <2>1. ASSUME NEW v \in VHosts, NEW pc, VhGoes(v, pc), pc # "none", UNCHANGED <<vhHandler, webRequest>>
        PROVE  VHostInv'
    <3>1. PICK t : t = [vhThread[v] EXCEPT !.pc = pc]
      OBVIOUS
    <3>2. t = [pc |-> pc, isEnabled |-> vhThread[v].isEnabled, told |-> vhThread[v].told]
      BY <2>0, <3>1, ThreadFields
    <3>3. t.pc = pc /\ t.isEnabled = vhThread[v].isEnabled /\ t.told = vhThread[v].told
      BY <3>2
    <3>4. t = [pc |-> t.pc, isEnabled |-> t.isEnabled, told |-> t.told] /\ t.pc # "none"
      BY <2>1, <3>2, <3>3
    <3>5. vhThread' = [vhThread EXCEPT ![v] = t]
      BY <2>1, <3>1 DEF VhGoes
    <3>6. vhHandler' = [vhHandler EXCEPT ![v] = vhHandler[v]] /\ webRequest' = webRequest
      BY <2>0, <2>1
    <3>7. PICK h : h = vhHandler[v]
      OBVIOUS
    <3>8. h = [enabled |-> h.enabled, exports |-> h.exports] /\ vhHandler' = [vhHandler EXCEPT ![v] = h]
      BY <2>0, <3>6, <3>7
    <3> QED
      BY <3>4, <3>5, <3>6, <3>8, VHostMoves
  <2>2. ASSUME NEW v \in VHosts, VhReads(v) PROVE VHostInv'
    <3> DEFINE np == IF v \notin vhNode THEN "disable"
                     ELSE IF (v \in vhExported) # vhThread[v].told THEN "setting" ELSE "enabling"
               nt == v \in vhExported
    <3>1. vhThread' = [vhThread EXCEPT ![v] = [vhThread[v] EXCEPT !.pc = np, !.told = nt]]
      BY <2>2 DEF VhReads
    <3>2. np # "none"
      OBVIOUS
    <3> HIDE DEF np, nt
    <3>3. PICK pc, b : pc = np /\ b = nt
      OBVIOUS
    <3>4. PICK u : u = [vhThread[v] EXCEPT !.pc = pc]
      OBVIOUS
    <3>5. u = [pc |-> pc, isEnabled |-> vhThread[v].isEnabled, told |-> vhThread[v].told]
      BY <2>0, <3>4, ThreadFields
    <3>6. PICK t : t = [u EXCEPT !.told = b]
      OBVIOUS
    <3>7. t = [pc |-> pc, isEnabled |-> vhThread[v].isEnabled, told |-> b]
      BY <3>5, <3>6
    <3>8. t = [pc |-> t.pc, isEnabled |-> t.isEnabled, told |-> t.told] /\ t.pc # "none"
      BY <3>2, <3>3, <3>7
    <3>9. [vhThread[v] EXCEPT !.pc = pc, !.told = b] = [[vhThread[v] EXCEPT !.pc = pc] EXCEPT !.told = b]
      OBVIOUS
    <3>10. vhThread' = [vhThread EXCEPT ![v] = t]
      BY <3>1, <3>3, <3>4, <3>6, <3>9
    <3>11. PICK h : h = vhHandler[v]
      OBVIOUS
    <3>12. /\ h = [enabled |-> h.enabled, exports |-> h.exports] /\ vhHandler' = [vhHandler EXCEPT ![v] = h]
           /\ webRequest' = webRequest
      BY <2>0, <2>2, <3>11 DEF VhReads, UnchangedByVhThread
    <3> QED
      BY <3>8, <3>10, <3>12, VHostMoves
  <2>3. ASSUME NEW v \in VHosts, VhLockToSet(v) \/ VhLockToEnable(v) \/ VhDisable(v) PROVE VHostInv'
    BY <2>1, <2>3 DEF VhLockToSet, VhLockToEnable, VhDisable, UnchangedByVhThread
  <2>4. ASSUME NEW v \in VHosts, VhSet(v) PROVE VHostInv'
    <3>1. PICK pc \in {"waits", "enabling"} : vhThread' = [vhThread EXCEPT ![v] = [vhThread[v] EXCEPT !.pc = pc]]
      BY <2>4 DEF VhSet, VhGoes
    <3>2. PICK t : t = [vhThread[v] EXCEPT !.pc = pc]
      OBVIOUS
    <3>3. t = [pc |-> pc, isEnabled |-> vhThread[v].isEnabled, told |-> vhThread[v].told]
      BY <2>0, <3>2, ThreadFields
    <3>4. t = [pc |-> t.pc, isEnabled |-> t.isEnabled, told |-> t.told] /\ t.pc # "none"
      BY <3>3
    <3>5. PICK x, h : x = vhThread[v].told /\ h = [vhHandler[v] EXCEPT !.exports = x]
      OBVIOUS
    <3>6. h = [enabled |-> vhHandler[v].enabled, exports |-> x]
      BY <2>0, <3>5, HandlerFields
    <3>7. h = [enabled |-> h.enabled, exports |-> h.exports]
      BY <3>6
    <3>8. vhHandler' = [vhHandler EXCEPT ![v] = h] /\ webRequest' = webRequest
      BY <2>4, <3>5 DEF VhSet, UnchangedByVhThread
    <3> QED
      BY <3>1, <3>2, <3>4, <3>7, <3>8, VHostMoves
  <2>5. ASSUME NEW v \in VHosts, VhEnable(v) PROVE VHostInv'
    <3>1. PICK pc, b : pc = "waits" /\ b = TRUE
      OBVIOUS
    <3>2. PICK u : u = [vhThread[v] EXCEPT !.pc = pc]
      OBVIOUS
    <3>3. u = [pc |-> pc, isEnabled |-> vhThread[v].isEnabled, told |-> vhThread[v].told]
      BY <2>0, <3>2, ThreadFields
    <3>4. PICK t : t = [u EXCEPT !.isEnabled = b]
      OBVIOUS
    <3>5. t = [pc |-> pc, isEnabled |-> b, told |-> vhThread[v].told]
      BY <3>3, <3>4
    <3>6. t.pc = pc /\ t.isEnabled = b /\ t.told = vhThread[v].told
      BY <3>5
    <3>7. t = [pc |-> t.pc, isEnabled |-> t.isEnabled, told |-> t.told] /\ t.pc # "none"
      BY <3>1, <3>5, <3>6
    <3>8. [vhThread[v] EXCEPT !.pc = pc, !.isEnabled = b] = [[vhThread[v] EXCEPT !.pc = pc] EXCEPT !.isEnabled = b]
      OBVIOUS
    <3>9. vhThread' = [vhThread EXCEPT ![v] = [vhThread[v] EXCEPT !.pc = pc, !.isEnabled = b]]
      BY <2>5, <3>1 DEF VhEnable
    <3>10. vhThread' = [vhThread EXCEPT ![v] = t]
      BY <3>2, <3>4, <3>8, <3>9
    <3>11. PICK h : h = [vhHandler[v] EXCEPT !.enabled = b]
      OBVIOUS
    <3>12. h = [enabled |-> b, exports |-> vhHandler[v].exports]
      BY <2>0, <3>11, HandlerFields
    <3>13. h.enabled = b /\ h.exports = vhHandler[v].exports
      BY <3>12
    <3>14. h = [enabled |-> h.enabled, exports |-> h.exports]
      BY <3>12, <3>13
    <3>15. vhHandler' = [vhHandler EXCEPT ![v] = h] /\ webRequest' = webRequest
      BY <2>5, <3>1, <3>11 DEF VhEnable, UnchangedByVhThread
    <3> QED
      BY <3>7, <3>10, <3>14, <3>15, VHostMoves
  <2>6. ASSUME NEW v \in VHosts, VhDisabled(v) PROVE VHostInv'
    <3>1. PICK t : t = [pc |-> "none", isEnabled |-> FALSE, told |-> FALSE]
      OBVIOUS
    <3>2. t = [pc |-> t.pc, isEnabled |-> t.isEnabled, told |-> t.told]
      BY <3>1
    <3>3. PICK b, h : b = FALSE /\ h = [vhHandler[v] EXCEPT !.enabled = b]
      OBVIOUS
    <3>4. h = [enabled |-> b, exports |-> vhHandler[v].exports]
      BY <2>0, <3>3, HandlerFields
    <3>5. h.enabled = b /\ h.exports = vhHandler[v].exports
      BY <3>4
    <3>6. h = [enabled |-> h.enabled, exports |-> h.exports] /\ ~h.enabled
      BY <3>3, <3>4, <3>5
    <3>7. /\ vhThread' = [vhThread EXCEPT ![v] = t] /\ vhHandler' = [vhHandler EXCEPT ![v] = h]
          /\ webRequest' = webRequest /\ Served(v) = {}
      BY <2>6, <3>1, <3>3 DEF VhDisabled, UnchangedByVhThread
    <3> QED
      BY <3>2, <3>6, <3>7, VHostMoves
  <2>7. ASSUME NEW r \in Browsers, NEW pc, ReqGoes(r, pc), UNCHANGED <<vhThread, vhHandler>>,
               pc \in {"proxied", "endless"} => PassesOn(webRequest[r].vhost)
        PROVE  VHostInv'
    <3>1. webRequest[r] = [pc |-> webRequest[r].pc, vhost |-> webRequest[r].vhost]
      BY DEF VHostInv, VHostTypeOK
    <3>2. webRequest' = [webRequest EXCEPT ![r] = [webRequest[r] EXCEPT !.pc = pc]]
      BY <2>7 DEF ReqGoes
    <3>3. [webRequest[r] EXCEPT !.pc = pc] = [pc |-> pc, vhost |-> webRequest[r].vhost]
      BY <3>1
    <3>4. webRequest' = [webRequest EXCEPT ![r] = [pc |-> pc, vhost |-> webRequest[r].vhost]]
      BY <3>2, <3>3
    <3> QED
      BY <2>7, <3>4, RequestMoves
  <2>8. ASSUME NEW r \in Browsers, WebRequestComes(r) PROVE VHostInv'
    <3>1. PICK v : webRequest' = [webRequest EXCEPT ![r] = [pc |-> "asks", vhost |-> v]]
      BY <2>8 DEF WebRequestComes
    <3>2. vhThread' = vhThread /\ vhHandler' = vhHandler
      BY <2>8 DEF WebRequestComes, UnchangedByRequest
    <3> QED
      BY <3>1, <3>2, "asks" \notin {"proxied", "endless"}, RequestMoves, Zenon
  <2>9. ASSUME NEW r \in Browsers, Handle(r) \/ VHostAnswered(r) PROVE VHostInv'
    BY <2>7, <2>9 DEF Handle, VHostAnswered, UnchangedByRequest
  <2>10. ASSUME NEW r \in Browsers, HandleVHost(r) PROVE VHostInv'
    BY <2>7, <2>10 DEF HandleVHost, UnchangedByRequest
  <2>11. ASSUME UNCHANGED <<vhThread, vhHandler, webRequest>> PROVE VHostInv'
    BY <2>11 DEF VHostInv, VHostTypeOK, NobodyServedDisabled, VhAt, Served
  <2>12. ASSUME \/ AddPublicEndpointVHost \/ RemovePublicEndpointVHost \/ EnablePublicEndpointVHost \/ ExportsChange
                \/ UNCHANGED vhVars
         PROVE  VHostInv'
    BY <2>11, <2>12 DEF AddPublicEndpointVHost, RemovePublicEndpointVHost, EnablePublicEndpointVHost,
       ExportsChange,
                        VhChanges, vhVars
  <2> QED
    BY <2>2, <2>3, <2>4, <2>5, <2>6, <2>8, <2>9, <2>10, <2>12 DEF vhNext, VhThreadStep, RequestStep
<1>3. VHostInv => NobodyServedDisabled
  BY DEF VHostInv
<1> QED
  BY <1>1, <1>2, <1>3, PTL DEF vhSpec

-----------------------------------------------------------------------------
(* Who may call what                                                        *)

\* All methods of a server.
AllOf(s) == s.asks \cup s.tells

\* Two files of a server serve what each of them serves.
LEMMA BothServe == \A a, b : AllOf(Both(a, b)) = AllOf(a) \cup AllOf(b)
BY DEF AllOf, Both, Serves

\* The methods of each receiver.
LEMMA MethodsAre ==
    /\ MethodsOf("Master") = AllOf(MasterServer)
    /\ MethodsOf("ControlCenter") = AllOf(ControlCenterServer)
    /\ MethodsOf("Agent") = AllOf(AgentServer)
    /\ MethodsOf("ControlCenterAgent") = AllOf(LoadBalancer)
BY DEF MethodsOf, Registered, AllOf

\* The receiver in front of a name.
LEMMA NamedAre == \A r, N, m : m \in Named(r, N) <=> \E x \in N : m = <<r, x>>
BY DEF Named

\* A server of the master has each function of its client.
LEMMA MasterHasClients ==
    HostsClient \cup PoolClient \cup ServiceClient \cup TemplateClient \cup EndpointClient \cup PublicEndpointClient
      \cup HealthClient \cup InstanceClient \cup DockerClient \cup DebugClient \cup UserClient \cup VolumeClient
      \subseteq MethodsOf("Master")
<1>1. HostsClient \subseteq AllOf(HostsServer)
  BY DEF HostsClient, HostsServer, AllOf, Serves
<1>2. PoolClient \subseteq AllOf(PoolServer)
  BY DEF PoolClient, PoolServer, AllOf, Serves
<1>3. ServiceClient \subseteq AllOf(ServiceServer)
  BY DEF ServiceClient, ServiceServer, AllOf, Serves
<1>4. TemplateClient \subseteq AllOf(TemplateServer)
  BY DEF TemplateClient, TemplateServer, AllOf, Serves
<1>5. EndpointClient \subseteq AllOf(EndpointServer)
  BY DEF EndpointClient, EndpointServer, AllOf, Serves
<1>6. PublicEndpointClient \subseteq AllOf(PublicEndpointServer)
  BY DEF PublicEndpointClient, PublicEndpointServer, AllOf, Serves
<1>7. HealthClient \subseteq AllOf(HealthServer)
  BY DEF HealthClient, HealthServer, AllOf, Serves
<1>8. InstanceClient \subseteq AllOf(InstanceServer)
  BY DEF InstanceClient, InstanceServer, AllOf, Serves
<1>9. DockerClient \subseteq AllOf(DockerServer)
  BY DEF DockerClient, DockerServer, AllOf, Serves
<1>10. DebugClient \subseteq AllOf(DebugServer)
  BY DEF DebugClient, DebugServer, AllOf, Serves
<1>11. UserClient \subseteq AllOf(UserServer)
  BY DEF UserClient, UserServer, AllOf, Serves
<1>12. VolumeClient \subseteq AllOf(VolumeServer)
  BY DEF VolumeClient, VolumeServer, AllOf, Serves
<1>13. AllOf(MasterServer) =
          AllOf(HostsServer) \cup (AllOf(PoolServer) \cup (AllOf(ServiceServer) \cup (AllOf(TemplateServer) \cup
            (AllOf(EndpointServer) \cup (AllOf(PublicEndpointServer) \cup (AllOf(HealthServer) \cup (AllOf(InstanceServer)
            \cup (AllOf(DockerServer) \cup (AllOf(DebugServer) \cup (AllOf(UserServer) \cup AllOf(VolumeServer)))))))))))
  BY BothServe DEF MasterServer
<1> QED
  BY <1>1, <1>2, <1>3, <1>4, <1>5, <1>6, <1>7, <1>8, <1>9, <1>10, <1>11, <1>12, <1>13, MethodsAre

\* The receiver ControlCenter has all but two.
LEMMA ControlCenterHasClients ==
    (ControlClientServices \cup ControlClientStorage) \ {"GetServiceEndpoints", "AsyncSnapshot"} \subseteq MethodsOf("ControlCenter")
<1> DEFINE Services1 == AllOf(DaoServices) \cup AllOf(DaoScheduling) \cup AllOf(DaoRunning) \cup AllOf(DaoStates)
           Services2 == AllOf(DaoLogs) \cup AllOf(DaoMetrics) \cup AllOf(DaoAction)
           Storage == AllOf(DaoBackups) \cup AllOf(DaoSnapshots) \cup AllOf(DaoMetrics)
<1>1. ControlClientServices \ {"GetServiceEndpoints"} \subseteq Services1 \cup Services2
  BY DEF ControlClientServices, DaoServices, DaoScheduling, DaoRunning, DaoStates, DaoLogs, DaoMetrics,
     DaoAction, AllOf, Serves
<1>2. ControlClientStorage \ {"AsyncSnapshot"} \subseteq Storage
  BY DEF ControlClientStorage, DaoBackups, DaoSnapshots, DaoMetrics, AllOf, Serves
<1>3. AllOf(ControlCenterServer) =
          AllOf(DaoServices) \cup (AllOf(DaoScheduling) \cup (AllOf(DaoRunning) \cup (AllOf(DaoStates) \cup (AllOf(DaoLogs)
            \cup (AllOf(DaoMetrics) \cup (AllOf(DaoBackups) \cup (AllOf(DaoSnapshots) \cup AllOf(DaoAction))))))))
  BY BothServe DEF ControlCenterServer
<1> QED
  BY <1>1, <1>2, <1>3, MethodsAre

\* A method that a client calls and no server has is one of the two.
LEMMA CallsAreKnown == \A m \in OtherCalls \cup AgentCalls \cup ContainerCalls : Knows(m) \/ m \in LeftOver
<1>1. ASSUME NEW m \in MasterClient PROVE Knows(m)
  BY MasterHasClients, NamedAre DEF MasterClient, Knows
<1>2. ASSUME NEW m \in ControlClient PROVE Knows(m) \/ m \in LeftOver
  <2>1. PICK x \in ControlClientServices \cup ControlClientStorage : m = <<"ControlCenter", x>>
    BY NamedAre DEF ControlClient
  <2>2. ASSUME x \in {"GetServiceEndpoints", "AsyncSnapshot"} PROVE m \in LeftOver
    BY <2>1, <2>2 DEF LeftOver
  <2>3. ASSUME x \notin {"GetServiceEndpoints", "AsyncSnapshot"} PROVE Knows(m)
    BY <2>1, <2>3, ControlCenterHasClients DEF Knows
  <2> QED
    BY <2>2, <2>3
<1>3. ASSUME NEW m \in AgentClient PROVE Knows(m)
  <2>1. {"BuildHost", "GetDockerLogs", "PullImage"} \subseteq AllOf(AgentServer)
    BY DEF AgentServer, AllOf, Serves
  <2> QED
    BY <2>1, MethodsAre, NamedAre DEF AgentClient, Knows
<1>4. ASSUME NEW N, N \subseteq AllOf(LoadBalancer), NEW m \in Named("ControlCenterAgent", N) PROVE Knows(m)
  BY <1>4, MethodsAre, NamedAre DEF Knows
<1>5. \A m \in LBClient : Knows(m)
  <2> DEFINE N == {"Ping", "SendLogMessage", "GetISvcEndpoints", "GetEvaluatedService", "GetProxySnapshotQuiece",
                   "AckProxySnapshotQuiece", "ReportHealthStatus", "ReportInstanceDead", "GetHostID", "GetZkInfo",
                   "GetServiceBindMounts"}
  <2>1. N \subseteq AllOf(LoadBalancer) /\ LBClient = Named("ControlCenterAgent", N)
    BY DEF LoadBalancer, AllOf, Serves, LBClient
  <2> HIDE DEF N
  <2> QED
    BY <2>1, <1>4
<1>6. \A m \in ContainerCalls : Knows(m)
  <2> DEFINE N == {"GetEvaluatedService", "GetHostID", "GetZkInfo", "GetISvcEndpoints", "SendLogMessage",
                   "ReportHealthStatus", "ReportInstanceDead"}
  <2>1. N \subseteq AllOf(LoadBalancer) /\ ContainerCalls = Named("ControlCenterAgent", N)
    BY DEF LoadBalancer, AllOf, Serves, ContainerCalls
  <2> HIDE DEF N
  <2> QED
    BY <2>1, <1>4
<1>7. \A m \in AgentCalls : Knows(m)
  <2> DEFINE N == {"AuthenticateHost", "GetHost", "UpdateHost", "GetEvaluatedService", "GetService",
                   "ReportHealthStatus", "ReportInstanceDead"}
  <2>1. N \subseteq HostsClient \cup ServiceClient \cup HealthClient /\ AgentCalls = Named("Master", N)
    BY DEF HostsClient, ServiceClient, HealthClient, AgentCalls
  <2>2. N \subseteq MethodsOf("Master")
    BY <2>1, MasterHasClients
  <2> HIDE DEF N
  <2> QED
    BY <2>1, <2>2, NamedAre DEF Knows
<1> QED
  BY <1>1, <1>2, <1>3, <1>5, <1>6, <1>7 DEF OtherCalls

\* What the agents and the containers ask for needs an admin in one case.
LEMMA AgentsNeedNoAdmin ==
    \A m \in AgentCalls \cup ContainerCalls :
        requiresAuthentication(m) /\ requiresAdmin(m) => m = <<"Master", "GetService">>
<1>1. ASSUME NEW m \in AgentCalls, m # <<"Master", "GetService">>
      PROVE  m \in NonAuthenticatingCalls \cup NonAdminRequiredCalls
  <2>1. PICK x \in {"AuthenticateHost", "GetHost", "UpdateHost", "GetEvaluatedService", "GetService",
                    "ReportHealthStatus", "ReportInstanceDead"} : m = <<"Master", x>>
    BY NamedAre DEF AgentCalls
  <2>2. x # "GetService"
    BY <1>1, <2>1
  <2>3. x = "AuthenticateHost" => m \in NonAuthenticatingCalls
    BY <2>1 DEF NonAuthenticatingCalls
  <2>4. x # "AuthenticateHost" => m \in Named("Master", {"GetHost", "GetHosts", "GetEvaluatedService", "GetSystemUser",
                                                        "ReportHealthStatus", "ReportInstanceDead", "UpdateHost"})
    BY <2>1, <2>2, NamedAre
  <2> QED
    BY <2>3, <2>4 DEF NonAdminRequiredCalls
<1>2. ASSUME NEW m \in ContainerCalls PROVE m \in NonAdminRequiredCalls
  <2>1. PICK x \in {"GetEvaluatedService", "GetHostID", "GetZkInfo", "GetISvcEndpoints", "SendLogMessage",
                    "ReportHealthStatus", "ReportInstanceDead"} : m = <<"ControlCenterAgent", x>>
    BY NamedAre DEF ContainerCalls
  <2>2. m \in Named("ControlCenterAgent", {"GetEvaluatedService", "GetHostID", "GetZkInfo", "GetISvcEndpoints",
                                           "ReportHealthStatus", "ReportInstanceDead", "SendLogMessage", "AddHostPrivate"})
    BY <2>1, NamedAre
  <2> QED
    BY <2>2 DEF NonAdminRequiredCalls
<1> QED
  BY <1>1, <1>2 DEF requiresAuthentication, requiresAdmin

\* What an answer to the call may be.
FitsCall(answer) ==
    /\ answer # "broken"
    /\ answer = "no method" => acCall.m \in LeftOver
    /\ who \in {"agent", "container"} /\ answer = "no admin" => acCall.m = <<"Master", "GetService">>
    /\ answer = "no admin" => acCall.as = "plain"

\* The request of the call is whole on the wire, under the name that signed it.
IsRequest(r) ==
    /\ r.part = "whole" /\ r.m = acCall.m /\ (r.auth <=> requiresAuthentication(acCall.m))
    /\ requiresAuthentication(acCall.m) => acCall.as # "nobody" /\ r.ident \in {acCall.as, "expired"}

\* The call, and where it is.
CallOK ==
    /\ acToken \in {"none", "plain", "admin"}
    /\ acCall = [m |-> acCall.m, pc |-> acCall.pc, as |-> acCall.as, result |-> acCall.result]
    /\ acCall.pc \in {"idle", "writes", "waits", "fails", "ended"}
    /\ acCall.pc # "idle" => acCall.m \in CallsOf(who)
    /\ acCall.as \in {"nobody", "plain", "admin"}
    /\ acCall.pc \in {"idle", "writes", "waits"} => acCall.result = "none"
    /\ FitsCall(acAnswer) /\ FitsCall(acCall.result)

\* On the wire there is the request that nobody has read yet, or nothing.
WireOK ==
    /\ acCall.pc \in {"idle", "writes", "ended"} => acWire = <<>> /\ acAnswer = "none"
    /\ acCall.pc = "waits" => \/ acWire = <<>>
                              \/ acAnswer = "none" /\ \E r : acWire = <<r>> /\ IsRequest(r)
    /\ acCall.pc = "fails" => acCall.result = "no token" /\ acAnswer = "none" /\ \E r : acWire = <<r>> /\ r.part = "stub"

AccessInv == CallOK /\ WireOK

\* All the calls that are made.
LEMMA CallsOfAll == \A p : CallsOf(p) \subseteq OtherCalls \cup AgentCalls \cup ContainerCalls
BY DEF CallsOf

\* A wire with one request on it.
LEMMA OneRequest == \A r : /\ Len(<<r>>) = 1 /\ Head(<<r>>) = r /\ Tail(<<r>>) = <<>> /\ <<r>> # <<>>
                           /\ Append(<<>>, r) = <<r>>
OBVIOUS

\* What the server says of a request that was written.
LEMMA AnswerFits ==
    ASSUME CallOK, NEW r, IsRequest(r), acCall.pc = "waits", NEW done \in {"served", "failed"}
    PROVE  FitsCall(IF r.part = "stub" THEN "broken"
                    ELSE IF ~Knows(r.m) THEN "no method"
                    ELSE IF lastError(r) # "none" THEN lastError(r)
                    ELSE done)
<1> DEFINE a == IF r.part = "stub" THEN "broken"
                ELSE IF ~Knows(r.m) THEN "no method"
                ELSE IF lastError(r) # "none" THEN lastError(r)
                ELSE done
<1>1. acCall.m \in OtherCalls \cup AgentCalls \cup ContainerCalls
  BY CallsOfAll DEF CallOK
<1>2. r.part # "stub" /\ r.m = acCall.m
  BY DEF IsRequest
<1>3. lastError(r) \in {"not authenticated", "no admin", "none"}
  BY DEF lastError
<1>4. ASSUME lastError(r) = "no admin"
      PROVE  requiresAuthentication(acCall.m) /\ requiresAdmin(acCall.m) /\ acCall.as = "plain"
  <2>1. ~(r.auth /\ r.ident = "expired")
    BY <1>4 DEF lastError
  <2>2. requiresAuthentication(r.m) /\ requiresAdmin(r.m) /\ r.ident # "admin"
    BY <1>4, <2>1 DEF lastError
  <2>3. requiresAuthentication(acCall.m) /\ requiresAdmin(acCall.m) /\ r.auth
    BY <1>2, <2>2 DEF IsRequest
  <2> QED
    BY <2>1, <2>2, <2>3 DEF IsRequest, CallOK
<1>5. a = "no method" => ~Knows(acCall.m)
  BY <1>2, <1>3
<1>6. a = "no admin" => lastError(r) = "no admin"
  BY <1>2, <1>3
<1>7. a # "broken"
  BY <1>2, <1>3
<1>8. acCall.m \in CallsOf(who)
  BY DEF CallOK
<1>9. who \in {"agent", "container"} => acCall.m \in AgentCalls \cup ContainerCalls
  BY <1>8 DEF CallsOf
<1> HIDE DEF a
<1>10. FitsCall(a)
  BY <1>1, <1>4, <1>5, <1>6, <1>7, <1>9, CallsAreKnown, AgentsNeedNoAdmin DEF FitsCall
<1> QED
  BY <1>10 DEF a

\* A call, and what is on its wire, stay as they should.
LEMMA AccessStep == ASSUME AccessInv, [acNext]_acVars PROVE AccessInv'
<1> USE DEF AccessInv
<1>1. ASSUME BeginCall PROVE AccessInv'
  <2>1. PICK m \in CallsOf(who) : acCall' = [m |-> m, pc |-> "writes", as |-> "nobody", result |-> "none"]
    BY <1>1 DEF BeginCall
  <2>2. acCall'.m = m /\ acCall'.pc = "writes" /\ acCall'.as = "nobody" /\ acCall'.result = "none"
    BY <2>1
  <2>3. UNCHANGED <<who, acToken, acWire, acAnswer>> /\ acWire = <<>> /\ acAnswer = "none"
    BY <1>1 DEF BeginCall, WireOK
  <2>4. CallOK'
    BY <2>1, <2>2, <2>3 DEF CallOK, FitsCall
  <2>5. WireOK'
    BY <2>2, <2>3 DEF WireOK
  <2> QED
    BY <2>4, <2>5
<1>2. ASSUME WriteRequest PROVE AccessInv'
  <2>1. UNCHANGED <<who, acToken, acAnswer>> /\ acWire = <<>> /\ acAnswer = "none" /\ acCall.pc = "writes"
    BY <1>2 DEF WriteRequest, WireOK
  <2>2. Signs \in {"nobody", "plain", "admin"}
    BY DEF Signs, CallOK, HasMasterKey
  <2>3. ASSUME NEW pc, NEW as, NEW result, NEW r,
               acCall' = [m |-> acCall.m, pc |-> pc, as |-> as, result |-> result], acWire' = <<r>>,
               \/ pc = "waits" /\ result = acCall.result /\ IsRequest(r)' /\ as \in {"nobody", "plain", "admin"}
               \/ pc = "fails" /\ result = "no token" /\ as = acCall.as /\ r.part = "stub"
        PROVE  AccessInv'
    <3>1. acCall'.m = acCall.m /\ acCall'.pc = pc /\ acCall'.as = as /\ acCall'.result = result
      BY <2>3
    <3>2. acCall' = [m |-> acCall'.m, pc |-> acCall'.pc, as |-> acCall'.as, result |-> acCall'.result]
      BY <2>3, <3>1
    <3>3. acCall.result = "none" /\ acCall.m \in CallsOf(who)
      BY <2>1 DEF CallOK
    <3>4. FitsCall(acAnswer)'
      BY <2>1 DEF FitsCall
    <3>5. FitsCall(acCall.result)'
      BY <2>3, <3>1, <3>3 DEF FitsCall
    <3>6. CallOK'
      BY <2>1, <2>3, <3>1, <3>2, <3>3, <3>4, <3>5 DEF CallOK
    <3>7. WireOK'
      BY <2>1, <2>3, <3>1 DEF WireOK
    <3> QED
      BY <3>6, <3>7
  <2>4. ASSUME NEW needsAuth, needsAuth = requiresAuthentication(acCall.m), needsAuth => Signs # "nobody",
               acWire' = Append(acWire, Frame("whole", needsAuth, IF needsAuth THEN Signs ELSE "nobody")),
               acCall' = [acCall EXCEPT !.pc = "waits", !.as = Signs]
        PROVE  AccessInv'
    <3>1. PICK as, ident : as = Signs /\ ident = IF needsAuth THEN as ELSE "nobody"
      OBVIOUS
    <3>2. acCall' = [m |-> acCall.m, pc |-> "waits", as |-> as, result |-> acCall.result]
      BY <2>4, <3>1 DEF CallOK
    <3>3. acCall'.m = acCall.m /\ acCall'.as = as
      BY <3>2
    <3>4. PICK r : r = [part |-> "whole", m |-> acCall.m, auth |-> needsAuth, ident |-> ident]
      OBVIOUS
    <3>5. acWire' = <<r>>
      BY <2>1, <2>4, <3>1, <3>4, OneRequest DEF Frame
    <3>6. r.part = "whole" /\ r.m = acCall.m /\ r.auth = needsAuth /\ r.ident = ident
      BY <3>4
    <3>7. IsRequest(r)'
      BY <2>4, <3>1, <3>3, <3>6 DEF IsRequest, requiresAuthentication
    <3>8. as \in {"nobody", "plain", "admin"}
      BY <2>2, <3>1
    <3> QED
      BY <2>3, <3>2, <3>5, <3>7, <3>8
  <2>5. ASSUME acWire' = Append(acWire, Frame("stub", TRUE, "nobody")),
               acCall' = [acCall EXCEPT !.pc = "fails", !.result = "no token"]
        PROVE  AccessInv'
    <3>1. acCall' = [m |-> acCall.m, pc |-> "fails", as |-> acCall.as, result |-> "no token"]
      BY <2>5 DEF CallOK
    <3>2. PICK r : r = [part |-> "stub", m |-> acCall.m, auth |-> TRUE, ident |-> "nobody"]
      OBVIOUS
    <3>3. acWire' = <<r>> /\ r.part = "stub"
      BY <2>1, <2>5, <3>2, OneRequest DEF Frame
    <3> QED
      BY <2>3, <3>1, <3>3
  <2> QED
    BY <1>2, <2>4, <2>5 DEF WriteRequest
<1>3. ASSUME HeaderExpires PROVE AccessInv'
  <2>1. UNCHANGED <<who, acToken, acAnswer, acCall>> /\ acWire # <<>> /\ Head(acWire).part = "whole"
    BY <1>3 DEF HeaderExpires
  <2>2. PICK r : acWire = <<r>> /\ IsRequest(r) /\ acCall.pc = "waits" /\ acAnswer = "none"
    BY <2>1, OneRequest DEF WireOK, CallOK
  <2>3. PICK q : q = [r EXCEPT !.ident = "expired"] /\ acWire' = <<q>>
    <3>1. Tail(acWire) = <<>> /\ Head(acWire) = r
      BY <2>2, OneRequest
    <3>2. PICK q : q = [r EXCEPT !.ident = "expired"]
      OBVIOUS
    <3>3. acWire' = <<q>> \o <<>>
      BY <1>3, <3>1, <3>2 DEF HeaderExpires
    <3>4. <<q>> \o <<>> = <<q>>
      OBVIOUS
    <3> QED
      BY <3>2, <3>3, <3>4
  <2>4. IsRequest(q)
    BY <2>2, <2>3 DEF IsRequest
  <2>5. IsRequest(q)'
    BY <2>1, <2>4 DEF IsRequest
  <2>6. CallOK'
    BY <2>1 DEF CallOK, FitsCall
  <2>7. WireOK'
    BY <2>1, <2>2, <2>3, <2>5 DEF WireOK
  <2> QED
    BY <2>6, <2>7
<1>4. ASSUME ReadRequest PROVE AccessInv'
  <2>1. UNCHANGED <<who, acToken, acCall>> /\ acWire # <<>> /\ acAnswer = "none"
    BY <1>4 DEF ReadRequest
  <2>2. PICK r : acWire = <<r>> /\ IsRequest(r) /\ acCall.pc = "waits"
    <3>1. Head(acWire).part = "whole" \/ Len(acWire) > 1
      BY <1>4 DEF ReadRequest
    <3>2. ASSUME NEW q, acWire = <<q>> PROVE q.part # "stub"
      <4>1. Head(acWire) = q /\ Len(acWire) = 1
        BY <3>2, OneRequest
      <4> QED
        BY <3>1, <4>1
    <3>3. acCall.pc = "waits"
      BY <2>1, <3>2 DEF WireOK, CallOK
    <3> QED
      BY <2>1, <3>3 DEF WireOK
  <2>3. Head(acWire) = r /\ acWire' = <<>>
    BY <1>4, <2>2, OneRequest DEF ReadRequest
  <2>4. PICK done \in {"served", "failed"} :
            acAnswer' = IF r.part = "stub" THEN "broken"
                        ELSE IF ~Knows(r.m) THEN "no method"
                        ELSE IF lastError(r) # "none" THEN lastError(r)
                        ELSE done
    BY <1>4, <2>3 DEF ReadRequest
  <2>5. FitsCall(acAnswer')
    BY <2>2, <2>4, AnswerFits
  <2> QED
    BY <2>1, <2>2, <2>3, <2>5 DEF CallOK, WireOK, FitsCall
<1>5. ASSUME CallEnds PROVE AccessInv'
  <2>1. PICK result : /\ acCall' = [m |-> acCall.m, pc |-> "ended", as |-> acCall.as, result |-> result]
                      /\ \/ acCall.pc = "waits" /\ acAnswer # "none" /\ result = acAnswer
                         \/ acCall.pc = "fails" /\ result = acCall.result /\ result # "served"
    <3>1. ASSUME ReadResponse
          PROVE  /\ acCall' = [m |-> acCall.m, pc |-> "ended", as |-> acCall.as, result |-> acAnswer]
                 /\ acCall.pc = "waits" /\ acAnswer # "none"
      BY <3>1 DEF ReadResponse, CallOK
    <3>2. ASSUME acCall.pc = "fails", acCall' = [acCall EXCEPT !.pc = "ended"]
          PROVE  acCall' = [m |-> acCall.m, pc |-> "ended", as |-> acCall.as, result |-> acCall.result]
      BY <3>2 DEF CallOK
    <3> QED
      BY <1>5, <3>1, <3>2 DEF CallEnds, WireOK
  <2>2. acCall'.m = acCall.m /\ acCall'.pc = "ended" /\ acCall'.as = acCall.as /\ acCall'.result = result
    BY <2>1
  <2>3. acCall' = [m |-> acCall'.m, pc |-> acCall'.pc, as |-> acCall'.as, result |-> acCall'.result]
    BY <2>1, <2>2
  <2>4. UNCHANGED <<who, acToken>> /\ acAnswer' = "none"
    BY <1>5 DEF CallEnds
  <2>5. acWire' = <<>>
    BY <1>5, <2>1, <2>2 DEF CallEnds, WireOK
  <2>6. FitsCall(acCall.result)' /\ FitsCall(acAnswer)'
    BY <2>1, <2>2, <2>4 DEF CallOK, FitsCall
  <2>7. CallOK'
    BY <2>1, <2>2, <2>3, <2>4, <2>6 DEF CallOK
  <2> QED
    BY <2>2, <2>4, <2>5, <2>7 DEF WireOK
<1>6. ASSUME CallTimesOut PROVE AccessInv'
  <2>1. acCall' = [m |-> acCall.m, pc |-> "ended", as |-> acCall.as, result |-> "timed out"]
    BY <1>6 DEF CallTimesOut, CallOK
  <2>2. acCall'.m = acCall.m /\ acCall'.pc = "ended" /\ acCall'.as = acCall.as /\ acCall'.result = "timed out"
    BY <2>1
  <2> QED
    BY <1>6, <2>1, <2>2 DEF CallTimesOut, CallOK, WireOK, FitsCall
<1>7. ASSUME LocalCall PROVE AccessInv'
  <2>1. PICK m, result : /\ m \in CallsOf(who) /\ acCall' = [m |-> m, pc |-> "ended", as |-> "nobody", result |-> result]
                         /\ result \in {"served", "failed", "timed out", "no method"}
                         /\ result = "no method" => ~Knows(m)
    BY <1>7 DEF LocalCall
  <2>2. acCall'.m = m /\ acCall'.pc = "ended" /\ acCall'.as = "nobody" /\ acCall'.result = result
    BY <2>1
  <2>3. UNCHANGED <<who, acToken, acWire, acAnswer>> /\ acWire = <<>> /\ acAnswer = "none"
    BY <1>7 DEF LocalCall, WireOK
  <2>4. result = "no method" => m \in LeftOver
    BY <2>1, CallsOfAll, CallsAreKnown
  <2> QED
    BY <2>1, <2>2, <2>3, <2>4 DEF CallOK, WireOK, FitsCall
<1>8. ASSUME NextCall PROVE AccessInv'
  <2>1. /\ acCall' = [m |-> <<"none", "none">>, pc |-> "idle", as |-> "nobody", result |-> "none"]
        /\ UNCHANGED <<who, acToken, acWire, acAnswer>> /\ acWire = <<>> /\ acAnswer = "none"
    BY <1>8 DEF NextCall, NoRpc, WireOK
  <2>2. acCall'.m = <<"none", "none">> /\ acCall'.pc = "idle" /\ acCall'.as = "nobody" /\ acCall'.result = "none"
    BY <2>1
  <2>3. acCall' = [m |-> acCall'.m, pc |-> acCall'.pc, as |-> acCall'.as, result |-> acCall'.result]
    BY <2>1, <2>2
  <2> QED
    BY <2>1, <2>2, <2>3 DEF CallOK, WireOK, FitsCall
<1>9. ASSUME TokenMoves PROVE AccessInv'
  <2>1. acToken' \in {"none", "plain", "admin"} /\ UNCHANGED <<who, acWire, acAnswer, acCall>>
    BY <1>9 DEF TokenMoves
  <2> QED
    BY <2>1 DEF CallOK, WireOK, FitsCall, IsRequest
<1>10. ASSUME UNCHANGED acVars PROVE AccessInv'
  BY <1>10 DEF acVars, CallOK, WireOK, FitsCall, IsRequest
<1> QED
  BY <1>1, <1>2, <1>3, <1>4, <1>5, <1>6, <1>7, <1>8, <1>9, <1>10 DEF acNext

\* A call is answered as its sender may be, and never by what an earlier one has left.
LEMMA CallsStayAllowed == acSpec => []CallsAllowed
<1>1. acInit => AccessInv
  <2> SUFFICES ASSUME acInit PROVE AccessInv
    OBVIOUS
  <2>1. acCall = [m |-> <<"none", "none">>, pc |-> "idle", as |-> "nobody", result |-> "none"]
    BY DEF acInit, NoRpc
  <2>2. acCall.m = <<"none", "none">> /\ acCall.pc = "idle" /\ acCall.as = "nobody" /\ acCall.result = "none"
    BY <2>1
  <2>3. acCall = [m |-> acCall.m, pc |-> acCall.pc, as |-> acCall.as, result |-> acCall.result]
    BY <2>1, <2>2
  <2> QED
    BY <2>2, <2>3 DEF acInit, AccessInv, CallOK, WireOK, FitsCall
<1>2. AccessInv /\ [acNext]_acVars => AccessInv'
  BY AccessStep
<1>3. AccessInv => CallsAllowed
  <2> SUFFICES ASSUME AccessInv PROVE CallsAllowed
    OBVIOUS
  <2> QED
    BY DEF AccessInv, CallOK, WireOK, FitsCall, CallsAllowed, RpcInStep, ServedAsAllowed
<1> QED
  BY <1>1, <1>2, <1>3, PTL DEF acSpec

-----------------------------------------------------------------------------
\* Whatever callers, clients and administrators do at the same time, and whatever fails: a host
\* counts as authenticated with its present key only, connections are shared as they should be, a
\* port or a virtual host is open only for a thread that closes it, and a call is answered as its
\* sender may be (src/auth, src/rpc/rpcutils, src/commons/pool, src/web, src/zzk/registry).
THEOREM AccessStaysSound == tkSpec /\ rpSpec /\ peSpec /\ vhSpec /\ acSpec => []AccessSound
<1>1. RecordIsCurrent /\ ConnectionsSound /\ EndpointsSound /\ NobodyServedDisabled /\ CallsAllowed => AccessSound
  BY DEF AccessSound
<1> QED
  BY <1>1, RecordStaysCurrent, ConnectionsAreSound, EndpointsStaySound, NobodyStaysServed, CallsStayAllowed,
     PTL

-----------------------------------------------------------------------------
(* The front ends                                                           *)

\* No service is to be looked up behind the present call, and no key will be kept there.
NoLookUpBehind(f) ==
    \A j \in DOMAIN f.plan : \A l \in DOMAIN f.plan[j].calls : f.plan[j].calls[l].m = "ResolveServicePath" =>
        j < f.step \/ (j = f.step /\ l <= f.call /\ ~f.plan[j].each)
NoLookUpAhead(f) ==
    \A j \in DOMAIN f.plan : \A l \in DOMAIN f.plan[j].calls : f.plan[j].calls[l].m = "ResolveServicePath" =>
        j < f.step \/ (j = f.step /\ l < f.call /\ ~f.plan[j].each)

\* A later step hands the key on.
Handing(s) == Hands(s, 1) /\ ~s.each /\ s.when # "failed"
HandedLater(f) == \E j \in DOMAIN f.plan : j > f.step /\ Handing(f.plan[j])
HandedFrom(f, k) == Hands(f.plan[f.step], k) \/ HandedLater(f)

FeRecord(f) ==
    f = [plan |-> f.plan, n |-> f.n, step |-> f.step, arg |-> f.arg, call |-> f.call, state |-> f.state,
         failed |-> f.failed, changed |-> f.changed, missed |-> f.missed, said |-> f.said, code |-> f.code,
         key |-> f.key, failures |-> f.failures]

\* Where a front end is while it runs.
Running(f) ==
    /\ f.plan \in Seq(PlanSteps) /\ LooksUpFirst(f.plan) /\ HandsOn(f.plan)
    /\ f.step \in DOMAIN f.plan /\ f.call \in DOMAIN f.plan[f.step].calls
    /\ f.arg \in Nat /\ f.arg >= 1 /\ f.n \in Nat

\* The inductive invariant of a front end.  What is ahead of it is as the property wants it;
\* a new key that nobody has yet is handed on by a call that will be made.
FeSound(f) ==
    /\ FeRecord(f)
    /\ f.missed \/ f.code # 0 => f.said
    /\ f.state \in {"idle", "runs", "ended"}
    /\ f.state = "idle" => ~f.changed /\ f.key = "none" /\ f.call = 1 /\ f.arg = 1
    /\ f.state = "runs" =>
          /\ Running(f)
          /\ f.changed => NoLookUpAhead(f)
          /\ f.key = "issued" /\ ~f.said => HandedFrom(f, f.call)
    /\ f.state = "ended" /\ f.key = "issued" => f.said
FeInv == FeSound(fe)

\* f goes on from where g is: whatever else it has learnt, it is at the same place.
SamePlace(f, g) ==
    /\ f.plan = g.plan /\ f.step = g.step /\ f.arg = g.arg /\ f.call = g.call /\ f.n = g.n /\ f.state = g.state

\* The fields that only tell what has happened.
SameHistory(f, g) ==
    /\ f.plan = g.plan /\ f.n = g.n /\ f.changed = g.changed /\ f.missed = g.missed /\ f.said = g.said
    /\ f.code = g.code /\ f.key = g.key

\* A front end that has not begun.
LEMMA FeInvInit == feInit => FeInv
BY DEF feInit, FeInv, FeSound, FeRecord

\* A set of numbers that is not empty has a least one.
LEMMA LeastStep ==
    ASSUME NEW S \in SUBSET Nat, S # {}
    PROVE  \E j \in S : \A k \in S : j <= k
<1>1. PICK k \in S : \A j \in S : ~ (<<j, k>> \in OpToRel(<, Nat))
  BY NatLessThanWellFounded, WFMin, Zenon
<1>2. ASSUME NEW j \in S PROVE k <= j
  <2>1. ~ (<<j, k>> \in {ss \in Nat \X Nat : ss[1] < ss[2]})
    BY <1>1 DEF OpToRel
  <2> QED
    BY <2>1
<1> QED
  BY <1>2

\* The step that follows is a later one, and no later than one that is always taken.
LEMMA NextStep ==
    ASSUME FeRecord(fe), Running(fe), NEW f, SamePlace(f, fe), NEW failed, NEW j, j = Follows(f, failed)
    PROVE  /\ j = 0 \/ (j \in DOMAIN fe.plan /\ j > fe.step)
           /\ f.code = 0 /\ HandedLater(fe) =>
                 j # 0 /\ (Handing(fe.plan[j]) \/ \E k \in DOMAIN fe.plan : k > j /\ Handing(fe.plan[k]))
<1> DEFINE next == {k \in fe.step + 1 .. Len(fe.plan) :
                      /\ Steps(fe.plan[k]) > 0
                      /\ fe.plan[k].when = "failed" => failed /\ k = fe.step + 1
                      /\ fe.plan[k].when = "well" => f.code = 0}
<1>1. j = IF next = {} THEN 0 ELSE CHOOSE k \in next : \A l \in next : k <= l
  BY DEF Follows, SamePlace
<1>2. /\ next \subseteq Nat
      /\ \A k \in next : k \in DOMAIN fe.plan /\ k > fe.step
  BY DEF Running
<1>3. ASSUME f.code = 0, NEW k \in DOMAIN fe.plan, k > fe.step, Handing(fe.plan[k])
      PROVE  k \in next
  <2>1. Steps(fe.plan[k]) = 1 /\ fe.plan[k].when # "failed"
    BY <1>3 DEF Handing, Steps
  <2>2. k \in fe.step + 1 .. Len(fe.plan)
    BY <1>3 DEF Running
  <2> QED
    BY <1>3, <2>1, <2>2
<1>4. next # {} => j \in next /\ \A l \in next : j <= l
  <2>1. next \in SUBSET Nat
    BY <1>2
  <2> HIDE DEF next
  <2> QED
    BY <1>1, <2>1, LeastStep
<1>5. j = 0 \/ (j \in DOMAIN fe.plan /\ j > fe.step)
  <2> HIDE DEF next
  <2> QED
    BY <1>1, <1>2, <1>4
<1>6. ASSUME f.code = 0, HandedLater(fe)
      PROVE  j # 0 /\ (Handing(fe.plan[j]) \/ \E k \in DOMAIN fe.plan : k > j /\ Handing(fe.plan[k]))
  <2>1. PICK k \in DOMAIN fe.plan : k > fe.step /\ Handing(fe.plan[k])
    BY <1>6 DEF HandedLater
  <2>2. k \in next
    BY <1>3, <1>6, <2>1
  <2>3. j \in next /\ j <= k /\ j \in Nat /\ k \in Nat /\ j > fe.step
    <3> HIDE DEF next
    <3> QED
      BY <1>2, <1>4, <2>2
  <2>4. j # 0
    BY <1>2, <2>3 DEF Running
  <2>5. j = k \/ k > j
    BY <2>3
  <2> QED
    BY <2>1, <2>4, <2>5
<1> QED
  BY <1>5, <1>6

\* Going on after a call: the history stays, the place is a later one, and nothing is lost of what
\* is ahead.
LEMMA GoesOn ==
    ASSUME FeRecord(fe), Running(fe), fe.state = "runs", NEW f, FeRecord(f), SamePlace(f, fe),
           NEW failed, NEW g, g = GoOn(f, failed)
    PROVE  /\ FeRecord(g) /\ SameHistory(g, f)
           /\ g.state \in {"runs", "ended"}
           /\ g.state = "runs" => Running(g) /\ (NoLookUpBehind(fe) => NoLookUpAhead(g))
           /\ f.code = 0 /\ HandedLater(fe) => g.state = "runs" /\ HandedFrom(g, g.call)
<1> DEFINE s == fe.plan[fe.step]
<1>1. PICK j : j = Follows(f, failed)
  OBVIOUS
<1>2. /\ j = 0 \/ (j \in DOMAIN fe.plan /\ j > fe.step)
      /\ f.code = 0 /\ HandedLater(fe) =>
            j # 0 /\ (Handing(fe.plan[j]) \/ \E k \in DOMAIN fe.plan : k > j /\ Handing(fe.plan[k]))
  BY <1>1, NextStep
<1>3. g = IF f.arg < Steps(s) THEN [f EXCEPT !.arg = @ + 1, !.call = 1]
          ELSE IF j = 0 THEN [f EXCEPT !.state = "ended"]
          ELSE [f EXCEPT !.step = j, !.arg = 1, !.call = 1]
  BY <1>1 DEF GoOn, StepNow
<1>4. s \in PlanSteps /\ s.calls # <<>> /\ 1 \in DOMAIN s.calls /\ fe.step \in Nat
  <2>1. s \in PlanSteps /\ fe.step \in Nat
    BY DEF Running
  <2> HIDE DEF s
  <2> QED
    BY <2>1 DEF PlanSteps
<1>5. CASE f.arg < Steps(s)
  <2>1. s.each
    BY <1>4, <1>5 DEF Running, Steps, SamePlace, PlanSteps
  <2>2. /\ g.arg = fe.arg + 1 /\ g.call = 1 /\ g.step = fe.step /\ g.plan = fe.plan /\ g.n = fe.n /\ g.state = "runs"
        /\ FeRecord(g) /\ SameHistory(g, f)
    <3>1. g = [f EXCEPT !.arg = @ + 1, !.call = 1]
      BY <1>3, <1>5
    <3>2. g = [plan |-> f.plan, n |-> f.n, step |-> f.step, arg |-> f.arg + 1, call |-> 1, state |-> f.state,
               failed |-> f.failed, changed |-> f.changed, missed |-> f.missed, said |-> f.said, code |-> f.code,
               key |-> f.key, failures |-> f.failures]
      BY <3>1 DEF FeRecord
    <3>3. FeRecord(g) /\ SameHistory(g, f)
      BY <3>2 DEF FeRecord, SameHistory
    <3> QED
      BY <3>2, <3>3 DEF SamePlace
  <2>3. Running(g)
    BY <1>4, <2>2 DEF Running
  <2>4. NoLookUpBehind(fe) => NoLookUpAhead(g)
    BY <2>1, <2>2 DEF NoLookUpBehind, NoLookUpAhead
  <2>5. HandedLater(fe) => HandedFrom(g, g.call)
    BY <2>2 DEF HandedLater, HandedFrom
  <2> QED
    BY <2>2, <2>3, <2>4, <2>5
<1>6. CASE ~ (f.arg < Steps(s)) /\ j = 0
  <2>1. FeRecord(g) /\ SameHistory(g, f) /\ g.state = "ended"
    BY <1>3, <1>6 DEF FeRecord, SameHistory, SamePlace
  <2> QED
    BY <1>2, <1>6, <2>1
<1>7. CASE ~ (f.arg < Steps(s)) /\ j # 0
  <2>1. /\ g.arg = 1 /\ g.call = 1 /\ g.step = j /\ g.plan = fe.plan /\ g.n = fe.n /\ g.state = "runs"
        /\ FeRecord(g) /\ SameHistory(g, f)
    <3>1. g = [f EXCEPT !.step = j, !.arg = 1, !.call = 1]
      BY <1>3, <1>7
    <3>2. g = [plan |-> f.plan, n |-> f.n, step |-> j, arg |-> 1, call |-> 1, state |-> f.state,
               failed |-> f.failed, changed |-> f.changed, missed |-> f.missed, said |-> f.said, code |-> f.code,
               key |-> f.key, failures |-> f.failures]
      BY <3>1 DEF FeRecord
    <3>3. FeRecord(g) /\ SameHistory(g, f)
      BY <3>2 DEF FeRecord, SameHistory
    <3> QED
      BY <3>2, <3>3 DEF SamePlace
  <2>2. j \in DOMAIN fe.plan /\ j > fe.step /\ j \in Nat
    BY <1>2, <1>7 DEF Running
  <2>3. 1 \in DOMAIN fe.plan[j].calls
    <3>1. fe.plan[j] \in PlanSteps
      BY <2>2 DEF Running
    <3> QED
      BY <3>1 DEF PlanSteps
  <2>4. Running(g)
    BY <2>1, <2>2, <2>3 DEF Running
  <2>5. NoLookUpBehind(fe) => NoLookUpAhead(g)
    <3> SUFFICES ASSUME NoLookUpBehind(fe), NEW i \in DOMAIN fe.plan, NEW l \in DOMAIN fe.plan[i].calls,
                        fe.plan[i].calls[l].m = "ResolveServicePath"
                 PROVE  i < j
      BY <2>1 DEF NoLookUpAhead
    <3>1. i <= fe.step /\ i \in Nat
      BY <1>4 DEF NoLookUpBehind, Running
    <3> QED
      BY <1>4, <2>2, <3>1
  <2>6. f.code = 0 /\ HandedLater(fe) => HandedFrom(g, g.call)
    BY <1>2, <2>1 DEF HandedFrom, HandedLater, Handing
  <2> QED
    BY <2>1, <2>4, <2>5, <2>6
<1> QED
  BY <1>5, <1>6, <1>7

\* What the present call leaves ahead.
LEMMA CallLeaves ==
    ASSUME FeInv, fe.state = "runs", NEW key,
           key = IF CallNow.m \in IssuesKey THEN "issued"
                 ELSE IF CallNow.m \in KeepsKey /\ fe.key = "issued" THEN "kept" ELSE fe.key
    PROVE  /\ FeRecord(fe) /\ Running(fe) /\ CallNow = StepNow.calls[fe.call] /\ StepNow = fe.plan[fe.step]
           /\ StepNow.calls \in Seq([m : STRING, tells : BOOLEAN]) /\ fe.call \in DOMAIN StepNow.calls
           /\ StepNow.on \in {"stop", "fail", "note", "ignore", "undo"}
           /\ fe.changed \/ CallNow.tells => NoLookUpBehind(fe)
           /\ key = "issued" /\ ~fe.said => HandedFrom(fe, fe.call + 1)
           /\ key = "issued" /\ ~fe.said /\ StepNow.on = "ignore" /\ CanFail(CallNow) => HandedLater(fe)
<1>1. /\ FeRecord(fe) /\ Running(fe) /\ CallNow = StepNow.calls[fe.call] /\ StepNow = fe.plan[fe.step]
      /\ fe.changed => NoLookUpAhead(fe)
      /\ fe.key = "issued" /\ ~fe.said => HandedFrom(fe, fe.call)
  BY DEF FeInv, FeSound, CallNow, StepNow
<1>2. StepNow \in PlanSteps /\ fe.step \in DOMAIN fe.plan /\ fe.call \in DOMAIN StepNow.calls
  BY <1>1 DEF Running
<1>3. /\ StepNow.on \in {"stop", "fail", "note", "ignore", "undo"}
      /\ StepNow.calls \in Seq([m : STRING, tells : BOOLEAN])
  BY <1>2 DEF PlanSteps
<1>4. fe.call \in 1 .. Len(StepNow.calls) /\ Len(StepNow.calls) \in Nat /\ fe.call \in Nat
  BY <1>2, <1>3
<1>5. fe.changed => NoLookUpBehind(fe)
  <2> SUFFICES ASSUME NoLookUpAhead(fe), NEW j \in DOMAIN fe.plan, NEW l \in DOMAIN fe.plan[j].calls,
                      fe.plan[j].calls[l].m = "ResolveServicePath"
               PROVE  j < fe.step \/ (j = fe.step /\ l <= fe.call /\ ~fe.plan[j].each)
    BY <1>1 DEF NoLookUpBehind
  <2>1. j < fe.step \/ (j = fe.step /\ l < fe.call /\ ~fe.plan[j].each)
    BY DEF NoLookUpAhead
  <2>2. j = fe.step => l \in Nat
    BY <1>1, <1>3
  <2> QED
    BY <1>4, <2>1, <2>2
<1>6. CallNow.tells => NoLookUpBehind(fe)
  BY <1>1, <1>2 DEF Running, LooksUpFirst, NoLookUpBehind
<1>7. CallNow.m \in IssuesKey => StepNow.on # "ignore" /\ HandedFrom(fe, fe.call + 1)
  BY <1>1, <1>2 DEF Running, HandsOn, HandedFrom, HandedLater, Handing
<1>8. ASSUME Hands(StepNow, fe.call), CallNow.m \notin KeepsKey
      PROVE  Hands(StepNow, fe.call + 1)
  <2>1. PICK l \in fe.call .. Len(StepNow.calls) :
           /\ StepNow.calls[l].m \in KeepsKey
           /\ StepNow.on # "ignore" \/ \A h \in fe.call .. l : ~CanFail(StepNow.calls[h])
    BY <1>8 DEF Hands
  <2>2. l # fe.call
    BY <1>1, <1>8, <2>1
  <2>3. l \in fe.call + 1 .. Len(StepNow.calls) /\ \A h \in fe.call + 1 .. l : h \in fe.call .. l
    BY <1>4, <2>1, <2>2
  <2> QED
    BY <2>1, <2>3 DEF Hands
<1>9. ASSUME Hands(StepNow, fe.call), StepNow.on = "ignore"
      PROVE  ~CanFail(CallNow)
  <2>1. PICK l \in fe.call .. Len(StepNow.calls) : \A h \in fe.call .. l : ~CanFail(StepNow.calls[h])
    BY <1>9 DEF Hands
  <2>2. fe.call \in fe.call .. l
    BY <1>4, <2>1
  <2> QED
    BY <1>1, <2>1, <2>2
<1>10. ASSUME key = "issued", ~fe.said, CallNow.m \notin IssuesKey
       PROVE  CallNow.m \notin KeepsKey /\ (Hands(StepNow, fe.call) \/ HandedLater(fe))
  BY <1>1, <1>10 DEF HandedFrom
<1>11. key = "issued" /\ ~fe.said => HandedFrom(fe, fe.call + 1)
  BY <1>1, <1>7, <1>8, <1>10 DEF HandedFrom
<1>12. key = "issued" /\ ~fe.said /\ StepNow.on = "ignore" /\ CanFail(CallNow) => HandedLater(fe)
  BY <1>7, <1>9, <1>10
<1> QED
  BY <1>1, <1>2, <1>3, <1>5, <1>6, <1>11, <1>12

\* The front end is at its next place, whatever it does there.
LEMMA SoundAfterCall ==
    ASSUME FeInv, fe.state = "runs", NEW f, FeRecord(f), SamePlace(f, fe),
           f.missed \/ f.code # 0 => f.said,
           f.changed => NoLookUpBehind(fe),
           f.key = "issued" /\ ~f.said => HandedLater(fe),
           NEW failed, NEW g, g = GoOn(f, failed)
    PROVE  FeSound(g)
<1>1. FeRecord(fe) /\ Running(fe)
  BY DEF FeInv, FeSound
<1>2. /\ FeRecord(g) /\ SameHistory(g, f)
      /\ g.state \in {"runs", "ended"}
      /\ g.state = "runs" => Running(g) /\ (NoLookUpBehind(fe) => NoLookUpAhead(g))
      /\ f.code = 0 /\ HandedLater(fe) => g.state = "runs" /\ HandedFrom(g, g.call)
  BY <1>1, GoesOn
<1>3. g.key = "issued" /\ ~g.said => g.state = "runs" /\ HandedFrom(g, g.call)
  BY <1>2 DEF SameHistory
<1> QED
  BY <1>2, <1>3 DEF FeSound, SameHistory

\* A call that succeeds.
LEMMA CallOkStep == FeInv /\ feCallOk => FeInv'
<1> SUFFICES ASSUME FeInv, feCallOk PROVE FeSound(fe')
  BY DEF FeInv
<1>1. PICK key : key = IF CallNow.m \in IssuesKey THEN "issued"
                       ELSE IF CallNow.m \in KeepsKey /\ fe.key = "issued" THEN "kept" ELSE fe.key
  OBVIOUS
<1>2. fe.state = "runs"
  BY DEF feCallOk
<1>3. /\ FeRecord(fe) /\ Running(fe) /\ CallNow = StepNow.calls[fe.call] /\ StepNow = fe.plan[fe.step]
      /\ StepNow.calls \in Seq([m : STRING, tells : BOOLEAN]) /\ fe.call \in DOMAIN StepNow.calls
      /\ fe.changed \/ CallNow.tells => NoLookUpBehind(fe)
      /\ key = "issued" /\ ~fe.said => HandedFrom(fe, fe.call + 1)
  BY <1>1, <1>2, CallLeaves
<1>4. PICK f : f = [TookEffect(fe) EXCEPT !.key = IF CallNow.m \in IssuesKey THEN "issued" ELSE @]
  OBVIOUS
<1>5. /\ FeRecord(f) /\ SamePlace(f, fe) /\ f.missed = fe.missed /\ f.said = fe.said /\ f.code = fe.code
      /\ f.changed = (fe.changed \/ CallNow.tells) /\ f.key = key
  BY <1>1, <1>3, <1>4 DEF TookEffect, FeRecord, SamePlace
<1>6. fe' = IF fe.call < Len(StepNow.calls) THEN [f EXCEPT !.call = @ + 1] ELSE GoOn(f, FALSE)
  BY <1>4 DEF feCallOk
<1>7. f.missed \/ f.code # 0 => f.said
  BY <1>5 DEF FeInv, FeSound
<1>8. CASE fe.call < Len(StepNow.calls)
  <2>1. PICK g : g = [f EXCEPT !.call = @ + 1]
    OBVIOUS
  <2>2. /\ FeRecord(g) /\ SameHistory(g, f) /\ g.state = "runs"
        /\ g.plan = fe.plan /\ g.step = fe.step /\ g.call = fe.call + 1 /\ g.arg = fe.arg /\ g.n = fe.n
    BY <1>2, <1>5, <2>1 DEF FeRecord, SameHistory, SamePlace
  <2>3. StepNow.calls \in Seq([m : STRING, tells : BOOLEAN]) /\ fe.call \in DOMAIN StepNow.calls
    BY <1>3
  <2>4. Running(g)
    <3>1. fe.call + 1 \in DOMAIN StepNow.calls
      BY <1>8, <2>3
    <3> QED
      BY <1>3, <2>2, <3>1 DEF Running
  <2>5. NoLookUpBehind(fe) => NoLookUpAhead(g)
    <3> SUFFICES ASSUME NoLookUpBehind(fe), NEW j \in DOMAIN fe.plan, NEW l \in DOMAIN fe.plan[j].calls,
                        fe.plan[j].calls[l].m = "ResolveServicePath"
                 PROVE  j < fe.step \/ (j = fe.step /\ l < fe.call + 1 /\ ~fe.plan[j].each)
      BY <2>2 DEF NoLookUpAhead
    <3>1. j < fe.step \/ (j = fe.step /\ l <= fe.call /\ ~fe.plan[j].each)
      BY DEF NoLookUpBehind
    <3>2. j = fe.step => l \in Nat /\ fe.call \in Nat
      BY <1>3, <2>3
    <3> QED
      BY <3>1, <3>2
  <2>6. HandedFrom(fe, fe.call + 1) => HandedFrom(g, g.call)
    BY <2>2 DEF HandedFrom, HandedLater
  <2>7. fe' = g
    BY <1>6, <1>8, <2>1
  <2> QED
    BY <1>3, <1>5, <1>7, <2>2, <2>4, <2>5, <2>6, <2>7 DEF FeSound, SameHistory
<1>9. CASE ~ (fe.call < Len(StepNow.calls))
  <2>1. StepNow.calls \in Seq([m : STRING, tells : BOOLEAN]) /\ fe.call \in DOMAIN StepNow.calls
    BY <1>3
  <2>2. ~ Hands(StepNow, fe.call + 1)
    <3>1. fe.call + 1 .. Len(StepNow.calls) = {}
      BY <1>9, <2>1
    <3> QED
      BY <3>1 DEF Hands
  <2>3. f.key = "issued" /\ ~f.said => HandedLater(fe)
    BY <1>3, <1>5, <2>2 DEF HandedFrom
  <2>4. f.changed => NoLookUpBehind(fe)
    BY <1>3, <1>5
  <2>5. fe' = GoOn(f, FALSE)
    BY <1>6, <1>9
  <2> QED
    BY <1>2, <1>5, <1>7, <2>3, <2>4, <2>5, SoundAfterCall
<1> QED
  BY <1>8, <1>9

\* A failed call: the front end shows it or not, ends or goes on.
LEMMA SoundAfterFailure ==
    ASSUME FeInv, fe.state = "runs", CallNow = StepNow.calls[fe.call], CanFail(CallNow),
           StepNow.on \in {"stop", "fail", "note", "ignore", "undo"},
           NEW f, FeRecord(f), SamePlace(f, fe), f.said = fe.said, f.missed = fe.missed, f.code = fe.code,
           f.changed => NoLookUpBehind(fe),
           f.key = "issued" /\ ~fe.said /\ StepNow.on = "ignore" => HandedLater(fe)
    PROVE  FeSound(React(f))
<1>1. PICK t : t = [f EXCEPT !.missed = @ \/ (CallNow.tells /\ StepNow.on # "ignore"), !.said = @ \/ Shows(f),
                             !.failures = @ + 1]
  OBVIOUS
<1>2. /\ FeRecord(t) /\ SamePlace(t, fe) /\ t.code = fe.code /\ t.changed = f.changed /\ t.key = f.key
      /\ t.said = (fe.said \/ StepNow.on # "ignore")
      /\ t.missed = (fe.missed \/ (CallNow.tells /\ StepNow.on # "ignore"))
  BY <1>1 DEF FeRecord, SamePlace, Shows
<1>3. React(f) = CASE StepNow.on = "stop" -> [t EXCEPT !.state = "ended"]
                   [] StepNow.on = "fail" -> [t EXCEPT !.state = "ended", !.code = 1]
                   [] StepNow.on = "undo" -> GoOn([t EXCEPT !.code = 1], TRUE)
                   [] OTHER -> GoOn(t, TRUE)
  BY <1>1 DEF React
<1>4. fe.missed \/ fe.code # 0 => fe.said
  BY DEF FeInv, FeSound
<1>5. CASE StepNow.on = "stop"
  <2>1. PICK g : g = [t EXCEPT !.state = "ended"]
    OBVIOUS
  <2>2. FeRecord(g) /\ g.state = "ended" /\ g.said
    BY <1>2, <1>5, <2>1 DEF FeRecord
  <2> QED
    BY <1>3, <1>5, <2>1, <2>2 DEF FeSound
<1>6. CASE StepNow.on = "fail"
  <2>1. PICK g : g = [t EXCEPT !.state = "ended", !.code = 1]
    OBVIOUS
  <2>2. FeRecord(g) /\ g.state = "ended" /\ g.said
    BY <1>2, <1>6, <2>1 DEF FeRecord
  <2> QED
    BY <1>3, <1>6, <2>1, <2>2 DEF FeSound
<1>7. CASE StepNow.on = "undo"
  <2>1. PICK g : g = [t EXCEPT !.code = 1]
    OBVIOUS
  <2>2. FeRecord(g) /\ SamePlace(g, fe) /\ g.said /\ g.changed = f.changed
    BY <1>2, <1>7, <2>1 DEF FeRecord, SamePlace
  <2>3. React(f) = GoOn(g, TRUE)
    BY <1>3, <1>7, <2>1
  <2> QED
    BY <2>2, <2>3, SoundAfterCall
<1>8. CASE StepNow.on \in {"note", "ignore"}
  <2>1. React(f) = GoOn(t, TRUE)
    BY <1>3, <1>8
  <2>2. t.missed \/ t.code # 0 => t.said
    BY <1>2, <1>4
  <2>3. t.key = "issued" /\ ~t.said => HandedLater(fe)
    BY <1>2, <1>8
  <2> QED
    BY <1>2, <2>1, <2>2, <2>3, SoundAfterCall
<1> QED
  BY <1>5, <1>6, <1>7, <1>8

\* A call that fails.
LEMMA CallFailsStep == FeInv /\ feCallFails => FeInv'
<1> SUFFICES ASSUME FeInv, feCallFails PROVE FeSound(fe')
  BY DEF FeInv
<1>1. PICK key : key = IF CallNow.m \in IssuesKey THEN "issued"
                       ELSE IF CallNow.m \in KeepsKey /\ fe.key = "issued" THEN "kept" ELSE fe.key
  OBVIOUS
<1>2. fe.state = "runs" /\ CanFail(CallNow) /\ fe' = React(fe)
  BY DEF feCallFails
<1>3. /\ FeRecord(fe) /\ CallNow = StepNow.calls[fe.call]
      /\ StepNow.on \in {"stop", "fail", "note", "ignore", "undo"}
      /\ fe.changed \/ CallNow.tells => NoLookUpBehind(fe)
      /\ key = "issued" /\ ~fe.said /\ StepNow.on = "ignore" /\ CanFail(CallNow) => HandedLater(fe)
  BY <1>1, <1>2, CallLeaves
<1>4. fe.key = "issued" /\ ~fe.said /\ StepNow.on = "ignore" => HandedLater(fe)
  <2>1. fe.key = "issued" /\ ~fe.said => HandedFrom(fe, fe.call) /\ StepNow = fe.plan[fe.step]
    BY <1>2 DEF FeInv, FeSound, StepNow
  <2>2. ASSUME Hands(StepNow, fe.call), StepNow.on = "ignore" PROVE FALSE
    <3>1. PICK l \in fe.call .. Len(StepNow.calls) : \A h \in fe.call .. l : ~CanFail(StepNow.calls[h])
      BY <2>2 DEF Hands
    <3>2. fe.call \in Nat
      BY <1>2, CallLeaves
    <3>3. fe.call \in fe.call .. l
      BY <3>1, <3>2
    <3> QED
      BY <1>2, <1>3, <3>1, <3>3
  <2> QED
    BY <2>1, <2>2 DEF HandedFrom
<1>5. SamePlace(fe, fe)
  BY DEF SamePlace
<1> QED
  BY <1>2, <1>3, <1>4, <1>5, SoundAfterFailure

\* A call that takes effect and whose answer is lost.
LEMMA AnswerLostStep == FeInv /\ feAnswerLost => FeInv'
<1> SUFFICES ASSUME FeInv, feAnswerLost PROVE FeSound(fe')
  BY DEF FeInv
<1>1. PICK key : key = IF CallNow.m \in IssuesKey THEN "issued"
                       ELSE IF CallNow.m \in KeepsKey /\ fe.key = "issued" THEN "kept" ELSE fe.key
  OBVIOUS
<1>2. PICK f : f = [TookEffect(fe) EXCEPT !.key = IF CallNow.m \in IssuesKey THEN "issued" ELSE @]
  OBVIOUS
<1>3. fe.state = "runs" /\ CanFail(CallNow) /\ fe' = React(f)
  BY <1>2 DEF feAnswerLost
<1>4. /\ FeRecord(fe) /\ CallNow = StepNow.calls[fe.call]
      /\ StepNow.on \in {"stop", "fail", "note", "ignore", "undo"}
      /\ fe.changed \/ CallNow.tells => NoLookUpBehind(fe)
      /\ key = "issued" /\ ~fe.said /\ StepNow.on = "ignore" /\ CanFail(CallNow) => HandedLater(fe)
  BY <1>1, <1>3, CallLeaves
<1>5. /\ FeRecord(f) /\ SamePlace(f, fe) /\ f.missed = fe.missed /\ f.said = fe.said /\ f.code = fe.code
      /\ f.changed = (fe.changed \/ CallNow.tells) /\ f.key = key
  BY <1>1, <1>2, <1>4 DEF TookEffect, FeRecord, SamePlace
<1> QED
  BY <1>3, <1>4, <1>5, SoundAfterFailure

\* A command begins with its first step that has something to do.
LEMMA BeginStep == FeInv /\ feBegin => FeInv'
<1> SUFFICES ASSUME FeInv, feBegin PROVE FeSound(fe')
  BY DEF FeInv
<1>1. /\ fe.state = "idle" /\ FeRecord(fe) /\ (fe.missed \/ fe.code # 0 => fe.said)
      /\ ~fe.changed /\ fe.key = "none" /\ fe.call = 1 /\ fe.arg = 1
  BY DEF feBegin, FeInv, FeSound
<1>2. PICK p \in FePlans, n \in 0 .. MaxArgs :
        fe' = IF n < p.min THEN [fe EXCEPT !.state = "ended", !.n = n, !.said = TRUE]
              ELSE IF \A i \in 1 .. Len(p.steps) : p.steps[i].each /\ n = 0 THEN [fe EXCEPT !.state = "ended", !.n = n]
              ELSE [fe EXCEPT !.state = "runs", !.plan = p.steps, !.n = n,
                              !.step = CHOOSE i \in 1 .. Len(p.steps) :
                                         /\ p.steps[i].each => n > 0
                                         /\ \A k \in 1 .. i - 1 : p.steps[k].each /\ n = 0]
  BY DEF feBegin
<1>3. p.steps \in Seq(PlanSteps) /\ LooksUpFirst(p.steps) /\ HandsOn(p.steps) /\ n \in Nat
  BY PlansAssumption, FeAssumption
<1>4. CASE fe' = [fe EXCEPT !.state = "ended", !.n = n, !.said = TRUE] \/ fe' = [fe EXCEPT !.state = "ended", !.n = n]
  <2>1. FeRecord(fe') /\ fe'.state = "ended" /\ fe'.key = "none" /\ (fe'.missed \/ fe'.code # 0 => fe'.said)
    BY <1>1, <1>4 DEF FeRecord
  <2> QED
    BY <2>1 DEF FeSound
<1>5. ASSUME ~ \A i \in 1 .. Len(p.steps) : p.steps[i].each /\ n = 0,
             NEW i, i = CHOOSE j \in 1 .. Len(p.steps) :
                          /\ p.steps[j].each => n > 0
                          /\ \A k \in 1 .. j - 1 : p.steps[k].each /\ n = 0,
             fe' = [fe EXCEPT !.state = "runs", !.plan = p.steps, !.n = n, !.step = i]
      PROVE  FeSound(fe')
  <2> DEFINE has == {j \in 1 .. Len(p.steps) : ~ (p.steps[j].each /\ n = 0)}
  <2>1. has # {} /\ has \in SUBSET Nat
    BY <1>3, <1>5
  <2>2. PICK j \in has : \A k \in has : j <= k
    <3> HIDE DEF has
    <3> QED
      BY <2>1, LeastStep
  <2>3. /\ j \in 1 .. Len(p.steps) /\ (p.steps[j].each => n > 0)
        /\ \A k \in 1 .. j - 1 : p.steps[k].each /\ n = 0
    BY <1>3, <2>2
  <2>4. i \in 1 .. Len(p.steps)
    BY <1>5, <2>3
  <2>5. /\ FeRecord(fe') /\ fe'.state = "runs" /\ fe'.plan = p.steps /\ fe'.n = n /\ fe'.step = i
        /\ fe'.key = "none" /\ ~fe'.changed /\ fe'.call = 1 /\ fe'.arg = 1
        /\ (fe'.missed \/ fe'.code # 0 => fe'.said)
    BY <1>1, <1>5 DEF FeRecord
  <2>6. i \in DOMAIN p.steps /\ p.steps[i] \in PlanSteps
    BY <1>3, <2>4
  <2>7. 1 \in DOMAIN p.steps[i].calls
    BY <2>6 DEF PlanSteps
  <2>8. Running(fe')
    BY <1>3, <2>5, <2>6, <2>7 DEF Running
  <2> QED
    BY <2>5, <2>8 DEF FeSound
<1> QED
  BY <1>2, <1>4, <1>5

\* Every step of a front end keeps the invariant.
LEMMA FeInvNext == FeInv /\ [feNext]_feVars => FeInv'
<1>1. FeInv /\ UNCHANGED feVars => FeInv'
  BY DEF FeInv, feVars
<1> QED
  BY <1>1, BeginStep, CallOkStep, CallFailsStep, AnswerLostStep DEF feNext

\* The invariant gives FrontEndsSound.
LEMMA FeInvSound == FeInv => FrontEndsSound
<1> SUFFICES ASSUME FeInv PROVE FrontEndsSound
  OBVIOUS
<1>1. ResolvedFirst
  <2> SUFFICES ASSUME fe.state = "runs", fe.changed, "ResolveServicePath" \in CallsAhead PROVE FALSE
    BY DEF ResolvedFirst
  <2>1. Running(fe) /\ NoLookUpAhead(fe)
    BY DEF FeInv, FeSound
  <2>2. /\ fe.step \in DOMAIN fe.plan /\ fe.plan[fe.step] \in PlanSteps /\ fe.call \in DOMAIN fe.plan[fe.step].calls
        /\ fe.step \in Nat /\ fe.arg \in Nat /\ fe.arg >= 1
    BY <2>1 DEF Running
  <2>3. /\ fe.plan[fe.step].calls \in Seq([m : STRING, tells : BOOLEAN]) /\ fe.plan[fe.step].each \in BOOLEAN
        /\ fe.call \in Nat /\ fe.call >= 1
    BY <2>2 DEF PlanSteps
  <2>4. CASE "ResolveServicePath" \in {StepNow.calls[k].m : k \in fe.call .. Len(StepNow.calls)}
    <3>1. PICK k \in fe.call .. Len(StepNow.calls) : fe.plan[fe.step].calls[k].m = "ResolveServicePath"
      BY <2>4 DEF StepNow
    <3>2. k \in DOMAIN fe.plan[fe.step].calls /\ ~ (k < fe.call)
      BY <2>3, <3>1 DEF StepNow
    <3> QED
      BY <2>1, <2>2, <3>1, <3>2 DEF NoLookUpAhead
  <2>5. CASE /\ fe.arg < Steps(StepNow)
             /\ "ResolveServicePath" \in {StepNow.calls[k].m : k \in 1 .. Len(StepNow.calls)}
    <3>1. PICK k \in 1 .. Len(StepNow.calls) : fe.plan[fe.step].calls[k].m = "ResolveServicePath"
      BY <2>5 DEF StepNow
    <3>2. k \in DOMAIN fe.plan[fe.step].calls
      BY <2>3, <3>1 DEF StepNow
    <3>3. fe.plan[fe.step].each
      BY <2>2, <2>3, <2>5 DEF Steps, StepNow
    <3> QED
      BY <2>1, <2>2, <3>1, <3>2, <3>3 DEF NoLookUpAhead
  <2>6. CASE \E i \in fe.step + 1 .. Len(fe.plan) :
               "ResolveServicePath" \in {fe.plan[i].calls[k].m : k \in 1 .. Len(fe.plan[i].calls)}
    <3>1. PICK i \in fe.step + 1 .. Len(fe.plan) :
            \E k \in 1 .. Len(fe.plan[i].calls) : fe.plan[i].calls[k].m = "ResolveServicePath"
      BY <2>6
    <3>2. i \in DOMAIN fe.plan /\ i > fe.step /\ i \in Nat
      BY <2>1, <2>2, <3>1 DEF Running
    <3>3. fe.plan[i] \in PlanSteps
      BY <2>1, <3>2 DEF Running
    <3>4. fe.plan[i].calls \in Seq([m : STRING, tells : BOOLEAN])
      BY <3>3 DEF PlanSteps
    <3>5. PICK k \in DOMAIN fe.plan[i].calls : fe.plan[i].calls[k].m = "ResolveServicePath"
      BY <3>1, <3>4
    <3> QED
      BY <2>1, <2>2, <3>2, <3>5 DEF NoLookUpAhead
  <2> QED
    BY <2>4, <2>5, <2>6 DEF CallsAhead
<1>2. FailureIsReported
  BY DEF FeInv, FeSound, FailureIsReported
<1>3. KeyLossIsTold
  BY DEF FeInv, FeSound, KeyLossIsTold
<1> QED
  BY <1>1, <1>2, <1>3 DEF FrontEndsSound

\* FrontEndsSound of the run "master": what the tables of plans are like, which TLC looks through,
\* is enough for any number of arguments, of failed calls and of lost answers.
THEOREM FrontEndsStaySound == feSpec => []FrontEndsSound
<1> QED
  BY FeInvInit, FeInvNext, FeInvSound, PTL DEF feSpec
=============================================================================
