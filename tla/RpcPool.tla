-------------------------------- MODULE RpcPool --------------------------------
(***************************************************************************)
(* Calls to another process.  The callers of an address share one client   *)
(* with a bounded pool of connections (rpc/rpcutils, commons/pool).  A     *)
(* caller takes an idle connection, dials when there is room, or waits for *)
(* one to come back.  A call that lasts too long gives its place in the    *)
(* pool to a new connection, and goes on with its own.                     *)
(***************************************************************************)
EXTENDS Naturals, Sequences, FiniteSets

CONSTANTS Callers,        \* goroutines that call the same address
          PoolSize,       \* RPC_CLIENT_SIZE
          MaxConnections, \* how many connections are made at most
          MaxDialFailures \* how many times dialing may fail

ASSUME RpcPoolAssumption == PoolSize \in Nat \ {0} /\ MaxConnections \in Nat /\ MaxDialFailures \in Nat

VARIABLES pooled,      \* itemMap: the connections that the pool counts
          idleConns,        \* itemQ: those that wait for a caller
          openConns,        \* connections that are not closed
          connsMade,        \* idCounter
          rpcClients,     \* pools that were made for the address
          rpCaller,      \* of each caller: where it is, with which connection
          dialsLeft,   \* how many times dialing may still fail
          lostPlace    \* a place in the pool was given up and not filled again
rpVars == <<pooled, idleConns, openConns, connsMade, rpcClients, rpCaller, dialsLeft, lostPlace>>

\* rpc/rpcutils/cached.go: no client for the address yet; the callers have not begun.
rpInit ==
    /\ pooled = {} /\ idleConns = <<>> /\ openConns = {} /\ connsMade = 0 /\ rpcClients = 0
    /\ rpCaller = [c \in Callers |-> [pc |-> "start", conn |-> 0, removed |-> FALSE]]
    /\ dialsLeft = MaxDialFailures /\ lostPlace = FALSE

RpAt(c, pc) == rpCaller[c].pc = pc
RpGo(c, pc) == rpCaller' = [rpCaller EXCEPT ![c].pc = pc]
UnchangedPool == UNCHANGED <<pooled, idleConns, openConns, connsMade, dialsLeft, lostPlace>>

\* getClient: the cache is read under the read lock of the address.
getClient(c) ==
    /\ RpAt(c, "start")
    /\ RpGo(c, IF rpcClients > 0 THEN "ready" ELSE "set")
    /\ UNCHANGED rpcClients /\ UnchangedPool

\* setAndGetClient: it is read again under the write lock.
setAndGetClient(c) ==
    /\ RpAt(c, "set")
    /\ rpcClients' = IF rpcClients > 0 THEN rpcClients ELSE 1
    /\ RpGo(c, "ready") /\ UnchangedPool

-----------------------------------------------------------------------------
\* The pool's itemFactory: connectRPC or connectRPCTLS.
CanDial == connsMade < MaxConnections
Dialed == connsMade' = connsMade + 1 /\ openConns' = openConns \cup {connsMade + 1}
CanFailToDial == dialsLeft > 0
DialFailed == dialsLeft' = dialsLeft - 1 /\ UNCHANGED <<connsMade, openConns>>

Holds(c, n) == rpCaller' = [rpCaller EXCEPT ![c] = [pc |-> "calls", conn |-> n, removed |-> FALSE]]

\* BorrowWait under poolLock: an idle connection.
BorrowIdle(c) ==
    /\ RpAt(c, "ready") /\ idleConns # <<>>
    /\ Holds(c, Head(idleConns)) /\ idleConns' = Tail(idleConns)
    /\ UNCHANGED <<pooled, openConns, connsMade, rpcClients, dialsLeft, lostPlace>>

\* BorrowWait under poolLock, newItem: there is room for one more.
BorrowNew(c) ==
    /\ RpAt(c, "ready") /\ idleConns = <<>> /\ Cardinality(pooled) < PoolSize
    /\ \/ /\ CanDial /\ Dialed
          /\ pooled' = pooled \cup {connsMade + 1} /\ Holds(c, connsMade + 1)
          /\ UNCHANGED dialsLeft
       \/ /\ CanFailToDial /\ DialFailed
          /\ RpGo(c, "ended") /\ UNCHANGED pooled
    /\ UNCHANGED <<idleConns, rpcClients, lostPlace>>

\* BorrowWait: the pool is full, and the lock is given back before the wait begins.
BorrowWaits(c) ==
    /\ RpAt(c, "ready") /\ idleConns = <<>> /\ Cardinality(pooled) >= PoolSize
    /\ RpGo(c, "waits")
    /\ UNCHANGED rpcClients /\ UnchangedPool

\* chanQueue.TakeChan: an item, or the timeout, never both.
TakeIdle(c) ==
    /\ RpAt(c, "waits") /\ idleConns # <<>>
    /\ Holds(c, Head(idleConns)) /\ idleConns' = Tail(idleConns)
    /\ UNCHANGED <<pooled, openConns, connsMade, rpcClients, dialsLeft, lostPlace>>
TakeTimesOut(c) ==
    /\ RpAt(c, "waits") /\ RpGo(c, "ended")
    /\ UNCHANGED rpcClients /\ UnchangedPool

-----------------------------------------------------------------------------
\* itemPool.Return: it is counted and checked out, so the queue has room for it.
ReturnItem(c) == idleConns' = Append(idleConns, rpCaller[c].conn) /\ UNCHANGED <<pooled, connsMade, dialsLeft, lostPlace>>

\* itemPool.Remove, keeping what is open of os: its place is filled with a new connection at
\* once; one that is not counted any more is an error that nobody looks at.
RemoveItem(c, os) ==
    LET n == rpCaller[c].conn
    IN \/ /\ n \in pooled /\ CanDial
          /\ connsMade' = connsMade + 1 /\ openConns' = os \cup {connsMade + 1}
          /\ pooled' = (pooled \ {n}) \cup {connsMade + 1} /\ idleConns' = Append(idleConns, connsMade + 1)
          /\ UNCHANGED <<dialsLeft, lostPlace>>
       \/ /\ n \in pooled /\ CanFailToDial
          /\ dialsLeft' = dialsLeft - 1 /\ lostPlace' = TRUE
          /\ openConns' = os /\ pooled' = pooled \ {n}
          /\ UNCHANGED <<connsMade, idleConns>>
       \/ /\ n \notin pooled /\ openConns' = os
          /\ UNCHANGED <<pooled, idleConns, connsMade, dialsLeft, lostPlace>>

\* The call has waited in vain for time it did not have any more.
CallTooLate(c) ==
    /\ RpAt(c, "calls") /\ ~rpCaller[c].removed
    /\ ReturnItem(c) /\ RpGo(c, "ended")
    /\ UNCHANGED <<openConns, rpcClients>>

\* The same, but a connection that left the pool is forgotten.
CallAnsweredOpen(c) ==
    /\ RpAt(c, "calls")
    /\ \/ /\ rpCaller[c].removed
          /\ UNCHANGED <<pooled, idleConns, openConns, connsMade, dialsLeft, lostPlace>>
       \/ ~rpCaller[c].removed /\ ReturnItem(c) /\ UNCHANGED openConns
    /\ RpGo(c, "ended") /\ UNCHANGED rpcClients

\* reconnectingClient.Call: the answer.
CallAnswered(c) ==
    /\ RpAt(c, "calls")
    /\ \/ /\ rpCaller[c].removed /\ openConns' = openConns \ {rpCaller[c].conn}
          /\ UNCHANGED <<pooled, idleConns, connsMade, dialsLeft, lostPlace>>
       \/ ~rpCaller[c].removed /\ ReturnItem(c) /\ UNCHANGED openConns
    /\ RpGo(c, "ended") /\ UNCHANGED rpcClients

\* An error, or the time of the call is over: the connection is closed and leaves the pool.
CallFails(c) ==
    /\ RpAt(c, "calls")
    /\ RemoveItem(c, openConns \ {rpCaller[c].conn})
    /\ RpGo(c, "ended") /\ UNCHANGED rpcClients

\* discardClientTimeout: the call goes on, its connection leaves the pool.
CallDiscards(c) ==
    /\ RpAt(c, "calls") /\ ~rpCaller[c].removed
    /\ RemoveItem(c, openConns)
    /\ rpCaller' = [rpCaller EXCEPT ![c].removed = TRUE]
    /\ UNCHANGED rpcClients

\* The caller's next call, which finds the client in the cache.
CallAgain(c) ==
    /\ RpAt(c, "ended") /\ connsMade < MaxConnections
    /\ RpGo(c, "ready") /\ UNCHANGED rpcClients /\ UnchangedPool

rpNext ==
    \E c \in Callers :
        \/ getClient(c) \/ setAndGetClient(c)
        \/ BorrowIdle(c) \/ BorrowNew(c) \/ BorrowWaits(c) \/ TakeIdle(c) \/ TakeTimesOut(c)
        \/ CallTooLate(c) \/ CallAnswered(c) \/ CallFails(c) \/ CallDiscards(c) \/ CallAgain(c)
rpSpec == rpInit /\ [][rpNext]_rpVars

-----------------------------------------------------------------------------
IdleConns == {idleConns[i] : i \in 1 .. Len(idleConns)}
InUse(c) == RpAt(c, "calls")

\* The callers of an address share one pool, and the pool never counts more connections than
\* it may; what is idle is counted, so the queue, as long as the pool, has room for all of it.
OnePoolInBounds ==
    /\ rpcClients <= 1 /\ Cardinality(pooled) <= PoolSize
    /\ IdleConns \subseteq pooled /\ Len(idleConns) = Cardinality(IdleConns)

\* A connection carries one call at a time.
NotShared ==
    \A c \in Callers : InUse(c) =>
        rpCaller[c].conn \notin IdleConns /\ \A d \in Callers \ {c} : InUse(d) => rpCaller[c].conn # rpCaller[d].conn

\* What is open is in the pool or still carries a call: a long call that has left the pool
\* does not leave its connection behind.
NoConnectionLost == openConns \subseteq pooled \cup {rpCaller[c].conn : c \in {d \in Callers : InUse(d)}}

\* Somebody who waits will get a connection back from somebody, except when dialing for a
\* replacement has failed: then the place is free, but a waiter does not take it.
WaitersAreServed == (\E c \in Callers : RpAt(c, "waits")) /\ pooled = {} => lostPlace

\* What holds of the connections of the rpc clients.
ConnectionsSound == OnePoolInBounds /\ NotShared /\ NoConnectionLost /\ WaitersAreServed
=============================================================================
