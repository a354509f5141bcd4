----------------------- MODULE ServiceListenerProofs -----------------------
(***************************************************************************)
(* For every set of hosts, every bound and every change option: the        *)
(* listener keeps its types, never uses an instance id twice, never        *)
(* deletes a live instance when it starts one, starts no surplus, stops    *)
(* the highest instances of one, and keeps to the change options.          *)
(*                                                                         *)
(* UniqueInstanceIDs is not inductive: that the id about to be started is  *)
(* free depends on what Sync's search has passed.  The invariant says that *)
(* every request at or before index i has an id that is at most i, that    *)
(* the requests after it are sorted, and that every state in ZooKeeper is  *)
(* either behind the search or still among the requests before it.         *)
(***************************************************************************)
EXTENDS ServiceListener, FiniteSetTheorems, TLAPS

Requests == Keys \cup {BlankRequest}
Searching == pc \in {"select", "startDelete", "startCreate"}

\* The listing that Sync begins with contains every state.
ListingComplete == pc = "resume" => Present \subseteq listed

\* While Sync starts instances, its requests are sorted and there is a deficit.
RequestsSorted ==
    (pc = "scan" \/ Searching) =>
        /\ count < sn.instances
        /\ reqs \in [0 .. (count - 1) -> Requests]
        /\ \A a, b \in 0 .. (count - 1) : a <= b => reqs[a][2] <= reqs[b][2]

\* Before the search for a gap: the ids behind index i are at most i.
BehindSearch ==
    pc = "scan" =>
        /\ i \in -1 .. (count - 1)
        /\ \A j \in 0 .. (count - 1) : j <= i => reqs[j][2] <= i
        /\ \A k \in Present : \/ k[2] <= i
                              \/ \E j \in (i + 1) .. (count - 1) : reqs[j] = k

\* After it: i is a gap between the ids behind it and the ids before it.
AtGap ==
    Searching =>
        /\ i \in 0 .. count
        /\ \A j \in 0 .. (count - 1) : j < i => reqs[j][2] < i
        /\ \A j \in 0 .. (count - 1) : j >= i => reqs[j][2] > i
        /\ \A k \in Present : \/ k[2] < i
                              \/ \E j \in i .. (count - 1) : reqs[j] = k
        /\ pc # "select" => cur[2] = i

IndInv ==
    /\ TypeOK
    /\ ListingComplete
    /\ RequestsSorted
    /\ BehindSearch
    /\ AtGap
    /\ UniqueInstanceIDs

-----------------------------------------------------------------------------

\* The parts of a request have their types.
LEMMA KeyTypes ==
    /\ \A k \in Keys : k[1] \in Hosts /\ k[2] \in Ids /\ k[2] \in Nat /\ k = <<k[1], k[2]>>
    /\ \A r \in Requests : r[2] \in Nat
    /\ \A h \in Hosts, d \in Ids : <<h, d>> \in Keys
<1>1. \A k \in Keys : k[1] \in Hosts /\ k[2] \in Ids /\ k = <<k[1], k[2]>>
  BY DEF Keys
<1>2. \A d \in Ids : d \in Nat
  BY InstancesAssumption DEF Ids
<1>3. \A h \in Hosts, d \in Ids : <<h, d>> \in Keys
  BY DEF Keys
<1>4. \A r \in Requests : r[2] \in Nat
  <2>1. BlankRequest[2] = 0
    BY DEF BlankRequest
  <2>2. \A k \in Keys : k[2] \in Nat
    BY <1>1, <1>2
  <2> QED
    BY <2>1, <2>2 DEF Requests
<1> QED
  BY <1>1, <1>2, <1>3, <1>4

\* A listing of states is finite, so Sync's count is a natural number.
LEMMA ListingFinite ==
    ASSUME NEW S \in SUBSET Keys
    PROVE  Cardinality(S) \in Nat
<1>1. IsFiniteSet(Ids)
  BY InstancesAssumption, FS_Interval DEF Ids
<1>2. IsFiniteSet(Keys)
  BY <1>1, HostsAssumption, FS_Product DEF Keys
<1>3. IsFiniteSet(S)
  BY <1>2, FS_Subset
<1> QED
  BY <1>3, FS_CardinalityType

\* An operator, an agent, the network or a stuttering step leaves the listener's
\* own variables alone.
EnvironmentNext ==
    \/ AgentNext
    \/ EditNode
    \/ \E k \in Keys : StopServiceInstance(k) \/ RestartInstance(k) \/ LoseInstance(k)
    \/ \E h \in Hosts : HostOffline(h) \/ HostOnline(h)
    \/ UNCHANGED vars

\* The operators, the agents and outages leave the listener's own variables alone
\* and create no state.
LEMMA EnvironmentStep ==
    ASSUME CoordinatorTypes, EnvironmentNext
    PROVE  /\ UNCHANGED <<pc, sn, listed, todo, cur, reqs, count, i>>
           /\ inst' \in [Keys -> DesiredStates \cup {None}]
           /\ Present' \subseteq Present
<1> USE DEF CoordinatorTypes
<1>1. CASE AgentNext
  BY <1>1 DEF AgentNext, AgentStopped, AgentRestarted, localVars, syncVars, DesiredStates,
              None, Present
<1>2. CASE EditNode
  BY <1>2 DEF EditNode, localVars, syncVars, Present
<1>3. CASE \E k \in Keys : StopServiceInstance(k) \/ RestartInstance(k) \/ LoseInstance(k)
  BY <1>3 DEF StopServiceInstance, RestartInstance, LoseInstance, localVars, syncVars,
              DesiredStates, None, Present
<1>4. CASE \E h \in Hosts : HostOffline(h) \/ HostOnline(h)
  BY <1>4 DEF HostOffline, HostOnline, localVars, syncVars, Present
<1>5. CASE UNCHANGED vars
  BY <1>5 DEF vars, Present
<1> QED
  BY <1>1, <1>2, <1>3, <1>4, <1>5 DEF EnvironmentNext

-----------------------------------------------------------------------------
(* The types                                                               *)

\* Every step keeps the types of what is in ZooKeeper.
LEMMA CoordinatorTypesStep ==
    ASSUME CoordinatorTypes, ListenerTypes, [Next]_vars
    PROVE  CoordinatorTypes'
<1> USE DEF CoordinatorTypes, ListenerTypes
<1>1. CASE Load \/ List \/ Wake \/ LoopDone \/ StopCheck \/ SyncBegin \/ FindGap
           \/ SelectHost \/ Respawn
  BY <1>1 DEF Load, List, Wake, LoopDone, StopCheck, SyncBegin, FindGap, SelectHost,
              Respawn, zkVars
<1>2. CASE Resume
  BY <1>2 DEF Resume, UpdateTo, DesiredStates
<1>3. CASE Pause
  BY <1>3 DEF Pause, UpdateTo, DesiredStates
<1>4. CASE StopUpdate
  BY <1>4 DEF StopUpdate, UpdateTo, DesiredStates
<1>5. CASE StopDelete
  BY <1>5 DEF StopDelete
<1>6. CASE StartDelete
  BY <1>6 DEF StartDelete
<1>7. CASE StartCreate
  BY <1>7 DEF StartCreate, DesiredStates
<1>8. CASE EnvironmentNext
  <2>1. inst' \in [Keys -> DesiredStates \cup {None}]
    BY <1>8, EnvironmentStep
  <2>2. node' \in ServiceNodes
    BY <1>8 DEF EnvironmentNext, AgentNext, AgentStopped, AgentRestarted, EditNode,
                StopServiceInstance, RestartInstance, LoseInstance, HostOffline, HostOnline, vars
  <2>3. online' \subseteq Hosts
    BY <1>8 DEF EnvironmentNext, AgentNext, AgentStopped, AgentRestarted, EditNode,
                StopServiceInstance, RestartInstance, LoseInstance, HostOffline, HostOnline, vars
  <2> QED
    BY <2>1, <2>2, <2>3
<1> QED
  BY <1>1, <1>2, <1>3, <1>4, <1>5, <1>6, <1>7, <1>8 DEF Next, ListenerNext, EnvironmentNext

\* Every step keeps the types of the listener's variables; that the state which
\* Start creates is a known one rests on the gap being below the number asked for.
LEMMA ListenerTypesStep ==
    ASSUME CoordinatorTypes, ListenerTypes, RequestsSorted, BehindSearch, AtGap, [Next]_vars
    PROVE  ListenerTypes'
<1> USE DEF CoordinatorTypes, ListenerTypes
<1>1. CASE Load
  BY <1>1 DEF Load, syncVars
<1>2. CASE List
  BY <1>2 DEF List, syncVars, Present, ServiceNodes
<1>3. CASE Wake \/ LoopDone
  BY <1>3 DEF Wake, LoopDone, RoundOver, localVars, syncVars
<1>4. CASE Resume \/ Pause
  BY <1>4 DEF Resume, Pause, syncVars
<1>5. CASE StopCheck
  BY <1>5 DEF StopCheck, syncVars
<1>6. CASE StopUpdate \/ StopDelete \/ StartDelete
  BY <1>6 DEF StopUpdate, StopDelete, StartDelete, localVars, syncVars
<1>7. CASE SyncBegin
  <2>1. sn' \in ServiceNodes
    BY <1>7, InstancesAssumption DEF SyncBegin, ServiceNodes, Wanted
  <2>2. CASE RoundOver
    BY <2>1, <2>2 DEF RoundOver
  <2>3. CASE /\ reqs' \in SortedRequests(listed)
             /\ todo' = {reqs'[j] : j \in sn'.instances .. (count' - 1)}
             /\ count' = Cardinality(listed) /\ i' = -1
             /\ pc' \in {"scan", "stop"} /\ UNCHANGED <<listed, cur>>
    <3>1. count' \in Nat
      BY <2>3, ListingFinite
    <3>2. reqs' \in [0 .. (count' - 1) -> listed]
      BY <2>3 DEF SortedRequests
    <3>3. sn'.instances \in Nat
      BY <2>1, InstancesAssumption DEF ServiceNodes
    <3>4. todo' \subseteq Keys
      BY <2>3, <3>1, <3>2, <3>3
    <3> QED
      BY <2>1, <2>3, <3>1, <3>4
  <2> QED
    BY <1>7, <2>2, <2>3 DEF SyncBegin
<1>8. CASE FindGap
  BY <1>8 DEF FindGap
<1>9. CASE SelectHost
  <2>1. \A h \in online : <<h, i>> \in Keys
    <3>1. pc = "select"
      BY <1>9 DEF SelectHost
    <3>2. i \in Ids
      BY <3>1, InstancesAssumption DEF AtGap, RequestsSorted, Searching, Ids, ServiceNodes
    <3> QED
      BY <3>2, KeyTypes
  <2> QED
    BY <1>9, <2>1 DEF SelectHost, RoundOver, syncVars
<1>10. CASE StartCreate
  BY <1>10 DEF StartCreate, RoundOver
<1>11. CASE Respawn
  BY <1>11 DEF Respawn
<1>12. CASE EnvironmentNext
  BY <1>12, EnvironmentStep
<1> QED
  BY <1>1, <1>2, <1>3, <1>4, <1>5, <1>6, <1>7, <1>8, <1>9, <1>10, <1>11, <1>12
     DEF Next, ListenerNext, EnvironmentNext

\* Every step keeps the types of the watches and the timer.
LEMMA WatchTypesStep ==
    ASSUME WatchTypes, [Next]_vars
    PROVE  WatchTypes'
<1> USE DEF WatchTypes
<1>1. CASE Load \/ List \/ Wake \/ LoopDone \/ SyncBegin \/ FindGap \/ Respawn
  BY <1>1 DEF Load, List, Wake, LoopDone, SyncBegin, FindGap, Respawn, watchVars
<1>2. CASE Resume \/ Pause \/ StopUpdate
  BY <1>2 DEF Resume, Pause, StopUpdate, UpdateTo, CallFails, watchVars
<1>3. CASE StopCheck \/ SelectHost
  BY <1>3 DEF StopCheck, SelectHost, CallFails, watchVars
<1>4. CASE StopDelete \/ StartDelete
  BY <1>4 DEF StopDelete, StartDelete, CallFails
<1>5. CASE StartCreate
  BY <1>5 DEF StartCreate, CallFails
<1>6. CASE EnvironmentNext
  BY <1>6 DEF EnvironmentNext, AgentNext, AgentStopped, AgentRestarted, EditNode,
              StopServiceInstance, RestartInstance, LoseInstance, HostOffline, HostOnline,
              vars, watchVars
<1> QED
  BY <1>1, <1>2, <1>3, <1>4, <1>5, <1>6 DEF Next, ListenerNext, EnvironmentNext

\* Every step keeps the counters within their bounds.
LEMMA BoundTypesStep ==
    ASSUME BoundTypes, [Next]_vars
    PROVE  BoundTypes'
<1> USE LimitsAssumption DEF BoundTypes
<1>1. CASE Load \/ List \/ Wake \/ LoopDone \/ SyncBegin \/ FindGap \/ StartDelete
  BY <1>1 DEF Load, List, Wake, LoopDone, SyncBegin, FindGap, StartDelete, boundVars
<1>2. CASE Resume \/ Pause \/ StopUpdate
  BY <1>2 DEF Resume, Pause, StopUpdate, UpdateTo, CallFails
<1>3. CASE StopCheck \/ SelectHost
  BY <1>3 DEF StopCheck, SelectHost, CallFails
<1>4. CASE StopDelete \/ StartCreate
  BY <1>4 DEF StopDelete, StartCreate, CallFails
<1>5. CASE Respawn
  BY <1>5 DEF Respawn
<1>6. CASE EnvironmentNext
  BY <1>6 DEF EnvironmentNext, AgentNext, AgentStopped, AgentRestarted, EditNode,
              StopServiceInstance, RestartInstance, LoseInstance, HostOffline, HostOnline,
              vars, boundVars
<1> QED
  BY <1>1, <1>2, <1>3, <1>4, <1>5, <1>6 DEF Next, ListenerNext, EnvironmentNext

-----------------------------------------------------------------------------
(* The search                                                              *)

SearchInv == ListingComplete /\ RequestsSorted /\ BehindSearch /\ AtGap /\ UniqueInstanceIDs

\* Outside Resume and Sync's loop there is nothing to show but that no state
\* is created.
LEMMA IdleStep ==
    ASSUME UniqueInstanceIDs, Present' \subseteq Present,
           pc' \notin {"resume", "scan", "select", "startDelete", "startCreate"}
    PROVE  SearchInv'
BY DEF SearchInv, ListingComplete, RequestsSorted, BehindSearch, AtGap, Searching,
       UniqueInstanceIDs

\* Others may delete states while the listener works.
LEMMA ShrinkStep ==
    ASSUME SearchInv, Present' \subseteq Present,
           UNCHANGED <<pc, sn, listed, cur, reqs, count, i>>
    PROVE  SearchInv'
<1>1. ListingComplete' /\ UniqueInstanceIDs'
  BY DEF SearchInv, ListingComplete, UniqueInstanceIDs
<1>2. RequestsSorted'
  BY DEF SearchInv, RequestsSorted, Searching
<1>3. BehindSearch'
  BY DEF SearchInv, BehindSearch
<1>4. AtGap'
  BY DEF SearchInv, AtGap, Searching
<1> QED
  BY <1>1, <1>2, <1>3, <1>4 DEF SearchInv

\* The steps that update or delete states create none.
LEMMA UpdateCreatesNothing ==
    ASSUME CoordinatorTypes, NEW k, NEW from \in SUBSET DesiredStates, NEW to, UpdateTo(k, from, to)
    PROVE  Present' \subseteq Present
BY DEF CoordinatorTypes, UpdateTo, CallFails, Present, DesiredStates, None

\* A gap in the sorted requests is an id that no state has.
LEMMA GapIsFree ==
    ASSUME CoordinatorTypes, ListenerTypes, RequestsSorted, AtGap, Searching
    PROVE  \A k \in Present : k[2] # i
<1> SUFFICES ASSUME NEW k \in Present PROVE k[2] # i
  OBVIOUS
<1>1. k \in Keys /\ k[2] \in Nat
  BY KeyTypes DEF Present
<1>2. CASE k[2] < i
  BY <1>1, <1>2
<1>3. CASE \E j \in i .. (count - 1) : reqs[j] = k
  BY <1>1, <1>3 DEF AtGap, ListenerTypes
<1> QED
  BY <1>2, <1>3 DEF AtGap

\* Sync begins with a sorted copy of the listing and nothing behind the search.
LEMMA SyncBeginStep ==
    ASSUME CoordinatorTypes, ListenerTypes, SearchInv, SyncBegin
    PROVE  SearchInv'
<1>1. Present' = Present
  BY DEF SyncBegin, zkVars, Present
<1>2. CASE pc' # "scan"
  <2>1. pc' \in {"wait", "stop"}
    BY <1>2 DEF SyncBegin, RoundOver
  <2> QED
    BY <1>1, <2>1, IdleStep DEF SearchInv
<1>3. CASE pc' = "scan"
  <2>1. /\ reqs' \in SortedRequests(listed)
        /\ count' = Cardinality(listed) /\ count' < sn'.instances /\ i' = -1
    BY <1>3 DEF SyncBegin, RoundOver
  <2>2. count' \in Nat
    BY <2>1, ListingFinite DEF ListenerTypes
  <2>3. /\ reqs' \in [0 .. (count' - 1) -> listed]
        /\ \A k \in listed : \E j \in 0 .. (count' - 1) : reqs'[j] = k
        /\ \A a, b \in 0 .. (count' - 1) : a <= b => reqs'[a][2] <= reqs'[b][2]
    BY <2>1 DEF SortedRequests
  <2>4. Present \subseteq listed
    BY DEF SearchInv, ListingComplete, SyncBegin
  <2>5. RequestsSorted'
    <3>1. reqs' \in [0 .. (count' - 1) -> Requests]
      BY <2>3 DEF ListenerTypes, Requests
    <3> QED
      BY <1>3, <2>1, <2>3, <3>1 DEF RequestsSorted
  <2>6. BehindSearch'
    <3>1. i' \in -1 .. (count' - 1)
      BY <2>1, <2>2
    <3>2. \A k \in Present' : \E j \in (i' + 1) .. (count' - 1) : reqs'[j] = k
      BY <1>1, <2>1, <2>3, <2>4
    <3> QED
      BY <2>1, <2>2, <3>1, <3>2 DEF BehindSearch
  <2>7. ListingComplete' /\ AtGap' /\ UniqueInstanceIDs'
    BY <1>1, <1>3 DEF ListingComplete, AtGap, Searching, UniqueInstanceIDs, SearchInv
  <2> QED
    BY <2>5, <2>6, <2>7 DEF SearchInv
<1> QED
  BY <1>2, <1>3

\* The search stops at a gap: what it passed is below it, what is left above.
LEMMA FindGapStep ==
    ASSUME CoordinatorTypes, ListenerTypes, SearchInv, FindGap
    PROVE  SearchInv'
<1> USE DEF ListenerTypes
<1>1. /\ pc = "scan" /\ pc' = "select"
      /\ UNCHANGED <<inst, sn, reqs, count>>
      /\ Present' = Present
  BY DEF FindGap, zkVars, Present
<1>2. /\ reqs \in [0 .. (count - 1) -> Requests]
      /\ \A a, b \in 0 .. (count - 1) : a <= b => reqs[a][2] <= reqs[b][2]
      /\ i \in -1 .. (count - 1)
      /\ \A j \in 0 .. (count - 1) : j <= i => reqs[j][2] <= i
      /\ \A k \in Present : \/ k[2] <= i
                            \/ \E j \in (i + 1) .. (count - 1) : reqs[j] = k
  BY <1>1 DEF SearchInv, RequestsSorted, BehindSearch
<1>3. PICK g \in (i + 1) .. count :
        /\ \A m \in (i + 1) .. (g - 1) : reqs[m][2] <= m
        /\ g < count => g < reqs[g][2]
        /\ i' = g
  BY DEF FindGap
<1>4. \A j \in 0 .. (count - 1) : reqs[j][2] \in Nat
  BY <1>2, KeyTypes
<1>5. \A j \in 0 .. (count - 1) : j < g => reqs[j][2] < g
  <2> SUFFICES ASSUME NEW j \in 0 .. (count - 1), j < g PROVE reqs[j][2] < g
    OBVIOUS
  <2>1. CASE j <= i
    <3>1. reqs[j][2] <= i
      BY <1>2, <2>1
    <3> QED
      BY <1>2, <1>3, <1>4, <3>1
  <2>2. CASE j > i
    <3>1. i \in Int /\ g \in Int /\ j \in Int
      BY <1>2, <1>3
    <3>2. j \in (i + 1) .. (g - 1)
      BY <2>2, <3>1
    <3>3. reqs[j][2] <= j
      BY <1>3, <3>2
    <3>4. reqs[j][2] \in Nat
      BY <1>4
    <3> QED
      BY <3>1, <3>3, <3>4
  <2> QED
    BY <1>2, <2>1, <2>2
<1>6. \A j \in 0 .. (count - 1) : j >= g => reqs[j][2] > g
  <2> SUFFICES ASSUME NEW j \in 0 .. (count - 1), j >= g PROVE reqs[j][2] > g
    OBVIOUS
  <2>1. g \in 0 .. (count - 1)
    BY <1>2, <1>3
  <2>2. reqs[g][2] <= reqs[j][2] /\ g < reqs[g][2]
    BY <1>2, <1>3, <2>1
  <2> QED
    BY <2>1, <2>2, <1>4
<1>7. \A k \in Present : k[2] < g \/ \E j \in g .. (count - 1) : reqs[j] = k
  <2> SUFFICES ASSUME NEW k \in Present PROVE k[2] < g \/ \E j \in g .. (count - 1) : reqs[j] = k
    OBVIOUS
  <2>1. k[2] \in Nat
    BY KeyTypes DEF Present
  <2>2. CASE k[2] <= i
    BY <1>2, <1>3, <2>1, <2>2
  <2>3. CASE \E j \in (i + 1) .. (count - 1) : reqs[j] = k
    <3>1. PICK j \in (i + 1) .. (count - 1) : reqs[j] = k
      BY <2>3
    <3>2. CASE j < g
      BY <1>2, <1>3, <1>5, <3>1, <3>2
    <3>3. CASE j >= g
      BY <1>2, <1>3, <3>1, <3>3
    <3> QED
      BY <1>2, <1>3, <3>2, <3>3
  <2> QED
    BY <1>2, <2>2, <2>3
<1>8. AtGap'
  <2>1. g \in 0 .. count
    BY <1>2, <1>3
  <2> QED
    BY <1>1, <1>3, <1>5, <1>6, <1>7, <2>1 DEF AtGap
<1>9. RequestsSorted'
  BY <1>1 DEF SearchInv, RequestsSorted, Searching
<1>10. ListingComplete' /\ BehindSearch' /\ UniqueInstanceIDs'
  BY <1>1 DEF ListingComplete, BehindSearch, UniqueInstanceIDs, SearchInv
<1> QED
  BY <1>8, <1>9, <1>10 DEF SearchInv

\* The handler picks a host for the gap.
LEMMA SelectHostStep ==
    ASSUME CoordinatorTypes, ListenerTypes, SearchInv, SelectHost
    PROVE  SearchInv'
<1>1. /\ pc = "select" /\ pc' \in {"startDelete", "wait"}
      /\ Present' = Present
      /\ pc' = "startDelete" => cur'[2] = i /\ UNCHANGED <<sn, listed, reqs, count, i>>
  BY DEF SelectHost, RoundOver, zkVars, syncVars, Present
<1>2. CASE pc' = "wait"
  BY <1>1, <1>2, IdleStep DEF SearchInv
<1>3. CASE pc' = "startDelete"
  <2>1. RequestsSorted'
    BY <1>1, <1>3 DEF SearchInv, RequestsSorted, Searching
  <2>2. AtGap'
    BY <1>1, <1>3 DEF SearchInv, AtGap, Searching
  <2>3. ListingComplete' /\ BehindSearch' /\ UniqueInstanceIDs'
    BY <1>1, <1>3 DEF ListingComplete, BehindSearch, UniqueInstanceIDs, SearchInv
  <2> QED
    BY <2>1, <2>2, <2>3 DEF SearchInv
<1> QED
  BY <1>1, <1>2, <1>3

\* Deleting the state about to be created deletes nothing that lives.
LEMMA StartDeleteStep ==
    ASSUME CoordinatorTypes, ListenerTypes, SearchInv, StartDelete
    PROVE  SearchInv'
<1>1. /\ pc = "startDelete" /\ pc' = "startCreate"
      /\ UNCHANGED <<sn, listed, cur, reqs, count, i>>
  BY DEF StartDelete, localVars, syncVars
<1>2. Present' \subseteq Present
  BY DEF StartDelete, CoordinatorTypes, Present, None
<1>3. RequestsSorted'
  BY <1>1 DEF SearchInv, RequestsSorted, Searching
<1>4. AtGap'
  BY <1>1, <1>2 DEF SearchInv, AtGap, Searching
<1>5. ListingComplete' /\ BehindSearch' /\ UniqueInstanceIDs'
  BY <1>1, <1>2 DEF ListingComplete, BehindSearch, UniqueInstanceIDs, SearchInv
<1> QED
  BY <1>3, <1>4, <1>5 DEF SearchInv

\* The state that Start creates has an id of its own.
LEMMA NewInstanceUnique ==
    ASSUME CoordinatorTypes, ListenerTypes, RequestsSorted, AtGap, UniqueInstanceIDs,
           pc = "startCreate", inst' = [inst EXCEPT ![cur] = "Run"]
    PROVE  Present' = Present \cup {cur} /\ UniqueInstanceIDs'
<1>1. cur \in Keys /\ cur[2] = i
  BY DEF ListenerTypes, AtGap, Searching
<1>2. Present' = Present \cup {cur}
  BY <1>1 DEF CoordinatorTypes, Present, None
<1>3. \A k \in Present : k[2] # i
  BY GapIsFree DEF Searching
<1> QED
  BY <1>1, <1>2, <1>3 DEF UniqueInstanceIDs

\* The new state fills the gap, and the blank request moves the rest of the
\* list one index up: everything at or before i is again at most i.
LEMMA StartCreateStep ==
    ASSUME CoordinatorTypes, ListenerTypes, SearchInv, StartCreate
    PROVE  SearchInv'
<1>1. pc = "startCreate" /\ Searching
  BY DEF StartCreate, Searching
<1>2. CASE Present' \subseteq Present /\ pc' = "wait"
  BY <1>2, IdleStep DEF SearchInv
<1>3. CASE inst[cur] = None /\ inst' = [inst EXCEPT ![cur] = "Run"] /\ RoundOver
  BY <1>1, <1>3, NewInstanceUnique DEF RoundOver, SearchInv, ListingComplete, RequestsSorted,
     BehindSearch, AtGap, Searching
<1>4. CASE /\ inst[cur] = None
           /\ inst' = [inst EXCEPT ![cur] = "Run"]
           /\ reqs' = [j \in 0 .. count |-> IF j = 0 THEN BlankRequest ELSE reqs[j - 1]]
           /\ count' = count + 1 /\ count + 1 < sn.instances
           /\ pc' = "scan"
           /\ UNCHANGED <<sn, i>>
  <2>1. /\ reqs \in [0 .. (count - 1) -> Requests]
        /\ \A a, b \in 0 .. (count - 1) : a <= b => reqs[a][2] <= reqs[b][2]
        /\ i \in 0 .. count /\ count \in Nat
        /\ \A j \in 0 .. (count - 1) : j < i => reqs[j][2] < i
        /\ \A k \in Present : k[2] < i \/ \E j \in i .. (count - 1) : reqs[j] = k
        /\ cur[2] = i /\ cur \in Keys
    BY <1>1 DEF SearchInv, RequestsSorted, AtGap, ListenerTypes, StartCreate
  <2>2. Present' = Present \cup {cur} /\ UniqueInstanceIDs'
    BY <1>1, <1>4, NewInstanceUnique DEF SearchInv
  <2>3. \A j \in 0 .. (count - 1) : reqs[j][2] \in Nat
    BY <2>1, KeyTypes
  <2>4. /\ BlankRequest[2] = 0 /\ BlankRequest \in Requests
    BY DEF BlankRequest, Requests
  <2>5. reqs' \in [0 .. (count' - 1) -> Requests]
    BY <1>4, <2>1, <2>4
  <2>6. ASSUME NEW a \in 0 .. (count' - 1), NEW b \in 0 .. (count' - 1), a <= b
        PROVE  reqs'[a][2] <= reqs'[b][2]
    <3>1. CASE a = 0
      <4>1. reqs'[a][2] = 0
        BY <1>4, <2>1, <2>4, <3>1
      <4>2. reqs'[b][2] \in Nat
        BY <2>5, KeyTypes
      <4> QED
        BY <4>1, <4>2
    <3>2. CASE a # 0
      <4>1. a - 1 \in 0 .. (count - 1) /\ b - 1 \in 0 .. (count - 1) /\ a - 1 <= b - 1
        BY <1>4, <2>1, <2>6, <3>2
      <4>2. reqs'[a] = reqs[a - 1] /\ reqs'[b] = reqs[b - 1]
        BY <1>4, <2>1, <2>6, <3>2
      <4> QED
        BY <2>1, <4>1, <4>2
    <3> QED
      BY <3>1, <3>2
  <2>7. ASSUME NEW j \in 0 .. (count' - 1), j <= i
        PROVE  reqs'[j][2] <= i
    <3>1. CASE j = 0
      BY <1>4, <2>1, <2>4, <3>1
    <3>2. CASE j # 0
      <4>1. j - 1 \in 0 .. (count - 1) /\ j - 1 < i /\ reqs'[j] = reqs[j - 1]
        BY <1>4, <2>1, <2>7, <3>2
      <4> QED
        BY <2>1, <2>3, <4>1
    <3> QED
      BY <3>1, <3>2
  <2>8. ASSUME NEW k \in Present'
        PROVE  k[2] <= i \/ \E j \in (i + 1) .. (count' - 1) : reqs'[j] = k
    <3>1. CASE k = cur
      BY <2>1, <3>1
    <3>2. CASE k \in Present /\ k[2] < i
      <4>1. k[2] \in Nat
        BY <3>2, KeyTypes DEF Present
      <4> QED
        BY <2>1, <3>2, <4>1
    <3>3. CASE k \in Present /\ \E j \in i .. (count - 1) : reqs[j] = k
      <4>1. PICK j \in i .. (count - 1) : reqs[j] = k
        BY <3>3
      <4>2. j + 1 \in (i + 1) .. (count' - 1) /\ reqs'[j + 1] = reqs[j]
        BY <1>4, <2>1, <4>1
      <4> QED
        BY <4>1, <4>2
    <3> QED
      BY <2>1, <2>2, <2>8, <3>1, <3>2, <3>3
  <2>9. RequestsSorted'
    BY <1>4, <2>5, <2>6 DEF RequestsSorted, Searching
  <2>10. BehindSearch'
    <3>1. i \in -1 .. (count' - 1)
      BY <1>4, <2>1
    <3> QED
      BY <1>4, <2>7, <2>8, <3>1 DEF BehindSearch
  <2>11. ListingComplete' /\ AtGap'
    BY <1>4 DEF ListingComplete, AtGap, Searching
  <2> QED
    BY <2>2, <2>9, <2>10, <2>11 DEF SearchInv
<1> QED
  BY <1>2, <1>3, <1>4 DEF StartCreate, RoundOver, Present

-----------------------------------------------------------------------------
(* The theorems                                                            *)

\* Every step keeps what Sync knows of the states while it fills gaps.
LEMMA SearchInvStep ==
    ASSUME CoordinatorTypes, ListenerTypes, SearchInv, [Next]_vars
    PROVE  SearchInv'
<1>1. CASE Load \/ Wake \/ LoopDone \/ StopCheck \/ Respawn
  <2>1. Present' = Present
    BY <1>1 DEF Load, Wake, LoopDone, StopCheck, Respawn, zkVars, Present
  <2>2. pc' \in {"load", "list", "stop", "stopUpdate", "stopDelete", "wait"}
    BY <1>1 DEF Load, Wake, LoopDone, RoundOver, StopCheck, Respawn, CallFails
  <2> QED
    BY <2>1, <2>2, IdleStep DEF SearchInv
<1>2. CASE List
  <2>1. Present' = Present /\ listed' = Present /\ pc' \in {"resume", "pause", "stop"}
    BY <1>2 DEF List, zkVars, Present, ListenerTypes, ServiceNodes
  <2> QED
    BY <2>1 DEF SearchInv, ListingComplete, RequestsSorted, BehindSearch, AtGap, Searching,
                UniqueInstanceIDs
<1>3. CASE Resume
  <2>1. Present' \subseteq Present
    BY <1>3, UpdateCreatesNothing DEF Resume, DesiredStates
  <2> QED
    BY <1>3, <2>1 DEF Resume, SearchInv, ListingComplete, RequestsSorted, BehindSearch,
                      AtGap, Searching, UniqueInstanceIDs
<1>4. CASE Pause
  <2>1. Present' \subseteq Present
    BY <1>4, UpdateCreatesNothing DEF Pause, DesiredStates
  <2> QED
    BY <1>4, <2>1, IdleStep DEF Pause, SearchInv
<1>5. CASE StopUpdate
  <2>1. Present' \subseteq Present
    BY <1>5, UpdateCreatesNothing DEF StopUpdate
  <2> QED
    BY <1>5, <2>1, IdleStep DEF StopUpdate, SearchInv
<1>6. CASE StopDelete
  <2>1. Present' \subseteq Present
    BY <1>6 DEF StopDelete, CoordinatorTypes, Present, None
  <2> QED
    BY <1>6, <2>1, IdleStep DEF StopDelete, SearchInv
<1>7. CASE SyncBegin
  BY <1>7, SyncBeginStep
<1>8. CASE FindGap
  BY <1>8, FindGapStep
<1>9. CASE SelectHost
  BY <1>9, SelectHostStep
<1>10. CASE StartDelete
  BY <1>10, StartDeleteStep
<1>11. CASE StartCreate
  BY <1>11, StartCreateStep
<1>12. CASE EnvironmentNext
  BY <1>12, EnvironmentStep, ShrinkStep
<1> QED
  BY <1>1, <1>2, <1>3, <1>4, <1>5, <1>6, <1>7, <1>8, <1>9, <1>10, <1>11, <1>12
     DEF Next, ListenerNext, EnvironmentNext

\* The inductive invariant holds initially.
LEMMA InitInv == Init => IndInv
<1> SUFFICES ASSUME Init PROVE IndInv
  OBVIOUS
<1>1. Present = {}
  BY DEF Init, Present
<1>2. CoordinatorTypes /\ WatchTypes
  BY DEF Init, CoordinatorTypes, WatchTypes
<1>3. ListenerTypes
  BY DEF Init, ListenerTypes
<1>4. BoundTypes
  BY LimitsAssumption DEF Init, BoundTypes
<1>5. ListingComplete /\ RequestsSorted /\ BehindSearch /\ AtGap /\ UniqueInstanceIDs
  BY <1>1 DEF Init, ListingComplete, RequestsSorted, BehindSearch, AtGap, Searching,
              UniqueInstanceIDs
<1> QED
  BY <1>2, <1>3, <1>4, <1>5 DEF IndInv, TypeOK

\* Every step keeps the inductive invariant.
LEMMA NextInv == IndInv /\ [Next]_vars => IndInv'
<1> SUFFICES ASSUME IndInv, [Next]_vars PROVE IndInv'
  OBVIOUS
<1>1. TypeOK'
  BY CoordinatorTypesStep, ListenerTypesStep, WatchTypesStep, BoundTypesStep DEF IndInv, TypeOK
<1>2. SearchInv'
  BY SearchInvStep DEF IndInv, TypeOK, SearchInv
<1> QED
  BY <1>1, <1>2 DEF IndInv, SearchInv

\* The inductive invariant holds in every reachable state.
LEMMA Invariance == Spec => []IndInv
BY InitInv, NextInv, PTL DEF Spec

\* The listener keeps its types; in particular the instance ids that Sync finds
\* stay below the number of instances asked for.
THEOREM TypeCorrect == Spec => []TypeOK
<1>1. IndInv => TypeOK
  BY DEF IndInv
<1> QED
  BY <1>1, Invariance, PTL

\* Sync never gives two states of a service the same instance id, for any
\* number of hosts and instances, any failures and any concurrent deletions.
THEOREM InstanceIDsUnique == Spec => []UniqueInstanceIDs
<1>1. IndInv => UniqueInstanceIDs
  BY DEF IndInv
<1> QED
  BY <1>1, Invariance, PTL

\* Start never deletes a live instance: the id it is given is free on every host.
THEOREM StartsOnlyFreshIDs == Spec => []StartsFreshID
<1>1. IndInv => StartsFreshID
  <2> SUFFICES ASSUME IndInv, pc \in {"select", "startDelete", "startCreate"}, NEW h \in Hosts
               PROVE  inst[<<h, i>>] = None
    BY DEF StartsFreshID
  <2>1. \A k \in Present : k[2] # i
    BY GapIsFree DEF IndInv, TypeOK, Searching
  <2>2. i \in Ids
    BY InstancesAssumption DEF IndInv, TypeOK, ListenerTypes, AtGap, RequestsSorted, Searching,
                               Ids, ServiceNodes
  <2>3. <<h, i>> \in Keys
    BY <2>2, KeyTypes
  <2> QED
    BY <2>1, <2>3 DEF Present
<1> QED
  BY <1>1, Invariance, PTL

\* There are no more states than requests: a state that the search has passed is
\* counted at its id, and any other at its place among the requests.
LEMMA PresentCounted ==
    ASSUME UniqueInstanceIDs, count \in Nat, NEW b \in -1 .. (count - 1),
           \A k \in Present : k[2] <= b \/ \E j \in (b + 1) .. (count - 1) : reqs[j] = k
    PROVE  Cardinality(Present) <= count
<1> DEFINE place == [k \in Present |->
                       IF k[2] <= b THEN k[2] ELSE CHOOSE j \in (b + 1) .. (count - 1) : reqs[j] = k]
<1>1. \A k \in Present : k[2] \in Nat
  BY KeyTypes DEF Present
<1>2. \A k \in Present :
        \/ k[2] <= b /\ place[k] = k[2]
        \/ place[k] \in (b + 1) .. (count - 1) /\ reqs[place[k]] = k
  OBVIOUS
<1>3. place \in [Present -> 0 .. (count - 1)]
  <2>1. \A k \in Present : place[k] \in 0 .. (count - 1)
    BY <1>1, <1>2
  <2> QED
    BY <2>1
<1>4. ASSUME NEW k \in Present, NEW m \in Present, place[k] = place[m]
      PROVE  k = m
  <2> HIDE DEF place
  <2>1. CASE k[2] <= b /\ m[2] <= b /\ place[k] = k[2] /\ place[m] = m[2]
    BY <1>4, <2>1 DEF UniqueInstanceIDs
  <2>2. CASE place[k] > b /\ reqs[place[k]] = k /\ reqs[place[m]] = m
    BY <1>4, <2>2
  <2> QED
    BY <1>1, <1>2, <1>4, <2>1, <2>2
<1>5. place \in Injection(Present, 0 .. (count - 1))
  BY <1>3, <1>4 DEF Injection, IsInjective
<1>6. IsFiniteSet(0 .. (count - 1)) /\ Cardinality(0 .. (count - 1)) = count
  BY FS_Interval
<1> HIDE DEF place
<1> QED
  BY <1>5, <1>6, FS_Injection

\* Sync starts no instance beyond the number that the node it loaded asks for,
\* although it never reads the states again between two starts.
THEOREM StartsNoSurplus == Spec => []NeverOverstarts
<1>1. IndInv => NeverOverstarts
  <2> SUFFICES ASSUME IndInv, pc = "scan" \/ Searching
               PROVE  Cardinality(Present) < sn.instances
    BY DEF NeverOverstarts, Searching
  <2>1. count \in Nat /\ count < sn.instances /\ sn.instances \in Nat
    BY InstancesAssumption DEF IndInv, TypeOK, ListenerTypes, RequestsSorted, ServiceNodes
  <2>2. \A k \in Present : k[2] \in Nat
    BY KeyTypes DEF Present
  <2>3. Cardinality(Present) <= count
    <3>1. CASE pc = "scan"
      <4>1. i \in -1 .. (count - 1)
        BY <3>1 DEF IndInv, BehindSearch
      <4>2. \A k \in Present : k[2] <= i \/ \E j \in (i + 1) .. (count - 1) : reqs[j] = k
        BY <3>1 DEF IndInv, BehindSearch
      <4> QED
        BY <2>1, <4>1, <4>2, PresentCounted DEF IndInv
    <3>2. CASE Searching
      <4>1. i - 1 \in -1 .. (count - 1) /\ i \in Nat
        BY <2>1, <3>2 DEF IndInv, AtGap
      <4>2. \A k \in Present : \/ k[2] <= i - 1
                               \/ \E j \in ((i - 1) + 1) .. (count - 1) : reqs[j] = k
        <5>1. (i - 1) + 1 = i
          BY <4>1
        <5> QED
          BY <2>2, <3>2, <4>1, <5>1 DEF IndInv, AtGap
      <4> QED
        BY <2>1, <4>1, <4>2, PresentCounted DEF IndInv
    <3> QED
      BY <3>1, <3>2
  <2>4. Cardinality(Present) \in Nat
    BY ListingFinite DEF Present
  <2> QED
    BY <2>1, <2>3, <2>4
<1> QED
  BY <1>1, Invariance, PTL

-----------------------------------------------------------------------------
(* What a round rests on                                                   *)

\* No two of the listed states have the same id, and the loaded change options
\* are those of the node.
ListedApart ==
    /\ \A k, m \in listed : k[2] = m[2] => k = m
    /\ sn.option = node.option

\* What Stop is handed by Sync has as many listed states below it as there are
\* instances wanted.
Below(k) == {m \in listed : m[2] < k[2]}
SurplusOnTop ==
    sn.desired = "Run" =>
        /\ pc \in {"stop", "stopUpdate", "stopDelete"} => \A k \in todo : Cardinality(Below(k)) >= sn.instances
        /\ pc \in {"stopUpdate", "stopDelete"} => Cardinality(Below(cur)) >= sn.instances

\* With RestartAllOnInstanceChanged all states are of this pass, so their ids are behind
\* the search; with RestartAllOnInstanceZeroDown those are that are there when the
\* search stops at 0.
OldOnesGone ==
    /\ sn.option = "RestartAllOnInstanceChanged" =>
         /\ pc = "scan" => \A m \in Present : m[2] <= i
         /\ Searching => \A m \in Present : m[2] < i
    /\ sn.option = "RestartAllOnInstanceZeroDown" =>
         /\ pc = "scan" /\ i = -1 => Present = {} \/ (count > 0 /\ reqs[0][2] = 0)
         /\ Searching /\ i = 0 => Present = {}

RoundInv == ListedApart /\ SurplusOnTop /\ OldOnesGone

\* In a sorted listing of states with different ids, as many are below one as come before it.
LEMMA SortedBelow ==
    ASSUME NEW S \in SUBSET Keys, \A k, m \in S : k[2] = m[2] => k = m,
           NEW f \in SortedRequests(S), NEW j \in 0 .. (Cardinality(S) - 1)
    PROVE  Cardinality({k \in S : k[2] < f[j][2]}) >= j
<1> DEFINE n == Cardinality(S)
           L == {k \in S : k[2] < f[j][2]}
           g == [a \in 0 .. (j - 1) |-> f[a]]
<1>1. n \in Nat
  BY ListingFinite
<1>2. /\ f \in [0 .. (n - 1) -> S]
      /\ \A k \in S : \E a \in 0 .. (n - 1) : f[a] = k
      /\ \A a, b \in 0 .. (n - 1) : a <= b => f[a][2] <= f[b][2]
  BY DEF SortedRequests
<1>3. \A k \in S : k[2] \in Nat
  BY KeyTypes
<1> HIDE DEF n, L
<1>4. IsFiniteSet(0 .. (n - 1)) /\ Cardinality(0 .. (n - 1)) = n
  BY <1>1, FS_Interval
<1>5. f \in Injection(0 .. (n - 1), S)
  <2>1. f \in Surjection(0 .. (n - 1), S)
    BY <1>2 DEF Surjection
  <2> QED
    BY <1>4, <2>1, FS_SurjSameCardinalityImpliesInj DEF n
<1>6. \A a \in 0 .. (j - 1) : a \in 0 .. (n - 1) /\ a <= j /\ a # j
  BY <1>1 DEF n
<1>7. j \in 0 .. (n - 1)
  BY DEF n
<1>8. g \in Injection(0 .. (j - 1), L)
  <2>1. ASSUME NEW a \in 0 .. (j - 1) PROVE f[a] \in L
    <3>1. f[a] \in S /\ f[j] \in S /\ f[a][2] <= f[j][2]
      BY <1>2, <1>6, <1>7
    <3>2. f[a] # f[j]
      BY <1>5, <1>6, <1>7 DEF Injection, IsInjective
    <3>3. f[a][2] # f[j][2]
      BY <3>1, <3>2
    <3> QED
      BY <1>3, <3>1, <3>3 DEF L
  <2>2. ASSUME NEW a \in 0 .. (j - 1), NEW b \in 0 .. (j - 1), f[a] = f[b] PROVE a = b
    BY <1>5, <1>6, <2>2 DEF Injection, IsInjective
  <2> QED
    BY <2>1, <2>2 DEF Injection, IsInjective
<1>9. IsFiniteSet(L) /\ Cardinality(L) \in Nat
  <2>1. L \in SUBSET Keys
    BY DEF L
  <2>2. IsFiniteSet(Ids)
    BY InstancesAssumption, FS_Interval DEF Ids
  <2>3. IsFiniteSet(Keys)
    BY <2>2, HostsAssumption, FS_Product DEF Keys
  <2> QED
    BY <2>1, <2>3, FS_Subset, FS_CardinalityType
<1>10. Cardinality(0 .. (j - 1)) = j
  <2>1. j \in Nat
    BY <1>1, <1>7
  <2> QED
    BY <2>1, FS_Interval
<1> HIDE DEF g
<1> QED
  BY <1>8, <1>9, <1>10, FS_Injection DEF L

\* Only Start creates a state, and it is the one that Sync asked for.
LEMMA CreatesOnly ==
    ASSUME CoordinatorTypes, ListenerTypes, [Next]_vars
    PROVE  \/ Present' \subseteq Present
           \/ /\ pc = "startCreate" /\ StartCreate
              /\ inst[cur] = None /\ inst' = [inst EXCEPT ![cur] = "Run"] /\ Present' = Present \cup {cur}
<1>1. CASE Load \/ List \/ Wake \/ LoopDone \/ StopCheck \/ SyncBegin \/ FindGap \/ SelectHost \/ Respawn
  BY <1>1 DEF Load, List, Wake, LoopDone, StopCheck, SyncBegin, FindGap, SelectHost, Respawn, zkVars, Present
<1>2. CASE Resume \/ Pause
  BY <1>2, UpdateCreatesNothing DEF Resume, Pause, DesiredStates
<1>3. CASE StopUpdate
  BY <1>3, UpdateCreatesNothing DEF StopUpdate
<1>4. CASE StopDelete \/ StartDelete
  BY <1>4 DEF StopDelete, StartDelete, CoordinatorTypes, Present, None
<1>5. CASE StartCreate
  BY <1>5 DEF StartCreate, CoordinatorTypes, ListenerTypes, Present, None
<1>6. CASE EnvironmentNext
  BY <1>6, EnvironmentStep
<1> QED
  BY <1>1, <1>2, <1>3, <1>4, <1>5, <1>6 DEF Next, ListenerNext, EnvironmentNext

\* The listing is of states with different ids, and an edit leaves the change options.
LEMMA ListedApartStep ==
    ASSUME IndInv, RoundInv, [Next]_vars
    PROVE  ListedApart'
<1> USE DEF RoundInv, ListedApart
<1>1. CASE Load
  BY <1>1 DEF Load, zkVars
<1>2. CASE List
  BY <1>2 DEF List, zkVars, IndInv, UniqueInstanceIDs
<1>3. CASE Wake \/ LoopDone \/ StopUpdate \/ StopDelete \/ StartDelete \/ StartCreate \/ Respawn
  BY <1>3 DEF Wake, LoopDone, StopUpdate, StopDelete, StartDelete, StartCreate, Respawn, RoundOver, zkVars,
              localVars, syncVars
<1>4. CASE Resume \/ Pause \/ StopCheck \/ FindGap \/ SelectHost
  BY <1>4 DEF Resume, Pause, StopCheck, FindGap, SelectHost, RoundOver, zkVars
<1>5. CASE SyncBegin
  <2>1. sn'.option = sn.option /\ node' = node /\ listed' \in {{}, listed}
    BY <1>5 DEF SyncBegin, RoundOver, zkVars, IndInv, TypeOK, ListenerTypes, ServiceNodes
  <2> QED
    BY <2>1
<1>6. CASE EnvironmentNext
  <2>1. UNCHANGED <<sn, listed>>
    BY <1>6, EnvironmentStep DEF IndInv, TypeOK
  <2>2. node'.option = node.option
    BY <1>6 DEF EnvironmentNext, AgentNext, AgentStopped, AgentRestarted, EditNode,
                StopServiceInstance, RestartInstance, LoseInstance, HostOffline, HostOnline, vars
  <2> QED
    BY <2>1, <2>2
<1> QED
  BY <1>1, <1>2, <1>3, <1>4, <1>5, <1>6 DEF Next, ListenerNext, EnvironmentNext

\* Sync hands the tail of the sorted requests to Stop, which takes one after the other.
LEMMA SurplusOnTopStep ==
    ASSUME IndInv, RoundInv, [Next]_vars
    PROVE  SurplusOnTop'
<1> USE DEF IndInv, TypeOK, ListenerTypes, RoundInv
<1>1. CASE pc' \notin {"stop", "stopUpdate", "stopDelete"}
  BY <1>1 DEF SurplusOnTop
<1>2. CASE List
  BY <1>2 DEF List, SurplusOnTop
<1>3. CASE StopCheck
  BY <1>3 DEF StopCheck, CallFails, SurplusOnTop, Below
<1>4. CASE StopUpdate \/ StopDelete
  BY <1>4 DEF StopUpdate, StopDelete, localVars, syncVars, SurplusOnTop, Below
<1>5. ASSUME SyncBegin, pc' = "stop"
      PROVE  SurplusOnTop'
  <2>1. /\ sn'.desired = sn.desired /\ sn'.instances = Wanted /\ Wanted \in Nat /\ listed' = listed
        /\ count' = Cardinality(listed) /\ reqs' \in SortedRequests(listed)
        /\ todo' = {reqs'[j] : j \in sn'.instances .. (count' - 1)}
    BY <1>5, InstancesAssumption DEF SyncBegin, RoundOver, Wanted, ServiceNodes
  <2>2. ASSUME NEW k \in todo' PROVE Cardinality(Below(k)') >= sn'.instances
    <3>1. PICK j \in sn'.instances .. (count' - 1) : k = reqs'[j]
      BY <2>1, <2>2
    <3>2. Cardinality(listed) \in Nat
      BY ListingFinite
    <3>3. j \in 0 .. (Cardinality(listed) - 1) /\ j >= sn'.instances
      BY <2>1, <3>1, <3>2
    <3>4. Below(k)' = {m \in listed : m[2] < reqs'[j][2]}
      BY <2>1, <3>1 DEF Below
    <3>5. Cardinality({m \in listed : m[2] < reqs'[j][2]}) >= j
      BY <2>1, <3>3, SortedBelow DEF ListedApart
    <3>6. Cardinality({m \in listed : m[2] < reqs'[j][2]}) \in Nat
      BY ListingFinite
    <3> QED
      BY <2>1, <3>2, <3>3, <3>4, <3>5, <3>6
  <2> QED
    BY <1>5, <2>2 DEF SurplusOnTop
<1>6. CASE EnvironmentNext
  <2>1. UNCHANGED <<pc, sn, listed, todo, cur>>
    BY <1>6, EnvironmentStep
  <2> QED
    BY <2>1 DEF SurplusOnTop, Below
<1>7. CASE Load \/ Wake \/ Resume \/ Pause \/ LoopDone \/ FindGap \/ SelectHost \/ StartDelete \/ StartCreate \/ Respawn
  <2>1. pc' \notin {"stop", "stopUpdate", "stopDelete"}
    BY <1>7 DEF Load, Wake, Resume, Pause, LoopDone, FindGap, SelectHost, StartDelete, StartCreate, RoundOver, Respawn
  <2> QED
    BY <1>1, <2>1
<1>8. SyncBegin => pc' \in {"wait", "scan", "stop"}
  BY DEF SyncBegin, RoundOver
<1> QED
  BY <1>1, <1>2, <1>3, <1>4, <1>5, <1>6, <1>7, <1>8 DEF Next, ListenerNext, EnvironmentNext

\* Sync begins to start instances only when the listing allows it, and the search
\* passes 0 when it is taken.
LEMMA OldOnesGoneStep ==
    ASSUME IndInv, RoundInv, [Next]_vars
    PROVE  OldOnesGone'
<1> USE DEF IndInv, TypeOK, ListenerTypes, RoundInv
<1>1. CASE pc' \notin {"scan", "select", "startDelete", "startCreate"}
  BY <1>1 DEF OldOnesGone, Searching
<1>2. CASE UNCHANGED <<pc, sn, reqs, count, i>> /\ Present' \subseteq Present
  BY <1>2 DEF OldOnesGone, Searching
<1>3. ASSUME SyncBegin, pc' = "scan" PROVE OldOnesGone'
  <2>1. /\ sn'.option = sn.option /\ sn'.instances = Wanted /\ Wanted \in Nat /\ i' = -1
        /\ count' = Cardinality(listed) /\ reqs' \in SortedRequests(listed) /\ count' < Wanted
        /\ Present' = Present /\ Present \subseteq listed
    BY <1>3, InstancesAssumption
       DEF SyncBegin, RoundOver, Wanted, ServiceNodes, zkVars, Present, ListingComplete
  <2>2. count' \in Nat
    BY <2>1, ListingFinite
  <2>3. ASSUME sn.option = "RestartAllOnInstanceChanged" PROVE Present' = {}
    <3>1. listed = {}
      BY <2>1, <2>2, <2>3 DEF Wanted
    <3> QED
      BY <2>1, <3>1
  <2>4. ASSUME sn.option = "RestartAllOnInstanceZeroDown", Present' # {}
        PROVE  count' > 0 /\ reqs'[0][2] = 0
    <3>1. PICK k \in listed : k[2] = 0
      BY <2>1, <2>2, <2>4 DEF Wanted
    <3>2. PICK j \in 0 .. (count' - 1) : reqs'[j] = k
      BY <2>1, <3>1 DEF SortedRequests
    <3>3. 0 \in 0 .. (count' - 1) /\ 0 <= j
      <4>1. \A n \in Nat : \A a \in 0 .. (n - 1) : 0 \in 0 .. (n - 1) /\ 0 <= a
        OBVIOUS
      <4> QED
        BY <2>2, <4>1
    <3>4. reqs'[0][2] <= reqs'[j][2] /\ reqs'[0] \in Keys
      BY <2>1, <3>2, <3>3 DEF SortedRequests
    <3>5. reqs'[0][2] \in Nat
      BY <3>4, KeyTypes
    <3> QED
      BY <2>2, <3>1, <3>2, <3>3, <3>4, <3>5
  <2> QED
    BY <1>3, <2>1, <2>3, <2>4 DEF OldOnesGone, Searching
<1>4. ASSUME FindGap PROVE OldOnesGone'
  <2>1. /\ pc = "scan" /\ pc' = "select" /\ UNCHANGED <<sn, reqs, count>> /\ Present' = Present
        /\ i \in -1 .. (count - 1)
    BY <1>4 DEF FindGap, zkVars, Present, BehindSearch
  <2>2. i' \in (i + 1) .. count /\ (i' < count => i' < reqs[i'][2])
    BY <1>4 DEF FindGap
  <2>3. \A m \in Present : m[2] \in Nat
    BY KeyTypes DEF Present
  <2>4. ASSUME sn.option = "RestartAllOnInstanceChanged", NEW m \in Present PROVE m[2] < i'
    <3>1. m[2] <= i
      BY <2>1, <2>4 DEF OldOnesGone
    <3> QED
      BY <2>1, <2>2, <2>3, <3>1
  <2>5. ASSUME sn.option = "RestartAllOnInstanceZeroDown", i' = 0 PROVE Present = {}
    <3>1. i = -1
      BY <2>1, <2>2, <2>5
    <3>2. ~(count > 0 /\ reqs[0][2] = 0)
      BY <2>2, <2>5
    <3> QED
      BY <2>1, <2>5, <3>1, <3>2 DEF OldOnesGone
  <2> QED
    BY <2>1, <2>4, <2>5 DEF OldOnesGone, Searching
<1>5. ASSUME SelectHost \/ StartDelete, pc' # "wait" PROVE OldOnesGone'
  <2>1. /\ Searching /\ pc' \in {"startDelete", "startCreate"} /\ UNCHANGED <<sn, reqs, count, i>>
    BY <1>5 DEF SelectHost, StartDelete, RoundOver, Searching, localVars, syncVars
  <2>2. Present' \subseteq Present
    BY <1>5 DEF SelectHost, StartDelete, zkVars, Present, CoordinatorTypes, None
  <2> QED
    BY <2>1, <2>2 DEF OldOnesGone, Searching
<1>6. ASSUME StartCreate, pc' = "scan" PROVE OldOnesGone'
  <2>1. /\ Searching /\ UNCHANGED <<sn, i>> /\ cur \in Keys /\ i \in 0 .. count /\ cur[2] = i
        /\ inst' = [inst EXCEPT ![cur] = "Run"]
    BY <1>6 DEF StartCreate, RoundOver, Searching, AtGap
  <2>2. Present' = Present \cup {cur}
    BY <2>1 DEF Present, CoordinatorTypes, None
  <2>3. \A m \in Present : m[2] \in Nat
    BY KeyTypes DEF Present
  <2> QED
    BY <1>6, <2>1, <2>2, <2>3 DEF OldOnesGone, Searching
<1>7. CASE EnvironmentNext
  <2>1. UNCHANGED <<pc, sn, reqs, count, i>> /\ Present' \subseteq Present
    BY <1>7, EnvironmentStep
  <2> QED
    BY <1>2, <2>1
<1>8. CASE Load \/ List \/ Wake \/ Resume \/ Pause \/ LoopDone \/ StopCheck \/ StopUpdate \/ StopDelete \/ Respawn
  <2>1. pc' \notin {"scan", "select", "startDelete", "startCreate"}
    BY <1>8 DEF Load, List, Wake, Resume, Pause, LoopDone, StopCheck, StopUpdate, StopDelete, RoundOver, Respawn,
                CallFails, ServiceNodes
  <2> QED
    BY <1>1, <2>1
<1>9. /\ SyncBegin => pc' \in {"wait", "scan", "stop"}
      /\ StartCreate => pc' \in {"wait", "scan"}
  BY DEF SyncBegin, StartCreate, RoundOver
<1> QED
  BY <1>1, <1>3, <1>4, <1>5, <1>6, <1>7, <1>8, <1>9 DEF Next, ListenerNext, EnvironmentNext

\* What a round rests on holds in every reachable state.
LEMMA RoundInvariance == Spec => [](IndInv /\ RoundInv)
<1>1. Init => RoundInv
  BY DEF Init, Present, RoundInv, ListedApart, SurplusOnTop, OldOnesGone, Searching
<1>2. IndInv /\ RoundInv /\ [Next]_vars => IndInv' /\ RoundInv'
  BY NextInv, ListedApartStep, SurplusOnTopStep, OldOnesGoneStep DEF RoundInv
<1> QED
  BY <1>1, <1>2, InitInv, PTL DEF Spec

\* When there are too many instances, those with the highest ids are stopped.
THEOREM StopsTheHighest == Spec => []SurplusStopsHighest
<1>1. RoundInv => SurplusStopsHighest
  BY DEF RoundInv, SurplusOnTop, Below, SurplusStopsHighest
<1> QED
  BY <1>1, RoundInvariance, PTL

\* With the change options, a new instance 0, or any new instance, is started only when all
\* those of earlier passes are gone.
THEOREM RestartsAllTogether == Spec => RestartsTogether
<1>1. IndInv /\ RoundInv /\ [Next]_vars =>
        [\A k \in Keys :
           (/\ inst[k] = None /\ inst'[k] # None
            /\ \/ node.option = "RestartAllOnInstanceChanged"
               \/ node.option = "RestartAllOnInstanceZeroDown" /\ k[2] = 0)
           => \A m \in Present : m[2] < k[2]]_vars
  <2> SUFFICES ASSUME IndInv, RoundInv, [Next]_vars, NEW k \in Keys, inst[k] = None, inst'[k] # None,
                      \/ node.option = "RestartAllOnInstanceChanged"
                      \/ node.option = "RestartAllOnInstanceZeroDown" /\ k[2] = 0,
                      NEW m \in Present
               PROVE  m[2] < k[2]
    OBVIOUS
  <2>1. k \in Present' /\ k \notin Present
    BY DEF Present
  <2>2. pc = "startCreate" /\ Present' = Present \cup {cur}
    BY <2>1, CreatesOnly DEF IndInv, TypeOK
  <2>3. k = cur
    BY <2>1, <2>2
  <2>4. Searching /\ cur[2] = i
    BY <2>2 DEF Searching, IndInv, AtGap
  <2> QED
    BY <2>3, <2>4 DEF RoundInv, ListedApart, OldOnesGone
<1> QED
  BY <1>1, RoundInvariance, PTL DEF Spec, RestartsTogether

=============================================================================
