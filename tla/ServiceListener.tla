-------------------------- MODULE ServiceListener --------------------------
(***************************************************************************)
(* The scheduler's listener for ONE service of a resource pool             *)
(* (zzk/service/servicestate.go).  The leader of the pool runs one         *)
(* goroutine Spawn per service.  It loads the service node, lists the      *)
(* states below it, and starts, stops, pauses or resumes instances until   *)
(* they match what the node asks for; then it waits for the node or for    *)
(* the list of states to change.                                           *)
(*                                                                         *)
(* A state (StateRequest) is a pair <<host, instanceID>>.  Creating,       *)
(* updating and deleting a state are single steps here: each of them is    *)
(* one ZooKeeper transaction (zzk/service/state.go), whose own races are   *)
(* the subject of module StateNodes.                                       *)
(*                                                                         *)
(* Around the listener run the operators (facade/zkapi.go), which edit the *)
(* service node and stop or restart instances; the agents of the hosts     *)
(* (zzk/service/hoststate.go), which finish stops and restarts; and the    *)
(* network, which takes hosts offline.                                     *)
(***************************************************************************)
EXTENDS Integers, FiniteSets

LOCAL INSTANCE TLC

CONSTANTS
    Hosts,          \* the hosts of the resource pool
    MaxInstances,   \* bound: the largest number of instances ever asked for
    Options,        \* the ChangeOptions a service may have
    EditLimit,      \* bound: how often operators edit the service node
    StopLimit,      \* bound: how often operators stop an instance
    RestartLimit,   \* bound: how often operators restart an instance
    FailureLimit,   \* bound: failed calls, lost instances, leader changes
    OutageLimit     \* bound: how often a host goes offline

None == "None"
Ids == 0 .. (MaxInstances - 1)
Keys == Hosts \X Ids
DesiredStates == {"Run", "Pause", "Stop", "Restart"}
ServiceNodes == [desired : {"Run", "Pause", "Stop"},
                 instances : 0 .. MaxInstances,
                 locked : BOOLEAN,
                 option : Options]

\* The request object that Sync prepends: StateRequest{}, instance id 0.
BlankRequest == <<"", 0>>

ASSUME HostsAssumption == IsFiniteSet(Hosts) /\ Hosts # {}
ASSUME InstancesAssumption == MaxInstances \in Nat
ASSUME OptionsAssumption ==
    Options \subseteq {"None", "RestartAllOnInstanceZeroDown", "RestartAllOnInstanceChanged"}
ASSUME LimitsAssumption ==
    /\ EditLimit \in Nat /\ StopLimit \in Nat /\ RestartLimit \in Nat
    /\ FailureLimit \in Nat /\ OutageLimit \in Nat

VARIABLES
    node,     \* ZooKeeper: the service node
    inst,     \* ZooKeeper: the desired state of each state, None if absent
    online,   \* ZooKeeper: the hosts with a child below their online node
    pc,       \* the listener: where Spawn is
    sn,       \* the listener: its copy of the service node
    listed,   \* the listener: the states that ChildrenW returned
    todo,     \* the listener: the states that Stop, Pause or Resume has left
    cur,      \* the listener: the state being started or stopped
    reqs,     \* the listener: Sync's list of requests, a function on 0 .. count-1
    count,    \* the listener: Sync's number of requests
    i,        \* the listener: Sync's index, the instance id to start
    sEvt,     \* watch: the service node changed since it was loaded
    ssEvt,    \* watch: a state came or went since the states were listed
    timer,    \* the retry timer has been set
    edits, stops, restarts, failures, outages   \* how much of each bound is used

zkVars == <<node, inst, online>>
syncVars == <<reqs, count, i>>
localVars == <<sn, listed, todo, cur, syncVars>>
watchVars == <<sEvt, ssEvt>>
boundVars == <<edits, stops, restarts, failures, outages>>
vars == <<node, inst, online, pc, sn, listed, todo, cur, reqs, count, i,
          sEvt, ssEvt, timer, edits, stops, restarts, failures, outages>>

Present == {k \in Keys : inst[k] # None}

Init ==
    /\ node \in ServiceNodes
    /\ inst = [k \in Keys |-> None]
    /\ online = Hosts
    /\ pc = "load"
    /\ sn = node
    /\ listed = {} /\ todo = {} /\ cur = BlankRequest
    /\ reqs = <<>> /\ count = 0 /\ i = -1
    /\ sEvt = FALSE /\ ssEvt = FALSE /\ timer = FALSE
    /\ edits = 0 /\ stops = 0 /\ restarts = 0 /\ failures = 0 /\ outages = 0

-----------------------------------------------------------------------------
(* Spawn                                                                   *)

\* GetW: copy the service node and watch it.
Load ==
    /\ pc = "load"
    /\ sn' = node /\ sEvt' = FALSE
    /\ pc' = "list"
    /\ UNCHANGED <<zkVars, listed, todo, cur, syncVars, ssEvt, timer, boundVars>>

\* CleanServiceStates and ChildrenW: list the states and watch the list; then
\* the switch on the desired state of the node as it was loaded.
List ==
    /\ pc = "list"
    /\ listed' = Present /\ todo' = Present /\ ssEvt' = FALSE
    /\ pc' = CASE sn.desired = "Run" -> "resume"
               [] sn.desired = "Pause" -> "pause"
               [] sn.desired = "Stop" -> "stop"
    /\ UNCHANGED <<zkVars, sn, cur, syncVars, sEvt, timer, boundVars>>

\* The round is over: its locals are gone, and Spawn waits.
RoundOver ==
    /\ pc' = "wait"
    /\ listed' = {} /\ todo' = {} /\ cur' = BlankRequest
    /\ reqs' = <<>> /\ count' = 0 /\ i' = -1

\* The select at the end of the loop.
Wake ==
    /\ pc = "wait"
    /\ sEvt \/ ssEvt \/ timer
    /\ pc' = "load" /\ timer' = FALSE
    /\ UNCHANGED <<zkVars, localVars, watchVars, boundVars>>

\* The leader crashes or loses its lead at any point, and the next leader's
\* Spawn begins; so does a Spawn that returned with an error.
Respawn ==
    /\ failures < FailureLimit
    /\ failures' = failures + 1
    /\ pc' = "load" /\ timer' = FALSE
    /\ listed' = {} /\ todo' = {} /\ cur' = BlankRequest
    /\ reqs' = <<>> /\ count' = 0 /\ i' = -1
    /\ UNCHANGED <<zkVars, sn, watchVars, edits, stops, restarts, outages>>

-----------------------------------------------------------------------------
(* Pause and Resume: one UpdateState per request.                          *)

\* Mutant: the failed call is logged and forgotten, no retry is scheduled.
CallFailsSilently ==
    /\ failures < FailureLimit
    /\ failures' = failures + 1
    /\ UNCHANGED timer

\* A coordinator call fails: a lost connection, or a transaction that met a
\* concurrent write.  Spawn sets the retry timer.
CallFails ==
    /\ failures < FailureLimit
    /\ failures' = failures + 1
    /\ timer' = TRUE

\* UpdateState on k: an error when the state is gone.
UpdateTo(k, from, to) ==
    \/ /\ inst[k] # None
       /\ inst' = IF inst[k] \in from THEN [inst EXCEPT ![k] = to] ELSE inst
       /\ UNCHANGED <<timer, failures>>
    \/ /\ inst[k] = None
       /\ timer' = TRUE
       /\ UNCHANGED <<inst, failures>>
    \/ CallFails /\ UNCHANGED inst

\* ONLY resume services with a desired state of pause
Resume ==
    /\ pc = "resume"
    /\ \E k \in todo : todo' = todo \ {k} /\ UpdateTo(k, {"Pause"}, "Run")
    /\ UNCHANGED <<node, online, pc, sn, listed, cur, syncVars, watchVars,
                   edits, stops, restarts, outages>>

\* ONLY pause services with a desired state of run
Pause ==
    /\ pc = "pause"
    /\ \E k \in todo : todo' = todo \ {k} /\ UpdateTo(k, {"Run"}, "Pause")
    /\ UNCHANGED <<node, online, pc, sn, listed, cur, syncVars, watchVars,
                   edits, stops, restarts, outages>>

\* The loop of Pause or of Stop is over.
LoopDone ==
    /\ pc \in {"pause", "stop"} /\ todo = {}
    /\ RoundOver
    /\ UNCHANGED <<zkVars, sn, watchVars, timer, boundVars>>

-----------------------------------------------------------------------------
(* Stop: the online status of the host is read before the state is updated *)
(* or deleted; a failed call sets the timer and the loop goes on.          *)

StopCheck ==
    /\ pc = "stop"
    /\ \E k \in todo :
         /\ todo' = todo \ {k}
         /\ cur' = k
         /\ \/ /\ pc' = IF k[1] \in online THEN "stopUpdate" ELSE "stopDelete"
               /\ UNCHANGED <<timer, failures>>
            \/ CallFails /\ UNCHANGED pc
    /\ UNCHANGED <<zkVars, sn, listed, syncVars, watchVars, edits, stops, restarts, outages>>

StopUpdate ==
    /\ pc = "stopUpdate"
    /\ pc' = "stop"
    /\ UpdateTo(cur, DesiredStates, "Stop")
    /\ UNCHANGED <<node, online, localVars, watchVars, edits, stops, restarts, outages>>

StopDelete ==
    /\ pc = "stopDelete"
    /\ pc' = "stop"
    /\ \/ /\ inst' = [inst EXCEPT ![cur] = None]
          /\ ssEvt' = (ssEvt \/ inst[cur] # None)
          /\ UNCHANGED <<timer, failures>>
       \/ CallFails /\ UNCHANGED <<inst, ssEvt>>
    /\ UNCHANGED <<node, online, localVars, sEvt, edits, stops, restarts, outages>>

-----------------------------------------------------------------------------
(* Sync                                                                    *)

\* Mutant: the change options are not consulted.
WantedIgnoringOptions == sn.instances

\* The number of instances Sync works towards: none, if the change options
\* ask for the remaining instances to go down first.
Wanted ==
    IF \/ /\ sn.option = "RestartAllOnInstanceZeroDown"
          /\ listed # {} /\ \A k \in listed : k[2] # 0
       \/ /\ sn.option = "RestartAllOnInstanceChanged"
          /\ listed # {} /\ Cardinality(listed) # sn.instances
      THEN 0
      ELSE sn.instances

\* Mutant: the requests stay in the order in which ZooKeeper lists them.
UnsortedRequests(S) ==
    {f \in [0 .. (Cardinality(S) - 1) -> S] : \A k \in S : \E j \in DOMAIN f : f[j] = k}

\* SortStateRequests: the requests, ordered by instance id.
SortedRequests(S) ==
    {f \in [0 .. (Cardinality(S) - 1) -> S] :
       /\ \A k \in S : \E j \in DOMAIN f : f[j] = k
       /\ \A a, b \in DOMAIN f : a <= b => f[a][2] <= f[b][2]}

\* Resume is over.  There is nothing to do when the number is right, and a locked
\* service gets no new instances; a surplus, the tail of the sorted list, is
\* handed to Stop.
SyncBegin ==
    /\ pc = "resume" /\ todo = {}
    /\ sn' = [sn EXCEPT !.instances = Wanted]
    /\ IF \/ Cardinality(listed) = sn'.instances
          \/ sn.locked /\ Cardinality(listed) < sn'.instances
         THEN RoundOver
         ELSE /\ count' = Cardinality(listed) /\ i' = -1
              /\ reqs' \in SortedRequests(listed)
              /\ todo' = {reqs'[j] : j \in sn'.instances .. (count' - 1)}
              /\ pc' = IF count' < sn'.instances THEN "scan" ELSE "stop"
              /\ UNCHANGED <<listed, cur>>
    /\ UNCHANGED <<zkVars, watchVars, timer, boundVars>>

\* Mutant: the search may run one past the end of the list.
FindGapPastEnd ==
    /\ pc = "scan"
    /\ \E j \in (i + 1) .. (count + 1) :
         /\ \A m \in (i + 1) .. (j - 1) : m < count => reqs[m][2] <= m
         /\ j < count => j < reqs[j][2]
         /\ i' = j
    /\ pc' = "select"
    /\ UNCHANGED <<zkVars, sn, listed, todo, cur, reqs, count, watchVars, timer, boundVars>>

\* The inner loop: the first index after i that is smaller than the instance
\* id found there, or the length of the list.
FindGap ==
    /\ pc = "scan"
    /\ \E j \in (i + 1) .. count :
         /\ \A m \in (i + 1) .. (j - 1) : reqs[m][2] <= m
         /\ j < count => j < reqs[j][2]
         /\ i' = j
    /\ pc' = "select"
    /\ UNCHANGED <<zkVars, sn, listed, todo, cur, reqs, count, watchVars, timer, boundVars>>

\* Start, first part: the handler selects one of the hosts that are online
\* (it blocks while there is none) or reports that it cannot.
SelectHost ==
    /\ pc = "select"
    /\ \/ \E h \in online :
            /\ cur' = <<h, i>> /\ pc' = "startDelete"
            /\ UNCHANGED <<listed, todo, syncVars, timer, failures>>
       \/ online # {} /\ CallFails /\ RoundOver
    /\ UNCHANGED <<zkVars, sn, watchVars, edits, stops, restarts, outages>>

\* Start, second part: DeleteState, whose error is ignored.
StartDelete ==
    /\ pc = "startDelete"
    /\ pc' = "startCreate"
    /\ inst' = [inst EXCEPT ![cur] = None]
    /\ ssEvt' = (ssEvt \/ inst[cur] # None)
    /\ UNCHANGED <<node, online, localVars, sEvt, timer, boundVars>>

\* Mutant: the blank request is appended instead of prepended.
StartCreateAppends ==
    /\ pc = "startCreate"
    /\ inst[cur] = None
    /\ inst' = [inst EXCEPT ![cur] = "Run"]
    /\ ssEvt' = TRUE
    /\ IF count + 1 < sn.instances
         THEN /\ reqs' = [j \in 0 .. count |-> IF j = count THEN BlankRequest ELSE reqs[j]]
              /\ count' = count + 1
              /\ pc' = "scan"
              /\ UNCHANGED <<listed, todo, cur, i>>
         ELSE RoundOver
    /\ UNCHANGED <<node, online, sn, sEvt, timer, boundVars>>

\* Mutant: the deficit is counted with <= instead of <.
StartCreateOnceMore ==
    /\ pc = "startCreate"
    /\ inst[cur] = None
    /\ inst' = [inst EXCEPT ![cur] = "Run"]
    /\ ssEvt' = TRUE
    /\ IF count + 1 <= sn.instances
         THEN /\ reqs' = [j \in 0 .. count |-> IF j = 0 THEN BlankRequest ELSE reqs[j - 1]]
              /\ count' = count + 1
              /\ pc' = "scan"
              /\ UNCHANGED <<listed, todo, cur, i>>
         ELSE RoundOver
    /\ UNCHANGED <<node, online, sn, sEvt, timer, boundVars>>

\* Start, third part: CreateState; then Sync prepends a blank request and goes
\* on, or gives up for this time if the state could not be created.
StartCreate ==
    /\ pc = "startCreate"
    /\ \/ /\ inst[cur] = None
          /\ inst' = [inst EXCEPT ![cur] = "Run"]
          /\ ssEvt' = TRUE
          /\ IF count + 1 < sn.instances
               THEN /\ reqs' = [j \in 0 .. count |-> IF j = 0 THEN BlankRequest ELSE reqs[j - 1]]
                    /\ count' = count + 1
                    /\ pc' = "scan"
                    /\ UNCHANGED <<listed, todo, cur, i>>
               ELSE RoundOver
          /\ UNCHANGED <<timer, failures>>
       \/ CallFails /\ RoundOver /\ UNCHANGED <<inst, ssEvt>>
    /\ UNCHANGED <<node, online, sn, sEvt, edits, stops, restarts, outages>>

ListenerNext ==
    \/ Load \/ List \/ Wake
    \/ Resume \/ Pause \/ LoopDone
    \/ StopCheck \/ StopUpdate \/ StopDelete
    \/ SyncBegin \/ FindGap \/ SelectHost \/ StartDelete \/ StartCreate

-----------------------------------------------------------------------------
(* The rest of the system                                                  *)

\* Operators edit the service: UpdateService, LockServices, UnlockServices.
\* The change options belong to the definition of the service and stay.
EditNode ==
    /\ edits < EditLimit
    /\ edits' = edits + 1
    /\ node' \in ServiceNodes /\ node' # node /\ node'.option = node.option
    /\ sEvt' = TRUE
    /\ UNCHANGED <<inst, online, pc, localVars, ssEvt, timer, stops, restarts, failures, outages>>

\* Operators stop one instance: StopServiceInstance.
StopServiceInstance(k) ==
    /\ stops < StopLimit
    /\ stops' = stops + 1
    /\ inst[k] # None
    /\ inst' = [inst EXCEPT ![k] = IF k[1] \in online THEN "Stop" ELSE None]
    /\ ssEvt' = (ssEvt \/ k[1] \notin online)
    /\ UNCHANGED <<node, online, pc, localVars, sEvt, timer, edits, restarts, failures, outages>>

\* Operators restart one instance: RestartInstance.
RestartInstance(k) ==
    /\ restarts < RestartLimit
    /\ restarts' = restarts + 1
    /\ inst[k] # None /\ k[1] \in online
    /\ inst' = [inst EXCEPT ![k] = "Restart"]
    /\ UNCHANGED <<node, online, pc, localVars, watchVars, timer, edits, stops, failures, outages>>

\* The agent of the host has stopped the container and deletes the state.
AgentStopped(k) ==
    /\ inst[k] = "Stop" /\ k[1] \in online
    /\ inst' = [inst EXCEPT ![k] = None]
    /\ ssEvt' = TRUE
    /\ UNCHANGED <<node, online, pc, localVars, sEvt, timer, boundVars>>

\* The agent has restarted the container and wants it to run again.
AgentRestarted(k) ==
    /\ inst[k] = "Restart" /\ k[1] \in online
    /\ inst' = [inst EXCEPT ![k] = "Run"]
    /\ UNCHANGED <<node, online, pc, localVars, watchVars, timer, boundVars>>

\* The state is deleted on behalf of its host: the container could not be
\* started, or the host registry unscheduled the host.
LoseInstance(k) ==
    /\ failures < FailureLimit
    /\ failures' = failures + 1
    /\ inst[k] # None
    /\ inst' = [inst EXCEPT ![k] = None]
    /\ ssEvt' = TRUE
    /\ UNCHANGED <<node, online, pc, localVars, sEvt, timer, edits, stops, restarts, outages>>

HostOffline(h) ==
    /\ outages < OutageLimit
    /\ outages' = outages + 1
    /\ h \in online
    /\ online' = online \ {h}
    /\ UNCHANGED <<node, inst, pc, localVars, watchVars, timer, edits, stops, restarts, failures>>

HostOnline(h) ==
    /\ h \notin online
    /\ online' = online \cup {h}
    /\ UNCHANGED <<node, inst, pc, localVars, watchVars, timer, boundVars>>

AgentNext == \E k \in Keys : AgentStopped(k) \/ AgentRestarted(k)

Next ==
    \/ ListenerNext
    \/ Respawn
    \/ AgentNext
    \/ EditNode
    \/ \E k \in Keys : StopServiceInstance(k) \/ RestartInstance(k) \/ LoseInstance(k)
    \/ \E h \in Hosts : HostOffline(h) \/ HostOnline(h)

\* Spawn runs on its own goroutine and its calls return; the agents run; a host
\* that went offline comes back.
Fairness ==
    /\ WF_vars(ListenerNext)
    /\ WF_vars(AgentNext)
    /\ \A h \in Hosts : WF_vars(HostOnline(h))

Spec == Init /\ [][Next]_vars /\ Fairness

-----------------------------------------------------------------------------
(* Properties                                                              *)

CoordinatorTypes ==
    /\ node \in ServiceNodes
    /\ inst \in [Keys -> DesiredStates \cup {None}]
    /\ online \subseteq Hosts
ListenerTypes ==
    /\ pc \in {"load", "list", "resume", "pause", "stop", "stopUpdate", "stopDelete",
               "scan", "select", "startDelete", "startCreate", "wait"}
    /\ sn \in ServiceNodes
    /\ listed \subseteq Keys
    /\ todo \subseteq Keys
    /\ pc \in {"stopUpdate", "stopDelete", "startDelete", "startCreate"} => cur \in Keys
    /\ count \in Nat
    /\ i \in Int
WatchTypes == sEvt \in BOOLEAN /\ ssEvt \in BOOLEAN /\ timer \in BOOLEAN
BoundTypes ==
    /\ edits \in 0 .. EditLimit /\ stops \in 0 .. StopLimit
    /\ restarts \in 0 .. RestartLimit /\ failures \in 0 .. FailureLimit
    /\ outages \in 0 .. OutageLimit

\* Every variable has its type, and a state being started or stopped is one
\* the model knows: the instance id found by Sync is below MaxInstances.
TypeOK == CoordinatorTypes /\ ListenerTypes /\ WatchTypes /\ BoundTypes

\* Two states of the service never carry the same instance id, whatever fails
\* and whoever deletes states while Sync is between two starts.
UniqueInstanceIDs ==
    \A k, m \in Present : k[2] = m[2] => k = m

\* The instance id that Sync is about to start is in use on no host, so the
\* DeleteState in Start never removes a live instance.
StartsFreshID ==
    pc \in {"select", "startDelete", "startCreate"} =>
        \A h \in Hosts : inst[<<h, i>>] = None

\* Sync's search never starts more instances than the node it loaded asks for,
\* even when the states it had listed are deleted under its feet.
NeverOverstarts ==
    pc \in {"scan", "select", "startDelete", "startCreate"} =>
        Cardinality(Present) < sn.instances

\* When there are too many instances, Sync stops those with the highest ids:
\* below the one being stopped there are as many others as the service wants.
SurplusStopsHighest ==
    (sn.desired = "Run" /\ pc \in {"stopUpdate", "stopDelete"}) =>
        Cardinality({k \in listed : k[2] < cur[2]}) >= sn.instances

\* The change options stop all instances and wait until they are gone: a new
\* instance 0 (RestartAllOnInstanceZeroDown) or any new instance
\* (RestartAllOnInstanceChanged) only ever joins instances of its own pass.
RestartsTogether ==
    [][\A k \in Keys :
         (/\ inst[k] = None /\ inst'[k] # None
          /\ \/ node.option = "RestartAllOnInstanceChanged"
             \/ node.option = "RestartAllOnInstanceZeroDown" /\ k[2] = 0)
         => \A m \in Present : m[2] < k[2]]_vars

\* What the listener works towards.
Synchronized ==
    CASE node.desired = "Stop" -> Present = {}
      [] node.desired = "Pause" -> \A k \in Present : inst[k] = "Pause"
      [] node.desired = "Run" /\ node.locked ->
            /\ Cardinality(Present) <= node.instances
            /\ \A k \in Present : inst[k] = "Run"
      [] node.desired = "Run" /\ ~ node.locked ->
            /\ Cardinality(Present) = node.instances
            /\ \A k \in Present : inst[k] = "Run"

\* "Spawn watches a service and syncs the number of running instances": once
\* edits, outages and failures have stopped, the states of the service come to
\* match its node, and stay so.
Converges == <>[]Synchronized

\* The hosts are interchangeable: the run that checks only safety uses symmetry.
HostSymmetry == Permutations(Hosts)

=============================================================================
