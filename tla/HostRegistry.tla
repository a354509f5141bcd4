---------------------------- MODULE HostRegistry ----------------------------
(***************************************************************************)
(* The registry of the hosts of one resource pool                          *)
(* (zzk/service/hostregistry.go).  The leader of the pool runs one Spawn   *)
(* goroutine per host, which watches whether the host is online and locked *)
(* and unschedules its states when it has shut down or is in an outage.    *)
(* The goroutines of the hosts that are online offer themselves on ONE     *)
(* unbuffered channel, isOnline.  The goroutine of a host in an outage     *)
(* must receive from it twice before it unschedules anything, and a        *)
(* scheduler that finds no host (GetRegisteredHosts) waits on it too: a    *)
(* pool whose hosts are all offline is left alone.                         *)
(*                                                                         *)
(* The rest is what they react to: RegisterHost and the shutdown of the    *)
(* agents (node/agent.go), the outages of the hosts, and the scheduler,    *)
(* which selects a host and creates the state in a second call.            *)
(*                                                                         *)
(* Each call to ZooKeeper is a step, but for the reads of one status that  *)
(* all set a watch.  Timers elapse at any time after they are armed.  The  *)
(* hosts of the pool stay in the pool.                                     *)
(***************************************************************************)
EXTENDS Integers, FiniteSets

CONSTANTS
    Hosts,          \* the hosts of the pool
    RegInstances,      \* the instances that are to run
    Static,         \* those whose service has a static address assignment
    EventKinds,     \* the events that may happen
    EventLimit      \* bound: events, taken together

\* An outage of a host; the shutdown of an agent; an instance being stopped; a
\* call of the leader that fails; a change of the leader.
AllEvents == {"outage", "shutdown", "stop", "call", "leader"}

ASSUME LimitsAssumption ==
    /\ EventKinds \subseteq AllEvents
    /\ Static \subseteq RegInstances
    /\ EventLimit \in Nat

NoHost == "None"
ASSUME NoneAssumption == NoHost \notin Hosts

\* "shut": there is no online node; "offline": it has no children.
Statuses == {"shut", "offline", "online"}

\* A state: the host it is on, whether it is to stop, and whether the agent has
\* recorded its static address.  Only the properties look at missed: the state
\* was created when its host was not online any more, or a deletion of it failed.
StateRecords == [host : Hosts \cup {NoHost}, stop : BOOLEAN, static : BOOLEAN, missed : BOOLEAN]
NoState == [host |-> NoHost, stop |-> FALSE, static |-> FALSE, missed |-> FALSE]

VARIABLES
    regStatus,     \* ZooKeeper: the online node of each host
    locked,     \* ZooKeeper: each host has children below its locked node
    regState,      \* ZooKeeper: the state of each instance
    agent,      \* each agent: where it is
    regPc,         \* Spawn of each host: where it is
    isOnline,   \* Spawn: the host was last seen online
    timeout,    \* Spawn: connectionTimeout has been set
    firstTimeout,   \* Spawn
    onlineTimer,    \* Spawn: has been set to connectionTimeout, not 0, in this outage
    onlineEv,   \* Spawn: the watch on the online node has fired
    lockEv,     \* Spawn: the watch on the lock has fired
    sched,      \* the scheduler: where it is
    sel,        \* the scheduler: the instance and the host it has selected
    events      \* how much of the bound is used

zkVars == <<regStatus, locked, regState>>
seenVars == <<isOnline, timeout, firstTimeout, onlineTimer>>
evVars == <<onlineEv, lockEv>>
schedVars == <<sched, sel>>
regVars == <<regStatus, locked, regState, agent, regPc, isOnline, timeout, firstTimeout,
          onlineTimer, onlineEv, lockEv, sched, sel,
          events>>

NoSelection == [inst |-> NoHost, host |-> NoHost]

regInit ==
    /\ regStatus = [h \in Hosts |-> "shut"]
    /\ locked = [h \in Hosts |-> FALSE]
    /\ regState = [i \in RegInstances |-> NoState]
    /\ agent = [h \in Hosts |-> "up"]
    /\ regPc = [h \in Hosts |-> "look"]
    /\ isOnline = [h \in Hosts |-> FALSE] /\ timeout = [h \in Hosts |-> FALSE]
    /\ firstTimeout = [h \in Hosts |-> TRUE] /\ onlineTimer = [h \in Hosts |-> FALSE]
    /\ onlineEv = [h \in Hosts |-> FALSE] /\ lockEv = [h \in Hosts |-> FALSE]
    /\ sched = "idle" /\ sel = NoSelection
    /\ events = 0

StatesOn(h) == {i \in RegInstances : regState[i].host = h}
Remove(S) == regState' = [i \in RegInstances |-> IF i \in S THEN NoState ELSE regState[i]]

Event(kind) == kind \in EventKinds /\ events < EventLimit /\ events' = events + 1

RegGoto(h, to) == regPc' = [regPc EXCEPT ![h] = to]

\* The online node or the locked node changes.  If Spawn has a watch on it, the
\* watch fires.
SetStatus(h, to) ==
    /\ regStatus' = [regStatus EXCEPT ![h] = to]
    /\ onlineEv' = [onlineEv EXCEPT ![h] = regPc[h] # "look"]

SetLocked(h, to) ==
    /\ locked' = [locked EXCEPT ![h] = to]
    /\ lockEv' = [lockEv EXCEPT ![h] = regPc[h] \in {"offer", "held"}]

\* Spawn goes round its loop, or returns: the watches are given up.
Unwatch(S) ==
    /\ onlineEv' = [h \in Hosts |-> onlineEv[h] /\ h \notin S]
    /\ lockEv' = [h \in Hosts |-> lockEv[h] /\ h \notin S]

\* The Spawns of S return, and Listen starts new ones.
Respawn(S) ==
    /\ regPc' = [h \in Hosts |-> IF h \in S THEN "look" ELSE regPc[h]]
    /\ Unwatch(S)
    /\ isOnline' = [h \in Hosts |-> isOnline[h] /\ h \notin S]
    /\ timeout' = [h \in Hosts |-> timeout[h] /\ h \notin S]
    /\ firstTimeout' = [h \in Hosts |-> firstTimeout[h] \/ h \in S]
    /\ onlineTimer' = [h \in Hosts |-> onlineTimer[h] /\ h \notin S]

-----------------------------------------------------------------------------
(* Spawn                                                                   *)

\* Mutant: the host stays online once it has been seen so.
LookOnce(h) ==
    /\ regPc[h] = "look"
    /\ isOnline' = [isOnline EXCEPT ![h] = @ \/ regStatus[h] = "online"]
    /\ RegGoto(h, CASE regStatus[h] = "shut" -> "purge"
                 [] isOnline'[h] -> IF locked[h] THEN "held" ELSE "offer"
                 [] OTHER -> "instances")
    /\ IF isOnline[h] /\ regStatus[h] # "online"
         THEN /\ timeout' = [timeout EXCEPT ![h] = TRUE]
              /\ firstTimeout' = [firstTimeout EXCEPT ![h] = TRUE]
              /\ onlineTimer' = [onlineTimer EXCEPT ![h] = FALSE]
         ELSE UNCHANGED <<timeout, firstTimeout, onlineTimer>>
    /\ UNCHANGED <<zkVars, agent, evVars, schedVars, events>>

\* The online node and the locked node are read and watched.  If the host was
\* seen online and is not, the countdown begins.
Look(h) ==
    /\ regPc[h] = "look"
    /\ isOnline' = [isOnline EXCEPT ![h] = (regStatus[h] = "online")]
    /\ RegGoto(h, CASE regStatus[h] = "shut" -> "purge"
                 [] isOnline'[h] -> IF locked[h] THEN "held" ELSE "offer"
                 [] OTHER -> "instances")
    /\ IF isOnline[h] /\ regStatus[h] # "online"
         THEN /\ timeout' = [timeout EXCEPT ![h] = TRUE]
              /\ firstTimeout' = [firstTimeout EXCEPT ![h] = TRUE]
              /\ onlineTimer' = [onlineTimer EXCEPT ![h] = FALSE]
         ELSE UNCHANGED <<timeout, firstTimeout, onlineTimer>>
    /\ UNCHANGED <<zkVars, agent, evVars, schedVars, events>>

\* DeleteHostStates: the host has shut down cleanly.  A failure is logged.
Purge(h) ==
    /\ regPc[h] = "purge"
    /\ \E S \in SUBSET StatesOn(h) :
         /\ Remove(StatesOn(h) \ S)
         /\ IF S = {} THEN UNCHANGED events ELSE Event("call")
    /\ RegGoto(h, "instances")
    /\ UNCHANGED <<regStatus, locked, agent, seenVars, evVars, schedVars>>

\* The states on the host are cleaned and listed, without a watch.
ReadInstances(h) ==
    /\ regPc[h] = "instances"
    /\ RegGoto(h, IF StatesOn(h) = {} THEN "rest" ELSE "countdown")
    /\ UNCHANGED <<zkVars, agent, seenVars, evVars, schedVars, events>>

\* One of the watches that every select of Spawn has a case for.
Wake(h) ==
    /\ regPc[h] \in {"offer", "held", "rest", "countdown", "await", "settle", "awaitAgain"}
    /\ onlineEv[h] \/ (lockEv[h] /\ regPc[h] \in {"offer", "held"})
    /\ RegGoto(h, "look") /\ Unwatch({h})
    /\ UNCHANGED <<zkVars, agent, seenVars, schedVars, events>>

\* The connection timeout has passed since the host was seen to go offline.
OfflineTimer(h) ==
    /\ regPc[h] = "countdown"
    /\ RegGoto(h, "await")
    /\ UNCHANGED <<zkVars, agent, seenVars, evVars, schedVars, events>>

\* Mutant: a host that is online offers itself once.
ReceiveOnce(g, h) ==
    /\ regPc[g] = "offer" /\ regPc[h] \in {"await", "awaitAgain"}
    /\ regPc' = [regPc EXCEPT ![g] = "held",
                        ![h] = IF @ = "await" THEN "settle" ELSE "unschedule"]
    /\ IF regPc[h] = "await" /\ firstTimeout[h]
         THEN /\ onlineTimer' = [onlineTimer EXCEPT ![h] = timeout[h]]
              /\ firstTimeout' = [firstTimeout EXCEPT ![h] = FALSE]
         ELSE UNCHANGED <<onlineTimer, firstTimeout>>
    /\ Unwatch({g})
    /\ UNCHANGED <<zkVars, agent, isOnline, timeout, schedVars, events>>

\* The goroutine of host h receives from that of host g: for the first time,
\* when the online timer is set to connectionTimeout, or again.
Receive(g, h) ==
    /\ regPc[g] = "offer" /\ regPc[h] \in {"await", "awaitAgain"}
    /\ regPc' = [regPc EXCEPT ![g] = "look",
                        ![h] = IF @ = "await" THEN "settle" ELSE "unschedule"]
    /\ IF regPc[h] = "await" /\ firstTimeout[h]
         THEN /\ onlineTimer' = [onlineTimer EXCEPT ![h] = timeout[h]]
              /\ firstTimeout' = [firstTimeout EXCEPT ![h] = FALSE]
         ELSE UNCHANGED <<onlineTimer, firstTimeout>>
    /\ Unwatch({g})
    /\ UNCHANGED <<zkVars, agent, isOnline, timeout, schedVars, events>>

OnlineTimer(h) ==
    /\ regPc[h] = "settle"
    /\ RegGoto(h, "awaitAgain")
    /\ UNCHANGED <<zkVars, agent, seenVars, evVars, schedVars, events>>

\* DeleteHostStatesWhen: the states that are to stop, and those without a static
\* address.  A failure is logged.
Unschedule(h) ==
    /\ regPc[h] = "unschedule"
    /\ LET due == {i \in StatesOn(h) : regState[i].stop \/ ~ regState[i].static}
       IN \E S \in SUBSET due :
            /\ regState' = [i \in RegInstances |-> CASE i \in S -> [regState[i] EXCEPT !.missed = TRUE]
                                              [] i \in due \ S -> NoState
                                              [] OTHER -> regState[i]]
            /\ IF S = {} THEN UNCHANGED events ELSE Event("call")
    /\ RegGoto(h, "rest")
    /\ UNCHANGED <<regStatus, locked, agent, seenVars, evVars, schedVars>>

\* A call of Spawn fails, and Spawn returns.
SpawnFails(h) ==
    /\ regPc[h] \in {"look", "instances"}
    /\ Event("call")
    /\ Respawn({h})
    /\ UNCHANGED <<zkVars, agent, schedVars>>

SpawnNext(h) ==
    \/ Look(h) \/ Purge(h) \/ ReadInstances(h) \/ Wake(h)
    \/ OfflineTimer(h) \/ OnlineTimer(h) \/ Unschedule(h)

-----------------------------------------------------------------------------
(* The scheduler of the pool                                               *)

\* GetRegisteredHosts: the hosts that are online and not locked.
RegisteredHosts == {h \in Hosts : regStatus[h] = "online" /\ ~ locked[h]}

\* Mutant: GetRegisteredHosts returns no host, and none is checked for.
SelectNone ==
    /\ sched = "idle"
    /\ \E i \in RegInstances :
         /\ regState[i].host = NoHost
         /\ \/ \E h \in RegisteredHosts : sel' = [inst |-> i, host |-> h]
            \/ RegisteredHosts = {} /\ sel' = [inst |-> i, host |-> NoHost]
    /\ sched' = "create"
    /\ UNCHANGED <<zkVars, agent, regPc, seenVars, evVars, events>>

\* SelectHost for an instance that has no state.
SelectHost ==
    /\ sched = "idle"
    /\ \E i \in RegInstances :
         /\ regState[i].host = NoHost
         /\ \/ \E h \in RegisteredHosts : sel' = [inst |-> i, host |-> h] /\ sched' = "create"
            \/ RegisteredHosts = {} /\ sched' = "await" /\ UNCHANGED sel
    /\ UNCHANGED <<zkVars, agent, regPc, seenVars, evVars, events>>

\* GetRegisteredHosts receives from the goroutine of host g, and looks again.
SchedulerReceive(g) ==
    /\ sched = "await" /\ regPc[g] = "offer"
    /\ sched' = "idle"
    /\ RegGoto(g, "look") /\ Unwatch({g})
    /\ UNCHANGED <<zkVars, agent, seenVars, sel, events>>

\* CreateState on the host that was selected.
CreateState ==
    /\ sched = "create"
    /\ \/ /\ regState' = [regState EXCEPT ![sel.inst] =
                [NoState EXCEPT !.host = sel.host, !.missed = (regStatus[sel.host] # "online")]]
          /\ UNCHANGED events
       \/ /\ Event("call")
          /\ UNCHANGED regState
    /\ sched' = "idle" /\ sel' = NoSelection
    /\ UNCHANGED <<regStatus, locked, agent, regPc, seenVars, evVars>>

\* Another master becomes the leader of the pool.
NewLeader ==
    /\ Event("leader")
    /\ Respawn(Hosts)
    /\ sched' = "idle" /\ sel' = NoSelection
    /\ UNCHANGED <<zkVars, agent>>

-----------------------------------------------------------------------------
(* The agents, the operators, and outages                                  *)

\* RegisterHost: create the online node, and the ephemeral node below it.
RegisterHost(h) ==
    /\ agent[h] = "up" /\ regStatus[h] # "online"
    /\ SetStatus(h, IF regStatus[h] = "shut" THEN "offline" ELSE "online")
    /\ UNCHANGED <<locked, regState, agent, regPc, seenVars, lockEv, schedVars, events>>

\* The container of an instance has been started and its state saved, or the
\* agent has stopped it and deleted the state.
AgentSaves(i) ==
    /\ regState[i].host # NoHost /\ agent[regState[i].host] = "up"
    /\ \/ /\ ~ regState[i].stop /\ i \in Static /\ ~ regState[i].static
          /\ regState' = [regState EXCEPT ![i].static = TRUE]
       \/ /\ regState[i].stop
          /\ Remove({i})
    /\ UNCHANGED <<regStatus, locked, agent, regPc, seenVars, evVars, schedVars, events>>

StopInstance(i) ==
    /\ Event("stop")
    /\ regState[i].host # NoHost /\ ~ regState[i].stop
    /\ regState' = [regState EXCEPT ![i].stop = TRUE]
    /\ UNCHANGED <<regStatus, locked, agent, regPc, seenVars, evVars, schedVars>>

\* The host or its network fails, and its session ends.
Outage(h) ==
    /\ Event("outage")
    /\ agent[h] = "up" /\ regStatus[h] = "online"
    /\ agent' = [agent EXCEPT ![h] = "down"]
    /\ SetStatus(h, "offline")
    /\ UNCHANGED <<locked, regState, regPc, seenVars, lockEv, schedVars>>

AgentStart(h) ==
    /\ agent[h] = "down"
    /\ agent' = [agent EXCEPT ![h] = "up"]
    /\ UNCHANGED <<zkVars, regPc, seenVars, evVars, schedVars, events>>

\* The agent shuts down: it locks the host,
ShutDown(h) ==
    /\ Event("shutdown")
    /\ agent[h] = "up"
    /\ agent' = [agent EXCEPT ![h] = "stopping"]
    /\ SetLocked(h, TRUE)
    /\ UNCHANGED <<regStatus, regState, regPc, seenVars, onlineEv, schedVars>>

\* stops its containers, but may leave states behind, and unregisters the host,
Unregister(h) ==
    /\ agent[h] = "stopping"
    /\ agent' = [agent EXCEPT ![h] = "unregistered"]
    /\ \E S \in SUBSET StatesOn(h) : Remove(S)
    /\ IF regStatus[h] = "online" THEN SetStatus(h, "offline") ELSE UNCHANGED <<regStatus, onlineEv>>
    /\ UNCHANGED <<locked, regPc, seenVars, lockEv, schedVars, events>>

\* deletes the online node,
DeleteOnline(h) ==
    /\ agent[h] = "unregistered"
    /\ agent' = [agent EXCEPT ![h] = "unlock"]
    /\ IF regStatus[h] # "shut" THEN SetStatus(h, "shut") ELSE UNCHANGED <<regStatus, onlineEv>>
    /\ UNCHANGED <<locked, regState, regPc, seenVars, lockEv, schedVars, events>>

\* and releases the lock as it ends.
RegUnlock(h) ==
    /\ agent[h] = "unlock"
    /\ agent' = [agent EXCEPT ![h] = "down"]
    /\ SetLocked(h, FALSE)
    /\ UNCHANGED <<regStatus, regState, regPc, seenVars, onlineEv, schedVars, events>>

AgentShutsDown(h) == Unregister(h) \/ DeleteOnline(h) \/ RegUnlock(h)

regNext ==
    \/ \E h \in Hosts : SpawnNext(h) \/ SpawnFails(h)
    \/ \E g, h \in Hosts : Receive(g, h)
    \/ SelectHost \/ CreateState \/ NewLeader
    \/ \E g \in Hosts : SchedulerReceive(g)
    \/ \E h \in Hosts : RegisterHost(h) \/ Outage(h) \/ AgentStart(h) \/ ShutDown(h)
                        \/ AgentShutsDown(h)
    \/ \E i \in RegInstances : AgentSaves(i) \/ StopInstance(i)

\* The goroutines of the leader run, its timers elapse, and who waits on a channel
\* on which another keeps sending receives from it.  An agent that shuts down
\* ends.  Nothing is assumed of hosts that are offline.
regFairness ==
    /\ \A h \in Hosts : /\ WF_regVars(SpawnNext(h) \/ \E g \in Hosts : Receive(g, h))
                        /\ WF_regVars(AgentShutsDown(h))
    /\ WF_regVars(SelectHost \/ CreateState \/ \E g \in Hosts : SchedulerReceive(g))

regSpec == regInit /\ [][regNext]_regVars /\ regFairness

-----------------------------------------------------------------------------
(* Properties                                                              *)

\* Every variable has its type; a state is created on a host that was selected.
RegTypeOK ==
    /\ regStatus \in [Hosts -> Statuses] /\ locked \in [Hosts -> BOOLEAN]
    /\ regState \in [RegInstances -> StateRecords]
    /\ agent \in [Hosts -> {"up", "down", "stopping", "unregistered", "unlock"}]
    /\ regPc \in [Hosts -> {"look", "purge", "instances", "offer", "held", "rest",
                         "countdown", "await", "settle", "awaitAgain", "unschedule"}]
    /\ isOnline \in [Hosts -> BOOLEAN] /\ timeout \in [Hosts -> BOOLEAN]
    /\ firstTimeout \in [Hosts -> BOOLEAN] /\ onlineTimer \in [Hosts -> BOOLEAN]
    /\ onlineEv \in [Hosts -> BOOLEAN] /\ lockEv \in [Hosts -> BOOLEAN]
    /\ sched \in {"idle", "await", "create"}
    /\ sel \in (IF sched = "create" THEN [inst : RegInstances, host : Hosts] ELSE {NoSelection})
    /\ events \in 0 .. EventLimit

\* A pool whose hosts are all offline is left alone: the goroutine of a host is
\* only let on to unschedule states when another host is online, or went
\* offline so lately that its goroutine has yet to take note.
OnlineHostGrants ==
    [][\A h \in Hosts : (regPc[h] = "awaitAgain" /\ regPc'[h] = "unschedule")
         => \E g \in Hosts \ {h} : regStatus[g] = "online" \/ onlineEv[g]]_regVars

\* A host whose goroutine has once seen it go offline is given the connection
\* timeout a second time, in THIS outage, after another host was seen online.
\* (A goroutine that finds its host offline when it starts has connectionTimeout
\* 0, and gives the host no such time.)
QuiescesInOutage ==
    \A h \in Hosts : (regPc[h] = "unschedule" /\ timeout[h]) => onlineTimer[h]

\* The registry keeps its types, in particular no state is created for no host
\* (CC-3656), and it lets a whole outage pass before it moves instances.
RegistrySound == RegTypeOK /\ QuiescesInOutage

\* Instance i is on a host that is down, and another host could take it.
Stranded(i) ==
    /\ \E h \in Hosts : regState[i].host = h /\ agent[h] = "down" /\ regStatus[h] # "online"
    /\ ~ regState[i].static
    /\ RegisteredHosts # {}

\* A state whose address is not static does not stay on a host that stays down
\* while another host is ready to take the instance, if it was created when the
\* host was online and its deletion does not fail: the goroutines of the two
\* hosts find each other.
Reschedules == \A i \in RegInstances : []<> ~ (Stranded(i) /\ ~ regState[i].missed)

\* "If I am offline and not running instances, nothing will get scheduled to me
\* anyway": the same of every state.
NothingScheduledOffline == \A i \in RegInstances : []<> ~ Stranded(i)

\* GetRegisteredHosts does not wait for ever while a host is online and not
\* locked.
SchedulerServed == []<> ~ (sched = "await" /\ RegisteredHosts # {})

\* The goroutines that meet on the isOnline channel do not starve each other:
\* instances leave a dead host, and the scheduler is given a host.
ChannelServesAll == Reschedules /\ SchedulerServed

=============================================================================
