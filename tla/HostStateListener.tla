------------------------- MODULE HostStateListener -------------------------
(***************************************************************************)
(* The agent's side of ONE scheduled instance (zzk/service/hoststate.go,   *)
(* node/container.go).  Three goroutines of the agent work on it:          *)
(*   - Spawn, which watches the state node and makes the container follow  *)
(*     the desired state;                                                  *)
(*   - Listen (zzk/zzk.go), which spawns that goroutine while the node is  *)
(*     listed and lets PostProcess stop the containers that have no node;  *)
(*   - watchForShutdown, which stops all containers when the agent ends.   *)
(* They share the thread list under a mutex, the container, found in       *)
(* docker by its name, and the state in ZooKeeper, which the scheduler     *)
(* creates, changes and deletes at any time.                               *)
(*                                                                         *)
(* A container's exit channel is readable from the moment the container is *)
(* gone: the monitor deletes the container, sends and closes the channel.  *)
(* A channel is therefore modelled by the number of its container, 0 for   *)
(* nil.  The host and the service node of the state come and go together   *)
(* (module StateNodes is about when they do not).                          *)
(***************************************************************************)
EXTENDS Integers, FiniteSets

CONSTANTS
    ContainerLimit,  \* bound: containers started
    ScheduleLimit,   \* bound: operations of the scheduler and of operators
    FaultLimit,      \* bound: faults
    FaultKinds,      \* the faults that may happen
    MayShutDown      \* the agent may be told to shut down

\* A fault of the coordinator, docker or the image registry; StopContainer
\* failing; the lookup of the service failing in Pause or ResumeContainer; a
\* container that exits by itself; the session with the coordinator being lost;
\* a virtual ip being taken from the host; the agent process crashing.
AllFaults == {"call", "stop", "lookup", "exit", "session", "address", "crash"}

ASSUME LimitsAssumption ==
    /\ ContainerLimit \in Nat /\ ScheduleLimit \in Nat /\ FaultLimit \in Nat
    /\ FaultKinds \subseteq AllFaults
    /\ MayShutDown \in BOOLEAN

None == "None"
DesiredStates == {"Run", "Pause", "Restart", "Stop"}
Containers == 1 .. ContainerLimit
Channels == 0 .. ContainerLimit

\* What the agent remembers of the container: its id, and whether it has been
\* paused or restarted since it was started.
ServiceStates == [ctr : Channels, paused : BOOLEAN, restarted : BOOLEAN]
EmptyState == [ctr |-> 0, paused |-> FALSE, restarted |-> FALSE]

\* An entry of the thread list.
Threads == [live : BOOLEAN, data : ServiceStates, exited : Channels]
NoThread == [live |-> FALSE, data |-> EmptyState, exited |-> 0]

\* The goroutines that clean up containers.
Cleaners == {"spawn", "listen", "watch"}

VARIABLES
    desired,    \* ZooKeeper: the desired state in the host state, None if absent
    zkdat,      \* ZooKeeper: the service state
    connected,  \* the agent's session with the coordinator is alive
    ctr,        \* docker: the container with the instance's name, 0 if none
    running,    \* docker: that container is running
    watched,    \* docker: monitorContainer watches it
    quiesced,   \* docker: the service's pause command has run in it
    started,    \* docker: how many containers have been created
    restarting, \* the goroutines of RestartContainer: the containers they will stop
    thread,     \* the listener: its entry in the thread list
    shutdown,   \* the agent has been told to shut down
    complete,   \* shutdowncomplete is closed
    mu,         \* who holds the mutex over several steps
    pc,         \* Spawn: where it is; "none" when Listen processes no such node
    ssdat,      \* Spawn: its service state
    exit,       \* Spawn: containerExit
    hsdat,      \* Spawn: the desired state it has read
    hsevt,      \* Spawn: the watch on the state has fired
    lpc,        \* Listen: where it is
    chevt,      \* Listen: the watch on the list of nodes has fired
    cl,         \* shutDownContainer of each goroutine: where it is
    cexit,      \* shutDownContainer: the exit channel it waits for
    schedules, faults   \* how much of each bound is used

zkVars == <<desired, zkdat, connected>>
dockerVars == <<ctr, running, watched, quiesced, started, restarting>>
sharedVars == <<thread, shutdown, complete, mu>>
spawnVars == <<pc, ssdat, exit, hsdat, hsevt>>
listenVars == <<lpc, chevt>>
cleanVars == <<cl, cexit>>
boundVars == <<schedules, faults>>
vars == <<desired, zkdat, connected, ctr, running, watched, quiesced, started, restarting,
          thread, shutdown, complete, mu, pc, ssdat, exit, hsdat, hsevt, lpc, chevt,
          cl, cexit, schedules, faults>>

Init ==
    /\ desired = None /\ zkdat = EmptyState /\ connected = TRUE
    /\ ctr = 0 /\ running = FALSE /\ watched = FALSE /\ quiesced = FALSE
    /\ started = 0 /\ restarting = {}
    /\ thread = NoThread /\ shutdown = FALSE /\ complete = FALSE /\ mu = "free"
    /\ pc = "none" /\ ssdat = EmptyState /\ exit = 0 /\ hsdat = None /\ hsevt = FALSE
    /\ lpc = "list" /\ chevt = FALSE
    /\ cl = [p \in Cleaners |-> "idle"] /\ cexit = [p \in Cleaners |-> 0]
    /\ schedules = 0 /\ faults = 0

Fault(kind) ==
    /\ kind \in FaultKinds /\ faults < FaultLimit
    /\ faults' = faults + 1
    /\ UNCHANGED schedules

-----------------------------------------------------------------------------
(* Docker                                                                  *)

\* The exit channel of container c can be received from.
Exited(c) == c # 0 /\ ctr # c

\* The running container stops.  The monitor, if there is one, deletes it,
\* sends on its channel and closes it; otherwise the dead container stays.
ContainerStops ==
    /\ ctr' = IF watched THEN 0 ELSE ctr
    /\ running' = FALSE /\ watched' = FALSE /\ quiesced' = FALSE

\* A container exits by itself.
ContainerDies ==
    /\ running /\ Fault("exit")
    /\ ContainerStops
    /\ UNCHANGED <<zkVars, started, restarting, sharedVars, spawnVars, listenVars, cleanVars>>

\* The goroutine of RestartContainer has pulled the image and stops the
\* container by its id, or cannot stop it.
RestartStop(c) ==
    /\ c \in restarting
    /\ restarting' = restarting \ {c}
    /\ \/ /\ IF ctr = c /\ running THEN ContainerStops
                                    ELSE UNCHANGED <<ctr, running, watched, quiesced>>
          /\ UNCHANGED boundVars
       \/ Fault("stop") /\ UNCHANGED <<ctr, running, watched, quiesced>>
    /\ UNCHANGED <<zkVars, started, sharedVars, spawnVars, listenVars, cleanVars>>

-----------------------------------------------------------------------------
(* shutDownContainer, on behalf of any of the goroutines                   *)

\* Mutant: the exit is awaited although StopContainer failed.
CleanStopAwaits(p) ==
    /\ cl[p] = "stop"
    /\ \/ /\ IF running THEN ContainerStops ELSE UNCHANGED <<ctr, running, watched, quiesced>>
          /\ UNCHANGED boundVars
       \/ running /\ Fault("stop") /\ UNCHANGED <<ctr, running, watched, quiesced>>
    /\ cl' = [cl EXCEPT ![p] = "exit"]
    /\ UNCHANGED <<zkVars, started, restarting, sharedVars, spawnVars, listenVars, cexit>>

\* StopContainer finds the container by name.  An error is logged.
CleanStop(p) ==
    /\ cl[p] = "stop"
    /\ \/ /\ IF running THEN ContainerStops ELSE UNCHANGED <<ctr, running, watched, quiesced>>
          /\ cl' = [cl EXCEPT ![p] = "exit"]
          /\ UNCHANGED boundVars
       \/ /\ running /\ Fault("stop")
          /\ cl' = [cl EXCEPT ![p] = "delete"]
          /\ UNCHANGED <<ctr, running, watched, quiesced>>
    /\ UNCHANGED <<zkVars, started, restarting, sharedVars, spawnVars, listenVars, cexit>>

\* Wait for the container to exit, if the thread list knew of one.
CleanExit(p) ==
    /\ cl[p] = "exit"
    /\ cexit[p] = 0 \/ Exited(cexit[p])
    /\ cl' = [cl EXCEPT ![p] = "delete"]
    /\ UNCHANGED <<zkVars, dockerVars, sharedVars, spawnVars, listenVars, cexit, boundVars>>

\* DeleteState.  An error is logged.
CleanDelete(p) ==
    /\ cl[p] = "delete"
    /\ cl' = [cl EXCEPT ![p] = "done"]
    /\ \/ /\ connected /\ desired # None
          /\ desired' = None /\ zkdat' = EmptyState
          /\ hsevt' = TRUE /\ chevt' = TRUE
          /\ UNCHANGED boundVars
       \/ /\ ~ connected \/ desired = None
          /\ UNCHANGED <<desired, zkdat, hsevt, chevt, boundVars>>
       \/ Fault("call") /\ UNCHANGED <<desired, zkdat, hsevt, chevt>>
    /\ UNCHANGED <<connected, dockerVars, sharedVars, pc, ssdat, exit, hsdat, lpc, cexit>>

Clean(p) == CleanStop(p) \/ CleanExit(p) \/ CleanDelete(p)

\* cleanUpContainers by a goroutine that holds the mutex: hand the exit channel
\* to shutDownContainer and remove the entry from the thread list.
BeginCleanUp(p) ==
    /\ cl' = [cl EXCEPT ![p] = "stop"]
    /\ cexit' = [cexit EXCEPT ![p] = thread.exited]
    /\ thread' = NoThread

EndCleanUp(p) ==
    /\ cl[p] = "done"
    /\ cl' = [cl EXCEPT ![p] = "idle"] /\ cexit' = [cexit EXCEPT ![p] = 0]

-----------------------------------------------------------------------------
(* Spawn.  Each call to the coordinator, to docker and each section under  *)
(* the mutex is a step.  A Spawn that has returned is "finished" until     *)
(* Listen has taken note of it.                                            *)

\* A coordinator call of Spawn fails, and Spawn returns.
SpawnFails ==
    /\ pc' = "finished"
    /\ \/ ~ connected /\ UNCHANGED boundVars
       \/ connected /\ Fault("call")

\* If we are shutting down, just return
SpawnBegin ==
    /\ pc = "begin"
    /\ pc' = IF shutdown THEN "finished" ELSE "load"
    /\ UNCHANGED <<zkVars, dockerVars, sharedVars, ssdat, exit, hsdat, hsevt,
                   listenVars, cleanVars, boundVars>>

\* Reattach to an orphaned container of the thread list.
LoadThread ==
    /\ pc = "load" /\ mu = "free"
    /\ ssdat' = thread.data /\ exit' = thread.exited
    /\ pc' = IF thread.live THEN "resave" ELSE "get"
    /\ UNCHANGED <<zkVars, dockerVars, sharedVars, hsdat, hsevt, listenVars, cleanVars, boundVars>>

\* Load the service state.
LoadState ==
    /\ pc = "get"
    /\ \/ /\ connected
          /\ pc' = IF desired = None THEN "cleanup" ELSE "watch"
          /\ ssdat' = zkdat
          /\ UNCHANGED boundVars
       \/ SpawnFails /\ UNCHANGED ssdat
    /\ UNCHANGED <<zkVars, dockerVars, sharedVars, exit, hsdat, hsevt, listenVars, cleanVars>>

\* GetW on the host state and ExistsW on the service state.
WatchState ==
    /\ pc = "watch"
    /\ \/ /\ connected /\ desired # None
          /\ hsdat' = desired /\ hsevt' = FALSE
          /\ pc' = IF exit = 0 THEN "attach" ELSE "act"
          /\ UNCHANGED boundVars
       \/ /\ connected /\ desired = None
          /\ pc' = "cleanup"
          /\ UNCHANGED <<hsdat, hsevt, boundVars>>
       \/ SpawnFails /\ UNCHANGED <<hsdat, hsevt>>
    /\ UNCHANGED <<zkVars, dockerVars, sharedVars, ssdat, exit, listenVars, cleanVars>>

\* Mutant: a known container is watched without a check that it runs.
AttachUnchecked ==
    /\ pc = "attach"
    /\ pc' = "registerAttach"
    /\ IF ctr = ssdat.ctr
         THEN exit' = ctr /\ watched' = (ctr # 0) /\ UNCHANGED <<ctr, running, quiesced>>
         ELSE /\ ctr' = 0 /\ running' = FALSE /\ watched' = FALSE /\ quiesced' = FALSE
              /\ UNCHANGED exit
    /\ UNCHANGED <<zkVars, started, restarting, sharedVars, ssdat, hsdat, hsevt,
                   listenVars, cleanVars, boundVars>>

\* Mutant: an unknown container is not attached to, and not removed either.
AttachLeavesUnknown ==
    /\ pc = "attach"
    /\ pc' = "registerAttach"
    /\ exit' = IF ctr = ssdat.ctr /\ running THEN ctr ELSE 0
    /\ UNCHANGED <<zkVars, dockerVars, sharedVars, ssdat, hsdat, hsevt,
                   listenVars, cleanVars, boundVars>>

\* AttachContainer: watch the container if it runs and is the one we know; kill
\* and delete a container that we do not know.
AttachContainer ==
    /\ pc = "attach"
    /\ \/ /\ pc' = "registerAttach"
          /\ IF ctr = ssdat.ctr
               THEN /\ exit' = IF running THEN ctr ELSE 0
                    /\ watched' = running
                    /\ UNCHANGED <<ctr, running, quiesced>>
               ELSE /\ ctr' = 0 /\ running' = FALSE /\ watched' = FALSE /\ quiesced' = FALSE
                    /\ UNCHANGED exit
          /\ UNCHANGED boundVars
       \/ /\ Fault("call") /\ pc' = "cleanup"
          /\ UNCHANGED <<exit, ctr, running, watched, quiesced>>
    /\ UNCHANGED <<zkVars, started, restarting, sharedVars, ssdat, hsdat, hsevt,
                   listenVars, cleanVars>>

\* setExistingThreadOrShutdown, after a container was attached, after it was
\* started, paused or resumed, and after its restart was begun.
RegisterThread ==
    /\ pc \in {"registerAttach", "register", "registerRestart"} /\ mu = "free"
    /\ IF shutdown
         THEN pc' = "finished" /\ UNCHANGED thread
         ELSE /\ thread' = [live |-> TRUE, data |-> ssdat, exited |-> exit]
              /\ pc' = CASE pc = "registerAttach" -> "act"
                         [] pc = "register" -> "save"
                         [] pc = "registerRestart" -> "saveRestart"
    /\ UNCHANGED <<zkVars, dockerVars, shutdown, complete, mu, ssdat, exit, hsdat, hsevt,
                   listenVars, cleanVars, boundVars>>

\* setInstanceState: the cases that call nothing but what comes next.
SetInstanceState ==
    /\ pc = "act"
    /\ pc' = CASE hsdat = "Run" /\ exit = 0 -> "pull"
               [] hsdat = "Run" /\ exit # 0 /\ ssdat.paused -> "resume"
               [] hsdat = "Run" /\ exit # 0 /\ ~ ssdat.paused -> "wait"
               [] hsdat = "Restart" /\ ssdat.ctr # 0 /\ ~ ssdat.restarted -> "restart"
               [] hsdat = "Restart" /\ (ssdat.ctr = 0 \/ ssdat.restarted) -> "restoreRun"
               [] hsdat = "Pause" /\ exit # 0 /\ ~ ssdat.paused -> "pause"
               [] hsdat = "Pause" /\ (exit = 0 \/ ssdat.paused) -> "wait"
               [] hsdat = "Stop" -> "cleanup"
    /\ UNCHANGED <<zkVars, dockerVars, sharedVars, ssdat, exit, hsdat, hsevt,
                   listenVars, cleanVars, boundVars>>

\* StartContainer, first part: pull the image; a shutdown cancels the pull.
PullImage ==
    /\ pc = "pull"
    /\ \/ pc' = "create" /\ UNCHANGED boundVars
       \/ shutdown /\ pc' = "cleanup" /\ UNCHANGED boundVars
       \/ Fault("call") /\ pc' = "cleanup"
    /\ UNCHANGED <<zkVars, dockerVars, sharedVars, ssdat, exit, hsdat, hsevt,
                   listenVars, cleanVars>>

\* StartContainer, second part: create, monitor and start the container.  The
\* name may be taken; when docker fails later the monitor is cancelled and the
\* container stays, running or not.
CreateContainer ==
    /\ pc = "create"
    /\ \/ /\ ctr = 0 /\ started < ContainerLimit
          /\ started' = started + 1
          /\ ctr' = started' /\ quiesced' = FALSE
          /\ \/ /\ running' = TRUE /\ watched' = TRUE
                /\ ssdat' = [EmptyState EXCEPT !.ctr = started'] /\ exit' = started'
                /\ pc' = "register"
                /\ UNCHANGED boundVars
             \/ /\ Fault("call")
                /\ running' \in BOOLEAN /\ watched' = FALSE
                /\ pc' = "cleanup"
                /\ UNCHANGED <<ssdat, exit>>
       \/ /\ ctr # 0
          /\ pc' = "cleanup"
          /\ UNCHANGED <<ctr, running, watched, quiesced, started, ssdat, exit, boundVars>>
    /\ UNCHANGED <<zkVars, restarting, sharedVars, hsdat, hsevt, listenVars, cleanVars>>

\* Mutant: the service state does not record the pause.
QuiesceUnrecorded(to) ==
    /\ running => quiesced' = to
    /\ ~ running => UNCHANGED quiesced
    /\ pc' = "register"
    /\ UNCHANGED <<ssdat, boundVars>>

\* PauseContainer and ResumeContainer: nothing happens if the container does
\* not run, or if the service cannot be looked up; an error ends Spawn.
Quiesce(to) ==
    \/ /\ \/ running /\ quiesced' = to /\ UNCHANGED boundVars
          \/ ~ running /\ UNCHANGED <<quiesced, boundVars>>
          \/ running /\ Fault("lookup") /\ UNCHANGED quiesced
       /\ ssdat' = [ssdat EXCEPT !.paused = to]
       /\ pc' = "register"
    \/ /\ running /\ Fault("call")
       /\ pc' = "cleanup"
       /\ UNCHANGED <<quiesced, ssdat>>

PauseContainer ==
    /\ pc = "pause"
    /\ Quiesce(TRUE)
    /\ UNCHANGED <<zkVars, ctr, running, watched, started, restarting, sharedVars,
                   exit, hsdat, hsevt, listenVars, cleanVars>>

ResumeContainer ==
    /\ pc = "resume"
    /\ Quiesce(FALSE)
    /\ UNCHANGED <<zkVars, ctr, running, watched, started, restarting, sharedVars,
                   exit, hsdat, hsevt, listenVars, cleanVars>>

\* RestartContainer leaves pull and stop to a goroutine.
RestartContainer ==
    /\ pc = "restart"
    /\ \/ /\ restarting' = IF running THEN restarting \cup {ctr} ELSE restarting
          /\ ssdat' = [ssdat EXCEPT !.restarted = TRUE]
          /\ pc' = "registerRestart"
          /\ UNCHANGED boundVars
       \/ Fault("call") /\ pc' = "cleanup" /\ UNCHANGED <<restarting, ssdat>>
    /\ UNCHANGED <<zkVars, ctr, running, watched, quiesced, started, sharedVars,
                   exit, hsdat, hsevt, listenVars, cleanVars>>

\* Mutant: the update after a restart sets the desired state only.
SaveDesiredOnly ==
    /\ pc \in {"resave", "save", "saveRestart", "restoreRun"}
    /\ connected /\ desired # None
    /\ zkdat' = IF pc \in {"saveRestart", "restoreRun"} THEN zkdat ELSE ssdat
    /\ desired' = IF pc \in {"saveRestart", "restoreRun"} /\ desired = "Restart"
                  THEN "Run" ELSE desired
    /\ hsevt' = TRUE
    /\ pc' = IF pc = "resave" THEN "watch" ELSE "wait"
    /\ UNCHANGED <<connected, dockerVars, sharedVars, ssdat, exit, hsdat, listenVars, cleanVars,
                   boundVars>>

\* UpdateState: store the service state, and turn a restart into a run.  It
\* fires the watch on the host state.
SaveState ==
    /\ pc \in {"resave", "save", "saveRestart", "restoreRun"}
    /\ \/ /\ connected /\ desired # None
          /\ zkdat' = IF pc = "restoreRun" THEN zkdat ELSE ssdat
          /\ desired' = IF pc \in {"saveRestart", "restoreRun"} /\ desired = "Restart"
                        THEN "Run" ELSE desired
          /\ hsevt' = (hsevt \/ pc # "restoreRun" \/ desired = "Restart")
          /\ pc' = IF pc = "resave" THEN "watch" ELSE "wait"
          /\ UNCHANGED boundVars
       \/ /\ connected /\ desired = None
          /\ pc' = "finished"
          /\ UNCHANGED <<zkdat, desired, hsevt, boundVars>>
       \/ SpawnFails /\ UNCHANGED <<zkdat, desired, hsevt>>
    /\ UNCHANGED <<connected, dockerVars, sharedVars, ssdat, exit, hsdat, listenVars, cleanVars>>

\* Mutant: the exit of the container is not selected.
WaitForWatch ==
    /\ pc = "wait"
    /\ \/ hsevt /\ pc' = "watch"
       \/ (lpc = "down" \/ shutdown) /\ pc' = "finished"
    /\ UNCHANGED <<zkVars, dockerVars, sharedVars, ssdat, exit, hsdat, hsevt,
                   listenVars, cleanVars, boundVars>>

\* The select at the end of Spawn's loop, and the check on the assigned ip.
WaitForEvent ==
    /\ pc = "wait"
    /\ \/ hsevt /\ pc' = "watch" /\ UNCHANGED boundVars
       \/ Exited(exit) /\ pc' = "exited" /\ UNCHANGED boundVars
       \/ (lpc = "down" \/ shutdown) /\ pc' = "finished" /\ UNCHANGED boundVars
       \/ Fault("address") /\ pc' = "cleanup"
    /\ UNCHANGED <<zkVars, dockerVars, sharedVars, ssdat, exit, hsdat, hsevt,
                   listenVars, cleanVars>>

\* handleContainerExit.
HandleContainerExit ==
    /\ pc = "exited" /\ mu = "free"
    /\ \/ /\ shutdown
          /\ pc' = "finished"
          /\ UNCHANGED <<zkdat, hsevt, thread, exit, boundVars>>
       \/ /\ ~ shutdown
          /\ thread' = [live |-> TRUE, data |-> ssdat, exited |-> 0] /\ exit' = 0
          /\ \/ /\ connected /\ desired # None
                /\ zkdat' = ssdat /\ hsevt' = TRUE
                /\ pc' = "watch"
                /\ UNCHANGED boundVars
             \/ /\ connected /\ desired = None
                /\ pc' = "finished"
                /\ UNCHANGED <<zkdat, hsevt, boundVars>>
             \/ SpawnFails /\ UNCHANGED <<zkdat, hsevt>>
    /\ UNCHANGED <<desired, connected, dockerVars, shutdown, complete, mu, ssdat, hsdat,
                   listenVars, cleanVars>>

\* cleanUpContainers without the mutex: read the exit channel and start
\* shutDownContainer; remove the thread while it runs; wait for it.
SpawnCleanUp ==
    /\ pc = "cleanup" /\ mu = "free"
    /\ cl' = [cl EXCEPT !["spawn"] = "stop"]
    /\ cexit' = [cexit EXCEPT !["spawn"] = thread.exited]
    /\ pc' = "remove"
    /\ UNCHANGED <<zkVars, dockerVars, sharedVars, ssdat, exit, hsdat, hsevt, listenVars, boundVars>>

SpawnRemove ==
    /\ pc = "remove" /\ mu = "free"
    /\ thread' = NoThread
    /\ pc' = "cleaning"
    /\ UNCHANGED <<zkVars, dockerVars, shutdown, complete, mu, ssdat, exit, hsdat, hsevt,
                   listenVars, cleanVars, boundVars>>

SpawnCleaned ==
    /\ pc = "cleaning" /\ EndCleanUp("spawn")
    /\ pc' = "finished"
    /\ UNCHANGED <<zkVars, dockerVars, sharedVars, ssdat, exit, hsdat, hsevt,
                   listenVars, boundVars>>

SpawnNext ==
    \/ SpawnBegin \/ LoadThread \/ LoadState \/ WatchState \/ AttachContainer
    \/ RegisterThread \/ SetInstanceState \/ PullImage \/ CreateContainer
    \/ PauseContainer \/ ResumeContainer \/ RestartContainer \/ SaveState
    \/ WaitForEvent \/ HandleContainerExit
    \/ SpawnCleanUp \/ SpawnRemove \/ SpawnCleaned

-----------------------------------------------------------------------------
(* Listen and PostProcess                                                  *)

\* ChildrenW, and a goroutine for a node that has none.
ListenNodes ==
    /\ lpc = "list"
    /\ \/ /\ connected
          /\ lpc' = "post" /\ chevt' = FALSE
          /\ pc' = IF desired # None /\ pc = "none" THEN "begin" ELSE pc
          /\ UNCHANGED boundVars
       \/ /\ ~ connected
          /\ lpc' = "down"
          /\ UNCHANGED <<pc, chevt, boundVars>>
       \/ /\ connected /\ Fault("call")
          /\ lpc' = "down"
          /\ UNCHANGED <<pc, chevt>>
    /\ UNCHANGED <<zkVars, dockerVars, sharedVars, ssdat, exit, hsdat, hsevt, cleanVars>>

\* Mutant: orphaned threads are left alone.
PostProcessNothing ==
    /\ lpc = "post" /\ mu = "free"
    /\ lpc' = "wait"
    /\ UNCHANGED <<zkVars, dockerVars, sharedVars, spawnVars, chevt, cleanVars, boundVars>>

\* Clean up a thread that has no goroutine, holding the mutex.
PostProcess ==
    /\ lpc = "post" /\ mu = "free"
    /\ IF thread.live /\ pc = "none"
         THEN BeginCleanUp("listen") /\ mu' = "listen" /\ lpc' = "cleaning"
         ELSE lpc' = "wait" /\ UNCHANGED <<thread, mu, cleanVars>>
    /\ UNCHANGED <<zkVars, dockerVars, shutdown, complete, spawnVars, chevt, boundVars>>

PostProcessed ==
    /\ lpc = "cleaning" /\ EndCleanUp("listen")
    /\ lpc' = "wait" /\ mu' = "free"
    /\ UNCHANGED <<zkVars, dockerVars, thread, shutdown, complete, spawnVars, chevt, boundVars>>

\* Listen takes note of a Spawn that returned.
ReapSpawn ==
    /\ pc = "finished" /\ lpc \in {"wait", "down"}
    /\ pc' = "none" /\ ssdat' = EmptyState /\ exit' = 0 /\ hsdat' = None /\ hsevt' = FALSE
    /\ lpc' = IF lpc = "wait" THEN "list" ELSE lpc
    /\ UNCHANGED <<zkVars, dockerVars, sharedVars, chevt, cleanVars, boundVars>>

\* The list of nodes changed, or Listen is told to stop.
ListenWake ==
    /\ lpc = "wait"
    /\ \/ chevt /\ lpc' = "list"
       \/ shutdown /\ lpc' = "down"
    /\ UNCHANGED <<zkVars, dockerVars, sharedVars, spawnVars, chevt, cleanVars, boundVars>>

\* The agent connects again and starts a new Listen; the thread list stays.
Reconnect ==
    /\ lpc = "down" /\ pc = "none" /\ ~ shutdown
    /\ connected' = TRUE
    /\ lpc' = "list"
    /\ UNCHANGED <<desired, zkdat, dockerVars, sharedVars, spawnVars, chevt, cleanVars, boundVars>>

ListenNext ==
    ListenNodes \/ PostProcess \/ PostProcessed \/ ReapSpawn \/ ListenWake \/ Reconnect

-----------------------------------------------------------------------------
(* Shutdown                                                                *)

ShutDown ==
    /\ MayShutDown /\ ~ shutdown
    /\ shutdown' = TRUE
    /\ UNCHANGED <<zkVars, dockerVars, thread, complete, mu, spawnVars, listenVars,
                   cleanVars, boundVars>>

\* watchForShutdown takes the mutex and cleans up every thread.
WatchForShutdown ==
    /\ shutdown /\ ~ complete /\ mu = "free"
    /\ mu' = "watch"
    /\ IF thread.live
         THEN BeginCleanUp("watch")
         ELSE cl' = [cl EXCEPT !["watch"] = "done"] /\ UNCHANGED <<thread, cexit>>
    /\ UNCHANGED <<zkVars, dockerVars, shutdown, complete, spawnVars, listenVars, boundVars>>

ShutdownComplete ==
    /\ mu = "watch" /\ EndCleanUp("watch")
    /\ mu' = "free" /\ complete' = TRUE
    /\ UNCHANGED <<zkVars, dockerVars, thread, shutdown, spawnVars, listenVars, boundVars>>

-----------------------------------------------------------------------------
(* The scheduler, the operators, and faults                                *)

Schedule ==
    /\ schedules < ScheduleLimit
    /\ schedules' = schedules + 1 /\ UNCHANGED faults
    /\ desired = None
    /\ desired' = "Run" /\ zkdat' = EmptyState
    /\ chevt' = TRUE
    /\ UNCHANGED <<connected, dockerVars, sharedVars, spawnVars, lpc, cleanVars>>

Unschedule ==
    /\ schedules < ScheduleLimit
    /\ schedules' = schedules + 1 /\ UNCHANGED faults
    /\ desired # None
    /\ desired' = None /\ zkdat' = EmptyState
    /\ hsevt' = TRUE /\ chevt' = TRUE
    /\ UNCHANGED <<connected, dockerVars, sharedVars, pc, ssdat, exit, hsdat, lpc, cleanVars>>

\* Pause and Resume change a Run and a Pause only; Stop and Restart change any.
SetDesired(to) ==
    /\ schedules < ScheduleLimit
    /\ schedules' = schedules + 1 /\ UNCHANGED faults
    /\ desired \notin {None, to}
    /\ to = "Pause" => desired = "Run"
    /\ to = "Run" => desired = "Pause"
    /\ desired' = to
    /\ hsevt' = TRUE
    /\ UNCHANGED <<zkdat, connected, dockerVars, sharedVars, pc, ssdat, exit, hsdat,
                   listenVars, cleanVars>>

LoseSession ==
    /\ connected /\ Fault("session")
    /\ connected' = FALSE
    /\ hsevt' = TRUE /\ chevt' = TRUE
    /\ UNCHANGED <<desired, zkdat, dockerVars, sharedVars, pc, ssdat, exit, hsdat, lpc, cleanVars>>

\* The agent process dies and a new one starts.  The coordinator and docker
\* keep what they have; nobody monitors the container any more.
AgentCrash ==
    /\ ~ shutdown /\ Fault("crash")
    /\ connected' = TRUE
    /\ watched' = FALSE /\ restarting' = {}
    /\ thread' = NoThread /\ mu' = "free"
    /\ pc' = "none" /\ ssdat' = EmptyState /\ exit' = 0 /\ hsdat' = None /\ hsevt' = FALSE
    /\ lpc' = "list" /\ chevt' = FALSE
    /\ cl' = [p \in Cleaners |-> "idle"] /\ cexit' = [p \in Cleaners |-> 0]
    /\ UNCHANGED <<desired, zkdat, ctr, running, quiesced, started, shutdown, complete>>

Next ==
    \/ SpawnNext
    \/ ListenNext
    \/ \E p \in Cleaners : Clean(p)
    \/ \E c \in Containers : RestartStop(c)
    \/ ShutDown \/ WatchForShutdown \/ ShutdownComplete
    \/ Schedule \/ Unschedule \/ \E d \in DesiredStates : SetDesired(d)
    \/ ContainerDies \/ LoseSession \/ AgentCrash

\* Every goroutine of the agent keeps running, and the calls it makes return.
Fairness ==
    /\ WF_vars(SpawnNext) /\ WF_vars(ListenNext)
    /\ \A p \in Cleaners : WF_vars(Clean(p))
    /\ \A c \in Containers : WF_vars(RestartStop(c))
    /\ WF_vars(WatchForShutdown) /\ WF_vars(ShutdownComplete)

Spec == Init /\ [][Next]_vars /\ Fairness

-----------------------------------------------------------------------------
(* Properties                                                              *)

CoordinatorTypes == desired \in DesiredStates \cup {None} /\ zkdat \in ServiceStates
                    /\ connected \in BOOLEAN
DockerTypes ==
    /\ ctr \in Channels /\ running \in BOOLEAN /\ watched \in BOOLEAN /\ quiesced \in BOOLEAN
    /\ started \in Channels /\ restarting \subseteq Containers
    /\ ctr <= started
    /\ running => ctr # 0
    /\ watched => running
    /\ quiesced => running
AgentTypes ==
    /\ thread \in Threads /\ shutdown \in BOOLEAN /\ complete \in BOOLEAN
    /\ mu \in {"free", "listen", "watch"}
    /\ pc \in {"none", "begin", "load", "get", "watch", "attach", "registerAttach", "act", "pull",
               "create", "register", "save", "resume", "pause", "restart", "registerRestart",
               "saveRestart", "restoreRun", "resave", "wait", "exited", "cleanup", "remove",
               "cleaning", "finished"}
    /\ ssdat \in ServiceStates /\ exit \in Channels
    /\ hsdat \in DesiredStates \cup {None} /\ hsevt \in BOOLEAN
    /\ lpc \in {"list", "post", "cleaning", "wait", "down"} /\ chevt \in BOOLEAN
    /\ cl \in [Cleaners -> {"idle", "stop", "exit", "delete", "done"}]
    /\ cexit \in [Cleaners -> Channels]
BoundTypes == schedules \in 0 .. ScheduleLimit /\ faults \in 0 .. FaultLimit

\* Every variable has its type; docker only runs, monitors and pauses a
\* container that exists.
TypeOK == CoordinatorTypes /\ DockerTypes /\ AgentTypes /\ BoundTypes

\* Spawn has done all it can and waits; no event is pending.
Settled ==
    /\ pc = "wait" /\ connected /\ ~ hsevt /\ ~ Exited(exit)
    /\ ~ shutdown /\ restarting = {}

\* StartContainer never finds the previous container of the instance running:
\* whatever the scheduler does meanwhile, and wherever Spawn, PostProcess or a
\* crash left off, Spawn attaches to that container or gets rid of it first.
StartsAlone ==
    pc \in {"pull", "create"} => ~ running

\* The agent deletes a state only when its container does not run any more, so
\* the scheduler does not start a second instance beside the first.
StateOutlivesContainer ==
    (\E p \in Cleaners : cl[p] \in {"exit", "delete"}) => ~ running

\* A settled Spawn has the coordinator know the container it runs, or the
\* state has been created anew under it; what is stored is never about a
\* container that is gone.
StoredStateNotStale ==
    Settled => zkdat \in {ssdat, EmptyState} /\ (exit # 0 => ssdat.ctr = exit)

\* The exit channel that the next goroutine or a cleanup will find in the
\* thread list belongs to the running container, so waiting for it after
\* StopContainer ends.
ThreadKnowsContainer ==
    (Settled /\ exit # 0) => /\ thread.live /\ thread.exited = exit
                             /\ ctr = exit /\ running /\ watched

\* The agent never has two containers of one instance: neither beside each
\* other, nor the next one elsewhere while the last one still runs.
OneContainerAtATime == StartsAlone /\ StateOutlivesContainer

\* What the agent believes of a container at rest, in its thread list and in
\* the coordinator, is true of the container.
RecordsAreTrue == StoredStateNotStale /\ ThreadKnowsContainer

\* "shut down any containers we are not supposed to be running": when the
\* agent has come to rest, no container runs without a state.
NoOrphan ==
    (lpc = "wait" /\ ~ chevt /\ connected /\ pc = "none" /\ desired = None) => ~ running

\* A container that the agent has recorded as paused has been paused.
PausedMeansQuiesced ==
    (Settled /\ exit # 0) => ssdat.paused = quiesced

\* When the agent is told to shut down, the shutdown completes and Spawn
\* returns: no goroutine waits for ever for the mutex, or for the exit of a
\* container that could not be stopped.
ShutsDown == shutdown ~> (complete /\ pc = "none")

\* What the agent works towards.
Followed ==
    CASE desired = None -> ~ running
      [] desired = "Run" -> running /\ ~ quiesced
      [] desired = "Pause" -> running => quiesced
      [] OTHER -> FALSE

\* Once the scheduler, the operators and the faults are done, the container
\* comes to match the desired state, and stays so.
Follows == <>[]Followed

=============================================================================
