---------------------- MODULE HostStateListenerProofs ----------------------
(***************************************************************************)
(* For every bound on containers, schedules and faults: the host state     *)
(* listener keeps its types, and what it records of a container at rest is *)
(* true; if StopContainer does not fail and the agent is not shut down, it *)
(* has one container at a time; if the agent does not crash either, it     *)
(* leaves no container behind, and a container recorded as paused is       *)
(* paused.                                                                 *)
(*                                                                         *)
(* None of these is inductive.  The invariant follows the container        *)
(* through Spawn: where Spawn may have none, where its exit channel and    *)
(* its service state are those of the thread list and of the coordinator,  *)
(* and who has charge of a container that runs.                            *)
(***************************************************************************)
EXTENDS HostStateListener, TLAPS

\* Where Spawn can be.
SpawnPlaces ==
    {"none", "begin", "load", "get", "watch", "attach", "registerAttach", "act", "pull", "create", "register", "save",
     "resume", "pause", "restart", "registerRestart", "saveRestart", "restoreRun", "resave", "wait", "exited",
     "cleanup", "remove", "cleaning", "finished"}

\* The places of Spawn behind its read of the desired state.
HasRead == {"attach", "registerAttach", "act", "pull", "create", "register", "save", "resume", "pause", "restart",
            "registerRestart", "saveRestart", "restoreRun", "wait", "exited"}
\* Those where it may have no container, and then there is none running.
MayBegin == {"registerAttach", "act", "pull", "create", "restart", "registerRestart"}
\* Those where its exit channel is that of the thread list, and those where its service state
\* is the one that is stored, if there is one.
Registered == {"get", "watch", "attach", "act", "pull", "create", "resume", "pause", "restart", "registerRestart",
               "saveRestart", "restoreRun", "save", "resave", "wait", "exited"}
Stored == {"watch", "attach", "registerAttach", "act", "pull", "create", "resume", "pause", "restart", "restoreRun",
           "wait", "exited"}

\* Spawn has read the desired state, and has a container only where it can.
SpawnInPlace ==
    /\ pc \in HasRead => hsdat # None
    /\ pc \in {"get", "attach", "pull", "create"} => exit = 0
    /\ pc \in {"resume", "pause", "register"} => exit # 0
    /\ pc = "exited" => exit # 0 /\ ctr # exit

\* A goroutine is where its cleaner is.
CleanersInPlace ==
    /\ cl["spawn"] # "idle" <=> pc \in {"remove", "cleaning"}
    /\ cl["listen"] # "idle" => lpc = "cleaning"
    /\ lpc = "cleaning" => pc = "none"
    /\ cl["watch"] # "idle" => shutdown
    /\ shutdown => MayShutDown

PlacesOK == SpawnInPlace /\ CleanersInPlace

\* Spawn starts a container only when none runs.
BeginsAlone == pc \in MayBegin /\ exit = 0 => ~running

\* A channel belongs to a container that was created, and that is monitored as long as it is
\* there; the service state beside the channel is about that container.
ChannelOf(e, data) == e <= started /\ (e # 0 => data.ctr = e /\ (ctr = e => running /\ watched))
ChannelsOK ==
    /\ ChannelOf(exit, ssdat) /\ ChannelOf(thread.exited, thread.data)
    /\ thread.exited # 0 => thread.live

\* Spawn and the thread list agree, and so do Spawn and the coordinator.
AgreesWithList == ~shutdown /\ pc \in Registered => thread.exited = exit
AgreesWithCoordinator == pc \in Stored => zkdat \in {ssdat, EmptyState}
RecordsOK == AgreesWithList /\ AgreesWithCoordinator

\* A cleaner that has stopped the container leaves it stopped.
StopsWork == "stop" \notin FaultKinds
CleanedUp ==
    (StopsWork /\ ~shutdown /\ \E p \in Cleaners : cl[p] \in {"exit", "delete", "done"}) => ~running

\* Unless the agent crashes, the container that runs is in the thread list, or is about to
\* be entered or cleaned up.
Steady == StopsWork /\ "crash" \notin FaultKinds
Accounted ==
    \/ ~running
    \/ thread.exited = ctr /\ pc \notin {"registerAttach", "register"}
    \/ pc = "register" /\ exit = ctr
    \/ pc = "cleanup"
    \/ pc \in {"remove", "cleaning"} /\ cl["spawn"] = "stop"
    \/ cl["listen"] = "stop"
AllAccounted == Steady /\ ~shutdown => Accounted

\* When PostProcess is done, or Listen waits and processes no such node, there is no entry left.
ListEmptied == lpc = "cleaning" \/ (lpc = "wait" /\ pc = "none") => ~thread.live

\* Unless the service cannot be looked up, what is recorded of a pause is true.
PausesTrue ==
    Steady /\ "lookup" \notin FaultKinds /\ ~shutdown =>
        /\ exit # 0 /\ ctr = exit => ssdat.paused = quiesced
        /\ thread.exited # 0 /\ ctr = thread.exited /\ pc # "register" => thread.data.paused = quiesced

HostInv ==
    /\ TypeOK /\ PlacesOK /\ BeginsAlone /\ ChannelsOK /\ RecordsOK
    /\ CleanedUp /\ AllAccounted /\ ListEmptied /\ PausesTrue
-----------------------------------------------------------------------------
(* The types                                                               *)

\* The steps that leave alone docker, the thread list, and what Spawn knows of its container.
Quiet ==
    \/ SpawnBegin \/ WatchState \/ SetInstanceState \/ PullImage \/ SaveState \/ WaitForEvent
    \/ ListenNodes \/ ListenWake \/ Reconnect
    \/ ShutDown \/ Schedule \/ Unschedule \/ (\E d \in DesiredStates : SetDesired(d)) \/ LoseSession
    \/ \E p \in Cleaners : CleanExit(p) \/ CleanDelete(p)
    \/ UNCHANGED vars

\* They do leave them alone, and what each does to the desired state and the service state.
LEMMA QuietStep ==
    ASSUME Quiet
    PROVE  UNCHANGED <<dockerVars, thread, ssdat, exit>>
<1> USE DEF zkVars, dockerVars, sharedVars, spawnVars, listenVars, cleanVars
<1>1. CASE SpawnBegin \/ WatchState \/ SetInstanceState \/ PullImage \/ SaveState \/ WaitForEvent
  BY <1>1 DEF SpawnBegin, WatchState, SetInstanceState, PullImage, SaveState, WaitForEvent
<1>2. CASE ListenNodes \/ ListenWake \/ Reconnect
  BY <1>2 DEF ListenNodes, ListenWake, Reconnect
<1>3. CASE ShutDown \/ Schedule \/ Unschedule \/ (\E d \in DesiredStates : SetDesired(d)) \/ LoseSession
  BY <1>3 DEF ShutDown, Schedule, Unschedule, SetDesired, LoseSession
<1>4. CASE \E p \in Cleaners : CleanExit(p) \/ CleanDelete(p)
  BY <1>4 DEF CleanExit, CleanDelete
<1>5. CASE UNCHANGED vars
  BY <1>5 DEF vars
<1> QED
  BY <1>1, <1>2, <1>3, <1>4, <1>5 DEF Quiet

\* The other steps.
LEMMA NextSteps ==
    ASSUME [Next]_vars
    PROVE  \/ Quiet
           \/ LoadThread \/ LoadState \/ AttachContainer \/ RegisterThread \/ CreateContainer
           \/ PauseContainer \/ ResumeContainer \/ RestartContainer \/ HandleContainerExit
           \/ SpawnCleanUp \/ SpawnRemove \/ SpawnCleaned
           \/ PostProcess \/ PostProcessed \/ ReapSpawn
           \/ (\E p \in Cleaners : CleanStop(p)) \/ (\E c \in Containers : RestartStop(c)) \/ ContainerDies
           \/ WatchForShutdown \/ ShutdownComplete \/ AgentCrash
BY DEF Next, SpawnNext, ListenNext, Clean, Quiet

\* Every step keeps the types of what is in ZooKeeper.
LEMMA CoordinatorTypesStep ==
    ASSUME TypeOK, [Next]_vars
    PROVE  CoordinatorTypes'
<1>0. EmptyState \in ServiceStates
  BY LimitsAssumption DEF EmptyState, ServiceStates, Channels
<1>1. CASE SaveState \/ HandleContainerExit
  BY <1>1 DEF TypeOK, CoordinatorTypes, AgentTypes, SaveState, HandleContainerExit, DesiredStates
<1>2. CASE \E p \in Cleaners : CleanDelete(p)
  BY <1>0, <1>2 DEF TypeOK, CoordinatorTypes, CleanDelete
<1>3. CASE Schedule \/ Unschedule \/ (\E d \in DesiredStates : SetDesired(d)) \/ LoseSession \/ AgentCrash
           \/ Reconnect
  BY <1>0, <1>3 DEF TypeOK, CoordinatorTypes, Schedule, Unschedule, SetDesired, LoseSession, AgentCrash,
                    Reconnect, DesiredStates
<1>4. CASE UNCHANGED zkVars
  BY <1>4 DEF TypeOK, CoordinatorTypes, zkVars
<1>5. CASE SpawnNext
  BY <1>1, <1>4, <1>5 DEF SpawnNext, SpawnBegin, LoadThread, LoadState, WatchState, AttachContainer, RegisterThread,
              SetInstanceState, PullImage, CreateContainer, PauseContainer, ResumeContainer, RestartContainer,
              WaitForEvent, SpawnCleanUp, SpawnRemove, SpawnCleaned
<1>6. CASE ListenNext
  BY <1>3, <1>4, <1>6 DEF ListenNext, ListenNodes, PostProcess, PostProcessed, ReapSpawn, ListenWake
<1>7. CASE (\E p \in Cleaners : Clean(p)) \/ (\E c \in Containers : RestartStop(c)) \/ ContainerDies
  BY <1>2, <1>4, <1>7 DEF Clean, CleanStop, CleanExit, RestartStop, ContainerDies
<1>8. CASE ShutDown \/ WatchForShutdown \/ ShutdownComplete \/ UNCHANGED vars
  BY <1>4, <1>8 DEF ShutDown, WatchForShutdown, ShutdownComplete, vars, zkVars
<1> QED
  BY <1>3, <1>5, <1>6, <1>7, <1>8 DEF Next

\* A container that stops keeps the types of docker.
LEMMA StopTypes ==
    ASSUME DockerTypes, ContainerStops, started' = started, restarting' \subseteq restarting
    PROVE  DockerTypes' /\ running' = FALSE /\ quiesced' = FALSE
<1>1. 0 \in Channels /\ \A n \in Channels : 0 <= n
  BY LimitsAssumption DEF Channels
<1>2. running' = FALSE /\ watched' = FALSE /\ quiesced' = FALSE /\ ctr' \in {0, ctr}
  BY DEF ContainerStops
<1>3. ctr' \in Channels /\ ctr' <= started'
  BY <1>1, <1>2 DEF DockerTypes
<1> QED
  BY <1>2, <1>3 DEF DockerTypes

\* Every step keeps the types of docker.
LEMMA DockerTypesStep ==
    ASSUME TypeOK, [Next]_vars
    PROVE  DockerTypes'
<1> USE DEF TypeOK
<1>1. CASE UNCHANGED dockerVars
  BY <1>1 DEF DockerTypes, dockerVars
<1>2. CASE AttachContainer
  <2>1. 0 \in Channels /\ \A n \in Channels : 0 <= n
    BY LimitsAssumption DEF Channels
  <2>2. ctr' \in {0, ctr} /\ UNCHANGED <<started, restarting>>
    BY <1>2 DEF AttachContainer
  <2>3. \/ UNCHANGED <<ctr, running, quiesced>> /\ (watched' = running \/ watched' = watched)
        \/ running' = FALSE /\ watched' = FALSE /\ quiesced' = FALSE
    <3>1. CASE ctr = ssdat.ctr
      BY <1>2, <3>1 DEF AttachContainer
    <3>2. CASE ctr # ssdat.ctr
      BY <1>2, <3>2 DEF AttachContainer
    <3> QED
      BY <3>1, <3>2
  <2>4. ctr' \in Channels /\ ctr' <= started'
    BY <2>1, <2>2 DEF DockerTypes
  <2> QED
    <3>1. CASE UNCHANGED <<ctr, running, quiesced>> /\ watched' = watched
      BY <2>2, <2>4, <3>1 DEF DockerTypes
    <3>2. CASE UNCHANGED <<ctr, running, quiesced>> /\ watched' = running
      BY <2>2, <2>4, <3>2 DEF DockerTypes
    <3>3. CASE running' = FALSE /\ watched' = FALSE /\ quiesced' = FALSE
      BY <2>2, <2>4, <3>3 DEF DockerTypes
    <3> QED
      BY <2>3, <3>1, <3>2, <3>3
<1>3. CASE CreateContainer
  <2>1. CASE ctr # 0
    BY <1>1, <1>3, <2>1 DEF CreateContainer, dockerVars
  <2>2. CASE ctr = 0
    <3>1. started' = started + 1 /\ ctr' = started' /\ started < ContainerLimit /\ UNCHANGED restarting
      BY <1>3, <2>2 DEF CreateContainer
    <3>2. started' \in Channels /\ ctr' <= started' /\ ctr' # 0
      BY <3>1, LimitsAssumption DEF DockerTypes, Channels
    <3>3. /\ quiesced' = FALSE
          /\ \/ running' = TRUE /\ watched' = TRUE
             \/ running' \in BOOLEAN /\ watched' = FALSE
      BY <1>3, <2>2 DEF CreateContainer
    <3> QED
      BY <3>1, <3>2, <3>3 DEF DockerTypes
  <2> QED
    BY <2>1, <2>2
<1>4. CASE PauseContainer \/ ResumeContainer
  <2>1. UNCHANGED <<ctr, running, watched, started, restarting>>
    BY <1>4 DEF PauseContainer, ResumeContainer
  <2>2. quiesced' = quiesced \/ (running /\ quiesced' \in BOOLEAN)
    BY <1>4 DEF PauseContainer, ResumeContainer, Quiesce
  <2> QED
    BY <2>1, <2>2 DEF DockerTypes
<1>5. CASE RestartContainer
  BY <1>5, LimitsAssumption DEF RestartContainer, DockerTypes, Channels, Containers
<1>6. CASE ContainerDies
  BY <1>6, StopTypes DEF ContainerDies
<1>7. CASE \E c \in Containers : RestartStop(c)
  <2>1. PICK c \in Containers : RestartStop(c)
    BY <1>7
  <2>2. restarting' \subseteq restarting /\ started' = started
    BY <2>1 DEF RestartStop
  <2>3. ContainerStops \/ UNCHANGED <<ctr, running, watched, quiesced>>
    BY <2>1 DEF RestartStop
  <2>4. CASE ContainerStops
    BY <2>2, <2>4, StopTypes
  <2>5. CASE UNCHANGED <<ctr, running, watched, quiesced>>
    BY <2>2, <2>5 DEF DockerTypes
  <2> QED
    BY <2>3, <2>4, <2>5
<1>8. CASE \E p \in Cleaners : Clean(p)
  BY <1>1, <1>8, StopTypes DEF Clean, CleanStop, CleanExit, CleanDelete, DockerTypes, dockerVars
<1>9. CASE AgentCrash
  BY <1>9 DEF AgentCrash, DockerTypes
<1>10. CASE SpawnNext
  BY <1>1, <1>2, <1>3, <1>4, <1>5, <1>10 DEF SpawnNext, SpawnBegin, LoadThread, LoadState, WatchState, RegisterThread,
              SetInstanceState, PullImage, SaveState, WaitForEvent, HandleContainerExit, SpawnCleanUp, SpawnRemove,
              SpawnCleaned
<1>11. CASE ListenNext
  BY <1>1, <1>11 DEF ListenNext, ListenNodes, PostProcess, PostProcessed, ReapSpawn, ListenWake, Reconnect
<1>12. CASE \/ ShutDown \/ WatchForShutdown \/ ShutdownComplete
            \/ Schedule \/ Unschedule \/ (\E d \in DesiredStates : SetDesired(d)) \/ LoseSession \/ UNCHANGED vars
  BY <1>1, <1>12 DEF ShutDown, WatchForShutdown, ShutdownComplete, Schedule, Unschedule, SetDesired, LoseSession,
              vars, dockerVars
<1> QED
  BY <1>6, <1>7, <1>8, <1>9, <1>10, <1>11, <1>12 DEF Next

\* Every step keeps the types of the thread list and of what Spawn knows of its container.
LEMMA RecordTypesStep ==
    ASSUME TypeOK, [Next]_vars
    PROVE  thread' \in Threads /\ ssdat' \in ServiceStates /\ exit' \in Channels
<1>0. /\ thread \in Threads /\ ssdat \in ServiceStates /\ exit \in Channels
      /\ zkdat \in ServiceStates /\ ctr \in Channels /\ started \in Channels
  BY DEF TypeOK, AgentTypes, CoordinatorTypes, DockerTypes
<1>1. EmptyState \in ServiceStates /\ NoThread \in Threads /\ 0 \in Channels
  BY LimitsAssumption DEF EmptyState, ServiceStates, NoThread, Threads, Channels
<1>2. CASE UNCHANGED <<thread, ssdat, exit>>
  BY <1>0, <1>2
<1>3. CASE LoadThread \/ LoadState
  BY <1>0, <1>3 DEF LoadThread, LoadState, Threads, sharedVars
<1>4. CASE AttachContainer
  <2>1. exit' \in {0, ctr, exit}
    <3>1. CASE ctr = ssdat.ctr
      BY <1>4, <3>1 DEF AttachContainer
    <3>2. CASE ctr # ssdat.ctr
      BY <1>4, <3>2 DEF AttachContainer
    <3> QED
      BY <3>1, <3>2
  <2> QED
    BY <1>0, <1>1, <1>4, <2>1 DEF AttachContainer, sharedVars
<1>5. CASE RegisterThread \/ HandleContainerExit
  <2>1. thread' = thread \/ \E e \in {0, exit} : thread' = [live |-> TRUE, data |-> ssdat, exited |-> e]
    BY <1>5 DEF RegisterThread, HandleContainerExit
  <2>2. ssdat' = ssdat /\ exit' \in {0, exit}
    BY <1>5 DEF RegisterThread, HandleContainerExit
  <2> QED
    <3>1. \A e \in {0, exit} : [live |-> TRUE, data |-> ssdat, exited |-> e] \in Threads
      BY <1>0, <1>1 DEF Threads
    <3> QED
      BY <1>0, <1>1, <2>1, <2>2, <3>1
<1>6. CASE CreateContainer
  <2>1. CASE UNCHANGED <<ssdat, exit>>
    BY <1>0, <1>6, <2>1 DEF CreateContainer, sharedVars
  <2>2. CASE started' = started + 1 /\ started < ContainerLimit /\ exit' = started'
             /\ ssdat' = [EmptyState EXCEPT !.ctr = started']
    <3>1. started' \in Channels
      BY <1>0, <2>2, LimitsAssumption DEF Channels
    <3>2. ssdat' \in ServiceStates
      BY <1>1, <2>2, <3>1 DEF ServiceStates
    <3> QED
      BY <1>0, <1>6, <2>2, <3>1, <3>2 DEF CreateContainer, sharedVars
  <2> QED
    BY <1>6, <2>1, <2>2 DEF CreateContainer
<1>7. CASE PauseContainer \/ ResumeContainer \/ RestartContainer
  BY <1>0, <1>7 DEF PauseContainer, ResumeContainer, Quiesce, RestartContainer, ServiceStates, sharedVars
<1>8. CASE SpawnRemove \/ ReapSpawn \/ AgentCrash
  BY <1>0, <1>1, <1>8 DEF SpawnRemove, ReapSpawn, AgentCrash, sharedVars
<1>9. CASE PostProcess \/ WatchForShutdown
  BY <1>0, <1>1, <1>9 DEF PostProcess, WatchForShutdown, BeginCleanUp, spawnVars
<1>10. CASE Quiet
  BY <1>2, <1>10, QuietStep
<1>11. CASE SpawnCleanUp \/ SpawnCleaned \/ PostProcessed \/ ShutdownComplete
            \/ (\E p \in Cleaners : CleanStop(p)) \/ (\E c \in Containers : RestartStop(c)) \/ ContainerDies
  BY <1>2, <1>11 DEF SpawnCleanUp, SpawnCleaned, PostProcessed, ShutdownComplete, CleanStop, RestartStop, ContainerDies,
                     sharedVars, spawnVars
<1> QED
  BY <1>3, <1>4, <1>5, <1>6, <1>7, <1>8, <1>9, <1>10, <1>11, NextSteps

\* Every step keeps the types of where the goroutines are.
LEMMA PlaceTypesStep ==
    ASSUME TypeOK, PlacesOK, [Next]_vars
    PROVE  /\ mu' \in {"free", "listen", "watch"} /\ pc' \in SpawnPlaces
           /\ lpc' \in {"list", "post", "cleaning", "wait", "down"} /\ hsdat' \in DesiredStates \cup {None}
<1>0. /\ mu \in {"free", "listen", "watch"} /\ pc \in SpawnPlaces
      /\ lpc \in {"list", "post", "cleaning", "wait", "down"} /\ hsdat \in DesiredStates \cup {None}
      /\ desired \in DesiredStates \cup {None}
  BY DEF TypeOK, AgentTypes, CoordinatorTypes, SpawnPlaces
<1> USE DEF SpawnPlaces, sharedVars, spawnVars, listenVars
<1>1. CASE SpawnBegin \/ LoadThread \/ LoadState
  BY <1>0, <1>1 DEF SpawnBegin, LoadThread, LoadState, SpawnFails
<1>2. CASE WatchState
  BY <1>0, <1>2 DEF WatchState, SpawnFails
<1>3. CASE AttachContainer \/ RegisterThread
  BY <1>0, <1>3 DEF AttachContainer, RegisterThread
<1>4. CASE SetInstanceState
  <2>1. hsdat \in DesiredStates
    BY <1>4 DEF TypeOK, AgentTypes, SetInstanceState, PlacesOK, SpawnInPlace, HasRead
  <2> QED
    BY <1>0, <1>4, <2>1 DEF SetInstanceState, DesiredStates
<1>5. CASE PullImage \/ CreateContainer \/ PauseContainer \/ ResumeContainer \/ RestartContainer
  BY <1>0, <1>5 DEF PullImage, CreateContainer, PauseContainer, ResumeContainer, Quiesce, RestartContainer
<1>6. CASE SaveState \/ WaitForEvent \/ HandleContainerExit
  BY <1>0, <1>6 DEF SaveState, WaitForEvent, HandleContainerExit, SpawnFails
<1>7. CASE SpawnCleanUp \/ SpawnRemove \/ SpawnCleaned
  BY <1>0, <1>7 DEF SpawnCleanUp, SpawnRemove, SpawnCleaned
<1>8. CASE PostProcess \/ PostProcessed
  BY <1>0, <1>8 DEF PostProcess, PostProcessed
<1>9. CASE ListenNodes \/ ReapSpawn \/ ListenWake \/ Reconnect
  BY <1>0, <1>9 DEF ListenNodes, ReapSpawn, ListenWake, Reconnect
<1>10. CASE \E p \in Cleaners : Clean(p)
  <2>1. UNCHANGED <<mu, pc, lpc, hsdat>>
    BY <1>10 DEF Clean, CleanStop, CleanExit, CleanDelete
  <2> QED
    BY <1>0, <2>1
<1>11. CASE (\E c \in Containers : RestartStop(c)) \/ ContainerDies \/ LoseSession \/ AgentCrash
  BY <1>0, <1>11 DEF RestartStop, ContainerDies, LoseSession, AgentCrash
<1>12. CASE ShutDown \/ WatchForShutdown \/ ShutdownComplete
  BY <1>0, <1>12 DEF ShutDown, WatchForShutdown, ShutdownComplete
<1>13. CASE Schedule \/ Unschedule \/ (\E d \in DesiredStates : SetDesired(d)) \/ UNCHANGED vars
  BY <1>0, <1>13 DEF Schedule, Unschedule, SetDesired, vars
<1> QED
  BY <1>1, <1>2, <1>3, <1>4, <1>5, <1>6, <1>7, <1>8, <1>9, <1>10, <1>11, <1>12, <1>13 DEF Next, SpawnNext, ListenNext

\* Every step keeps the flags and watches Boolean.
LEMMA FlagTypesStep ==
    ASSUME TypeOK, [Next]_vars
    PROVE  shutdown' \in BOOLEAN /\ complete' \in BOOLEAN /\ hsevt' \in BOOLEAN /\ chevt' \in BOOLEAN
<1> DEFINE Watches == /\ hsevt' = hsevt \/ hsevt' = TRUE \/ hsevt' = FALSE
                                 \/ hsevt' = (hsevt \/ pc # "restoreRun" \/ desired = "Restart")
                      /\ chevt' = chevt \/ chevt' = TRUE \/ chevt' = FALSE
           Flags == /\ shutdown' = shutdown \/ shutdown' = TRUE
                    /\ complete' = complete \/ complete' = TRUE
<1>1. Watches /\ Flags
  <2> USE DEF sharedVars, spawnVars, listenVars
  <2>1. CASE SpawnNext
    BY <2>1 DEF SpawnNext, SpawnBegin, LoadThread, LoadState, WatchState, AttachContainer, RegisterThread,
              SetInstanceState, PullImage, CreateContainer, PauseContainer, ResumeContainer, RestartContainer,
              SaveState, WaitForEvent, HandleContainerExit, SpawnCleanUp, SpawnRemove, SpawnCleaned
  <2>2. CASE ListenNext
    BY <2>2 DEF ListenNext, ListenNodes, PostProcess, PostProcessed, ReapSpawn, ListenWake, Reconnect
  <2>3. CASE (\E p \in Cleaners : Clean(p)) \/ (\E c \in Containers : RestartStop(c)) \/ ContainerDies
    BY <2>3 DEF Clean, CleanStop, CleanExit, CleanDelete, RestartStop, ContainerDies
  <2>4. CASE ShutDown \/ WatchForShutdown \/ ShutdownComplete \/ LoseSession \/ AgentCrash
    BY <2>4 DEF ShutDown, WatchForShutdown, ShutdownComplete, LoseSession, AgentCrash
  <2>5. CASE Schedule \/ Unschedule \/ (\E d \in DesiredStates : SetDesired(d)) \/ UNCHANGED vars
    BY <2>5 DEF Schedule, Unschedule, SetDesired, vars
  <2> QED
    BY <2>1, <2>2, <2>3, <2>4, <2>5 DEF Next
<1>2. shutdown \in BOOLEAN /\ complete \in BOOLEAN /\ hsevt \in BOOLEAN /\ chevt \in BOOLEAN
  BY DEF TypeOK, AgentTypes
<1>3. shutdown' \in BOOLEAN
  BY <1>1, <1>2
<1>4. complete' \in BOOLEAN
  BY <1>1, <1>2
<1>5. hsevt' \in BOOLEAN
  BY <1>1, <1>2
<1>6. chevt' \in BOOLEAN
  BY <1>1, <1>2
<1> QED
  BY <1>3, <1>4, <1>5, <1>6

\* Every step keeps the types of the cleaners.
LEMMA CleanerTypesStep ==
    ASSUME TypeOK, [Next]_vars
    PROVE  cl' \in [Cleaners -> {"idle", "stop", "exit", "delete", "done"}] /\ cexit' \in [Cleaners -> Channels]
<1> DEFINE Places == {"idle", "stop", "exit", "delete", "done"}
<1>0. /\ cl \in [Cleaners -> Places] /\ cexit \in [Cleaners -> Channels]
      /\ thread.exited \in Channels /\ 0 \in Channels
      /\ {"spawn", "listen", "watch"} = Cleaners
  BY LimitsAssumption DEF TypeOK, AgentTypes, Threads, Cleaners, Channels
<1> USE DEF cleanVars
<1>1. CASE UNCHANGED cleanVars
  BY <1>0, <1>1
<1>2. CASE SpawnCleanUp \/ SpawnCleaned
  BY <1>0, <1>2 DEF SpawnCleanUp, SpawnCleaned, EndCleanUp
<1>3. CASE PostProcess \/ PostProcessed
  BY <1>0, <1>3 DEF PostProcess, PostProcessed, BeginCleanUp, EndCleanUp
<1>4. CASE WatchForShutdown \/ ShutdownComplete
  BY <1>0, <1>4 DEF WatchForShutdown, ShutdownComplete, BeginCleanUp, EndCleanUp
<1>5. CASE \E p \in Cleaners : Clean(p)
  BY <1>0, <1>5 DEF Clean, CleanStop, CleanExit, CleanDelete
<1>6. CASE AgentCrash
  BY <1>0, <1>6 DEF AgentCrash
<1>7. CASE SpawnNext
  BY <1>1, <1>2, <1>7 DEF SpawnNext, SpawnBegin, LoadThread, LoadState, WatchState, AttachContainer, RegisterThread,
              SetInstanceState, PullImage, CreateContainer, PauseContainer, ResumeContainer, RestartContainer,
              SaveState, WaitForEvent, HandleContainerExit, SpawnRemove
<1>8. CASE ListenNext
  BY <1>1, <1>3, <1>8 DEF ListenNext, ListenNodes, ReapSpawn, ListenWake, Reconnect
<1>9. CASE \/ ShutDown \/ Schedule \/ Unschedule \/ (\E d \in DesiredStates : SetDesired(d)) \/ LoseSession
           \/ (\E c \in Containers : RestartStop(c)) \/ ContainerDies \/ UNCHANGED vars
  BY <1>1, <1>9 DEF ShutDown, Schedule, Unschedule, SetDesired, LoseSession, RestartStop, ContainerDies, vars
<1> QED
  BY <1>4, <1>5, <1>6, <1>7, <1>8, <1>9 DEF Next

\* Every step keeps the types.
LEMMA TypesStep ==
    ASSUME TypeOK, PlacesOK, [Next]_vars
    PROVE  TypeOK'
<1>1. BoundTypes'
  <2>1. UNCHANGED boundVars \/ (faults < FaultLimit /\ faults' = faults + 1 /\ UNCHANGED schedules)
        \/ (schedules < ScheduleLimit /\ schedules' = schedules + 1 /\ UNCHANGED faults)
    <3>1. CASE SpawnNext
      BY <3>1 DEF SpawnNext, SpawnBegin, LoadThread, LoadState, WatchState, AttachContainer, RegisterThread,
              SetInstanceState, PullImage, CreateContainer, PauseContainer, ResumeContainer, Quiesce, RestartContainer,
              SaveState, WaitForEvent, HandleContainerExit, SpawnCleanUp, SpawnRemove, SpawnCleaned, SpawnFails, Fault
    <3>2. CASE ListenNext
      BY <3>2 DEF ListenNext, ListenNodes, PostProcess, PostProcessed, ReapSpawn, ListenWake, Reconnect, Fault
    <3>3. CASE (\E p \in Cleaners : Clean(p)) \/ (\E c \in Containers : RestartStop(c)) \/ ContainerDies
               \/ LoseSession \/ AgentCrash
      BY <3>3 DEF Clean, CleanStop, CleanExit, CleanDelete, RestartStop, ContainerDies, LoseSession, AgentCrash, Fault
    <3>4. CASE ShutDown \/ WatchForShutdown \/ ShutdownComplete
      BY <3>4 DEF ShutDown, WatchForShutdown, ShutdownComplete
    <3>5. CASE Schedule \/ Unschedule \/ (\E d \in DesiredStates : SetDesired(d))
      BY <3>5 DEF Schedule, Unschedule, SetDesired
    <3>6. CASE UNCHANGED vars
      BY <3>6 DEF vars, boundVars
    <3> QED
      BY <3>1, <3>2, <3>3, <3>4, <3>5, <3>6 DEF Next
  <2> QED
    BY <2>1, LimitsAssumption DEF TypeOK, BoundTypes, boundVars
<1>2. AgentTypes'
  BY RecordTypesStep, PlaceTypesStep, FlagTypesStep, CleanerTypesStep DEF AgentTypes, SpawnPlaces
<1> QED
  BY <1>1, <1>2, CoordinatorTypesStep, DockerTypesStep DEF TypeOK

-----------------------------------------------------------------------------
(* Where the goroutines are                                                *)

\* The steps of other goroutines leave Spawn where it is, and at most stop its container and take
\* it off the thread list.
OthersNext ==
    \/ PostProcess \/ PostProcessed \/ ListenWake \/ Reconnect
    \/ (\E p \in Cleaners : Clean(p)) \/ (\E c \in Containers : RestartStop(c)) \/ ContainerDies
    \/ ShutDown \/ WatchForShutdown \/ ShutdownComplete
    \/ Schedule \/ Unschedule \/ (\E d \in DesiredStates : SetDesired(d)) \/ LoseSession \/ UNCHANGED vars

\* They do leave it there.
LEMMA OthersStep ==
    ASSUME OthersNext
    PROVE  /\ UNCHANGED <<pc, ssdat, exit, hsdat, started>>
           /\ thread' \in {thread, NoThread}
           /\ UNCHANGED <<ctr, running, watched, quiesced>> \/ ContainerStops
<1> USE DEF dockerVars, sharedVars, spawnVars
<1>1. CASE PostProcess \/ PostProcessed \/ ListenWake \/ Reconnect
  BY <1>1 DEF PostProcess, PostProcessed, ListenWake, Reconnect, BeginCleanUp
<1>2. CASE (\E p \in Cleaners : Clean(p)) \/ (\E c \in Containers : RestartStop(c)) \/ ContainerDies
  BY <1>2 DEF Clean, CleanStop, CleanExit, CleanDelete, RestartStop, ContainerDies
<1>3. CASE ShutDown \/ WatchForShutdown \/ ShutdownComplete
  BY <1>3 DEF ShutDown, WatchForShutdown, ShutdownComplete, BeginCleanUp
<1>4. CASE Schedule \/ Unschedule \/ (\E d \in DesiredStates : SetDesired(d)) \/ LoseSession
  BY <1>4 DEF Schedule, Unschedule, SetDesired, LoseSession
<1>5. CASE UNCHANGED vars
  BY <1>5 DEF vars
<1> QED
  BY <1>1, <1>2, <1>3, <1>4, <1>5 DEF OthersNext

\* The other steps.
LEMMA SpawnOrOthers ==
    ASSUME [Next]_vars
    PROVE  SpawnNext \/ OthersNext \/ ListenNodes \/ ReapSpawn \/ AgentCrash
BY DEF Next, ListenNext, OthersNext

\* Where setInstanceState lets Spawn go on.
LEMMA SetsState ==
    ASSUME TypeOK, SpawnInPlace, SetInstanceState
    PROVE  \/ pc' = "pull" /\ exit = 0
           \/ pc' \in {"resume", "pause"} /\ exit # 0
           \/ pc' \in {"wait", "restart", "restoreRun", "cleanup"}
<1>1. hsdat \in DesiredStates
  BY DEF TypeOK, AgentTypes, SpawnInPlace, HasRead, SetInstanceState
<1> QED
  BY <1>1 DEF SetInstanceState, DesiredStates

\* Every step keeps Spawn where its container lets it be.
LEMMA SpawnPlacesStep ==
    ASSUME TypeOK, SpawnInPlace, ChannelsOK, [Next]_vars
    PROVE  SpawnInPlace'
<1>0. started \in Nat
  BY LimitsAssumption DEF TypeOK, DockerTypes, Channels
<1> USE DEF SpawnInPlace, HasRead
<1>1. CASE SpawnBegin \/ LoadThread \/ SpawnCleanUp \/ SpawnRemove \/ SpawnCleaned
  BY <1>1 DEF SpawnBegin, LoadThread, SpawnCleanUp, SpawnRemove, SpawnCleaned, ChannelsOK
<1>2. CASE LoadState \/ WatchState
  BY <1>2 DEF LoadState, WatchState, SpawnFails
<1>3. CASE AttachContainer
  BY <1>3 DEF AttachContainer
<1>4. CASE RegisterThread
  BY <1>4 DEF RegisterThread
<1>5. CASE SetInstanceState
  BY <1>5, SetsState DEF SetInstanceState
<1>6. CASE PullImage \/ CreateContainer
  BY <1>0, <1>6 DEF PullImage, CreateContainer
<1>7. CASE PauseContainer \/ ResumeContainer \/ RestartContainer
  BY <1>7 DEF PauseContainer, ResumeContainer, Quiesce, RestartContainer
<1>8. CASE SaveState
  BY <1>8 DEF SaveState, SpawnFails
<1>9. CASE WaitForEvent \/ HandleContainerExit
  BY <1>9 DEF WaitForEvent, HandleContainerExit, SpawnFails, Exited, dockerVars
<1>10. CASE OthersNext
  BY <1>10, OthersStep DEF ContainerStops
<1>11. CASE ListenNodes \/ ReapSpawn \/ AgentCrash
  BY <1>11 DEF ListenNodes, ReapSpawn, AgentCrash, dockerVars
<1> QED
  BY <1>1, <1>2, <1>3, <1>4, <1>5, <1>6, <1>7, <1>8, <1>9, <1>10, <1>11, SpawnOrOthers DEF SpawnNext

\* Every step keeps the goroutines where their cleaners are.
LEMMA CleanersStep ==
    ASSUME TypeOK, SpawnInPlace, CleanersInPlace, [Next]_vars
    PROVE  CleanersInPlace'
<1>0. /\ DOMAIN cl = Cleaners /\ cl = [p \in Cleaners |-> cl[p]]
      /\ "spawn" \in Cleaners /\ "listen" \in Cleaners /\ "watch" \in Cleaners
  BY DEF TypeOK, AgentTypes, Cleaners
<1> USE DEF CleanersInPlace
<1>1. CASE SpawnCleanUp \/ SpawnRemove \/ SpawnCleaned
  BY <1>0, <1>1 DEF SpawnCleanUp, SpawnRemove, SpawnCleaned, EndCleanUp, sharedVars, listenVars, cleanVars
<1>2. CASE SpawnNext /\ ~(SpawnCleanUp \/ SpawnRemove \/ SpawnCleaned)
  <2>1. /\ pc \notin {"none", "remove", "cleaning"} /\ pc' \notin {"remove", "cleaning"}
        /\ UNCHANGED <<cl, lpc, shutdown>>
    <3>1. CASE SpawnBegin \/ LoadThread \/ LoadState \/ WatchState
      BY <3>1 DEF SpawnBegin, LoadThread, LoadState, WatchState, SpawnFails, sharedVars, listenVars, cleanVars
    <3>2. CASE AttachContainer \/ RegisterThread
      BY <3>2 DEF AttachContainer, RegisterThread, sharedVars, listenVars, cleanVars
    <3>3. CASE SetInstanceState
      BY <3>3, SetsState DEF SetInstanceState, sharedVars, listenVars, cleanVars
    <3>4. CASE PullImage \/ CreateContainer \/ PauseContainer \/ ResumeContainer \/ RestartContainer
      BY <3>4 DEF PullImage, CreateContainer, PauseContainer, ResumeContainer, Quiesce, RestartContainer, sharedVars,
                  listenVars, cleanVars
    <3>5. CASE SaveState \/ WaitForEvent \/ HandleContainerExit
      BY <3>5 DEF SaveState, WaitForEvent, HandleContainerExit, SpawnFails, sharedVars, listenVars, cleanVars
    <3> QED
      BY <1>2, <3>1, <3>2, <3>3, <3>4, <3>5 DEF SpawnNext
  <2> QED
    BY <1>0, <2>1
<1>3. CASE ListenNext
  BY <1>0, <1>3 DEF ListenNext, ListenNodes, PostProcess, PostProcessed, ReapSpawn, ListenWake, Reconnect,
              BeginCleanUp, EndCleanUp, sharedVars, spawnVars, cleanVars
<1>4. CASE \E p \in Cleaners : Clean(p)
  <2>1. PICK p \in Cleaners : Clean(p)
    BY <1>4
  <2>2. /\ cl[p] # "idle" /\ UNCHANGED <<pc, lpc, shutdown>>
        /\ \E place \in {"exit", "delete", "done"} : cl' = [cl EXCEPT ![p] = place]
    BY <2>1 DEF Clean, CleanStop, CleanExit, CleanDelete, sharedVars, spawnVars, listenVars
  <2> QED
    BY <1>0, <2>2
<1>5. CASE WatchForShutdown \/ ShutdownComplete
  BY <1>0, <1>5 DEF WatchForShutdown, ShutdownComplete, BeginCleanUp, EndCleanUp, spawnVars, listenVars
<1>6. CASE AgentCrash
  BY <1>0, <1>6 DEF AgentCrash
<1>7. CASE ShutDown
  BY <1>7 DEF ShutDown, spawnVars, listenVars, cleanVars
<1>8. CASE Schedule \/ Unschedule \/ (\E d \in DesiredStates : SetDesired(d)) \/ LoseSession
  BY <1>8 DEF Schedule, Unschedule, SetDesired, LoseSession, sharedVars, spawnVars, listenVars, cleanVars
<1>9. CASE (\E c \in Containers : RestartStop(c)) \/ ContainerDies \/ UNCHANGED vars
  BY <1>9 DEF RestartStop, ContainerDies, vars, sharedVars, spawnVars, listenVars, cleanVars
<1> QED
  BY <1>1, <1>2, <1>3, <1>4, <1>5, <1>6, <1>7, <1>8, <1>9 DEF Next

-----------------------------------------------------------------------------
(* The container, its channel and its records                              *)

\* Every step keeps that Spawn has no container only where none runs.
LEMMA BeginsAloneStep ==
    ASSUME TypeOK, SpawnInPlace, BeginsAlone, [Next]_vars
    PROVE  BeginsAlone'
<1>0. running => ctr # 0
  BY DEF TypeOK, DockerTypes
<1> USE DEF BeginsAlone, MayBegin
<1>1. CASE SpawnBegin \/ LoadThread \/ LoadState \/ SaveState \/ WaitForEvent \/ HandleContainerExit
           \/ SpawnCleanUp \/ SpawnRemove \/ SpawnCleaned
  <2>1. pc' \notin MayBegin
    BY <1>1 DEF SpawnBegin, LoadThread, LoadState, SaveState, WaitForEvent, HandleContainerExit,
                SpawnCleanUp, SpawnRemove, SpawnCleaned, SpawnFails
  <2> QED
    BY <2>1
<1>2. CASE WatchState
  BY <1>2 DEF WatchState, SpawnFails
<1>3. CASE AttachContainer
  <2>1. CASE ctr = ssdat.ctr
    <3>1. pc' = "cleanup" \/ (UNCHANGED running /\ exit' = IF running THEN ctr ELSE 0)
      BY <1>3, <2>1 DEF AttachContainer
    <3> QED
      BY <1>0, <3>1
  <2>2. CASE ctr # ssdat.ctr
    BY <1>3, <2>2 DEF AttachContainer
  <2> QED
    BY <2>1, <2>2
<1>4. CASE RegisterThread \/ SetInstanceState \/ PullImage \/ RestartContainer
  <2>1. UNCHANGED <<exit, running>>
    BY <1>4 DEF RegisterThread, SetInstanceState, PullImage, RestartContainer, dockerVars
  <2>2. pc' \in MayBegin => pc \in MayBegin
    BY <1>4, SetsState DEF RegisterThread, SetInstanceState, PullImage, RestartContainer
  <2> QED
    BY <2>1, <2>2
<1>5. CASE CreateContainer \/ PauseContainer \/ ResumeContainer
  <2>1. pc' \notin MayBegin
    BY <1>5 DEF CreateContainer, PauseContainer, ResumeContainer, Quiesce
  <2> QED
    BY <2>1
<1>6. CASE OthersNext
  <2>1. UNCHANGED <<pc, exit>> /\ (running' = running \/ running' = FALSE)
    BY <1>6, OthersStep DEF ContainerStops
  <2> QED
    BY <2>1
<1>7. CASE ListenNodes \/ ReapSpawn \/ AgentCrash
  <2>1. running' = running /\ (UNCHANGED <<pc, exit>> \/ pc' \in {"begin", "none"})
    BY <1>7 DEF ListenNodes, ReapSpawn, AgentCrash, dockerVars
  <2> QED
    BY <2>1
<1> QED
  BY <1>1, <1>2, <1>3, <1>4, <1>5, <1>6, <1>7, SpawnOrOthers DEF SpawnNext

\* Every step keeps the channels to the containers they belong to.
LEMMA ChannelsStep ==
    ASSUME TypeOK, SpawnInPlace, ChannelsOK, AgreesWithList, [Next]_vars
    PROVE  ChannelsOK'
<1>0. /\ started \in Nat /\ ctr \in Nat /\ ctr <= started /\ exit \in Nat /\ thread.exited \in Nat
      /\ (running => ctr # 0) /\ (watched => running)
  BY LimitsAssumption DEF TypeOK, DockerTypes, AgentTypes, Threads, Channels
<1>1. NoThread.exited = 0 /\ 0 <= started
  BY <1>0 DEF NoThread
<1> USE DEF ChannelsOK, ChannelOf
<1>2. CASE OthersNext
  <2>1. CASE UNCHANGED <<ctr, running, watched, quiesced>>
    BY <1>1, <1>2, <2>1, OthersStep
  <2>2. CASE ContainerStops
    BY <1>1, <1>2, <2>2, OthersStep DEF ContainerStops
  <2> QED
    BY <1>2, <2>1, <2>2, OthersStep
<1>3. CASE ListenNodes \/ ReapSpawn \/ AgentCrash
  BY <1>1, <1>3 DEF ListenNodes, ReapSpawn, AgentCrash, dockerVars, sharedVars
<1>4. CASE LoadThread
  BY <1>4 DEF LoadThread, dockerVars, sharedVars
<1>5. CASE LoadState
  BY <1>5 DEF LoadState, dockerVars, sharedVars, SpawnInPlace
<1>6. CASE AttachContainer
  BY <1>0, <1>1, <1>6 DEF AttachContainer, sharedVars, SpawnInPlace
<1>7. CASE RegisterThread \/ HandleContainerExit
  BY <1>1, <1>7 DEF RegisterThread, HandleContainerExit, dockerVars
<1>8. CASE CreateContainer
  <2>1. exit = 0 /\ UNCHANGED thread
    BY <1>8 DEF CreateContainer, sharedVars, SpawnInPlace
  <2>2. \/ UNCHANGED <<ctr, running, watched, started, ssdat, exit>>
        \/ /\ started' = started + 1 /\ ctr' = started'
           /\ \/ UNCHANGED <<ssdat, exit>>
              \/ running' = TRUE /\ watched' = TRUE /\ exit' = started'
                 /\ ssdat' = [EmptyState EXCEPT !.ctr = started']
    BY <1>8 DEF CreateContainer
  <2>3. [EmptyState EXCEPT !.ctr = started'].ctr = started'
    BY DEF EmptyState
  <2>4. CASE UNCHANGED <<ctr, running, watched, started, ssdat, exit>>
    BY <2>1, <2>4
  <2>5. CASE /\ started' = started + 1 /\ ctr' = started'
             /\ UNCHANGED <<ssdat, exit>>
    BY <1>0, <2>1, <2>5
  <2>6. CASE /\ started' = started + 1 /\ ctr' = started'
             /\ running' = TRUE /\ watched' = TRUE /\ exit' = started'
             /\ ssdat' = [EmptyState EXCEPT !.ctr = started']
    BY <1>0, <2>1, <2>3, <2>6
  <2> QED
    BY <2>2, <2>4, <2>5, <2>6
<1>9. CASE PauseContainer \/ ResumeContainer \/ RestartContainer
  BY <1>9 DEF PauseContainer, ResumeContainer, Quiesce, RestartContainer, sharedVars, TypeOK, AgentTypes, ServiceStates
<1>10. CASE Quiet \/ SpawnCleanUp \/ SpawnRemove \/ SpawnCleaned
  BY <1>1, <1>10, QuietStep DEF SpawnCleanUp, SpawnRemove, SpawnCleaned, dockerVars, sharedVars
<1> QED
  BY <1>2, <1>3, <1>4, <1>5, <1>6, <1>7, <1>8, <1>9, <1>10, SpawnOrOthers DEF SpawnNext, Quiet

\* Every step keeps Spawn in agreement with the thread list.
LEMMA AgreesWithListStep ==
    ASSUME TypeOK, PlacesOK, ChannelsOK, AgreesWithList, [Next]_vars
    PROVE  AgreesWithList'
<1> USE DEF AgreesWithList, Registered
<1>1. CASE LoadThread
  BY <1>1 DEF LoadThread, sharedVars
<1>2. CASE LoadState
  BY <1>2 DEF LoadState, SpawnFails, sharedVars
<1>3. CASE AttachContainer
  BY <1>3 DEF AttachContainer, sharedVars
<1>4. CASE RegisterThread \/ HandleContainerExit
  BY <1>4 DEF RegisterThread, HandleContainerExit, SpawnFails
<1>5. CASE CreateContainer \/ PauseContainer \/ ResumeContainer \/ RestartContainer
  BY <1>5 DEF CreateContainer, PauseContainer, ResumeContainer, Quiesce, RestartContainer, sharedVars
<1>6. CASE SpawnBegin \/ WatchState \/ PullImage \/ SaveState \/ WaitForEvent
  BY <1>6 DEF SpawnBegin, WatchState, PullImage, SaveState, WaitForEvent, SpawnFails, sharedVars
<1>7. CASE SetInstanceState
  BY <1>7, SetsState DEF SetInstanceState, sharedVars, PlacesOK
<1>8. CASE SpawnCleanUp \/ SpawnRemove \/ SpawnCleaned
  BY <1>8 DEF SpawnCleanUp, SpawnRemove, SpawnCleaned, sharedVars
<1>9. CASE ListenNodes \/ ReapSpawn \/ AgentCrash
  BY <1>9 DEF ListenNodes, ReapSpawn, AgentCrash, sharedVars
<1>10. CASE PostProcess \/ WatchForShutdown
  BY <1>10 DEF PostProcess, WatchForShutdown, BeginCleanUp, spawnVars
<1>11. CASE OthersNext /\ ~(PostProcess \/ WatchForShutdown)
  <2>1. UNCHANGED <<pc, exit, thread>> /\ (shutdown => shutdown')
    <3>1. CASE PostProcessed \/ ListenWake \/ Reconnect
      BY <3>1 DEF PostProcessed, ListenWake, Reconnect, sharedVars, spawnVars
    <3>2. CASE (\E p \in Cleaners : Clean(p)) \/ (\E c \in Containers : RestartStop(c)) \/ ContainerDies
      BY <3>2 DEF Clean, CleanStop, CleanExit, CleanDelete, RestartStop, ContainerDies, sharedVars, spawnVars
    <3>3. CASE ShutDown \/ ShutdownComplete
      BY <3>3 DEF ShutDown, ShutdownComplete, spawnVars
    <3>4. CASE Schedule \/ Unschedule \/ (\E d \in DesiredStates : SetDesired(d)) \/ LoseSession
      BY <3>4 DEF Schedule, Unschedule, SetDesired, LoseSession, sharedVars, spawnVars
    <3>5. CASE UNCHANGED vars
      BY <3>5 DEF vars
    <3> QED
      BY <1>11, <3>1, <3>2, <3>3, <3>4, <3>5 DEF OthersNext
  <2> QED
    BY <2>1
<1> QED
  BY <1>1, <1>2, <1>3, <1>4, <1>5, <1>6, <1>7, <1>8, <1>9, <1>10, <1>11, SpawnOrOthers DEF SpawnNext

\* Every step keeps Spawn in agreement with the coordinator.
LEMMA AgreesWithCoordinatorStep ==
    ASSUME TypeOK, SpawnInPlace, AgreesWithCoordinator, [Next]_vars
    PROVE  AgreesWithCoordinator'
<1> USE DEF AgreesWithCoordinator, Stored
<1>1. CASE LoadThread \/ LoadState
  BY <1>1 DEF LoadThread, LoadState, SpawnFails, zkVars
<1>2. CASE SpawnBegin \/ WatchState \/ AttachContainer \/ RegisterThread \/ PullImage
  BY <1>2 DEF SpawnBegin, WatchState, AttachContainer, RegisterThread, PullImage, SpawnFails, zkVars
<1>3. CASE SetInstanceState
  BY <1>3, SetsState DEF SetInstanceState, zkVars
<1>4. CASE CreateContainer \/ PauseContainer \/ ResumeContainer \/ RestartContainer
  BY <1>4 DEF CreateContainer, PauseContainer, ResumeContainer, Quiesce, RestartContainer
<1>5. CASE SaveState \/ WaitForEvent \/ HandleContainerExit
  BY <1>5 DEF SaveState, WaitForEvent, HandleContainerExit, SpawnFails, zkVars
<1>6. CASE SpawnCleanUp \/ SpawnRemove \/ SpawnCleaned \/ ListenNodes \/ ReapSpawn \/ AgentCrash
  BY <1>6 DEF SpawnCleanUp, SpawnRemove, SpawnCleaned, ListenNodes, ReapSpawn, AgentCrash, zkVars
<1>7. CASE OthersNext
  <2>1. UNCHANGED <<pc, ssdat>>
    BY <1>7, OthersStep
  <2>2. zkdat' \in {zkdat, EmptyState}
    <3>1. CASE PostProcess \/ PostProcessed \/ ListenWake \/ Reconnect
      BY <3>1 DEF PostProcess, PostProcessed, ListenWake, Reconnect, zkVars
    <3>2. CASE (\E p \in Cleaners : Clean(p)) \/ (\E c \in Containers : RestartStop(c)) \/ ContainerDies
      BY <3>2 DEF Clean, CleanStop, CleanExit, CleanDelete, RestartStop, ContainerDies, zkVars
    <3>3. CASE ShutDown \/ WatchForShutdown \/ ShutdownComplete
      BY <3>3 DEF ShutDown, WatchForShutdown, ShutdownComplete, zkVars
    <3>4. CASE Schedule \/ Unschedule \/ (\E d \in DesiredStates : SetDesired(d)) \/ LoseSession
      BY <3>4 DEF Schedule, Unschedule, SetDesired, LoseSession
    <3>5. CASE UNCHANGED vars
      BY <3>5 DEF vars
    <3> QED
      BY <1>7, <3>1, <3>2, <3>3, <3>4, <3>5 DEF OthersNext
  <2> QED
    BY <2>1, <2>2
<1> QED
  BY <1>1, <1>2, <1>3, <1>4, <1>5, <1>6, <1>7, SpawnOrOthers DEF SpawnNext

-----------------------------------------------------------------------------
(* Who has charge of a container that runs                                 *)

\* Only CreateContainer starts a container, and only while no cleaner is at work.
LEMMA RunsOnlyCreated ==
    ASSUME TypeOK, [Next]_vars, running', ~running
    PROVE  CreateContainer
<1>1. CASE OthersNext
  BY <1>1, OthersStep DEF ContainerStops
<1>2. CASE ListenNodes \/ ReapSpawn \/ AgentCrash
  BY <1>2 DEF ListenNodes, ReapSpawn, AgentCrash, dockerVars
<1>3. CASE LoadThread \/ LoadState \/ RegisterThread \/ PauseContainer \/ ResumeContainer \/ RestartContainer
           \/ HandleContainerExit \/ SpawnCleanUp \/ SpawnRemove \/ SpawnCleaned
  BY <1>3 DEF LoadThread, LoadState, RegisterThread, PauseContainer, ResumeContainer, RestartContainer,
              HandleContainerExit, SpawnCleanUp, SpawnRemove, SpawnCleaned, dockerVars
<1>4. CASE AttachContainer
  BY <1>4 DEF AttachContainer
<1>5. CASE Quiet
  BY <1>5, QuietStep DEF dockerVars
<1> QED
  BY <1>1, <1>2, <1>3, <1>4, <1>5, SpawnOrOthers DEF SpawnNext, Quiet

\* A shutdown is never called off.
LEMMA ShutdownStays ==
    ASSUME [Next]_vars, shutdown
    PROVE  shutdown'
<1>1. CASE SpawnNext
  BY <1>1 DEF SpawnNext, SpawnBegin, LoadThread, LoadState, WatchState, AttachContainer, RegisterThread,
              SetInstanceState, PullImage, CreateContainer, PauseContainer, ResumeContainer, RestartContainer,
              SaveState, WaitForEvent, HandleContainerExit, SpawnCleanUp, SpawnRemove, SpawnCleaned, sharedVars
<1>2. CASE ListenNext
  BY <1>2 DEF ListenNext, ListenNodes, PostProcess, PostProcessed, ReapSpawn, ListenWake, Reconnect, sharedVars
<1>3. CASE (\E p \in Cleaners : Clean(p)) \/ (\E c \in Containers : RestartStop(c)) \/ ContainerDies
  BY <1>3 DEF Clean, CleanStop, CleanExit, CleanDelete, RestartStop, ContainerDies, sharedVars
<1>4. CASE ShutDown \/ WatchForShutdown \/ ShutdownComplete \/ LoseSession \/ AgentCrash
  BY <1>4 DEF ShutDown, WatchForShutdown, ShutdownComplete, LoseSession, AgentCrash, sharedVars
<1>5. CASE Schedule \/ Unschedule \/ (\E d \in DesiredStates : SetDesired(d)) \/ UNCHANGED vars
  BY <1>5 DEF Schedule, Unschedule, SetDesired, sharedVars, vars
<1> QED
  BY <1>1, <1>2, <1>3, <1>4, <1>5 DEF Next

\* A cleaner gets past the container only by CleanStop, or if there was nothing to stop.
LEMMA CleanerMoves ==
    ASSUME TypeOK, [Next]_vars, NEW p \in Cleaners,
           cl'[p] \in {"exit", "delete", "done"}, cl[p] \notin {"exit", "delete", "done"}
    PROVE  CleanStop(p) \/ WatchForShutdown
<1>0. cl \in [Cleaners -> {"idle", "stop", "exit", "delete", "done"}]
  BY DEF TypeOK, AgentTypes
<1> USE DEF cleanVars
<1>1. CASE SpawnNext
  BY <1>0, <1>1 DEF SpawnNext, SpawnBegin, LoadThread, LoadState, WatchState, AttachContainer, RegisterThread,
              SetInstanceState, PullImage, CreateContainer, PauseContainer, ResumeContainer, RestartContainer,
              SaveState, WaitForEvent, HandleContainerExit, SpawnCleanUp, SpawnRemove, SpawnCleaned, EndCleanUp
<1>2. CASE ListenNext
  BY <1>0, <1>2 DEF ListenNext, ListenNodes, PostProcess, PostProcessed, ReapSpawn, ListenWake, Reconnect,
              BeginCleanUp, EndCleanUp
<1>3. CASE \E q \in Cleaners : Clean(q)
  <2>1. PICK q \in Cleaners : Clean(q)
    BY <1>3
  <2>2. CASE q = p
    BY <1>0, <2>1, <2>2 DEF Clean, CleanExit, CleanDelete
  <2>3. CASE q # p
    BY <1>0, <2>1, <2>3 DEF Clean, CleanStop, CleanExit, CleanDelete
  <2> QED
    BY <2>2, <2>3
<1>4. CASE (\E c \in Containers : RestartStop(c)) \/ ContainerDies \/ LoseSession \/ AgentCrash
  BY <1>4 DEF RestartStop, ContainerDies, LoseSession, AgentCrash
<1>5. CASE ShutDown \/ ShutdownComplete \/ UNCHANGED vars
  BY <1>0, <1>5 DEF ShutDown, ShutdownComplete, EndCleanUp, vars
<1>6. CASE Schedule \/ Unschedule \/ (\E d \in DesiredStates : SetDesired(d))
  BY <1>6 DEF Schedule, Unschedule, SetDesired
<1> QED
  BY <1>1, <1>2, <1>3, <1>4, <1>5, <1>6 DEF Next

\* Every step keeps stopped what a cleaner has stopped.
LEMMA CleanedUpStep ==
    ASSUME TypeOK, CleanersInPlace, CleanedUp, [Next]_vars
    PROVE  CleanedUp'
<1> SUFFICES ASSUME StopsWork, ~shutdown', NEW p \in Cleaners, cl'[p] \in {"exit", "delete", "done"}
             PROVE  ~running'
  BY DEF CleanedUp
<1>1. ~shutdown
  BY ShutdownStays
<1>2. CASE cl[p] \in {"exit", "delete", "done"}
  <2>1. ~running
    BY <1>1, <1>2 DEF CleanedUp
  <2>2. ASSUME running' PROVE FALSE
    <3>1. pc = "create"
      BY <2>1, <2>2, RunsOnlyCreated DEF CreateContainer
    <3> QED
      BY <1>1, <1>2, <3>1 DEF CleanersInPlace, Cleaners
  <2> QED
    BY <2>2
<1>3. CASE cl[p] \notin {"exit", "delete", "done"}
  <2>1. CleanStop(p)
    BY <1>1, <1>3, CleanerMoves DEF WatchForShutdown
  <2>2. CASE running
    BY <2>1, <2>2 DEF CleanStop, ContainerStops, Fault, StopsWork
  <2>3. CASE ~running
    BY <2>1, <2>3 DEF CleanStop
  <2> QED
    BY <2>2, <2>3
<1> QED
  BY <1>2, <1>3

\* A container that runs before and after a step that starts none is the same one.
LEMMA RunsOn ==
    ASSUME TypeOK, [Next]_vars, running, running', ~CreateContainer
    PROVE  UNCHANGED ctr
<1>1. CASE OthersNext
  BY <1>1, OthersStep DEF ContainerStops
<1>2. CASE ListenNodes \/ ReapSpawn \/ AgentCrash
  BY <1>2 DEF ListenNodes, ReapSpawn, AgentCrash, dockerVars
<1>3. CASE LoadThread \/ LoadState \/ RegisterThread \/ PauseContainer \/ ResumeContainer \/ RestartContainer
           \/ HandleContainerExit \/ SpawnCleanUp \/ SpawnRemove \/ SpawnCleaned
  BY <1>3 DEF LoadThread, LoadState, RegisterThread, PauseContainer, ResumeContainer, RestartContainer,
              HandleContainerExit, SpawnCleanUp, SpawnRemove, SpawnCleaned, dockerVars
<1>4. CASE AttachContainer
  BY <1>4 DEF AttachContainer
<1>5. CASE Quiet
  BY <1>5, QuietStep DEF dockerVars
<1> QED
  BY <1>1, <1>2, <1>3, <1>4, <1>5, SpawnOrOthers DEF SpawnNext, Quiet

\* Every step that Spawn takes leaves somebody in charge of a container that runs.
LEMMA AccountedSpawnStep ==
    ASSUME TypeOK, PlacesOK, AgreesWithList, CleanedUp, Accounted, StopsWork, ~shutdown, running, running',
           UNCHANGED ctr, SpawnNext, ~CreateContainer
    PROVE  Accounted'
<1>0. ctr # 0 /\ DOMAIN cl = Cleaners /\ "spawn" \in Cleaners
  BY DEF TypeOK, DockerTypes, AgentTypes, Cleaners
<1>1. \A p \in Cleaners : cl[p] \in {"idle", "stop"}
  BY DEF CleanedUp, TypeOK, AgentTypes
<1>2. \/ thread.exited = ctr /\ pc \notin {"registerAttach", "register"}
      \/ pc = "register" /\ exit = ctr
      \/ pc \in {"cleanup", "remove", "cleaning"}
  <2>1. pc # "none"
    BY DEF SpawnNext, SpawnBegin, LoadThread, LoadState, WatchState, AttachContainer, RegisterThread,
           SetInstanceState, PullImage, CreateContainer, PauseContainer, ResumeContainer, RestartContainer,
           SaveState, WaitForEvent, HandleContainerExit, SpawnCleanUp, SpawnRemove, SpawnCleaned
  <2> QED
    BY <2>1 DEF Accounted, PlacesOK, CleanersInPlace
<1> USE DEF Accounted
<1>3. CASE SpawnBegin \/ LoadThread \/ LoadState \/ WatchState \/ SetInstanceState \/ PullImage \/ SaveState
           \/ WaitForEvent \/ RestartContainer
  <2>1. /\ pc \notin {"register", "cleanup", "remove", "cleaning"} /\ pc' \notin {"registerAttach", "register"}
        /\ UNCHANGED thread
    BY <1>3, SetsState DEF SpawnBegin, LoadThread, LoadState, WatchState, SetInstanceState, PullImage, SaveState,
              WaitForEvent, RestartContainer, SpawnFails, sharedVars, PlacesOK
  <2> QED
    BY <1>2, <2>1
<1>4. CASE AttachContainer \/ HandleContainerExit
  <2>1. pc \in {"attach", "exited"} /\ thread.exited = exit /\ (pc = "attach" => exit = 0) /\ (pc = "exited" => ctr # exit)
    BY <1>4 DEF AttachContainer, HandleContainerExit, AgreesWithList, Registered, PlacesOK, SpawnInPlace
  <2> QED
    BY <1>0, <1>2, <2>1
<1>5. CASE RegisterThread
  <2>1. exit = ctr
    BY <1>2, <1>5 DEF RegisterThread, AgreesWithList, Registered
  <2>2. thread'.exited = exit /\ pc' \in {"act", "save", "saveRestart"}
    BY <1>5 DEF RegisterThread
  <2> QED
    BY <2>1, <2>2
<1>6. CASE PauseContainer \/ ResumeContainer
  <2>1. thread.exited = exit /\ thread.exited = ctr
    BY <1>2, <1>6 DEF PauseContainer, ResumeContainer, AgreesWithList, Registered
  <2>2. pc' \in {"register", "cleanup"} /\ UNCHANGED exit
    BY <1>6 DEF PauseContainer, ResumeContainer, Quiesce
  <2> QED
    BY <2>1, <2>2
<1>7. CASE SpawnCleanUp
  BY <1>0, <1>7 DEF SpawnCleanUp, TypeOK, AgentTypes
<1>8. CASE SpawnRemove
  BY <1>0, <1>1, <1>8 DEF SpawnRemove, PlacesOK, CleanersInPlace, cleanVars
<1>9. CASE SpawnCleaned
  BY <1>0, <1>1, <1>9 DEF SpawnCleaned, EndCleanUp
<1> QED
  BY <1>3, <1>4, <1>5, <1>6, <1>7, <1>8, <1>9 DEF SpawnNext

\* Unless the agent crashes, every step leaves somebody in charge of a container that runs.
LEMMA AccountedStep ==
    ASSUME TypeOK, PlacesOK, AgreesWithList, CleanedUp, AllAccounted, [Next]_vars
    PROVE  AllAccounted'
<1> SUFFICES ASSUME Steady, ~shutdown', running'
             PROVE  Accounted'
  BY DEF AllAccounted, Accounted
<1>0. ~shutdown /\ StopsWork /\ Accounted
  BY ShutdownStays DEF AllAccounted, Steady
<1>1. CASE CreateContainer
  BY <1>1 DEF CreateContainer, Accounted
<1>2. CASE ~CreateContainer
  <2>0. running /\ UNCHANGED ctr /\ ctr # 0 /\ DOMAIN cl = Cleaners
    BY <1>2, RunsOnlyCreated, RunsOn DEF TypeOK, DockerTypes, AgentTypes
  <2>1. \A p \in Cleaners : cl[p] \in {"idle", "stop"}
    BY <1>0, <2>0 DEF CleanedUp, TypeOK, AgentTypes
  <2>2. CASE SpawnNext
    BY <1>0, <1>2, <2>0, <2>2, AccountedSpawnStep
  <2>3. CASE PostProcess
    BY <1>0, <2>0, <2>3 DEF PostProcess, BeginCleanUp, Accounted, spawnVars, cleanVars, Cleaners
  <2>4. CASE PostProcessed \/ ShutdownComplete
    BY <2>0, <2>1, <2>4 DEF PostProcessed, ShutdownComplete, EndCleanUp, Cleaners
  <2>5. CASE ListenNodes \/ ReapSpawn \/ ListenWake \/ Reconnect
    BY <1>0, <2>0, <2>5 DEF ListenNodes, ReapSpawn, ListenWake, Reconnect, Accounted, sharedVars, spawnVars, cleanVars
  <2>6. CASE \E p \in Cleaners : Clean(p)
    <3>1. PICK p \in Cleaners : CleanStop(p)
      BY <2>1, <2>6 DEF Clean, CleanExit, CleanDelete
    <3> QED
      BY <1>0, <2>0, <3>1 DEF CleanStop, ContainerStops, Fault, StopsWork
  <2>7. CASE AgentCrash \/ ShutDown \/ WatchForShutdown
    BY <1>0, <2>7 DEF AgentCrash, ShutDown, WatchForShutdown, Fault, Steady
  <2>8. CASE (\E c \in Containers : RestartStop(c)) \/ ContainerDies
    BY <1>0, <2>0, <2>8 DEF RestartStop, ContainerDies, Accounted, sharedVars, spawnVars, cleanVars
  <2>9. CASE Schedule \/ Unschedule \/ (\E d \in DesiredStates : SetDesired(d)) \/ LoseSession \/ UNCHANGED vars
    BY <1>0, <2>0, <2>9 DEF Schedule, Unschedule, SetDesired, LoseSession, Accounted, vars, sharedVars, spawnVars,
                  cleanVars
  <2> QED
    BY <2>2, <2>3, <2>4, <2>5, <2>6, <2>7, <2>8, <2>9 DEF Next, ListenNext
<1> QED
  BY <1>1, <1>2

\* Every step of Listen and of Spawn keeps the thread list empty where PostProcess has emptied it.
LEMMA ListEmptiedStep ==
    ASSUME TypeOK, PlacesOK, ListEmptied, [Next]_vars
    PROVE  ListEmptied'
<1>0. NoThread.live = FALSE
  BY DEF NoThread
<1> USE DEF ListEmptied
<1>1. CASE SpawnNext
  <2>1. CASE SetInstanceState
    BY <2>1, SetsState DEF SetInstanceState, sharedVars, listenVars, PlacesOK
  <2>2. CASE ~SetInstanceState
    <3>1. pc # "none" /\ UNCHANGED lpc /\ pc' # "none"
      BY <1>1, <2>2 DEF SpawnNext, SpawnBegin, LoadThread, LoadState, WatchState, AttachContainer, RegisterThread,
              PullImage, CreateContainer, PauseContainer, ResumeContainer, Quiesce, RestartContainer,
              SaveState, WaitForEvent, HandleContainerExit, SpawnCleanUp, SpawnRemove, SpawnCleaned, SpawnFails, listenVars
    <3> QED
      BY <3>1 DEF PlacesOK, CleanersInPlace
  <2> QED
    BY <2>1, <2>2
<1>2. CASE PostProcess \/ PostProcessed
  BY <1>0, <1>2 DEF PostProcess, PostProcessed, BeginCleanUp, spawnVars
<1>3. CASE ListenNodes \/ ReapSpawn \/ ListenWake \/ Reconnect
  BY <1>3 DEF ListenNodes, ReapSpawn, ListenWake, Reconnect, sharedVars, spawnVars
<1>4. CASE (\E p \in Cleaners : Clean(p)) \/ (\E c \in Containers : RestartStop(c)) \/ ContainerDies
  BY <1>4 DEF Clean, CleanStop, CleanExit, CleanDelete, RestartStop, ContainerDies, sharedVars, spawnVars, listenVars
<1>5. CASE ShutDown \/ WatchForShutdown \/ ShutdownComplete \/ AgentCrash
  BY <1>0, <1>5 DEF ShutDown, WatchForShutdown, ShutdownComplete, AgentCrash, BeginCleanUp, spawnVars, listenVars
<1>6. CASE Schedule \/ Unschedule \/ (\E d \in DesiredStates : SetDesired(d)) \/ LoseSession \/ UNCHANGED vars
  BY <1>6 DEF Schedule, Unschedule, SetDesired, LoseSession, vars, sharedVars, spawnVars, listenVars
<1> QED
  BY <1>1, <1>2, <1>3, <1>4, <1>5, <1>6 DEF Next, ListenNext

\* Unless the service cannot be looked up, every step keeps what is recorded of a pause true.
LEMMA PausesStep ==
    ASSUME TypeOK, PlacesOK, BeginsAlone, ChannelsOK, AgreesWithList, CleanedUp, AllAccounted, PausesTrue, [Next]_vars
    PROVE  PausesTrue'
<1> SUFFICES ASSUME Steady, "lookup" \notin FaultKinds, ~shutdown'
             PROVE  /\ exit' # 0 /\ ctr' = exit' => ssdat'.paused = quiesced'
                    /\ thread'.exited # 0 /\ ctr' = thread'.exited /\ pc' # "register" => thread'.data.paused = quiesced'
  BY DEF PausesTrue
<1>0. ~shutdown /\ StopsWork
  BY ShutdownStays DEF Steady
<1>1. /\ exit # 0 /\ ctr = exit => ssdat.paused = quiesced
      /\ thread.exited # 0 /\ ctr = thread.exited /\ pc # "register" => thread.data.paused = quiesced
  BY <1>0 DEF PausesTrue
<1>2. /\ exit # 0 /\ ctr = exit => running /\ watched
      /\ thread.exited # 0 /\ ctr = thread.exited => running /\ watched
      /\ exit <= started /\ thread.exited <= started
  BY DEF ChannelsOK, ChannelOf
<1>3. NoThread.exited = 0 /\ EmptyState.paused = FALSE
  BY DEF NoThread, EmptyState
<1>4. CASE OthersNext
  <2>1. CASE UNCHANGED <<ctr, running, watched, quiesced>>
    BY <1>1, <1>3, <1>4, <2>1, OthersStep
  <2>2. CASE ContainerStops
    BY <1>1, <1>2, <1>3, <1>4, <2>2, OthersStep DEF ContainerStops
  <2> QED
    BY <1>4, <2>1, <2>2, OthersStep
<1>5. CASE ListenNodes \/ ReapSpawn \/ AgentCrash
  BY <1>1, <1>3, <1>5 DEF ListenNodes, ReapSpawn, AgentCrash, dockerVars, sharedVars
<1>6. CASE LoadThread
  BY <1>1, <1>6 DEF LoadThread, dockerVars, sharedVars
<1>7. CASE LoadState
  BY <1>1, <1>7 DEF LoadState, dockerVars, sharedVars, PlacesOK, SpawnInPlace
<1>8. CASE AttachContainer
  <2>1. ~running /\ exit = 0
    BY <1>0, <1>8 DEF AttachContainer, PlacesOK, SpawnInPlace, CleanersInPlace, AllAccounted, Accounted,
                AgreesWithList, Registered, TypeOK, DockerTypes
  <2>2. exit' = 0 /\ UNCHANGED thread /\ (ctr' = 0 \/ UNCHANGED <<ctr, quiesced>>) /\ pc # "register"
    BY <1>8, <2>1 DEF AttachContainer, sharedVars
  <2> QED
    BY <1>1, <2>2
<1>9. CASE RegisterThread
  <2>1. UNCHANGED <<ctr, quiesced, exit, ssdat>> /\ thread'.exited = exit /\ thread'.data = ssdat
    BY <1>0, <1>9 DEF RegisterThread, dockerVars
  <2> QED
    BY <1>1, <2>1
<1>10. CASE HandleContainerExit
  BY <1>0, <1>1, <1>10 DEF HandleContainerExit, dockerVars
<1>11. CASE CreateContainer
  <2>1. exit = 0 /\ UNCHANGED thread /\ pc = "create"
    BY <1>11 DEF CreateContainer, sharedVars, PlacesOK, SpawnInPlace
  <2>2. \/ UNCHANGED <<ctr, quiesced, ssdat, exit>>
        \/ /\ started' = started + 1 /\ ctr' = started' /\ quiesced' = FALSE
           /\ UNCHANGED exit \/ ssdat' = [EmptyState EXCEPT !.ctr = started']
    BY <1>11 DEF CreateContainer
  <2>3. [EmptyState EXCEPT !.ctr = started'].paused = FALSE
    BY DEF EmptyState
  <2>4. started \in Nat /\ thread.exited \in Nat
    BY LimitsAssumption DEF TypeOK, DockerTypes, AgentTypes, Threads, Channels
  <2>5. CASE UNCHANGED <<ctr, quiesced, ssdat, exit>>
    BY <1>1, <2>1, <2>5
  <2>6. CASE /\ started' = started + 1 /\ ctr' = started' /\ quiesced' = FALSE
             /\ UNCHANGED exit \/ ssdat' = [EmptyState EXCEPT !.ctr = started']
    <3>1. thread'.exited # ctr'
      BY <1>2, <2>1, <2>4, <2>6
    <3>2. exit' # 0 => ssdat'.paused = FALSE
      BY <2>1, <2>3, <2>6
    <3> QED
      BY <2>6, <3>1, <3>2
  <2> QED
    BY <2>2, <2>5, <2>6
<1>12. CASE PauseContainer \/ ResumeContainer
  <2>1. PICK to \in BOOLEAN : Quiesce(to)
    BY <1>12 DEF PauseContainer, ResumeContainer
  <2>2. UNCHANGED <<ctr, thread, exit>> /\ pc # "register"
    BY <1>12 DEF PauseContainer, ResumeContainer, sharedVars
  <2>3. CASE pc' = "register" /\ ssdat' = [ssdat EXCEPT !.paused = to] /\ (running => quiesced' = to)
    <3>1. ssdat'.paused = to
      BY <2>3 DEF TypeOK, AgentTypes, ServiceStates
    <3> QED
      BY <1>2, <2>2, <2>3, <3>1
  <2>4. CASE UNCHANGED <<quiesced, ssdat>>
    BY <1>1, <2>2, <2>4
  <2> QED
    BY <2>1, <2>3, <2>4 DEF Quiesce, Fault
<1>13. CASE RestartContainer
  <2>1. UNCHANGED <<ctr, quiesced, exit, thread>> /\ pc # "register" /\ ssdat' \in {ssdat, [ssdat EXCEPT !.restarted = TRUE]}
    BY <1>13 DEF RestartContainer, sharedVars
  <2>2. ssdat'.paused = ssdat.paused
    BY <2>1 DEF TypeOK, AgentTypes, ServiceStates
  <2> QED
    BY <1>1, <2>1, <2>2
<1>14. CASE SpawnBegin \/ WatchState \/ SetInstanceState \/ PullImage \/ SaveState \/ WaitForEvent
  <2>1. pc # "register"
    BY <1>14 DEF SpawnBegin, WatchState, SetInstanceState, PullImage, SaveState, WaitForEvent
  <2> QED
    BY <1>1, <1>14, <2>1, QuietStep DEF Quiet, dockerVars
<1>15. CASE SpawnCleanUp \/ SpawnRemove \/ SpawnCleaned
  BY <1>1, <1>3, <1>15 DEF SpawnCleanUp, SpawnRemove, SpawnCleaned, dockerVars, sharedVars
<1> QED
  BY <1>4, <1>5, <1>6, <1>7, <1>8, <1>9, <1>10, <1>11, <1>12, <1>13, <1>14, <1>15, SpawnOrOthers DEF SpawnNext

-----------------------------------------------------------------------------
(* The theorems                                                            *)

\* The invariant holds in every reachable state.
LEMMA HostInvariance == Spec => []HostInv
<1>1. Init => HostInv
  <2> SUFFICES ASSUME Init PROVE HostInv
    OBVIOUS
  <2> USE DEF Init, EmptyState, NoThread
  <2>1. TypeOK
    <3>1. 0 \in Channels /\ EmptyState \in ServiceStates /\ NoThread \in Threads
      BY LimitsAssumption DEF ServiceStates, Threads, Channels
    <3>2. CoordinatorTypes /\ BoundTypes
      BY <3>1, LimitsAssumption DEF CoordinatorTypes, BoundTypes
    <3>3. DockerTypes
      <4>1. ctr \in Channels /\ started \in Channels /\ ctr <= started /\ restarting \subseteq Containers
        BY <3>1
      <4> QED
        BY <4>1 DEF DockerTypes
    <3>4. AgentTypes
      BY <3>1 DEF AgentTypes
    <3> QED
      BY <3>2, <3>3, <3>4 DEF TypeOK
  <2>2. PlacesOK /\ BeginsAlone /\ RecordsOK /\ CleanedUp /\ AllAccounted /\ ListEmptied
    BY DEF PlacesOK, SpawnInPlace, CleanersInPlace, HasRead, BeginsAlone, MayBegin, RecordsOK, AgreesWithList,
           AgreesWithCoordinator, Stored, CleanedUp, AllAccounted, Accounted, ListEmptied, Cleaners
  <2>3. ChannelsOK /\ PausesTrue
    BY DEF ChannelsOK, ChannelOf, PausesTrue
  <2> QED
    BY <2>1, <2>2, <2>3 DEF HostInv
<1>2. HostInv /\ [Next]_vars => HostInv'
  <2> SUFFICES ASSUME HostInv, [Next]_vars PROVE HostInv'
    OBVIOUS
  <2> USE DEF HostInv
  <2>1. TypeOK' /\ PlacesOK'
    BY TypesStep, SpawnPlacesStep, CleanersStep DEF PlacesOK
  <2>2. BeginsAlone' /\ ChannelsOK' /\ RecordsOK'
    BY BeginsAloneStep, ChannelsStep, AgreesWithListStep, AgreesWithCoordinatorStep DEF PlacesOK, RecordsOK
  <2>3. CleanedUp' /\ AllAccounted' /\ ListEmptied'
    BY CleanedUpStep, AccountedStep, ListEmptiedStep DEF PlacesOK, RecordsOK
  <2>4. PausesTrue'
    BY PausesStep DEF RecordsOK
  <2> QED
    BY <2>1, <2>2, <2>3, <2>4
<1> QED
  BY <1>1, <1>2, PTL DEF Spec

\* Every variable has its type.
THEOREM HostTypeCorrect == Spec => []TypeOK
<1>1. HostInv => TypeOK
  BY DEF HostInv
<1> QED
  BY <1>1, HostInvariance, PTL

\* What the thread list and ZooKeeper say of a container at rest is true of it, whatever fails
\* and however often the agent crashes or is shut down.
THEOREM RecordsStayTrue == Spec => []RecordsAreTrue
<1>1. HostInv => RecordsAreTrue
  BY DEF HostInv, ChannelsOK, ChannelOf, RecordsOK, AgreesWithList, AgreesWithCoordinator, Registered, Stored,
         RecordsAreTrue, StoredStateNotStale, ThreadKnowsContainer, Settled, Exited
<1> QED
  BY <1>1, HostInvariance, PTL

\* If StopContainer does not fail, and before the agent is told to shut down, a container is
\* never started beside the previous one, nor its state deleted while it runs.
THEOREM OneAtATime ==
    ASSUME "stop" \notin FaultKinds, ~MayShutDown
    PROVE  Spec => []OneContainerAtATime
<1>1. HostInv => OneContainerAtATime
  BY DEF HostInv, PlacesOK, SpawnInPlace, CleanersInPlace, BeginsAlone, MayBegin, CleanedUp, StopsWork,
         OneContainerAtATime, StartsAlone, StateOutlivesContainer
<1> QED
  BY <1>1, HostInvariance, PTL

\* If the agent process does not crash either, it leaves no container without a state.
THEOREM LeavesNoOrphan ==
    ASSUME "stop" \notin FaultKinds, "crash" \notin FaultKinds, ~MayShutDown
    PROVE  Spec => []NoOrphan
<1>1. HostInv => NoOrphan
  <2> SUFFICES ASSUME HostInv, lpc = "wait", pc = "none", running PROVE FALSE
    BY DEF NoOrphan
  <2>1. Accounted /\ ~thread.live
    BY DEF HostInv, PlacesOK, CleanersInPlace, AllAccounted, Steady, StopsWork, ListEmptied
  <2>2. thread.exited = 0 /\ ctr # 0 /\ cl["listen"] = "idle"
    BY <2>1 DEF HostInv, ChannelsOK, PlacesOK, CleanersInPlace, TypeOK, DockerTypes
  <2> QED
    BY <2>1, <2>2 DEF Accounted
<1> QED
  BY <1>1, HostInvariance, PTL

\* If the service can always be looked up as well, a container recorded as paused is paused.
THEOREM PausedIsQuiesced ==
    ASSUME "stop" \notin FaultKinds, "crash" \notin FaultKinds, "lookup" \notin FaultKinds
    PROVE  Spec => []PausedMeansQuiesced
<1>1. HostInv => PausedMeansQuiesced
  BY DEF HostInv, PausesTrue, Steady, StopsWork, PausedMeansQuiesced, Settled, Exited
<1> QED
  BY <1>1, HostInvariance, PTL

=============================================================================
