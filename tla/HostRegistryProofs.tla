------------------------- MODULE HostRegistryProofs -------------------------
(***************************************************************************)
(* For any hosts, instances and events: the registry keeps its types, it   *)
(* lets a whole outage pass before it moves the instances of a host, and   *)
(* it moves them only when another host is online, or was until its        *)
(* goroutine takes note.                                                   *)
(*                                                                         *)
(* The goroutine of a host does not know of the other hosts.  What it gets *)
(* from their channel means something because of where the sender is:      *)
(* OffersOnline.  The second timeout is set once in an outage, at the      *)
(* first receive; SecondTimeout says that whoever is past that receive has *)
(* set it.                                                                 *)
(***************************************************************************)
EXTENDS HostRegistry, TLAPS

\* A host whose goroutine offers it is online, or a watch will tell the goroutine.
OffersOnline == \A h \in Hosts : regPc[h] \in {"offer", "held"} => regStatus[h] = "online" \/ onlineEv[h]

\* Behind the first receive of an outage the timer has been set to the connection timeout.
SecondTimeout ==
    \A h \in Hosts :
       /\ timeout[h] /\ ~firstTimeout[h] => onlineTimer[h]
       /\ regPc[h] \in {"settle", "awaitAgain", "unschedule"} => ~firstTimeout[h]

RegInv == RegTypeOK /\ OffersOnline /\ SecondTimeout

Places == {"look", "purge", "instances", "offer", "held", "rest", "countdown", "await", "settle", "awaitAgain",
           "unschedule"}

-----------------------------------------------------------------------------
(* The types                                                               *)

\* The states that are removed, created and changed are states.
LEMMA Records ==
    /\ NoState \in StateRecords
    /\ \A h \in Hosts, m \in BOOLEAN : [NoState EXCEPT !.host = h, !.missed = m] \in StateRecords
    /\ \A r \in StateRecords : /\ [r EXCEPT !.missed = TRUE] \in StateRecords
                               /\ [r EXCEPT !.static = TRUE] \in StateRecords
                               /\ [r EXCEPT !.stop = TRUE] \in StateRecords
BY DEF NoState, StateRecords, NoHost

\* Every step keeps the types of what is in ZooKeeper.
LEMMA ZkTypesStep ==
    ASSUME RegTypeOK, [regNext]_regVars
    PROVE  /\ regStatus' \in [Hosts -> Statuses] /\ locked' \in [Hosts -> BOOLEAN]
           /\ regState' \in [RegInstances -> StateRecords]
<1>0. /\ regStatus \in [Hosts -> Statuses] /\ locked \in [Hosts -> BOOLEAN]
      /\ regState \in [RegInstances -> StateRecords]
  BY DEF RegTypeOK
<1>1. ASSUME UNCHANGED zkVars
      PROVE  UNCHANGED <<regStatus, locked, regState>>
  BY <1>1 DEF zkVars
<1>2. ASSUME NEW S, Remove(S)
      PROVE  regState' \in [RegInstances -> StateRecords]
  BY <1>0, <1>2, Records DEF Remove
<1>3. CASE \E h \in Hosts : SpawnNext(h) \/ SpawnFails(h)
  <2>1. PICK h \in Hosts : SpawnNext(h) \/ SpawnFails(h)
    BY <1>3
  <2>2. CASE Look(h) \/ ReadInstances(h) \/ Wake(h) \/ OfflineTimer(h) \/ OnlineTimer(h) \/ SpawnFails(h)
    BY <1>0, <1>1, <2>2 DEF Look, ReadInstances, Wake, OfflineTimer, OnlineTimer, SpawnFails
  <2>3. CASE Purge(h)
    BY <1>0, <1>2, <2>3 DEF Purge
  <2>4. CASE Unschedule(h)
    <3>1. UNCHANGED <<regStatus, locked>>
      BY <2>4 DEF Unschedule
    <3> DEFINE due == {i \in StatesOn(h) : regState[i].stop \/ ~ regState[i].static}
    <3>2. PICK S \in SUBSET due :
             regState' = [i \in RegInstances |-> CASE i \in S -> [regState[i] EXCEPT !.missed = TRUE]
                                                  [] i \in due \ S -> NoState
                                                  [] OTHER -> regState[i]]
      BY <2>4, Zenon DEF Unschedule
    <3> HIDE DEF due
    <3>3. ASSUME NEW i \in RegInstances PROVE regState'[i] \in StateRecords
      BY <1>0, <3>2, <3>3, Records
    <3> QED
      BY <1>0, <3>1, <3>2, <3>3
  <2> QED
    BY <2>1, <2>2, <2>3, <2>4 DEF SpawnNext
<1>4. CASE (\E g, h \in Hosts : Receive(g, h)) \/ SelectHost \/ NewLeader \/ (\E g \in Hosts : SchedulerReceive(g))
           \/ UNCHANGED regVars
  BY <1>0, <1>1, <1>4 DEF Receive, SelectHost, NewLeader, SchedulerReceive, regVars
<1>5. CASE CreateState
  <2>1. CASE UNCHANGED regState
    BY <1>0, <1>5, <2>1 DEF CreateState
  <2>2. CASE regState' = [regState EXCEPT ![sel.inst] =
                [NoState EXCEPT !.host = sel.host, !.missed = (regStatus[sel.host] # "online")]]
    <3>1. sel.host \in Hosts /\ sel.inst \in RegInstances
      BY <1>5 DEF CreateState, RegTypeOK
    <3>2. [NoState EXCEPT !.host = sel.host, !.missed = (regStatus[sel.host] # "online")] \in StateRecords
      BY <3>1, Records
    <3> QED
      BY <1>0, <1>5, <2>2, <3>1, <3>2 DEF CreateState
  <2> QED
    BY <1>5, <2>1, <2>2 DEF CreateState
<1>6. CASE \E h \in Hosts : RegisterHost(h) \/ Outage(h) \/ AgentStart(h) \/ ShutDown(h) \/ AgentShutsDown(h)
  <2>1. PICK h \in Hosts : RegisterHost(h) \/ Outage(h) \/ AgentStart(h) \/ ShutDown(h) \/ AgentShutsDown(h)
    BY <1>6
  <2>2. regState' = regState \/ (\E S : Remove(S))
    BY <2>1, <1>1 DEF RegisterHost, Outage, AgentStart, ShutDown, AgentShutsDown, Unregister, DeleteOnline, RegUnlock
  <2>3. regStatus' = regStatus \/ \E to \in Statuses : regStatus' = [regStatus EXCEPT ![h] = to]
    BY <2>1, <1>1 DEF RegisterHost, Outage, AgentStart, ShutDown, AgentShutsDown, Unregister, DeleteOnline, RegUnlock,
                SetStatus, Statuses
  <2>4. locked' = locked \/ \E to \in BOOLEAN : locked' = [locked EXCEPT ![h] = to]
    BY <2>1, <1>1 DEF RegisterHost, Outage, AgentStart, ShutDown, AgentShutsDown, Unregister, DeleteOnline, RegUnlock,
                SetLocked
  <2> QED
    BY <1>0, <1>2, <2>2, <2>3, <2>4
<1>7. CASE \E i \in RegInstances : AgentSaves(i) \/ StopInstance(i)
  <2>1. PICK i \in RegInstances : AgentSaves(i) \/ StopInstance(i)
    BY <1>7
  <2>2. UNCHANGED <<regStatus, locked>>
    BY <2>1 DEF AgentSaves, StopInstance
  <2>3. \/ \E S : Remove(S)
        \/ \E r \in StateRecords : regState' = [regState EXCEPT ![i] = r]
    BY <1>0, <2>1, Records DEF AgentSaves, StopInstance
  <2> QED
    BY <1>0, <1>2, <2>2, <2>3
<1> QED
  BY <1>3, <1>4, <1>5, <1>6, <1>7 DEF regNext

\* A goroutine that goes on leaves the others where they are.
LEMMA Goes ==
    ASSUME RegTypeOK, NEW h \in Hosts, NEW to \in Places, RegGoto(h, to)
    PROVE  regPc' \in [Hosts -> Places] /\ regPc'[h] = to /\ \A g \in Hosts \ {h} : regPc'[g] = regPc[g]
BY DEF RegGoto, RegTypeOK, Places

\* What Spawn remembers and waits for keeps its types when it is reset.
LEMMA ResetTypes ==
    ASSUME RegTypeOK, NEW S
    PROVE  /\ Unwatch(S) => onlineEv' \in [Hosts -> BOOLEAN] /\ lockEv' \in [Hosts -> BOOLEAN]
           /\ Respawn(S) => /\ regPc' \in [Hosts -> Places]
                            /\ onlineEv' \in [Hosts -> BOOLEAN] /\ lockEv' \in [Hosts -> BOOLEAN]
                            /\ isOnline' \in [Hosts -> BOOLEAN] /\ timeout' \in [Hosts -> BOOLEAN]
                            /\ firstTimeout' \in [Hosts -> BOOLEAN] /\ onlineTimer' \in [Hosts -> BOOLEAN]
<1>1. Unwatch(S) => onlineEv' \in [Hosts -> BOOLEAN] /\ lockEv' \in [Hosts -> BOOLEAN]
  BY DEF Unwatch
<1>2. Respawn(S) => /\ isOnline' \in [Hosts -> BOOLEAN] /\ timeout' \in [Hosts -> BOOLEAN]
                    /\ firstTimeout' \in [Hosts -> BOOLEAN] /\ onlineTimer' \in [Hosts -> BOOLEAN]
  BY DEF Respawn
<1>3. Respawn(S) => regPc' \in [Hosts -> Places] /\ Unwatch(S)
  BY DEF Respawn, RegTypeOK, Places
<1> QED
  BY <1>1, <1>2, <1>3

\* Every step keeps the types of the goroutines of the hosts.
LEMMA SpawnTypesStep ==
    ASSUME RegTypeOK, [regNext]_regVars
    PROVE  /\ regPc' \in [Hosts -> Places]
           /\ isOnline' \in [Hosts -> BOOLEAN] /\ timeout' \in [Hosts -> BOOLEAN]
           /\ firstTimeout' \in [Hosts -> BOOLEAN] /\ onlineTimer' \in [Hosts -> BOOLEAN]
           /\ onlineEv' \in [Hosts -> BOOLEAN] /\ lockEv' \in [Hosts -> BOOLEAN]
<1>0. /\ regPc \in [Hosts -> Places]
      /\ isOnline \in [Hosts -> BOOLEAN] /\ timeout \in [Hosts -> BOOLEAN]
      /\ firstTimeout \in [Hosts -> BOOLEAN] /\ onlineTimer \in [Hosts -> BOOLEAN]
      /\ onlineEv \in [Hosts -> BOOLEAN] /\ lockEv \in [Hosts -> BOOLEAN]
  BY DEF RegTypeOK, Places
<1> USE DEF seenVars, evVars
<1>1. CASE \E h \in Hosts : SpawnNext(h) \/ SpawnFails(h)
  <2>1. PICK h \in Hosts : SpawnNext(h) \/ SpawnFails(h)
    BY <1>1
  <2>2. CASE Look(h)
    <3>1. \E to \in Places : RegGoto(h, to)
      BY <2>2 DEF Look, Places
    <3>2. UNCHANGED evVars /\ isOnline' = [isOnline EXCEPT ![h] = (regStatus[h] = "online")]
      BY <2>2 DEF Look
    <3>3. /\ timeout' = timeout \/ timeout' = [timeout EXCEPT ![h] = TRUE]
          /\ firstTimeout' = firstTimeout \/ firstTimeout' = [firstTimeout EXCEPT ![h] = TRUE]
          /\ onlineTimer' = onlineTimer \/ onlineTimer' = [onlineTimer EXCEPT ![h] = FALSE]
      BY <2>2 DEF Look
    <3> QED
      BY <1>0, <3>1, <3>2, <3>3, Goes
  <2>3. CASE Wake(h)
    BY <1>0, <2>3, Goes, ResetTypes DEF Wake, Places
  <2>4. CASE SpawnFails(h)
    BY <2>4, ResetTypes DEF SpawnFails
  <2>5. CASE Purge(h) \/ ReadInstances(h) \/ OfflineTimer(h) \/ OnlineTimer(h) \/ Unschedule(h)
    <3>1. UNCHANGED <<seenVars, evVars>> /\ \E to \in Places : RegGoto(h, to)
      BY <2>5 DEF Purge, ReadInstances, OfflineTimer, OnlineTimer, Unschedule, Places
    <3> QED
      BY <1>0, <3>1, Goes
  <2> QED
    BY <2>1, <2>2, <2>3, <2>4, <2>5 DEF SpawnNext
<1>2. CASE \E g, h \in Hosts : Receive(g, h)
  <2>1. PICK g, h \in Hosts : Receive(g, h)
    BY <1>2
  <2>2. regPc' \in [Hosts -> Places]
    BY <1>0, <2>1 DEF Receive, Places
  <2>3. /\ onlineTimer' = onlineTimer \/ onlineTimer' = [onlineTimer EXCEPT ![h] = timeout[h]]
        /\ firstTimeout' = firstTimeout \/ firstTimeout' = [firstTimeout EXCEPT ![h] = FALSE]
        /\ UNCHANGED <<isOnline, timeout>> /\ Unwatch({g})
    BY <2>1 DEF Receive
  <2> QED
    BY <1>0, <2>2, <2>3, ResetTypes
<1>3. CASE \E g \in Hosts : SchedulerReceive(g)
  BY <1>0, <1>3, Goes, ResetTypes DEF SchedulerReceive, Places
<1>4. CASE NewLeader
  BY <1>4, ResetTypes DEF NewLeader
<1>5. CASE \E h \in Hosts : RegisterHost(h) \/ Outage(h) \/ AgentStart(h) \/ ShutDown(h) \/ AgentShutsDown(h)
  <2>1. PICK h \in Hosts : RegisterHost(h) \/ Outage(h) \/ AgentStart(h) \/ ShutDown(h) \/ AgentShutsDown(h)
    BY <1>5
  <2>2. UNCHANGED <<regPc, seenVars>>
    BY <2>1 DEF RegisterHost, Outage, AgentStart, ShutDown, AgentShutsDown, Unregister, DeleteOnline, RegUnlock,
                SetStatus, SetLocked
  <2>3. onlineEv' \in [Hosts -> BOOLEAN]
    <3>1. onlineEv' = onlineEv \/ onlineEv' = [onlineEv EXCEPT ![h] = regPc[h] # "look"]
      BY <2>1 DEF RegisterHost, Outage, AgentStart, ShutDown, AgentShutsDown, Unregister, DeleteOnline, RegUnlock,
                  SetStatus, SetLocked
    <3> QED
      BY <1>0, <3>1
  <2>4. lockEv' \in [Hosts -> BOOLEAN]
    <3>1. lockEv' = lockEv \/ lockEv' = [lockEv EXCEPT ![h] = regPc[h] \in {"offer", "held"}]
      BY <2>1 DEF RegisterHost, Outage, AgentStart, ShutDown, AgentShutsDown, Unregister, DeleteOnline, RegUnlock,
                  SetStatus, SetLocked
    <3>2. (regPc[h] \in {"offer", "held"}) \in BOOLEAN
      OBVIOUS
    <3>3. \A b \in BOOLEAN : [lockEv EXCEPT ![h] = b] \in [Hosts -> BOOLEAN]
      BY <1>0
    <3> QED
      BY <1>0, <3>1, <3>2, <3>3, Zenon
  <2> QED
    BY <1>0, <2>2, <2>3, <2>4
<1>6. CASE SelectHost \/ CreateState \/ (\E i \in RegInstances : AgentSaves(i) \/ StopInstance(i)) \/ UNCHANGED regVars
  <2>1. UNCHANGED <<regPc, seenVars, evVars>>
    BY <1>6 DEF SelectHost, CreateState, AgentSaves, StopInstance, regVars
  <2> QED
    BY <1>0, <2>1
<1> QED
  BY <1>1, <1>2, <1>3, <1>4, <1>5, <1>6 DEF regNext

\* Every step keeps the types.
LEMMA RegTypesStep ==
    ASSUME RegTypeOK, [regNext]_regVars
    PROVE  RegTypeOK'
<1> DEFINE AgentPlaces == {"up", "down", "stopping", "unregistered", "unlock"}
<1>1. agent' \in [Hosts -> AgentPlaces]
  <2>1. agent' = agent \/ \E h \in Hosts, to \in AgentPlaces : agent' = [agent EXCEPT ![h] = to]
    BY DEF regNext, SpawnNext, Look, Purge, ReadInstances, Wake, OfflineTimer, OnlineTimer, Unschedule, SpawnFails,
           Receive, SelectHost, CreateState, NewLeader, SchedulerReceive, RegisterHost, Outage, AgentStart, ShutDown,
           AgentShutsDown, Unregister, DeleteOnline, RegUnlock, AgentSaves, StopInstance, regVars
  <2> QED
    BY <2>1 DEF RegTypeOK
<1>2. /\ sched' \in {"idle", "await", "create"}
      /\ sel' \in (IF sched' = "create" THEN [inst : RegInstances, host : Hosts] ELSE {NoSelection})
  <2>1. CASE UNCHANGED schedVars
    BY <2>1 DEF RegTypeOK, schedVars
  <2>2. CASE SelectHost
    BY <2>2 DEF SelectHost, RegTypeOK, RegisteredHosts
  <2>3. CASE CreateState \/ NewLeader \/ \E g \in Hosts : SchedulerReceive(g)
    BY <2>3 DEF CreateState, NewLeader, SchedulerReceive, RegTypeOK
  <2> QED
    BY <2>1, <2>2, <2>3
       DEF regNext, SpawnNext, Look, Purge, ReadInstances, Wake, OfflineTimer, OnlineTimer, Unschedule, SpawnFails,
           Receive, RegisterHost, Outage, AgentStart, ShutDown,
           AgentShutsDown, Unregister, DeleteOnline, RegUnlock, AgentSaves, StopInstance, regVars, schedVars
<1>3. events' \in 0 .. EventLimit
  <2>1. events' = events \/ (events < EventLimit /\ events' = events + 1)
    BY DEF regNext, SpawnNext, Look, Purge, ReadInstances, Wake, OfflineTimer, OnlineTimer, Unschedule, SpawnFails,
           Receive, SelectHost, CreateState, NewLeader, SchedulerReceive, RegisterHost, Outage, AgentStart, ShutDown,
           AgentShutsDown, Unregister, DeleteOnline, RegUnlock, AgentSaves, StopInstance, Event, regVars
  <2> QED
    BY <2>1, LimitsAssumption DEF RegTypeOK
<1> QED
  BY <1>1, <1>2, <1>3, ZkTypesStep, SpawnTypesStep DEF RegTypeOK, Places

-----------------------------------------------------------------------------
(* What a goroutine may take from another                                  *)

\* Every step keeps an offer true, or the goroutine that makes it warned.
LEMMA OffersStep ==
    ASSUME RegTypeOK, OffersOnline, [regNext]_regVars
    PROVE  OffersOnline'
<1> SUFFICES ASSUME NEW k \in Hosts, regPc'[k] \in {"offer", "held"}
             PROVE  regStatus'[k] = "online" \/ onlineEv'[k]
  BY DEF OffersOnline
<1>0. /\ DOMAIN regPc = Hosts /\ DOMAIN regStatus = Hosts /\ DOMAIN onlineEv = Hosts /\ DOMAIN isOnline = Hosts
      /\ regPc[k] \in {"offer", "held"} => regStatus[k] = "online" \/ onlineEv[k]
  BY DEF RegTypeOK, OffersOnline
<1>1. ASSUME NEW h \in Hosts, Look(h) PROVE regStatus'[k] = "online" \/ onlineEv'[k]
  <2>1. UNCHANGED <<regStatus, onlineEv>>
    BY <1>1 DEF Look, zkVars, evVars
  <2>2. CASE k = h
    BY <1>0, <1>1, <2>1, <2>2 DEF Look, RegGoto
  <2>3. CASE k # h
    BY <1>0, <1>1, <2>1, <2>3 DEF Look, RegGoto
  <2> QED
    BY <2>2, <2>3
<1>2. ASSUME UNCHANGED <<regStatus, onlineEv>>, regPc'[k] = regPc[k]
      PROVE  regStatus'[k] = "online" \/ onlineEv'[k]
  BY <1>0, <1>2
<1>3. ASSUME NEW h \in Hosts, Purge(h) \/ ReadInstances(h) \/ OfflineTimer(h) \/ OnlineTimer(h) \/ Unschedule(h)
      PROVE  regStatus'[k] = "online" \/ onlineEv'[k]
  <2>1. /\ UNCHANGED <<regStatus, onlineEv>>
        /\ \E to \in Places \ {"offer", "held"} : RegGoto(h, to)
    BY <1>3 DEF Purge, ReadInstances, OfflineTimer, OnlineTimer, Unschedule, zkVars, evVars, Places
  <2>2. k # h
    BY <1>0, <2>1 DEF RegGoto
  <2> QED
    BY <1>2, <2>1, <2>2, Goes
\* The goroutines that go round their loop are those whose watches are given up.
<1>4. ASSUME NEW S, Unwatch(S), UNCHANGED regStatus, k \notin S, regPc'[k] = regPc[k]
      PROVE  regStatus'[k] = "online" \/ onlineEv'[k]
  BY <1>0, <1>4 DEF Unwatch
<1>5. ASSUME NEW h \in Hosts, Wake(h) \/ SchedulerReceive(h)
      PROVE  regStatus'[k] = "online" \/ onlineEv'[k]
  <2>1. UNCHANGED regStatus /\ Unwatch({h}) /\ RegGoto(h, "look")
    BY <1>5 DEF Wake, SchedulerReceive, zkVars
  <2>2. k # h
    BY <1>0, <2>1 DEF RegGoto
  <2> QED
    BY <1>4, <2>1, <2>2, Goes DEF Places
<1>6. ASSUME NEW g \in Hosts, NEW h \in Hosts, Receive(g, h)
      PROVE  regStatus'[k] = "online" \/ onlineEv'[k]
  <2>1. UNCHANGED regStatus /\ Unwatch({g})
    BY <1>6 DEF Receive, zkVars
  <2>2. k \notin {g, h} /\ regPc'[k] = regPc[k]
    BY <1>0, <1>6 DEF Receive
  <2> QED
    BY <1>4, <2>1, <2>2
<1>7. ASSUME NEW S \in SUBSET Hosts, Respawn(S), UNCHANGED regStatus
      PROVE  regStatus'[k] = "online" \/ onlineEv'[k]
  <2>1. Unwatch(S) /\ k \notin S /\ regPc'[k] = regPc[k]
    BY <1>7 DEF Respawn
  <2> QED
    BY <1>4, <1>7, <2>1
<1>8. ASSUME NEW h \in Hosts, SpawnFails(h) PROVE regStatus'[k] = "online" \/ onlineEv'[k]
  BY <1>7, <1>8 DEF SpawnFails, zkVars
<1>9. ASSUME NewLeader PROVE regStatus'[k] = "online" \/ onlineEv'[k]
  BY <1>7, <1>9 DEF NewLeader, zkVars
\* A node that changes fires the watch of whoever offers its host.
<1>10. ASSUME NEW h \in Hosts, NEW to, SetStatus(h, to), UNCHANGED regPc
       PROVE  regStatus'[k] = "online" \/ onlineEv'[k]
  <2>1. CASE k = h
    BY <1>0, <1>10, <2>1 DEF SetStatus
  <2>2. CASE k # h
    BY <1>0, <1>10, <2>2 DEF SetStatus
  <2> QED
    BY <2>1, <2>2
<1>11. ASSUME NEW h \in Hosts, RegisterHost(h) \/ Outage(h) \/ Unregister(h) \/ DeleteOnline(h)
       PROVE  regStatus'[k] = "online" \/ onlineEv'[k]
  <2>1. UNCHANGED regPc /\ (UNCHANGED <<regStatus, onlineEv>> \/ \E to : SetStatus(h, to))
    BY <1>11 DEF RegisterHost, Outage, Unregister, DeleteOnline
  <2> QED
    BY <1>2, <1>10, <2>1
<1>12. ASSUME NEW h \in Hosts, AgentStart(h) \/ ShutDown(h) \/ RegUnlock(h)
       PROVE  regStatus'[k] = "online" \/ onlineEv'[k]
  BY <1>2, <1>12 DEF AgentStart, ShutDown, RegUnlock, zkVars, evVars
<1>13. ASSUME NEW i \in RegInstances, AgentSaves(i) \/ StopInstance(i)
       PROVE  regStatus'[k] = "online" \/ onlineEv'[k]
  BY <1>2, <1>13 DEF AgentSaves, StopInstance, evVars
<1>14. ASSUME SelectHost \/ CreateState \/ UNCHANGED regVars
       PROVE  regStatus'[k] = "online" \/ onlineEv'[k]
  BY <1>2, <1>14 DEF SelectHost, CreateState, zkVars, evVars, regVars
<1> QED
  BY <1>1, <1>3, <1>5, <1>6, <1>8, <1>9, <1>11, <1>12, <1>13, <1>14 DEF regNext, SpawnNext, AgentShutsDown

\* Every step keeps what is known of the timer behind the first receive.
LEMMA SecondTimeoutStep ==
    ASSUME RegTypeOK, SecondTimeout, [regNext]_regVars
    PROVE  SecondTimeout'
<1> DEFINE Later == {"settle", "awaitAgain", "unschedule"}
           Told(k) == timeout[k] /\ ~firstTimeout[k] => onlineTimer[k]
           Beyond(k) == regPc[k] \in Later => ~firstTimeout[k]
<1> SUFFICES ASSUME NEW k \in Hosts
             PROVE  Told(k)' /\ Beyond(k)'
  BY DEF SecondTimeout
<1>0. /\ DOMAIN regPc = Hosts
      /\ DOMAIN timeout = Hosts /\ DOMAIN firstTimeout = Hosts /\ DOMAIN onlineTimer = Hosts
      /\ Told(k) /\ Beyond(k)
  BY DEF RegTypeOK, SecondTimeout
<1>1. ASSUME UNCHANGED <<timeout, firstTimeout, onlineTimer>>,
             regPc'[k] = regPc[k] \/ regPc'[k] \notin Later \/ regPc[k] \in Later
      PROVE  Told(k)' /\ Beyond(k)'
  BY <1>0, <1>1
<1>2. ASSUME NEW h \in Hosts, Look(h) PROVE Told(k)' /\ Beyond(k)'
  <2>1. regPc'[k] = regPc[k] \/ regPc'[k] \notin Later
    BY <1>0, <1>2 DEF Look, RegGoto
  <2>2. CASE isOnline[h] /\ regStatus[h] # "online"
    <3>1. /\ timeout' = [timeout EXCEPT ![h] = TRUE]
          /\ firstTimeout' = [firstTimeout EXCEPT ![h] = TRUE]
          /\ onlineTimer' = [onlineTimer EXCEPT ![h] = FALSE]
      BY <1>2, <2>2 DEF Look
    <3>2. CASE k = h
      <4>1. regPc'[k] \notin Later
        BY <1>0, <1>2, <3>2 DEF Look, RegGoto
      <4> QED
        BY <1>0, <3>1, <3>2, <4>1
    <3>3. CASE k # h
      <4>1. regPc'[k] = regPc[k]
        BY <1>0, <1>2, <3>3 DEF Look, RegGoto
      <4> QED
        BY <1>0, <3>1, <3>3, <4>1
    <3> QED
      BY <3>2, <3>3
  <2>3. CASE ~(isOnline[h] /\ regStatus[h] # "online")
    BY <1>1, <1>2, <2>1, <2>3 DEF Look
  <2> QED
    BY <2>2, <2>3
<1>3. ASSUME NEW h \in Hosts,
             \/ Purge(h) \/ ReadInstances(h) \/ Wake(h) \/ OfflineTimer(h) \/ OnlineTimer(h) \/ Unschedule(h)
             \/ SchedulerReceive(h)
      PROVE  Told(k)' /\ Beyond(k)'
  <2>1. UNCHANGED <<timeout, firstTimeout, onlineTimer>>
    BY <1>3 DEF Purge, ReadInstances, Wake, OfflineTimer, OnlineTimer, Unschedule, SchedulerReceive, seenVars
  <2>2. regPc'[k] = regPc[k] \/ regPc'[k] \notin Later \/ regPc[k] \in Later
    BY <1>0, <1>3 DEF Purge, ReadInstances, Wake, OfflineTimer, OnlineTimer, Unschedule, SchedulerReceive, RegGoto
  <2> QED
    BY <1>1, <2>1, <2>2
<1>4. ASSUME NEW g \in Hosts, NEW h \in Hosts, Receive(g, h) PROVE Told(k)' /\ Beyond(k)'
  <2>1. UNCHANGED timeout
    BY <1>4 DEF Receive
  <2>2. CASE regPc[h] = "await" /\ firstTimeout[h]
    <3>1. /\ onlineTimer' = [onlineTimer EXCEPT ![h] = timeout[h]]
          /\ firstTimeout' = [firstTimeout EXCEPT ![h] = FALSE]
      BY <1>4, <2>2 DEF Receive
    <3>2. CASE k = h
      BY <1>0, <2>1, <3>1, <3>2
    <3>3. CASE k # h
      <4>1. regPc'[k] = regPc[k] \/ regPc'[k] \notin Later
        BY <1>0, <1>4, <3>3 DEF Receive
      <4> QED
        BY <1>0, <2>1, <3>1, <3>3, <4>1
    <3> QED
      BY <3>2, <3>3
  <2>3. CASE ~(regPc[h] = "await" /\ firstTimeout[h])
    <3>1. UNCHANGED <<onlineTimer, firstTimeout>>
      BY <1>4, <2>3 DEF Receive
    <3>2. CASE k = h
      <4>1. regPc[h] = "await" \/ regPc[h] \in Later
        BY <1>4 DEF Receive
      <4> QED
        BY <1>0, <2>1, <2>3, <3>1, <3>2, <4>1
    <3>3. CASE k # h
      <4>1. regPc'[k] = regPc[k] \/ regPc'[k] \notin Later
        BY <1>0, <1>4, <3>3 DEF Receive
      <4> QED
        BY <1>1, <2>1, <3>1, <4>1
    <3> QED
      BY <3>2, <3>3
  <2> QED
    BY <2>2, <2>3
<1>5. ASSUME NEW S \in SUBSET Hosts, Respawn(S) PROVE Told(k)' /\ Beyond(k)'
  <2>1. CASE k \in S
    <3>1. regPc'[k] = "look" /\ ~timeout'[k]
      BY <1>5, <2>1 DEF Respawn
    <3> QED
      BY <3>1
  <2>2. CASE k \notin S
    <3>1. regPc'[k] = regPc[k]
      BY <1>5, <2>2 DEF Respawn
    <3>2. /\ timeout'[k] <=> timeout[k]
          /\ firstTimeout'[k] <=> firstTimeout[k]
          /\ onlineTimer'[k] <=> onlineTimer[k]
      BY <1>5, <2>2 DEF Respawn
    <3> QED
      BY <1>0, <3>1, <3>2
  <2> QED
    BY <2>1, <2>2
<1>6. ASSUME NewLeader \/ \E h \in Hosts : SpawnFails(h) PROVE Told(k)' /\ Beyond(k)'
  BY <1>5, <1>6 DEF NewLeader, SpawnFails
<1>7. ASSUME UNCHANGED <<regPc, seenVars>> PROVE Told(k)' /\ Beyond(k)'
  BY <1>1, <1>7 DEF seenVars
<1>8. ASSUME NEW h \in Hosts,
             RegisterHost(h) \/ Outage(h) \/ AgentStart(h) \/ ShutDown(h) \/ AgentShutsDown(h)
      PROVE  Told(k)' /\ Beyond(k)'
  BY <1>7, <1>8 DEF RegisterHost, Outage, AgentStart, ShutDown, AgentShutsDown, Unregister, DeleteOnline, RegUnlock
<1>9. ASSUME \/ SelectHost \/ CreateState \/ UNCHANGED regVars
             \/ \E i \in RegInstances : AgentSaves(i) \/ StopInstance(i)
      PROVE  Told(k)' /\ Beyond(k)'
  BY <1>7, <1>9 DEF SelectHost, CreateState, AgentSaves, StopInstance, regVars, seenVars
<1> QED
  BY <1>2, <1>3, <1>4, <1>6, <1>8, <1>9 DEF regNext, SpawnNext

-----------------------------------------------------------------------------
(* The theorems                                                            *)

\* The registry starts with no state, and every goroutine at its beginning.
LEMMA RegInvInit == regInit => RegInv
<1> SUFFICES ASSUME regInit PROVE RegInv
  OBVIOUS
<1>1. NoState \in StateRecords
  BY Records
<1>2. RegTypeOK
  <2>1. regStatus \in [Hosts -> Statuses]
    BY DEF regInit, Statuses
  <2>2. regState \in [RegInstances -> StateRecords]
    BY <1>1 DEF regInit
  <2>3. events \in 0 .. EventLimit
    BY LimitsAssumption DEF regInit
  <2> QED
    BY <2>1, <2>2, <2>3 DEF regInit, RegTypeOK
<1>3. OffersOnline /\ SecondTimeout
  BY DEF regInit, OffersOnline, SecondTimeout
<1> QED
  BY <1>2, <1>3 DEF RegInv

\* Every step keeps the invariant.
LEMMA RegInvStep == RegInv /\ [regNext]_regVars => RegInv'
BY RegTypesStep, OffersStep, SecondTimeoutStep DEF RegInv

\* The invariant holds throughout, whatever fails.
LEMMA RegInvariance == regSpec => []RegInv
BY RegInvInit, RegInvStep, PTL DEF regSpec

\* No state is created for no host, every variable has its type, and a host that
\* was seen to go offline is given the connection timeout a second time before
\* its instances are moved (Spawn of hostregistry.go).
THEOREM RegistryIsSound == regSpec => []RegistrySound
<1>1. RegInv => RegistrySound
  BY DEF RegInv, RegistrySound, QuiescesInOutage, SecondTimeout
<1> QED
  BY <1>1, RegInvariance, PTL

\* A goroutine is only let on to unschedule the states of its host when another
\* host is online, or went offline so lately that its own goroutine has yet to
\* take note: a pool whose hosts are all offline is left alone.
THEOREM OnlyOnlineGrants == regSpec => OnlineHostGrants
<1> DEFINE Granted == \A h \in Hosts : (regPc[h] = "awaitAgain" /\ regPc'[h] = "unschedule")
                        => \E g \in Hosts \ {h} : regStatus[g] = "online" \/ onlineEv[g]
<1>1. ASSUME RegInv, [regNext]_regVars, NEW h \in Hosts, regPc[h] = "awaitAgain", regPc'[h] = "unschedule"
      PROVE  \E g \in Hosts \ {h} : regStatus[g] = "online" \/ onlineEv[g]
  <2>0. DOMAIN regPc = Hosts
    BY <1>1 DEF RegInv, RegTypeOK
  <2>1. PICK g \in Hosts : Receive(g, h)
    <3>1. ASSUME NEW k \in Hosts, NEW to \in Places \ {"unschedule"}, RegGoto(k, to) PROVE FALSE
      BY <1>1, <2>0, <3>1 DEF RegGoto
    <3>2. ASSUME NEW S \in SUBSET Hosts, Respawn(S) PROVE FALSE
      BY <1>1, <3>2 DEF Respawn
    <3>3. ASSUME UNCHANGED regPc PROVE FALSE
      BY <1>1, <3>3
    <3>4. ASSUME NEW k \in Hosts, SpawnNext(k) \/ SpawnFails(k) \/ SchedulerReceive(k) PROVE FALSE
      BY <3>1, <3>2, <3>4 DEF SpawnNext, SpawnFails, SchedulerReceive, Look, Purge, ReadInstances, Wake, OfflineTimer,
                              OnlineTimer, Unschedule, Places
    <3>5. ASSUME NEW k \in Hosts, NEW j \in Hosts, Receive(k, j), j # h PROVE FALSE
      BY <1>1, <2>0, <3>5 DEF Receive
    <3>6. ASSUME NewLeader PROVE FALSE
      BY <3>2, <3>6 DEF NewLeader
    <3>7. ASSUME NEW k \in Hosts, RegisterHost(k) \/ Outage(k) \/ AgentStart(k) \/ ShutDown(k) \/ AgentShutsDown(k)
          PROVE  FALSE
      BY <3>3, <3>7 DEF RegisterHost, Outage, AgentStart, ShutDown, AgentShutsDown, Unregister, DeleteOnline, RegUnlock
    <3>8. ASSUME \/ SelectHost \/ CreateState \/ UNCHANGED regVars
                 \/ \E i \in RegInstances : AgentSaves(i) \/ StopInstance(i)
          PROVE  FALSE
      BY <3>3, <3>8 DEF SelectHost, CreateState, AgentSaves, StopInstance, regVars
    <3> QED
      BY <1>1, <3>4, <3>5, <3>6, <3>7, <3>8 DEF regNext
  <2>2. regPc[g] = "offer"
    BY <2>1 DEF Receive
  <2> QED
    BY <1>1, <2>2 DEF RegInv, OffersOnline
<1>2. RegInv /\ [regNext]_regVars => [Granted]_regVars
  BY <1>1
<1>3. regSpec => [][Granted]_regVars
  BY <1>2, RegInvariance, PTL DEF regSpec
<1> QED
  BY <1>3 DEF OnlineHostGrants

=============================================================================
