----------------------------- MODULE MCProgress -----------------------------
(*****************************************************************************)
(* What must come to an end or come to agree, in the components of the master*)
(* and of the hosts, under the fairness of each.                             *)
(* The parts share no state here, so a behaviour is about one of them: part  *)
(* says which, and the variables of the others keep their initial values.    *)
(* The state spaces add up instead of multiplying.                           *)
(*****************************************************************************)
EXTENDS TenantLocks, ServiceTree, RollingRestart, Snapshots, PoolsAndHosts,
        VirtualIPs, BackupStreams, ContainerController, InternalServices,
        HostTokens, PublicEndpoints, VHostProxies, ContainerEndpoints,
        Tunnels, Leadership, DaemonStart, NfsExports, DelegateStart

VARIABLE part   \* the part that this behaviour is about

MCParentOf == [s \in TreeServices |-> IF s = "t" THEN "nobody" ELSE "t"]

MCStartGroup == [s \in IServices |-> IF s = "kibana" THEN 1 ELSE 0]
MCTenants == <<"t1", "t2">>

\* The rolling restart comes to its end, whatever dies and whatever call fails
\* (Facade.rollingRestart, src/facade/service.go).
RollingRestartEnds == <>[](part = "restart" => rr.pc = "done")

\* No caller of the master waits for ever: the calls of the facade, the removal of a
\* tenant, a rolling restart, the operations on volumes and the backups end, unless in
\* one of the ways that the parts name.
CallsEnd ==
    /\ RequestsEnd /\ RemovalEndsOrReaderBlocked /\ RollingRestartEnds
    /\ OperationEndsOrBlocked /\ BackupsEnd

\* A master that is not killed again comes to serve or ends, one of the masters comes to
\* lead, and the one that leads lets in the hosts that may mount the volumes.
MastersServe == <>[](part = "starts" => ServesOrEnded) /\ LeadIsTaken /\ DelegatesLetIn

\* What the data store says is in the end what ZooKeeper says, of services, of pools
\* and of their hosts.
CopiesAgree == NodesFollowDocs /\ PoolNodesFollow

\* An operation on volumes leaves nothing behind: no paused service and no snapshot of
\* a backup.
NothingLeftBehind == NothingLeftPaused /\ BackupSnapshotsGo

\* What is open to callers follows what is published: the ips of a pool are bound where they are
\* assigned and nowhere else, public ports and virtual hosts come and go with their nodes, the
\* proxies of a container follow the exports, and a tunnel between containers closes as a whole.
EndpointsFollow ==
    /\ IpsGetBound /\ OrphansReleased /\ NodeFollowsFlag /\ PortFollowsNode /\ VHostsAnswer
    /\ ImportsFollow /\ TunnelsClose

\* The controller of a container ends when it is told to, and the manager of the
\* internal services answers every request; a delegate runs its agent, and ends when it is told
\* to; a host that has its key comes to hold a token, and so do its containers.
HostsObey == ToldEnds /\ ManagerAnswersAll /\ TokensFollow /\ DelegateRuns

Parts == {"locks", "tree", "restart", "snapshots", "pools", "virtual ips",
          "backups", "controller", "internal", "tokens", "public ports",
          "virtual hosts", "imports", "tunnels", "leads", "starts",
          "exports", "delegates"}

Init ==
    /\ part \in Parts
    /\ lockInit
    /\ treeInit
    /\ rrInit
    /\ snapInit
    /\ poolInit
    /\ vipInit
    /\ bkInit
    /\ ccInit
    /\ isvcInit
    /\ tkInit
    /\ peInit
    /\ vhInit
    /\ ceInit
    /\ tunInit
    /\ ldInit
    /\ dmnInit
    /\ nfsInit
    /\ dgInit
    /\ part # "backups" => archive = NoFile
    /\ part # "imports" => ceBind = "import" /\ ceOwn = {}
    /\ part # "tunnels" => ~direct
    /\ part # "starts" => storedVersion = "old"

StandStill ==
    /\ UNCHANGED part
    /\ part # "locks" => UNCHANGED lockVars
    /\ part # "tree" => UNCHANGED treeVars
    /\ part # "restart" => UNCHANGED rrVars
    /\ part # "snapshots" => UNCHANGED snapVars
    /\ part # "pools" => UNCHANGED poolVars
    /\ part # "virtual ips" => UNCHANGED vipVars
    /\ part # "backups" => UNCHANGED bkVars
    /\ part # "controller" => UNCHANGED ccVars
    /\ part # "internal" => UNCHANGED isvcVars
    /\ part # "tokens" => UNCHANGED tkVars
    /\ part # "public ports" => UNCHANGED peVars
    /\ part # "virtual hosts" => UNCHANGED vhVars
    /\ part # "imports" => UNCHANGED ceVars
    /\ part # "tunnels" => UNCHANGED tunVars
    /\ part # "leads" => UNCHANGED ldVars
    /\ part # "starts" => UNCHANGED dmnVars
    /\ part # "exports" => UNCHANGED nfsVars
    /\ part # "delegates" => UNCHANGED dgVars

Next ==
    /\ \/ part = "locks" /\ lockNext
       \/ part = "tree" /\ treeNext
       \/ part = "restart" /\ rrNext
       \/ part = "snapshots" /\ snapNext
       \/ part = "pools" /\ poolNext
       \/ part = "virtual ips" /\ vipNext
       \/ part = "backups" /\ bkNext
       \/ part = "controller" /\ ccNext
       \/ part = "internal" /\ isvcNext
       \/ part = "tokens" /\ tkNext
       \/ part = "public ports" /\ peNext
       \/ part = "virtual hosts" /\ vhNext
       \/ part = "imports" /\ ceNext
       \/ part = "tunnels" /\ tunNext
       \/ part = "leads" /\ ldNext
       \/ part = "starts" /\ dmnNext
       \/ part = "exports" /\ nfsNext
       \/ part = "delegates" /\ dgNext
    /\ StandStill

vars == <<part, lockVars, treeVars, rrVars, snapVars, poolVars, vipVars, bkVars, ccVars, isvcVars, tkVars, peVars, vhVars, ceVars, tunVars, ldVars, dmnVars, nfsVars, dgVars>>

\* The fairness of the parts.  Only one of them moves, so the formulas of all
\* parts are taken together, the first ones, the second ones and so on.
moving ==
    CASE part = "locks" -> lockVars
      [] part = "tree" -> treeVars
      [] part = "restart" -> rrVars
      [] part = "snapshots" -> snapVars
      [] part = "pools" -> poolVars
      [] part = "virtual ips" -> vipVars
      [] part = "backups" -> bkVars
      [] part = "controller" -> ccVars
      [] part = "internal" -> isvcVars
      [] part = "tokens" -> tkVars
      [] part = "public ports" -> peVars
      [] part = "virtual hosts" -> vhVars
      [] part = "imports" -> ceVars
      [] part = "tunnels" -> tunVars
      [] part = "leads" -> ldVars
      [] part = "starts" -> dmnVars
      [] part = "exports" -> nfsVars
      [] part = "delegates" -> dgVars
Weak1 ==
    /\ \/ part = "locks" /\ lockLoop("run")
       \/ part = "tree" /\ ClientStep("c")
       \/ part = "restart" /\ RestartStep
       \/ part = "snapshots" /\ OpStep
       \/ part = "pools" /\ CallStep("a1")
       \/ part = "virtual ips" /\ vipLeader
       \/ part = "backups" /\ (BackupStep \/ RestoreStep)
       \/ part = "controller" /\ RunStep
       \/ part = "internal" /\ (startServiceGroup \/ ManagerAnswers)
       \/ part = "tokens" /\ tkLoop
       \/ part = "public ports" /\ ThreadStep
       \/ part = "imports" /\ TrackStep
       \/ part = "tunnels" /\ PrxyStep
       \/ part = "leads" /\ ldRuns("m1")
       \/ part = "starts" /\ dmnRuns
       \/ part = "exports" /\ nfsOperates
       \/ part = "delegates" /\ dgStarts
    /\ UNCHANGED part
Weak2 ==
    /\ \/ part = "locks" /\ lockLoop("stop")
       \/ part = "tree" /\ TreeSyncStep
       \/ part = "restart" /\ AgentStep(0)
       \/ part = "snapshots" /\ Ageing
       \/ part = "virtual ips" /\ (\E p \in Pairs : BarExpires(p))
       \/ part = "backups" /\ ExportEnds
       \/ part = "controller" /\ (FetchLooks \/ FetchSends)
       \/ part = "internal" /\ ServiceLoop("es")
       \/ part = "tokens" /\ tkMaster
       \/ part = "public ports" /\ CallGoesOn
       \/ part = "imports" /\ UpdateStep
       \/ part = "tunnels" /\ MuxStep
       \/ part = "leads" /\ ldRuns("m2")
       \/ part = "exports" /\ nfsLoop
       \/ part = "delegates" /\ dgTells
    /\ UNCHANGED part
Weak3 ==
    /\ \/ part = "locks" /\ lockScheduler
       \/ part = "restart" /\ AgentStep(1)
       \/ part = "snapshots" /\ (BatchRuns("a") \/ EmergencyMarked("a"))
       \/ part = "virtual ips" /\ vipAgent(<<"h1", "i1">>)
       \/ part = "backups" /\ ImportStep
       \/ part = "controller" /\ DeadmanFires
       \/ part = "internal" /\ Handler("es")
       \/ part = "tokens" /\ tkWatch
       \/ part = "public ports" /\ SyncStep
       \/ part = "imports" /\ ProxyStep
       \/ part = "leads" /\ (ldServes("m1") \/ ldDrains("m1"))
       \/ part = "delegates" /\ dgMounts
    /\ UNCHANGED part
Weak4 ==
    /\ \/ part = "locks" /\ lockRemover
       \/ part = "snapshots" /\ BatchSettles("a")
       \/ part = "virtual ips" /\ vipAgent(<<"h2", "i1">>)
       \/ part = "backups" /\ (\E k \in {"backup", "restore"} : ResetAsync(k) \/ LockFor(k))
       \/ part = "controller" /\ ProcessRuns
       \/ part = "tokens" /\ tkContainer
       \/ part = "public ports" /\ ProxyLoopStops
       \/ part = "leads" /\ (ldServes("m2") \/ ldDrains("m2"))
       \/ part = "delegates" /\ (GetsToken /\ identity = "none")
    /\ UNCHANGED part
Weak5 ==
    /\ \/ part = "locks" /\ FindService
       \/ part = "snapshots" /\ Follow("a")
       \/ part = "virtual ips" /\ (UnassignAll("h1") \/ Reconnect("h1", FALSE))
       \/ part = "controller" /\ CheckReports
       \/ part = "tokens" /\ RefreshTimer
    /\ UNCHANGED part
Weak6 ==
    /\ \/ part = "locks" /\ WaitUnlock
       \/ part = "virtual ips" /\ (UnassignAll("h2") \/ Reconnect("h2", FALSE))
    /\ UNCHANGED part
Strong1 ==
    /\ \/ part = "tree" /\ OwnLock("c")
       \/ part = "snapshots" /\ TenantLock
       \/ part = "pools" /\ PoolSyncStep
       \/ part = "controller" /\ (TakesSignal \/ TakesGone)
       \/ part = "internal" /\ (TakeStart("es") \/ TakeStop("es"))
       \/ part = "tokens" /\ tkReadsAll
       \/ part = "virtual hosts" /\ VhThreadStep("v1")
    /\ UNCHANGED part
Strong2 ==
    /\ \/ part = "snapshots" /\ PurgeStep
       \/ part = "virtual hosts" /\ RequestStep("r1")
    /\ UNCHANGED part
Strong3 ==
    /\ \/ part = "snapshots" /\ WaitOne("a")
       \/ part = "virtual hosts" /\ RequestStep("r2")
    /\ UNCHANGED part

Spec ==
    /\ Init /\ [][Next]_vars
    /\ WF_moving(Weak1) /\ WF_moving(Weak2) /\ WF_moving(Weak3) /\ WF_moving(Weak4)
    /\ WF_moving(Weak5) /\ WF_moving(Weak6) /\ SF_moving(Strong1) /\ SF_moving(Strong2)
    /\ SF_moving(Strong3)

=============================================================================
