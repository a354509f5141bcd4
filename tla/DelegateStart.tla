----------------------------- MODULE DelegateStart ----------------------------
(***************************************************************************)
(* How the delegate starts on a host and ends (cli/api/daemon.go,          *)
(* startAgent; coordinator/storage/client.go).  It learns its pool from    *)
(* the master, tells the master what the host looks like, and waits until  *)
(* it knows where the volumes are exported; only then the agent runs.      *)
(* Meanwhile administrators move the host to other pools, the lead of the  *)
(* storage changes, and the process is told to end.                        *)
(***************************************************************************)
EXTENDS Naturals, FiniteSets, InternalServices

CONSTANTS DgPools,        \* pools
          DgDfsPools,     \* those that may mount the volumes
          MaxHostMoves,   \* how many times administrators add or move the host
          MaxDgFailures,  \* how many calls may fail
          MaxStorageLeads, \* how many masters lead the storage, one after the other
          MaxDgSignals    \* how many times the process is told to end

NotAdded == "none"  \* the pool of a host that was not added

ASSUME DelegateStartAssumption ==
    /\ DgDfsPools \subseteq DgPools /\ NotAdded \notin DgPools
    /\ {MaxHostMoves, MaxDgFailures, MaxStorageLeads, MaxDgSignals} \subseteq Nat

VARIABLES hostRec,      \* the document of the host
          adminHas,     \* the document that an administrator has read
          dgStart,      \* the goroutine of startAgent, with the document it has read
          again,        \* the goroutine that tells the master in the background
          identity,     \* the identity in the current token: "none", "dfs", "plain"
          storageLead,  \* the node of the leader of the storage, 0 when there is none
          nfsClient,    \* the loop of the storage client, with the path it has read
          exportedPath, \* of the storage client, 0 before it is known
          dgShutdown,   \* d.shutdown is closed
          \* what happened
          movedTo,      \* the pool where administrators last put the host
          dgLeft
dgVars == <<hostRec, adminHas, dgStart, again, identity, storageLead, nfsClient, exportedPath, dgShutdown, movedTo, dgLeft>>
masterSide == <<hostRec, adminHas, movedTo>>
mountSide == <<nfsClient, exportedPath>>

NotRead == [pool |-> NotAdded, version |-> 0, facts |-> "old", ips |-> "old"]

dgInit ==
    /\ hostRec = NotRead /\ adminHas = NotRead /\ movedTo = NotAdded
    /\ dgStart = [at |-> "asks", read |-> NotRead] /\ again = [at |-> "none", read |-> NotRead]
    /\ identity = "none" /\ storageLead = 0
    /\ nfsClient = [at |-> "none", path |-> 0] /\ exportedPath = 0
    /\ dgShutdown = FALSE
    /\ dgLeft = [moves |-> MaxHostMoves, failures |-> MaxDgFailures, leads |-> MaxStorageLeads, signals |-> MaxDgSignals]

DgSpend(what) == dgLeft[what] > 0 /\ dgLeft' = [dgLeft EXCEPT ![what] = @ - 1]
StartGoes(from, to) == dgStart.at = from /\ dgStart' = [dgStart EXCEPT !.at = to]

-----------------------------------------------------------------------------
(* The master, an administrator, and the token                              *)

\* Facade.UpdateHost writes whatever document it is given.
PutAnyHost(doc) ==
    hostRec' = [doc EXCEPT !.version = hostRec.version + 1]
\* Facade.UpdateHost: the data store refuses a document that is older than what it has.
PutHostRec(doc) ==
    doc.version = hostRec.version /\ hostRec' = [doc EXCEPT !.version = @ + 1]

AdminAdds(p) ==
    /\ hostRec.pool = NotAdded /\ DgSpend("moves")
    /\ hostRec' = [hostRec EXCEPT !.pool = p, !.version = 1] /\ movedTo' = p
    /\ UNCHANGED <<adminHas, dgStart, again, identity, storageLead, mountSide, dgShutdown>>
AdminReads ==
    /\ hostRec.pool # NotAdded /\ dgLeft.moves > 0 /\ adminHas' = hostRec
    /\ UNCHANGED <<hostRec, movedTo, dgStart, again, identity, storageLead, mountSide, dgShutdown, dgLeft>>
AdminMoves(p) ==
    /\ adminHas # NotRead /\ p # adminHas.pool /\ DgSpend("moves")
    /\ PutHostRec([adminHas EXCEPT !.pool = p]) /\ movedTo' = p /\ adminHas' = NotRead
    /\ UNCHANGED <<dgStart, again, identity, storageLead, mountSide, dgShutdown>>

\* TokenLoop (HostTokens): a token says what the pool of the host may do when it is made.
GetsToken ==
    /\ hostRec.pool # NotAdded /\ ~dgShutdown
    /\ identity' = IF hostRec.pool \in DgDfsPools THEN "dfs" ELSE "plain"
    /\ UNCHANGED <<masterSide, dgStart, again, storageLead, mountSide, dgShutdown, dgLeft>>

\* Server.Run (NfsExports, Leadership): a master takes the lead of the storage, or loses it.
StorageLeads ==
    /\ \/ DgSpend("leads") /\ storageLead' = MaxStorageLeads - dgLeft.leads + 1
       \/ storageLead # 0 /\ dgLeft.leads > 0 /\ storageLead' = 0 /\ UNCHANGED dgLeft
    /\ UNCHANGED <<masterSide, dgStart, again, identity, mountSide, dgShutdown>>

-----------------------------------------------------------------------------
(* startAgent                                                               *)

\* The call needs a token.  The host may not have been added; only then, or when the call
\* fails, the shutdown is looked at.
GetHost ==
    /\ identity # "none" /\ hostRec.pool # NotAdded
    /\ dgStart.at = "asks" /\ dgStart' = [at |-> "updates", read |-> hostRec]
    /\ UNCHANGED <<masterSide, again, identity, storageLead, mountSide, dgShutdown, dgLeft>>
AsksInVain ==
    /\ dgShutdown /\ StartGoes("asks", "returned")
    /\ (identity = "none" /\ UNCHANGED dgLeft) \/ DgSpend("failures")
    /\ UNCHANGED <<masterSide, again, identity, storageLead, mountSide, dgShutdown>>

\* What the host is like now; the port and the ips are left as they are.
UpdateHostInfo(doc) == [doc EXCEPT !.facts = "new"]

\* The master learns of the host as it is now, with its ips.  When that fails the delegate
\* starts all the same, and a goroutine goes on in the background.
TellsMaster ==
    /\ StartGoes("updates", "connects")
    /\ \/ PutHostRec([UpdateHostInfo(dgStart.read) EXCEPT !.ips = "new"]) /\ UNCHANGED <<again, dgLeft>>
       \/ /\ (dgStart.read.version # hostRec.version /\ UNCHANGED dgLeft) \/ DgSpend("failures")
          /\ again' = [again EXCEPT !.at = "asks"] /\ UNCHANGED hostRec
    /\ UNCHANGED <<adminHas, movedTo, identity, storageLead, mountSide, dgShutdown>>

\* It looks at the shutdown, sleeps and reads the document again; the ips are those of the
\* document.
AsksAgain ==
    /\ again.at = "asks"
    /\ again' = IF dgShutdown THEN [again EXCEPT !.at = "none"] ELSE [at |-> "updates", read |-> hostRec]
    /\ UNCHANGED <<masterSide, dgStart, identity, storageLead, mountSide, dgShutdown, dgLeft>>
TellsAgain ==
    /\ again.at = "updates"
    /\ \/ PutHostRec(UpdateHostInfo(again.read)) /\ again' = [again EXCEPT !.at = "none"] /\ UNCHANGED dgLeft
       \/ /\ (again.read.version # hostRec.version /\ UNCHANGED dgLeft) \/ DgSpend("failures")
          /\ again' = [again EXCEPT !.at = "asks"] /\ UNCHANGED hostRec
    /\ UNCHANGED <<adminHas, movedTo, dgStart, identity, storageLead, mountSide, dgShutdown>>

\* The connection below the pool that was read.  Whether the volumes are mounted is asked
\* once, of the token that is there.
Connects ==
    /\ \/ identity = "dfs" /\ StartGoes("connects", "waits") /\ nfsClient' = [nfsClient EXCEPT !.at = "enters"]
       \/ identity # "dfs" /\ StartGoes("connects", "begins") /\ UNCHANGED nfsClient
    /\ UNCHANGED <<masterSide, again, identity, storageLead, exportedPath, dgShutdown, dgLeft>>

\* nfsClient.Wait returns: the path was told, or the client was closed because of the shutdown.
Waited ==
    /\ StartGoes("waits", "begins")
    /\ nfsClient.at \in {"told", "rests"} \/ dgShutdown
    /\ UNCHANGED <<masterSide, again, identity, storageLead, mountSide, dgShutdown, dgLeft>>

\* waitGroup.Add and HostAgent.Start.
AgentStarts ==
    /\ StartGoes("begins", "runs")
    /\ UNCHANGED <<masterSide, again, identity, storageLead, mountSide, dgShutdown, dgLeft>>
\* The agent returns (HostStateListener says how), waitGroup.Done.
AgentReturns ==
    /\ dgShutdown /\ StartGoes("runs", "returned")
    /\ UNCHANGED <<masterSide, again, identity, storageLead, mountSide, dgShutdown, dgLeft>>

-----------------------------------------------------------------------------
(* The loop of the storage client                                           *)
ClientGoes(from, to) == nfsClient.at = from /\ nfsClient' = [nfsClient EXCEPT !.at = to]

\* Its node is made or written, and watched.
ClientEnters ==
    /\ ClientGoes("enters", "reads")
    /\ UNCHANGED <<masterSide, dgStart, again, identity, storageLead, exportedPath, dgShutdown, dgLeft>>

\* leader.Current, which is an error as long as there is no leader.
ReadsLeader ==
    /\ storageLead # 0 /\ nfsClient.at = "reads" /\ nfsClient' = [at |-> "tells", path |-> storageLead]
    /\ UNCHANGED <<masterSide, dgStart, again, identity, storageLead, exportedPath, dgShutdown, dgLeft>>
\* A call fails, or the node has changed: everything is done again.
EntersAgain ==
    /\ nfsClient.at \in {"reads", "tells"} /\ DgSpend("failures") /\ nfsClient' = [nfsClient EXCEPT !.at = "enters"]
    /\ UNCHANGED <<masterSide, dgStart, again, identity, storageLead, exportedPath, dgShutdown>>

\* The path is told before the mounts can use it.
TellsPath ==
    /\ ClientGoes("tells", "told")
    /\ UNCHANGED <<masterSide, dgStart, again, identity, storageLead, exportedPath, dgShutdown, dgLeft>>
KeepsPath ==
    /\ ClientGoes("told", "rests") /\ exportedPath' = nfsClient.path
    /\ UNCHANGED <<masterSide, dgStart, again, identity, storageLead, dgShutdown, dgLeft>>
\* Close.
ClientCloses ==
    /\ dgShutdown /\ nfsClient.at \in {"enters", "reads", "tells", "rests"} /\ nfsClient' = [nfsClient EXCEPT !.at = "closed"]
    /\ UNCHANGED <<masterSide, dgStart, again, identity, storageLead, exportedPath, dgShutdown, dgLeft>>

\* d.shutdown is closed.
ToldToEnd ==
    /\ ~dgShutdown /\ DgSpend("signals") /\ dgShutdown' = TRUE
    /\ UNCHANGED <<masterSide, dgStart, again, identity, storageLead, mountSide>>

dgNext ==
    \/ \E p \in DgPools : AdminAdds(p) \/ AdminMoves(p)
    \/ AdminReads \/ GetsToken \/ StorageLeads
    \/ GetHost \/ AsksInVain \/ TellsMaster \/ AsksAgain \/ TellsAgain \/ Connects \/ Waited \/ AgentStarts \/ AgentReturns
    \/ ClientEnters \/ ReadsLeader \/ EntersAgain \/ TellsPath \/ KeepsPath \/ ClientCloses
    \/ ToldToEnd

dgStarts ==
    \/ GetHost \/ (identity = "none" /\ AsksInVain) \/ TellsMaster \/ Connects \/ Waited \/ AgentStarts \/ AgentReturns
dgTells == AsksAgain \/ TellsAgain
dgMounts == ClientEnters \/ ReadsLeader \/ TellsPath \/ KeepsPath \/ ClientCloses
dgSpec ==
    /\ dgInit /\ [][dgNext]_dgVars
    /\ WF_dgVars(dgStarts) /\ WF_dgVars(dgTells) /\ WF_dgVars(dgMounts) /\ WF_dgVars(GetsToken /\ identity = "none")

-----------------------------------------------------------------------------
\* What a delegate tells of its host never takes back the move to another pool that an
\* administrator made meanwhile.
HostKeepsPool == hostRec.pool = movedTo

\* An agent whose host may mount the volumes knows where they are before it runs a container.
\* Two exceptions: the path is told an instant before it is kept, and a shutdown ends the wait.
Mountable ==
    dgStart.at = "runs" /\ nfsClient.at # "none" /\ ~dgShutdown =>
        exportedPath # 0 \/ nfsClient.at = "told"

DelegateSound == HostKeepsPool /\ Mountable

\* The processes on a host: internal services that are stopped are down (src/isvcs), and the
\* delegate starts in order (src/cli/api/daemon.go).
ProcessesSound == StoppedMeansDown /\ DelegateSound

\* A host that was added runs its agent in the end, when the storage has a leader or the host
\* mounts nothing, and the master comes to know what the host looks like, save the ips.  A
\* delegate that is told to end does, wherever its start has come to.
DelegateRuns ==
    /\ <>[](hostRec.pool # NotAdded /\ ~dgShutdown /\ storageLead # 0) => <>[](dgStart.at = "runs")
    /\ <>[](hostRec.pool # NotAdded /\ ~dgShutdown) => <>[](hostRec.facts = "new")
    /\ <>[]dgShutdown => <>[](dgStart.at = "returned")
=============================================================================
