------------------------------ MODULE Snapshots ------------------------------
(***************************************************************************)
(* Snapshot, rollback and backup of a tenant, and the removal of old       *)
(* snapshots (facade/dfs.go, dao/elasticsearch/filesystem.go,              *)
(* dfs/ttl/snapshotttl.go).  An operation holds the lock of the file       *)
(* system and the lock of the tenant, waits for the service state manager  *)
(* to be idle, locks the service nodes, has the state manager pause or     *)
(* stop what runs, waits for the instances, works on the volume, and on    *)
(* every way out schedules what it has paused and unlocks.                 *)
(*                                                                         *)
(* The state manager is a queue with one entry for each service; the       *)
(* scheduler and the agents are the action Follow.                         *)
(***************************************************************************)
EXTENDS Naturals, FiniteSets

CONSTANTS
    SnapServices,
    SnapKinds,         \* the operations to start: "snapshot", "backup", "rollback", "force"
    MaxSnapOps,        \* bound on operations
    MaxSnapRequests,   \* bound on requests of the users to start or stop a service
    MaxEmergencies,    \* bound on emergency stops of a service
    MaxSnapFailures,   \* bound on failing calls, timeouts and dying instances
    MaxSnapCrashes     \* bound on restarts of the master

VARIABLES
    desired,    \* DesiredState of the services, in the cache of the store
    snapNode,       \* the service nodes
    inst,       \* what the instances of the services do
    queue,      \* the entry of each service in the state manager
    snapOp,         \* the operation that holds the lock of the file system
    tenantHeld, \* the tenant lock is held
    snaps,      \* the snapshots: a number, a tag and whether it is past its age
    ttl,        \* the snapshots that the purge has listed and will delete
    wrong,      \* history: the volume was worked on while an instance ran
    gaveUp,     \* history: the wait for a batch timed out, or was lost in a restart
    refused,    \* history: services that failed the validation of a batch, or met a restart
    snapLeft

snapVars == <<desired, snapNode, inst, queue, snapOp, tenantHeld, snaps, ttl, wrong, gaveUp, refused, snapLeft>>

NoOp == [pc |-> "idle", kind |-> "none", held |-> {}, waiting |-> {}, done |-> FALSE]
SpendSnap(what) == snapLeft[what] > 0 /\ snapLeft' = [snapLeft EXCEPT ![what] = @ - 1]
SnapFails == SpendSnap("failures")
-----------------------------------------------------------------------------
(* The users, the state manager, the scheduler with the agents.             *)
UserSchedules(s, w) ==
    /\ SpendSnap("requests") /\ ~tenantHeld
    /\ queue' = [queue EXCEPT ![s] = w]
    /\ UNCHANGED <<desired, snapNode, inst, snapOp, tenantHeld, snaps, ttl, wrong, gaveUp, refused>>

\* The state manager marks the services of an emergency batch with UpdateService before it
\* stops them, and UpdateService takes the lock of the tenant.
EmergencyRequested(s) ==
    /\ SpendSnap("emergencies") /\ ~tenantHeld
    /\ queue' = [queue EXCEPT ![s] = "emergency"]
    /\ UNCHANGED <<desired, snapNode, inst, snapOp, tenantHeld, snaps, ttl, wrong, gaveUp, refused>>

EmergencyMarked(s) ==
    /\ queue[s] = "emergency" /\ ~tenantHeld
    /\ queue' = [queue EXCEPT ![s] = "stop"]
    /\ UNCHANGED <<desired, snapNode, inst, snapOp, tenantHeld, snaps, ttl, wrong, gaveUp, refused, snapLeft>>

\* ScheduleServiceBatch: a service that is in the state already is left alone; one that
\* fails the validation too; for the rest the cache is updated and the node is written,
\* and written without the lock.
BatchRuns(s) ==
    /\ queue[s] \in {"run", "pause", "stop"}
    /\ \/ /\ desired[s] # queue[s] /\ queue' = [queue EXCEPT ![s] = "current"]
          /\ desired' = [desired EXCEPT ![s] = queue[s]]
          /\ snapNode' = [snapNode EXCEPT ![s] = [want |-> queue[s], locked |-> FALSE]]
          /\ UNCHANGED <<refused, snapLeft>>
       \/ /\ desired[s] = queue[s] /\ queue' = [queue EXCEPT ![s] = "current"]
          /\ UNCHANGED <<desired, snapNode, refused, snapLeft>>
       \/ /\ desired[s] # queue[s] /\ queue[s] # "stop" /\ SnapFails
          /\ queue' = [queue EXCEPT ![s] = "none"]
          /\ refused' = refused \cup {s} /\ UNCHANGED <<desired, snapNode>>
    /\ UNCHANGED <<inst, snapOp, tenantHeld, snaps, ttl, wrong, gaveUp>>

\* The batch stays current until its services are where they should be, or the wait
\* for that times out.
BatchSettles(s) ==
    /\ queue[s] = "current" /\ queue' = [queue EXCEPT ![s] = "none"]
    /\ \/ inst[s] = snapNode[s].want /\ UNCHANGED <<gaveUp, snapLeft>>
       \/ inst[s] # snapNode[s].want /\ SnapFails /\ gaveUp' = TRUE
    /\ UNCHANGED <<desired, snapNode, inst, snapOp, tenantHeld, snaps, ttl, wrong, refused>>

\* A locked service gets no new instance.
Follow(s) ==
    /\ inst[s] # snapNode[s].want
    /\ \/ snapNode[s].want = "run" /\ (inst[s] = "pause" \/ ~snapNode[s].locked)
       \/ snapNode[s].want = "pause" /\ inst[s] = "run"
       \/ snapNode[s].want = "stop"
    /\ inst' = [inst EXCEPT ![s] = snapNode[s].want]
    /\ UNCHANGED <<desired, snapNode, queue, snapOp, tenantHeld, snaps, ttl, wrong, gaveUp, refused, snapLeft>>

InstanceDies(s) ==
    /\ inst[s] # "stop" /\ SnapFails
    /\ inst' = [inst EXCEPT ![s] = "stop"]
    /\ UNCHANGED <<desired, snapNode, queue, snapOp, tenantHeld, snaps, ttl, wrong, gaveUp, refused>>
-----------------------------------------------------------------------------
(* The operation.                                                           *)
BeginOp(kind) ==
    /\ snapOp = NoOp /\ SpendSnap("ops")
    /\ snapOp' = [NoOp EXCEPT !.pc = "tenant", !.kind = kind]
    /\ UNCHANGED <<desired, snapNode, inst, queue, tenantHeld, snaps, ttl, wrong, gaveUp, refused>>

TenantLock ==
    /\ snapOp.pc = "tenant" /\ ~tenantHeld /\ tenantHeld' = TRUE
    /\ snapOp' = [snapOp EXCEPT !.pc = "ssm"]
    /\ UNCHANGED <<desired, snapNode, inst, queue, snaps, ttl, wrong, gaveUp, refused, snapLeft>>

\* The lock flag of all service nodes, in one transaction.
SetLocks(b) == snapNode' = [s \in SnapServices |-> [snapNode[s] EXCEPT !.locked = b]]

\* ssm.Wait, then the nodes are locked in one transaction; on an error the operation ends.
LockNodes ==
    /\ snapOp.pc = "ssm" /\ \A s \in SnapServices : queue[s] = "none"
    /\ \/ /\ SetLocks(TRUE)
          /\ snapOp' = [snapOp EXCEPT !.pc = "pause"] /\ UNCHANGED <<tenantHeld, snapLeft>>
       \/ SnapFails /\ snapOp' = NoOp /\ tenantHeld' = FALSE /\ UNCHANGED snapNode
    /\ UNCHANGED <<desired, inst, queue, snaps, ttl, wrong, gaveUp, refused>>

Running == {s \in SnapServices : desired[s] = "run"}

\* Snapshot pauses what runs.
SchedulePause ==
    /\ snapOp.pc = "pause" /\ snapOp.kind \in {"snapshot", "backup"}
    /\ queue' = [s \in SnapServices |-> IF s \in Running THEN "pause" ELSE queue[s]]
    /\ snapOp' = [snapOp EXCEPT !.pc = "wait", !.held = Running, !.waiting = SnapServices]
    /\ UNCHANGED <<desired, snapNode, inst, tenantHeld, snaps, ttl, wrong, gaveUp, refused, snapLeft>>

\* Rollback stops what runs, or is refused unless it is forced.
ScheduleStop ==
    /\ snapOp.pc = "pause" /\ snapOp.kind \in {"rollback", "force"}
    /\ IF snapOp.kind = "rollback" /\ Running # {}
       THEN snapOp' = [snapOp EXCEPT !.pc = "unlock"] /\ UNCHANGED queue
       ELSE /\ queue' = [s \in SnapServices |-> IF s \in Running THEN "stop" ELSE queue[s]]
            /\ snapOp' = [snapOp EXCEPT !.pc = "wait", !.held = Running, !.waiting = SnapServices]
    /\ UNCHANGED <<desired, snapNode, inst, tenantHeld, snaps, ttl, wrong, gaveUp, refused, snapLeft>>

Quiet(s) == inst[s] = "stop" \/ (inst[s] = "pause" /\ snapOp.kind \in {"snapshot", "backup"})

\* WaitService, for each service on its own.
WaitOne(s) ==
    /\ snapOp.pc = "wait" /\ s \in snapOp.waiting /\ Quiet(s)
    /\ snapOp' = [snapOp EXCEPT !.waiting = @ \ {s}]
    /\ UNCHANGED <<desired, snapNode, inst, queue, tenantHeld, snaps, ttl, wrong, gaveUp, refused, snapLeft>>

\* All are quiet, or the time to wait is over.
WaitEnds ==
    /\ snapOp.pc = "wait"
    /\ snapOp' = [snapOp EXCEPT !.pc = IF snapOp.waiting = {} THEN "volume" ELSE "resume"]
    /\ UNCHANGED <<desired, snapNode, inst, queue, tenantHeld, snaps, ttl, wrong, gaveUp, refused, snapLeft>>

Number == MaxSnapOps - snapLeft["ops"]
SnapshotVolume ==
    /\ snapOp.pc = "volume" /\ snapOp.kind \in {"snapshot", "backup"}
    /\ \/ /\ snaps' = snaps \cup {[n |-> Number, tag |-> IF snapOp.kind = "backup" THEN "backup" ELSE "none", old |-> FALSE]}
          /\ wrong' = (wrong \/ \E s \in SnapServices : inst[s] = "run")
          /\ snapOp' = [snapOp EXCEPT !.pc = "resume", !.done = TRUE] /\ UNCHANGED snapLeft
       \/ SnapFails /\ snapOp' = [snapOp EXCEPT !.pc = "resume"] /\ UNCHANGED <<snaps, wrong>>
    /\ UNCHANGED <<desired, snapNode, inst, queue, tenantHeld, ttl, gaveUp, refused>>

\* RestoreServices writes the services anew, stopped and locked, and the volume is rolled back.
RollbackVolume ==
    /\ snapOp.pc = "volume" /\ snapOp.kind \in {"rollback", "force"}
    /\ desired' = [s \in SnapServices |-> "stop"]
    /\ snapNode' = [s \in SnapServices |-> [want |-> "stop", locked |-> TRUE]]
    /\ \/ wrong' = (wrong \/ \E s \in SnapServices : inst[s] # "stop") /\ UNCHANGED snapLeft
       \/ SnapFails /\ UNCHANGED wrong
    /\ snapOp' = [snapOp EXCEPT !.pc = "resume"]
    /\ UNCHANGED <<inst, queue, tenantHeld, snaps, ttl, gaveUp, refused>>

ResumeOnSuccess ==
    /\ snapOp.pc = "resume"
    /\ queue' = [s \in SnapServices |-> IF s \in snapOp.held /\ snapOp.done THEN "run" ELSE queue[s]]
    /\ snapOp' = [snapOp EXCEPT !.pc = "unlock"]
    /\ UNCHANGED <<desired, snapNode, inst, tenantHeld, snaps, ttl, wrong, gaveUp, refused, snapLeft>>

\* Deferred in both operations: what was paused or stopped is scheduled to run.
ResumeHeld ==
    /\ snapOp.pc = "resume"
    /\ queue' = [s \in SnapServices |-> IF s \in snapOp.held THEN "run" ELSE queue[s]]
    /\ snapOp' = [snapOp EXCEPT !.pc = "unlock"]
    /\ UNCHANGED <<desired, snapNode, inst, tenantHeld, snaps, ttl, wrong, gaveUp, refused, snapLeft>>

\* retryUnlockTenant.
UnlockNodes ==
    /\ snapOp.pc = "unlock"
    /\ \/ /\ SetLocks(FALSE) /\ tenantHeld' = FALSE
          /\ snapOp' = IF snapOp.kind = "backup" /\ snapOp.done THEN [snapOp EXCEPT !.pc = "export"] ELSE NoOp
          /\ UNCHANGED snapLeft
       \/ SnapFails /\ UNCHANGED <<snapNode, tenantHeld, snapOp>>
    /\ UNCHANGED <<desired, inst, queue, snaps, ttl, wrong, gaveUp, refused>>

\* dfs.Backup has written the archive or failed: either way the snapshot is deleted, or,
\* when that fails, loses its tag, so that the purge finds it.
BackupEnds ==
    /\ snapOp.pc = "export"
    /\ \/ snaps' = {x \in snaps : x.tag # "backup"} /\ UNCHANGED snapLeft
       \/ SnapFails /\ snaps' = {[x EXCEPT !.tag = IF @ = "backup" THEN "none" ELSE @] : x \in snaps}
    /\ snapOp' = NoOp
    /\ UNCHANGED <<desired, snapNode, inst, queue, tenantHeld, ttl, wrong, gaveUp, refused>>
-----------------------------------------------------------------------------
(* Snapshots: time passes, a user tags one, the purge lists and deletes.     *)
Ages(x) ==
    /\ x \in snaps /\ ~x.old
    /\ snaps' = (snaps \ {x}) \cup {[x EXCEPT !.old = TRUE]}
    /\ UNCHANGED <<desired, snapNode, inst, queue, snapOp, tenantHeld, ttl, wrong, gaveUp, refused, snapLeft>>

TagSnapshot(x) ==
    /\ x \in snaps /\ x.tag = "none" /\ SpendSnap("requests")
    /\ snaps' = (snaps \ {x}) \cup {[x EXCEPT !.tag = "user"]}
    /\ UNCHANGED <<desired, snapNode, inst, queue, snapOp, tenantHeld, ttl, wrong, gaveUp, refused>>

PurgeSnapshots ==
    /\ ttl = {} /\ snapOp = NoOp
    /\ ttl' = {x.n : x \in {y \in snaps : y.tag = "none" /\ y.old}} /\ ttl' # {}
    /\ UNCHANGED <<desired, snapNode, inst, queue, snapOp, tenantHeld, snaps, wrong, gaveUp, refused, snapLeft>>

PurgeOne(n) ==
    /\ n \in ttl /\ snapOp = NoOp
    /\ snaps' = {x \in snaps : x.n # n} /\ ttl' = ttl \ {n}
    /\ UNCHANGED <<desired, snapNode, inst, queue, snapOp, tenantHeld, wrong, gaveUp, refused, snapLeft>>

\* The master restarts: the operation and the queue are gone, UpdateServiceCache takes the
\* desired states from the nodes, and the reset of the locks at the start unlocks the nodes.
MasterRestarts ==
    /\ SpendSnap("crashes")
    /\ snapOp' = NoOp /\ tenantHeld' = FALSE /\ ttl' = {}
    /\ queue' = [s \in SnapServices |-> "none"]
    /\ desired' = [s \in SnapServices |-> snapNode[s].want]
    /\ SetLocks(FALSE)
    /\ refused' = SnapServices /\ gaveUp' = TRUE
    /\ UNCHANGED <<inst, snaps, wrong>>

OpStep ==
    \/ TenantLock \/ LockNodes \/ SchedulePause \/ ScheduleStop \/ WaitEnds \/ SnapshotVolume \/ RollbackVolume
    \/ ResumeHeld \/ UnlockNodes \/ BackupEnds \/ \E s \in SnapServices : WaitOne(s)
PurgeStep == PurgeSnapshots \/ \E n \in ttl : PurgeOne(n)
Ageing == \E x \in snaps : Ages(x)

snapInit ==
    /\ desired = [s \in SnapServices |-> "run"] /\ inst = [s \in SnapServices |-> "run"]
    /\ snapNode = [s \in SnapServices |-> [want |-> "run", locked |-> FALSE]]
    /\ queue = [s \in SnapServices |-> "none"]
    /\ snapOp = NoOp /\ tenantHeld = FALSE /\ snaps = {} /\ ttl = {} /\ wrong = FALSE /\ gaveUp = FALSE /\ refused = {}
    /\ snapLeft = [ops |-> MaxSnapOps, requests |-> MaxSnapRequests, emergencies |-> MaxEmergencies,
                   failures |-> MaxSnapFailures, crashes |-> MaxSnapCrashes]

snapNext ==
    \/ OpStep \/ PurgeStep \/ Ageing \/ MasterRestarts
    \/ \E kind \in SnapKinds : BeginOp(kind)
    \/ \E s \in SnapServices : BatchRuns(s) \/ BatchSettles(s) \/ Follow(s) \/ InstanceDies(s)
        \/ EmergencyRequested(s) \/ EmergencyMarked(s) \/ \E w \in {"run", "stop"} : UserSchedules(s, w)
    \/ \E x \in snaps : TagSnapshot(x)

snapFairness ==
    /\ WF_snapVars(OpStep) /\ SF_snapVars(TenantLock) /\ WF_snapVars(Ageing) /\ SF_snapVars(PurgeStep)
    /\ \A s \in SnapServices : WF_snapVars(BatchRuns(s) \/ EmergencyMarked(s)) /\ WF_snapVars(BatchSettles(s)) /\ WF_snapVars(Follow(s)) /\ SF_snapVars(WaitOne(s))
snapSpec == snapInit /\ [][snapNext]_snapVars /\ snapFairness
-----------------------------------------------------------------------------
\* The volume is snapshotted only while nothing runs on it and rolled back only while
\* everything is stopped, whatever dies or fails the validation in between; a batch that
\* is given up may still be under way, and is the exception.
VolumeIsQuiet == wrong => gaveUp

\* No service is left paused by an operation, on whichever way out it was, unless its
\* resumption failed the validation, the master restarted in the middle, or an emergency
\* stop is stuck in the queue.
NothingLeftPaused ==
    <>[](\A s \in SnapServices : desired[s] = "pause" => s \in refused \/ queue[s] = "emergency")

\* The snapshot that a backup takes for itself does not stay: it is deleted at the end, or
\* untagged and then purged.  Only a restart of the master in the middle leaves one behind,
\* and its tag keeps it from the purge for good.
Restarted == snapLeft["crashes"] < MaxSnapCrashes
BackupSnapshotsGo == <>[](Restarted \/ \A x \in snaps : x.tag # "backup")

\* Every operation comes to its end and gives back the lock of the file system, unless an
\* emergency stop is in the queue: that one waits for the tenant lock which the operation
\* holds while it waits for the queue.
OperationEndsOrBlocked ==
    []<>(snapOp = NoOp \/ \E s \in SnapServices : queue[s] = "emergency")

=============================================================================
