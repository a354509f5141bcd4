------------------------------ MODULE Leadership ------------------------------
(***************************************************************************)
(* Which master works.  The scheduler of a master                          *)
(* (scheduler/scheduler.go) enters the election under /scheduler           *)
(* (coordinator/client/zookeeper/leader.go), resets the service locks when *)
(* it has won and starts its workers.  One of them serves the file system  *)
(* (coordinator/storage/server.go) and has an election of its own, under   *)
(* /storage/leader.  All nodes of a master belong to one ZooKeeper session.*)
(***************************************************************************)
EXTENDS Naturals, FiniteSets, FiniteSetsExt

CONSTANTS Masters,          \* the masters
          MaxCandidates,    \* how many nodes may be made under either path
          MaxHiccups,       \* how many calls to ZooKeeper may fail while the session goes on
          MaxExpirations,   \* how many sessions may expire
          MaxResetFailures, \* how many times ResetLocks, or reading the pool, may fail
          MaxWorkerEnds,    \* how many workers may end with an error
          MaxMasterStops    \* how many times a master may be shut down

ASSUME LeadershipAssumption ==
    {MaxCandidates, MaxHiccups, MaxExpirations, MaxResetFailures, MaxWorkerEnds, MaxMasterStops} \subseteq Nat

Paths == {"scheduler", "storage"}
LdWorkers == {"storage", "sync", "pools"}

VARIABLES candidates, \* [path -> nodes of the election, each with its sequence number]
          nextSeq,    \* [path -> the next sequence number]
          election,   \* [path -> [master -> what its Leader object is about]]
          mainloop,   \* [master -> where its scheduler is]
          workers,    \* [master -> the workers that run]
          stopCalled, \* s.shutdown is closed
          ldLock,    \* the lock of the distributed file system is held, [master -> BOOLEAN]
          ldLeft
ldVars == <<candidates, nextSeq, election, mainloop, workers, stopCalled, ldLock, ldLeft>>
electionVars == <<candidates, nextSeq, election>>

Out == [at |-> "out", own |-> 0, watched |-> 0]

ldInit ==
    /\ candidates = [p \in Paths |-> {}] /\ nextSeq = [p \in Paths |-> 1]
    /\ election = [p \in Paths |-> [m \in Masters |-> Out]]
    /\ mainloop = [m \in Masters |-> "off"] /\ workers = [m \in Masters |-> {}]
    /\ stopCalled = [m \in Masters |-> FALSE] /\ ldLock = [m \in Masters |-> FALSE]
    /\ ldLeft = [hiccups |-> MaxHiccups, expirations |-> MaxExpirations, resets |-> MaxResetFailures,
                 ends |-> MaxWorkerEnds, stops |-> MaxMasterStops]

Spend(what) == ldLeft[what] > 0 /\ ldLeft' = [ldLeft EXCEPT ![what] = @ - 1]
LdLoop(m, from, to) == mainloop[m] = from /\ mainloop' = [mainloop EXCEPT ![m] = to]

Node(seq, m) == [seq |-> seq, of |-> m]
Stands(p, m) == Node(election[p][m].own, m) \in candidates[p]
Seqs(p) == {c.seq : c \in candidates[p]}
\* getLowestSequence, the next number when there is no node
LowestSeq(p) == Min(Seqs(p) \cup {nextSeq[p]})

-----------------------------------------------------------------------------
(* Leader.TakeLead, the same for both paths                                 *)
At(p, m) == election[p][m].at
Becomes(p, m, e) == election' = [election EXCEPT ![p][m] = e]

\* CreateProtectedEphemeralSequential
Enroll(p, m) ==
    /\ nextSeq[p] <= MaxCandidates
    /\ candidates' = [candidates EXCEPT ![p] = @ \cup {Node(nextSeq[p], m)}]
    /\ nextSeq' = [nextSeq EXCEPT ![p] = @ + 1]
    /\ Becomes(p, m, [at |-> "looks", own |-> nextSeq[p], watched |-> 0])

\* getLowestSequence and ExistsW: the node is the lowest one, so the lead is taken.
Wins(p, m) ==
    /\ At(p, m) = "looks" /\ Stands(p, m) /\ election[p][m].own = LowestSeq(p)
    /\ Becomes(p, m, [election[p][m] EXCEPT !.at = "holds"])
    /\ UNCHANGED <<candidates, nextSeq>>

\* The watch is set on the node of the master itself.
WatchesOwn(p, m) ==
    /\ At(p, m) = "looks" /\ LowestSeq(p) < election[p][m].own
    /\ Becomes(p, m, [election[p][m] EXCEPT !.at = "waits", !.watched = election[p][m].own])
    /\ UNCHANGED <<candidates, nextSeq>>
\* Another node is lower: it is watched until it goes.
Watches(p, m) ==
    /\ At(p, m) = "looks" /\ LowestSeq(p) < election[p][m].own
    /\ Becomes(p, m, [election[p][m] EXCEPT !.at = "waits", !.watched = LowestSeq(p)])
    /\ UNCHANGED <<candidates, nextSeq>>
LooksAgain(p, m) ==
    /\ At(p, m) = "waits" /\ election[p][m].watched \notin Seqs(p)
    /\ Becomes(p, m, [election[p][m] EXCEPT !.at = "looks"])
    /\ UNCHANGED <<candidates, nextSeq>>

\* TakeLead returns an error.  A call that fails leaves the node where it is, and the next
\* Leader object knows nothing of it.
Refused(p, m) ==
    /\ ~Stands(p, m) /\ At(p, m) \in {"looks", "waits"} /\ UNCHANGED ldLeft
    /\ At(p, m) = "looks" => LowestSeq(p) > election[p][m].own
TakeLeadFails(p, m) ==
    /\ \/ Refused(p, m)
       \/ At(p, m) = "looks" /\ Spend("hiccups")
    /\ Becomes(p, m, Out)
    /\ UNCHANGED <<candidates, nextSeq>>

\* ReleaseLead: the node is deleted.  Nobody looks at the error.
ReleaseLead(p, m) ==
    /\ \/ candidates' = [candidates EXCEPT ![p] = @ \ {Node(election[p][m].own, m)}] /\ UNCHANGED ldLeft
       \/ Stands(p, m) /\ Spend("hiccups") /\ UNCHANGED candidates
    /\ Becomes(p, m, Out) /\ UNCHANGED nextSeq

-----------------------------------------------------------------------------
(* scheduler.Start and the loop it starts                                   *)

\* Start reads the pool of the master.  When it cannot, the scheduler counts as started and
\* nothing runs, and Stop waits for nothing.
Start(m) ==
    /\ \/ LdLoop(m, "off", "connect") /\ UNCHANGED ldLeft
       \/ LdLoop(m, "off", "stuck") /\ Spend("resets")
    /\ UNCHANGED <<electionVars, workers, stopCalled, ldLock>>

\* mainloop enters the election.
EnterElection(m) ==
    /\ LdLoop(m, "connect", "electing") /\ Enroll("scheduler", m)
    /\ UNCHANGED <<workers, stopCalled, ldLock, ldLeft>>

Elects(m) ==
    /\ mainloop[m] = "electing" /\ (Watches("scheduler", m) \/ LooksAgain("scheduler", m))
    /\ UNCHANGED <<mainloop, workers, stopCalled, ldLock, ldLeft>>

NotElected(m) ==
    /\ LdLoop(m, "electing", "next") /\ TakeLeadFails("scheduler", m)
    /\ UNCHANGED <<workers, stopCalled, ldLock>>

\* The lead is taken; the scheduler may have been stopped meanwhile.
Elected(m) ==
    /\ LdLoop(m, "electing", IF stopCalled[m] THEN "releases" ELSE "locks") /\ Wins("scheduler", m)
    /\ UNCHANGED <<workers, stopCalled, ldLock, ldLeft>>

\* The locks of the services are reset under the lock of the file system, and the workers start.
ResetLocks(m) ==
    /\ LdLoop(m, "locks", "works") /\ ~ldLock[m]
    /\ workers' = [workers EXCEPT ![m] = LdWorkers]
    /\ UNCHANGED <<electionVars, stopCalled, ldLock, ldLeft>>

\* They cannot be reset: mainloop returns with the lock in its hand.
ResetLocksFails(m) ==
    /\ LdLoop(m, "locks", "releases") /\ ~ldLock[m] /\ Spend("resets")
    /\ ldLock' = [ldLock EXCEPT ![m] = TRUE]
    /\ UNCHANGED <<electionVars, workers, stopCalled>>

\* The lead is lost, a worker has told that it ended, or Stop was called.
WorkEnds(m) ==
    /\ LdLoop(m, "works", "drains")
    /\ ~Stands("scheduler", m) \/ ~({"storage", "pools"} \subseteq workers[m]) \/ stopCalled[m]
    /\ UNCHANGED <<electionVars, workers, stopCalled, ldLock, ldLeft>>

\* ReleaseLead comes before the workers are waited for.
ReleasesEarly(m) ==
    /\ mainloop[m] \in {"drains", "releases"} /\ mainloop' = [mainloop EXCEPT ![m] = "next"]
    /\ ReleaseLead("scheduler", m)
    /\ UNCHANGED <<workers, stopCalled, ldLock>>
\* The deferred calls: _shutdown was closed, the workers are waited for, then the lead is released.
Releases(m) ==
    /\ mainloop[m] \in {"drains", "releases"} /\ workers[m] = {}
    /\ mainloop' = [mainloop EXCEPT ![m] = "next"] /\ ReleaseLead("scheduler", m)
    /\ UNCHANGED <<workers, stopCalled, ldLock>>

GoesOn(m) ==
    /\ LdLoop(m, "next", IF stopCalled[m] THEN "stopped" ELSE "connect")
    /\ UNCHANGED <<electionVars, workers, stopCalled, ldLock, ldLeft>>

-----------------------------------------------------------------------------
(* The workers                                                              *)
WorkerLeaves(m, w) == w \in workers[m] /\ workers' = [workers EXCEPT ![m] = @ \ {w}]

\* localSync and RunSnapshotTTL end with the shutdown, the pool listeners also by themselves.
Worker(m) ==
    /\ \E w \in {"sync", "pools"} :
         /\ WorkerLeaves(m, w)
         /\ \/ mainloop[m] = "drains" /\ UNCHANGED ldLeft
            \/ w = "pools" /\ mainloop[m] = "works" /\ Spend("ends")
    /\ UNCHANGED <<electionVars, mainloop, stopCalled, ldLock>>

\* Server.Run takes the lead of the storage.  A shutdown does not end the wait for it.
ServerRun(m) ==
    /\ "storage" \in workers[m]
    /\ \/ At("storage", m) = "out" /\ Enroll("storage", m)
       \/ Watches("storage", m) \/ LooksAgain("storage", m) \/ Wins("storage", m)
    /\ UNCHANGED <<mainloop, workers, stopCalled, ldLock, ldLeft>>
ServerRefused(m) ==
    /\ WorkerLeaves(m, "storage") /\ TakeLeadFails("storage", m)
    /\ UNCHANGED <<mainloop, stopCalled, ldLock>>

\* It ends with the shutdown or when the lead is lost, and releases the lead.
ServerEnds(m) ==
    /\ WorkerLeaves(m, "storage") /\ At("storage", m) = "holds"
    /\ mainloop[m] = "drains" \/ ~Stands("storage", m)
    /\ ReleaseLead("storage", m)
    /\ UNCHANGED <<mainloop, stopCalled, ldLock>>
\* SetClients and Sync: the export cannot be written.
StorageSyncFailed(m) ==
    /\ WorkerLeaves(m, "storage") /\ At("storage", m) = "holds" /\ Spend("ends")
    /\ candidates' = [candidates EXCEPT !["storage"] = @ \ {Node(election["storage"][m].own, m)}]
    /\ Becomes("storage", m, Out)
    /\ UNCHANGED <<nextSeq, mainloop, stopCalled, ldLock>>

-----------------------------------------------------------------------------
(* Sessions and processes                                                   *)
WithoutNodesOf(m) == [p \in Paths |-> {c \in candidates[p] : c.of # m}]

\* The session expires: its nodes are gone, and the master has not noticed yet.
Expires(m) ==
    /\ \E p \in Paths : \E c \in candidates[p] : c.of = m
    /\ Spend("expirations") /\ candidates' = WithoutNodesOf(m)
    /\ UNCHANGED <<nextSeq, election, mainloop, workers, stopCalled, ldLock>>

\* runScheduler calls Stop.
Stop(m) ==
    /\ mainloop[m] \notin {"off", "gone"} /\ ~stopCalled[m] /\ Spend("stops")
    /\ stopCalled' = [stopCalled EXCEPT ![m] = TRUE]
    /\ UNCHANGED <<electionVars, mainloop, workers, ldLock>>

\* The daemon does not wait for it: the connections are closed and the process ends.
ShutdownConnections(m) ==
    /\ stopCalled[m] /\ mainloop[m] # "gone"
    /\ candidates' = WithoutNodesOf(m)
    /\ election' = [p \in Paths |-> [election[p] EXCEPT ![m] = Out]]
    /\ mainloop' = [mainloop EXCEPT ![m] = "gone"] /\ workers' = [workers EXCEPT ![m] = {}]
    /\ ldLock' = [ldLock EXCEPT ![m] = FALSE]
    /\ UNCHANGED <<nextSeq, stopCalled, ldLeft>>

ldNext ==
    \E m \in Masters :
        \/ Start(m) \/ EnterElection(m) \/ Elects(m) \/ NotElected(m) \/ Elected(m) \/ ResetLocks(m) \/ ResetLocksFails(m)
        \/ WorkEnds(m) \/ Releases(m) \/ GoesOn(m) \/ Worker(m) \/ ServerRun(m) \/ ServerRefused(m) \/ ServerEnds(m)
        \/ StorageSyncFailed(m) \/ Expires(m) \/ Stop(m) \/ ShutdownConnections(m)

\* The goroutines of a master run and ZooKeeper answers; a process that was told to end does.
ldRuns(m) ==
    \/ Start(m) \/ EnterElection(m) \/ Elects(m) \/ Elected(m) \/ (Refused("scheduler", m) /\ NotElected(m)) \/ ResetLocks(m)
    \/ WorkEnds(m) \/ Releases(m) \/ GoesOn(m)
ldServes(m) == ServerRun(m) \/ (Refused("storage", m) /\ ServerRefused(m)) \/ ServerEnds(m)
ldDrains(m) == mainloop[m] = "drains" /\ Worker(m)
ldSpec ==
    /\ ldInit /\ [][ldNext]_ldVars
    /\ \A m \in Masters : WF_ldVars(ldRuns(m)) /\ WF_ldVars(ldServes(m)) /\ WF_ldVars(ldDrains(m)) /\ WF_ldVars(ShutdownConnections(m))

-----------------------------------------------------------------------------
Works(m) == workers[m] # {}

\* Two masters do the same work at the same time only while one of them has lost its session
\* and has not noticed: the lead is released after the last worker has ended.
OneMasterWorks ==
    \A m, n \in Masters : m # n /\ Works(m) /\ Works(n) => ~Stands("scheduler", m) \/ ~Stands("scheduler", n)

\* A master that has left an election has no node there, so that it waits for no node of its
\* own when it comes back, and the server of the file system gives up its lead before the
\* scheduler does.  The exception is a call to ZooKeeper that failed.
LeadTaken(p, m) == mainloop[m] \in {"works", "drains"} \cup (IF p = "storage" THEN {} ELSE {"electing", "locks", "releases"})
NothingForgotten ==
    \A p \in Paths : \A c \in candidates[p] : LeadTaken(p, c.of) \/ ldLeft.hiccups < MaxHiccups

LeadershipSound == OneMasterWorks /\ NothingForgotten

\* A node of a session that goes on, which no Leader object of the master knows.
Forgotten == \E p \in Paths : \E c \in candidates[p] : election[p][c.of].own # c.seq
Willing(m) == mainloop[m] \notin {"off", "stuck", "gone"} /\ ~stopCalled[m]

\* When sessions and masters stay, one master comes to do all the work, unless a call to
\* ZooKeeper failed and left a node behind, which blocks the elections until its session ends,
\* or ResetLocks failed once and has left the lock of the file system taken.
LeadIsTaken ==
    <>[]((\E m \in Masters : Willing(m)) /\ ~Forgotten /\ \A m \in Masters : ~ldLock[m] /\ nextSeq["storage"] <= MaxCandidates /\ nextSeq["scheduler"] <= MaxCandidates) =>
        <>[](\E m \in Masters : mainloop[m] = "works" /\ At("storage", m) = "holds" /\ workers[m] = LdWorkers)
=============================================================================
