---------------------------- MODULE DaemonProofs ----------------------------
(***************************************************************************)
(* Parts of the daemon, for any values of their constants.                 *)
(*                                                                         *)
(* A delegate that starts never takes its host back to a pool that an      *)
(* administrator moved it from, however often either of them reads, writes *)
(* and tries again.  HostKeepsPool is not inductive: a write succeeds with *)
(* a document that was read before.  What is kept besides is that no       *)
(* document in somebody's hands is newer than the stored one, and that one *)
(* of the same version has the same pool.                                  *)
(*                                                                         *)
(* A rolling restart takes one instance away at a time.  RestartInv tells  *)
(* the instances that were told to restart from those that were not, and   *)
(* says of those that were passed in time why they were: the container is  *)
(* not the one that was remembered, and the check in the cache is not that *)
(* of the old container.  It says nothing any more once a failure has      *)
(* excused the restart.                                                    *)
(*                                                                         *)
(* One master works.  LeadInv says that the nodes of an election have      *)
(* different numbers, that who holds a lead and still has its node has     *)
(* the first one, and in which places of its loop a master holds which     *)
(* lead; as long as no call to ZooKeeper has failed, its Leader objects    *)
(* know all its nodes.  LoopsInv counts the loops that a removal has       *)
(* ended, and StartInv says what an upgrade that was broken off anywhere   *)
(* has left to be done.                                                    *)
(*                                                                         *)
(* What is stopped is down.  IsvcInv says which containers of an internal  *)
(* service have a handler for their death, whose exit has been told, and   *)
(* in which places of its loop none may be up; MountInv, what a delegate   *)
(* knows of its mounts at each place of its start.                         *)
(*                                                                         *)
(* What waits for a service is kept.  BatchInv says that a service is in   *)
(* one batch of one queue at most, with the emergencies in front and by    *)
(* level, that a loop which is about to take a batch has none, and that    *)
(* who has entered WaitScheduled without an answer is in a queue or in a   *)
(* batch that somebody works on.  The reconciliation of a new batch with   *)
(* a queue is a recursive function; that it loses nothing is shown by the  *)
(* first place in the queue where it would (QueueSteps).                   *)
(***************************************************************************)
EXTENDS DelegateStart, RollingRestart, DaemonStart, ServiceStateManager, WellFoundedInduction,
        SequenceTheorems, FiniteSetTheorems, TLAPS

-----------------------------------------------------------------------------
(* The start of a delegate                                                  *)

Facts == {"old", "new"}
HostDocs == [pool : DgPools \cup {NotAdded}, version : Nat, facts : Facts, ips : Facts]

StartDocs == [at : {"asks", "updates", "connects", "waits", "begins", "runs", "returned"}, read : HostDocs]
AgainDocs == [at : {"none", "asks", "updates"}, read : HostDocs]

\* The documents that are in somebody's hands, and those that are about to be written.
DocsTyped ==
    /\ hostRec \in HostDocs /\ adminHas \in HostDocs
    /\ dgStart \in StartDocs
    /\ again \in AgainDocs

NotNewer(doc) == doc.version <= hostRec.version /\ (doc.version = hostRec.version => doc.pool = hostRec.pool)

\* The delegate gets past its first call only when the host was added.
AddedHasVersion ==
    /\ hostRec.pool = NotAdded <=> hostRec.version = 0
    /\ hostRec.version = 0 => dgStart.at \in {"asks", "returned"} /\ again.at = "none"

DelegateInv ==
    /\ DocsTyped /\ HostKeepsPool /\ AddedHasVersion
    /\ NotNewer(adminHas) /\ NotNewer(dgStart.read) /\ NotNewer(again.read)

\* At the start nobody holds a document, and the host is not in the data store.
LEMMA DelegateInit == dgInit => DelegateInv
  BY DEF dgInit, DelegateInv, DocsTyped, HostKeepsPool, AddedHasVersion, NotNewer, NotRead, HostDocs, Facts,
         StartDocs, AgainDocs, NotAdded

\* A document that the data store takes is one version newer than all the others, and its pool
\* is the one that was stored, unless the writer has changed it.
LEMMA PutIsNewer ==
    ASSUME DelegateInv, NEW doc \in HostDocs, PutHostRec(doc)
    PROVE  /\ hostRec' \in HostDocs /\ hostRec'.version = hostRec.version + 1 /\ hostRec'.pool = doc.pool
           /\ \A d \in HostDocs : d.version <= hostRec.version => d.version < hostRec'.version
  BY DEF DelegateInv, DocsTyped, PutHostRec, HostDocs

\* The steps in which an administrator writes.
LEMMA AdminStep ==
    ASSUME DelegateInv, NEW p \in DgPools, AdminAdds(p) \/ AdminMoves(p)
    PROVE  DelegateInv'
  <1> USE DelegateStartAssumption DEF DelegateInv, DocsTyped, HostKeepsPool, AddedHasVersion, NotNewer, StartDocs, AgainDocs
  <1>1. CASE AdminAdds(p)
    <2>1. /\ hostRec' = [hostRec EXCEPT !.pool = p, !.version = 1] /\ movedTo' = p /\ hostRec.version = 0
          /\ UNCHANGED <<adminHas, dgStart, again>>
      BY <1>1 DEF AdminAdds
    <2>2. hostRec' \in HostDocs /\ hostRec'.pool = p /\ hostRec'.version = 1
      BY <2>1 DEF HostDocs
    <2>3. adminHas.version \in Nat /\ dgStart.read.version \in Nat /\ again.read.version \in Nat
      BY DEF HostDocs
    <2>4. p # NotAdded
      OBVIOUS
    <2> QED
      BY <2>1, <2>2, <2>3, <2>4
  <1>2. CASE AdminMoves(p)
    <2> DEFINE moved == [adminHas EXCEPT !.pool = p]
    <2>1. moved \in HostDocs /\ moved.pool = p
      BY DEF HostDocs
    <2>2. PutHostRec(moved) /\ movedTo' = p /\ adminHas' = NotRead /\ UNCHANGED <<dgStart, again>>
      BY <1>2 DEF AdminMoves
    <2>3. NotRead \in HostDocs /\ NotRead.version = 0
      BY DEF NotRead, HostDocs, Facts
    <2>4. hostRec' \in HostDocs /\ hostRec'.version = hostRec.version + 1 /\ hostRec'.pool = p
      BY <2>1, <2>2, PutIsNewer
    <2>5. hostRec.version \in Nat /\ dgStart.read \in HostDocs /\ again.read \in HostDocs
      BY DEF HostDocs
    <2>6. dgStart.read.version \in Nat /\ again.read.version \in Nat
      BY <2>5 DEF HostDocs
    <2> HIDE DEF moved
    <2> QED
      BY <2>2, <2>3, <2>4, <2>5, <2>6
  <1> QED
    BY <1>1, <1>2

\* The steps in which the delegate writes what it has read, with the facts about the host.
LEMMA DelegateWrites ==
    ASSUME DelegateInv, TellsMaster \/ TellsAgain
    PROVE  DelegateInv'
  <1> USE DEF DelegateInv, DocsTyped, HostKeepsPool, AddedHasVersion, NotNewer, StartDocs, AgainDocs
  <1> DEFINE first == [UpdateHostInfo(dgStart.read) EXCEPT !.ips = "new"]
             later == UpdateHostInfo(again.read)
  <1>1. /\ dgStart.read \in HostDocs /\ again.read \in HostDocs
        /\ first \in HostDocs /\ first.pool = dgStart.read.pool /\ first.version = dgStart.read.version
        /\ later \in HostDocs /\ later.pool = again.read.pool /\ later.version = again.read.version
    BY DEF UpdateHostInfo, HostDocs, Facts
  <1>2. /\ hostRec.version \in Nat /\ adminHas.version \in Nat
        /\ dgStart.read.version \in Nat /\ again.read.version \in Nat
    BY <1>1 DEF HostDocs
  <1>3. ASSUME NEW doc \in HostDocs, NotNewer(doc), PutHostRec(doc), UNCHANGED <<adminHas, movedTo>>,
               dgStart' \in StartDocs, dgStart'.read = dgStart.read,
               again' \in AgainDocs, again'.read = again.read,
               hostRec.version # 0
        PROVE  DelegateInv'
    <2>1. hostRec' \in HostDocs /\ hostRec'.version = hostRec.version + 1 /\ hostRec'.pool = doc.pool
      BY <1>3, PutIsNewer
    <2>2. doc.version = hostRec.version /\ doc.pool = hostRec.pool
      BY <1>3 DEF PutHostRec
    <2> QED
      BY <1>2, <1>3, <2>1, <2>2
  <1>4. ASSUME UNCHANGED <<hostRec, adminHas, movedTo>>, hostRec.version # 0,
               dgStart' \in StartDocs, dgStart'.read = dgStart.read,
               again' \in AgainDocs, again'.read = again.read
        PROVE  DelegateInv'
    BY <1>4
  <1>5. CASE TellsMaster
    <2>1. hostRec.version # 0
      BY <1>5 DEF TellsMaster, StartGoes
    <2>2. dgStart' \in StartDocs /\ dgStart'.read = dgStart.read /\ UNCHANGED <<adminHas, movedTo>>
      BY <1>5 DEF TellsMaster, StartGoes
    <2>3. CASE PutHostRec(first) /\ UNCHANGED again
      BY <1>1, <1>3, <2>1, <2>2, <2>3
    <2>4. CASE again' = [again EXCEPT !.at = "asks"] /\ UNCHANGED hostRec
      BY <1>4, <2>1, <2>2, <2>4
    <2> QED
      BY <1>5, <2>3, <2>4 DEF TellsMaster
  <1>6. CASE TellsAgain
    <2>1. hostRec.version # 0
      BY <1>6 DEF TellsAgain
    <2>2. UNCHANGED <<dgStart, adminHas, movedTo>>
      BY <1>6 DEF TellsAgain
    <2>3. CASE PutHostRec(later) /\ again' = [again EXCEPT !.at = "none"]
      BY <1>1, <1>3, <2>1, <2>2, <2>3
    <2>4. CASE again' = [again EXCEPT !.at = "asks"] /\ UNCHANGED hostRec
      BY <1>4, <2>1, <2>2, <2>4
    <2> QED
      BY <1>6, <2>3, <2>4 DEF TellsAgain
  <1> QED
    BY <1>5, <1>6

\* The steps in which somebody reads the document.
LEMMA ReadStep ==
    ASSUME DelegateInv, AdminReads \/ GetHost \/ AsksAgain
    PROVE  DelegateInv'
  <1> USE DEF DelegateInv, DocsTyped, HostKeepsPool, AddedHasVersion, NotNewer, StartDocs, AgainDocs
  <1>0. hostRec.version \in Nat
    BY DEF HostDocs
  <1>1. CASE AdminReads
    BY <1>0, <1>1 DEF AdminReads
  <1>2. CASE GetHost
    BY <1>0, <1>2 DEF GetHost, masterSide
  <1>3. CASE AsksAgain
    BY <1>0, <1>3 DEF AsksAgain, masterSide
  <1> QED
    BY <1>1, <1>2, <1>3

\* All other steps leave the documents alone.
LEMMA OtherStep ==
    ASSUME DelegateInv, UNCHANGED <<masterSide, again>>,
           dgStart' \in StartDocs, dgStart'.read = dgStart.read,
           dgStart'.at = dgStart.at \/ dgStart'.at = "returned" \/ dgStart.at \notin {"asks", "returned"}
    PROVE  DelegateInv'
  BY DEF DelegateInv, DocsTyped, HostKeepsPool, AddedHasVersion, NotNewer, masterSide

\* Each step of the delegate, its agent and the administrators keeps the invariant.
LEMMA DelegateNext == DelegateInv /\ [dgNext]_dgVars => DelegateInv'
  <1> SUFFICES ASSUME DelegateInv, [dgNext]_dgVars
               PROVE  DelegateInv'
    OBVIOUS
  <1>0. dgStart \in StartDocs
    BY DEF DelegateInv, DocsTyped
  <1>1. CASE \E p \in DgPools : AdminAdds(p) \/ AdminMoves(p)
    BY <1>1, AdminStep
  <1>2. CASE TellsMaster \/ TellsAgain
    BY <1>2, DelegateWrites
  <1>3. CASE AdminReads \/ GetHost \/ AsksAgain
    BY <1>3, ReadStep
  <1>4. CASE GetsToken \/ StorageLeads \/ ClientEnters \/ ReadsLeader \/ EntersAgain \/ TellsPath \/ KeepsPath
             \/ ClientCloses \/ ToldToEnd \/ UNCHANGED dgVars
    <2>1. UNCHANGED <<masterSide, again, dgStart>>
      BY <1>4 DEF GetsToken, StorageLeads, ClientEnters, ReadsLeader, EntersAgain, TellsPath, KeepsPath,
                  ClientCloses, ToldToEnd, dgVars, masterSide, mountSide
    <2> QED
      BY <1>0, <2>1, OtherStep
  <1>5. CASE AsksInVain \/ Connects \/ Waited \/ AgentStarts \/ AgentReturns
    <2>1. UNCHANGED <<masterSide, again>>
      BY <1>5 DEF AsksInVain, Connects, Waited, AgentStarts, AgentReturns
    <2>2. PICK pl \in {"connects", "waits", "begins", "runs", "returned"} :
             /\ dgStart' = [dgStart EXCEPT !.at = pl]
             /\ pl = "returned" \/ dgStart.at \notin {"asks", "returned"}
      BY <1>5 DEF AsksInVain, Connects, Waited, AgentStarts, AgentReturns, StartGoes
    <2>3. dgStart' \in StartDocs /\ dgStart'.read = dgStart.read /\ dgStart'.at = pl
      BY <1>0, <2>2 DEF StartDocs
    <2> QED
      BY <2>1, <2>2, <2>3, OtherStep
  <1> QED
    BY <1>1, <1>2, <1>3, <1>4, <1>5 DEF dgNext

\* What a delegate tells the master of its host never takes back a move to another pool that an
\* administrator made meanwhile: the version of the document stops it, in the first call
\* (cli/api/daemon.go, startAgent) and in the goroutine that tries again.
THEOREM MoveIsKept == dgSpec => []HostKeepsPool
  <1>1. dgInit => DelegateInv
    BY DelegateInit
  <1>2. DelegateInv /\ [dgNext]_dgVars => DelegateInv'
    BY DelegateNext
  <1>3. DelegateInv => HostKeepsPool
    BY DEF DelegateInv
  <1> QED
    BY <1>1, <1>2, <1>3, PTL DEF dgSpec
-----------------------------------------------------------------------------
(* The rolling restart                                                      *)

NodeRecords == [container : Nat, status : {"running", "pending", "down"}, want : {"run", "restart"}, exists : BOOLEAN]

RestartRecords == [pc : {"mark", "top", "look", "restart", "wait", "ready", "unmark", "done"},
                   i : 0 .. RestartInstances, next : 0 .. RestartInstances, old : Nat, punctual : Nat,
                   over : BOOLEAN, cancelled : BOOLEAN, late : BOOLEAN, running : BOOLEAN]

RestartTyped ==
    /\ instanceState \in [InstanceIds -> NodeRecords]
    /\ cached \in [InstanceIds -> Nat] /\ healthy \in [InstanceIds -> BOOLEAN]
    /\ rr \in RestartRecords

\* Where the restart is: rr.next counts the instances that it has told to restart.
RestartInPlace ==
    /\ rr.pc = "mark" => rr.next = 0
    /\ rr.pc \in {"top", "look", "restart"} => rr.next = rr.i
    /\ rr.pc \in {"wait", "ready"} => rr.next = rr.i + 1
    /\ rr.pc = "unmark" => rr.next >= rr.i
    /\ rr.pc \in {"look", "restart", "wait", "ready"} => rr.i < RestartInstances
    /\ rr.pc \in {"restart", "wait", "ready"} => rr.old = 1
    /\ rr.pc = "done" => rr.next = RestartInstances
    /\ rr.pc = "mark" => rr.punctual = 0 /\ ~rr.late
    /\ rr.punctual <= rr.i /\ (rr.late => rr.punctual < rr.i)
    /\ rr.running => ~rr.late /\ rr.i = RestartInstances /\ rr.pc \in {"unmark", "done"}

\* The instances below this one have been told to restart.
ToldUpTo == CASE rr.pc = "mark" -> 0
              [] rr.pc \in {"wait", "ready"} -> rr.i + 1
              [] OTHER -> rr.i

\* An instance that was told still has its old container, or runs the new one.
Old(i) == instanceState[i].container = 1 /\ instanceState[i].want = "restart"
Renewed(i) == instanceState[i].container = 2 /\ instanceState[i].want = "run" /\ instanceState[i].status = "running"
InstancesInPlace ==
    \A i \in InstanceIds :
       /\ instanceState[i].exists
       /\ i < ToldUpTo => Old(i) \/ Renewed(i)
       /\ i >= ToldUpTo => /\ instanceState[i].container = 1 /\ instanceState[i].want = "run"
                           /\ instanceState[i].status # "down"
       /\ rr.pc # "mark" /\ i < rr.next => instanceState[i].status # "pending" \/ instanceState[i].want = "restart"

\* What the restart has passed in time is renewed, and its health was not an old one's.
PassedInTime ==
    /\ rr.pc # "mark" /\ ~rr.late =>
          \A i \in InstanceIds : i < rr.i => Renewed(i) /\ (healthy[i] \/ i \in unreported \/ i = RestartInstances - 1)
    /\ rr.pc = "ready" /\ ~rr.over => Renewed(rr.i)

\* Behind a passed check is a healthy container, unless one died without a report.
CheckedIsHealthy == \A i \in InstanceIds : cached[i] # 0 => healthy[i] \/ i \in unreported

RestartFacts == RestartTyped /\ RestartInPlace /\ InstancesInPlace /\ PassedInTime /\ CheckedIsHealthy
RestartInv == rrExcuse \/ RestartFacts

\* A node and the restart stay what they are when their fields change.
LEMMA NodeFields ==
    ASSUME NEW r \in NodeRecords
    PROVE  /\ r.container \in Nat /\ r.status \in {"running", "pending", "down"}
           /\ r.want \in {"run", "restart"} /\ r.exists \in BOOLEAN
           /\ \A s \in {"running", "pending", "down"} : [r EXCEPT !.status = s] \in NodeRecords
           /\ \A w \in {"run", "restart"} : [r EXCEPT !.want = w] \in NodeRecords
<1>1. /\ r.container \in Nat /\ r.status \in {"running", "pending", "down"}
      /\ r.want \in {"run", "restart"} /\ r.exists \in BOOLEAN
  BY DEF NodeRecords
<1>2. \A s \in {"running", "pending", "down"} : [r EXCEPT !.status = s] \in NodeRecords
  BY DEF NodeRecords
<1>3. \A w \in {"run", "restart"} : [r EXCEPT !.want = w] \in NodeRecords
  BY DEF NodeRecords
<1> QED
  BY <1>1, <1>2, <1>3

\* A new container runs as it should.
LEMMA Begun ==
    ASSUME NEW r \in NodeRecords
    PROVE  LET begun == [[[r EXCEPT !.status = "running"] EXCEPT !.want = "run"] EXCEPT !.container = @ + 1]
           IN  /\ begun \in NodeRecords
               /\ begun.container = r.container + 1 /\ begun.status = "running" /\ begun.want = "run"
               /\ begun.exists = r.exists
<1> DEFINE down == [r EXCEPT !.status = "running"]
           wanted == [down EXCEPT !.want = "run"]
           begun == [wanted EXCEPT !.container = @ + 1]
<1>1. down \in NodeRecords /\ down.status = "running" /\ down.container = r.container /\ down.exists = r.exists
  BY DEF NodeRecords
<1> HIDE DEF down
<1>2. /\ wanted \in NodeRecords /\ wanted.status = "running" /\ wanted.want = "run"
      /\ wanted.container = r.container /\ wanted.exists = r.exists
  BY <1>1 DEF NodeRecords
<1> HIDE DEF wanted
<1>3. /\ begun \in NodeRecords /\ begun.status = "running" /\ begun.want = "run"
      /\ begun.container = r.container + 1 /\ begun.exists = r.exists
  BY <1>2 DEF NodeRecords
<1> QED
  BY <1>3 DEF down, wanted

\* What the fields of the restart are.
LEMMA RestartFields ==
    ASSUME RestartFacts
    PROVE  /\ rr.pc \in {"mark", "top", "look", "restart", "wait", "ready", "unmark", "done"}
           /\ rr.i \in Nat /\ rr.i <= RestartInstances /\ rr.next \in Nat /\ rr.next <= RestartInstances
           /\ rr.punctual \in Nat /\ ToldUpTo \in Nat
           /\ \A i \in InstanceIds : i \in Nat /\ i < RestartInstances
           /\ \A n \in Nat : n < RestartInstances => n \in InstanceIds
BY RestartAssumption DEF RestartFacts, RestartTyped, RestartRecords, InstanceIds, ToldUpTo

\* A step of an agent or of the cache leaves the restart where it is.
LEMMA WorldLeavesRestart ==
    ASSUME RestartFacts, UNCHANGED rr, InstancesInPlace', CheckedIsHealthy',
           instanceState' \in [InstanceIds -> NodeRecords],
           cached' \in [InstanceIds -> Nat], healthy' \in [InstanceIds -> BOOLEAN],
           \A i \in InstanceIds : Renewed(i) => instanceState'[i] = instanceState[i],
           \A i \in InstanceIds : Renewed(i) /\ (healthy[i] \/ i \in unreported) => healthy'[i] \/ i \in unreported'
    PROVE  RestartFacts'
<1>1. RestartTyped' /\ RestartInPlace'
  BY DEF RestartFacts, RestartTyped, RestartInPlace
<1>2. \A i \in InstanceIds : Renewed(i) => Renewed(i)'
  BY DEF Renewed
<1>3. PassedInTime'
  <2>1. rr.pc = "ready" => rr.i \in InstanceIds
    BY RestartFields DEF RestartFacts, RestartInPlace
  <2>2. ASSUME rr.pc # "mark", ~rr.late, NEW i \in InstanceIds, i < rr.i
        PROVE  Renewed(i)' /\ (healthy'[i] \/ i \in unreported' \/ i = RestartInstances - 1)
    BY <1>2, <2>2 DEF RestartFacts, PassedInTime
  <2> QED
    BY <1>2, <2>1, <2>2 DEF RestartFacts, PassedInTime
<1> QED
  BY <1>1, <1>3 DEF RestartFacts

\* A container that stops does so because its instance was told to restart.
LEMMA ContainerStopsStep ==
    ASSUME RestartFacts, NEW k \in InstanceIds, ContainerStops(k)
    PROVE  RestartFacts'
<1>0. /\ instanceState \in [InstanceIds -> NodeRecords] /\ cached \in [InstanceIds -> Nat]
      /\ healthy \in [InstanceIds -> BOOLEAN]
  BY DEF RestartFacts, RestartTyped
<1>1. /\ instanceState[k].want = "restart" /\ UNCHANGED rr
      /\ instanceState' = [instanceState EXCEPT ![k].status = "down"]
      /\ healthy' = [healthy EXCEPT ![k] = FALSE]
  BY DEF ContainerStops
<1>2. \/ cached' = [cached EXCEPT ![k] = 0] /\ UNCHANGED unreported
      \/ UNCHANGED cached /\ unreported' = unreported \cup {k}
  BY DEF ContainerStops
<1>3. ~Renewed(k)
  BY <1>1 DEF Renewed
<1>4. instanceState' \in [InstanceIds -> NodeRecords] /\ cached' \in [InstanceIds -> Nat]
  <2>1. [instanceState[k] EXCEPT !.status = "down"] \in NodeRecords
    BY <1>0, NodeFields
  <2>2. instanceState' = [instanceState EXCEPT ![k] = [instanceState[k] EXCEPT !.status = "down"]]
    BY <1>1
  <2>3. instanceState' \in [InstanceIds -> NodeRecords]
    BY <1>0, <2>1, <2>2
  <2> QED
    BY <1>0, <1>2, <2>3
<1>5. healthy' \in [InstanceIds -> BOOLEAN]
  BY <1>0, <1>1
<1>6. InstancesInPlace'
  <2>1. UNCHANGED ToldUpTo
    BY <1>1 DEF ToldUpTo
  <2>2. ASSUME NEW i \in InstanceIds, i # k PROVE instanceState'[i] = instanceState[i]
    BY <1>0, <1>1, <2>2
  <2>3. /\ instanceState'[k].exists = instanceState[k].exists
        /\ instanceState'[k].container = instanceState[k].container
        /\ instanceState'[k].want = instanceState[k].want
    BY <1>0, <1>1 DEF NodeRecords
  <2> QED
    BY <1>1, <2>1, <2>2, <2>3 DEF RestartFacts, InstancesInPlace, Old, Renewed
<1>7. CheckedIsHealthy'
  BY <1>0, <1>1, <1>2 DEF RestartFacts, CheckedIsHealthy
<1> QED
  BY <1>0, <1>1, <1>2, <1>3, <1>4, <1>5, <1>6, <1>7, WorldLeavesRestart

\* A container that starts renews an instance that was told to restart.
LEMMA ContainerStartsStep ==
    ASSUME RestartFacts, NEW k \in InstanceIds, ContainerStarts(k)
    PROVE  RestartFacts'
<1>0. /\ instanceState \in [InstanceIds -> NodeRecords] /\ cached \in [InstanceIds -> Nat]
      /\ healthy \in [InstanceIds -> BOOLEAN]
  BY DEF RestartFacts, RestartTyped
<1>1. instanceState[k].status = "down" /\ UNCHANGED <<rr, cached, healthy, unreported>>
  BY DEF ContainerStarts
<1> DEFINE began == [instanceState[k] EXCEPT !.status = "running"]
           wanted == [began EXCEPT !.want = "run"]
           begun == [wanted EXCEPT !.container = @ + 1]
<1>8. instanceState' = [instanceState EXCEPT ![k] = begun]
  <2>1. instanceState' = [[[instanceState EXCEPT ![k].status = "running"] EXCEPT ![k].want = "run"]
                             EXCEPT ![k].container = @ + 1]
    BY DEF ContainerStarts
  <2>2. [instanceState EXCEPT ![k].status = "running"] = [instanceState EXCEPT ![k] = began]
    OBVIOUS
  <2>3. [[instanceState EXCEPT ![k] = began] EXCEPT ![k].want = "run"] = [instanceState EXCEPT ![k] = wanted]
    BY <1>0
  <2>4. [[instanceState EXCEPT ![k] = wanted] EXCEPT ![k].container = @ + 1] = [instanceState EXCEPT ![k] = begun]
    BY <1>0
  <2> QED
    BY <2>1, <2>2, <2>3, <2>4
<1>9. /\ begun \in NodeRecords
      /\ begun.container = instanceState[k].container + 1 /\ begun.status = "running" /\ begun.want = "run"
      /\ begun.exists = instanceState[k].exists
  BY <1>0, Begun
<1> HIDE DEF begun
<1>2. ~Renewed(k)
  BY <1>1 DEF Renewed
<1>3. instanceState' \in [InstanceIds -> NodeRecords]
  BY <1>0, <1>8, <1>9
<1>4. InstancesInPlace'
  <2>1. UNCHANGED ToldUpTo
    BY <1>1 DEF ToldUpTo
  <2>2. ASSUME NEW i \in InstanceIds, i # k PROVE instanceState'[i] = instanceState[i]
    BY <1>0, <1>8, <2>2
  <2>3. /\ instanceState'[k].exists = instanceState[k].exists
        /\ instanceState'[k].container = instanceState[k].container + 1
        /\ instanceState'[k].want = "run" /\ instanceState'[k].status = "running"
    BY <1>0, <1>8, <1>9
  <2>4. Old(k) /\ k < ToldUpTo
    <3>1. ToldUpTo \in Int /\ k \in Int
      BY RestartFields
    <3> QED
      BY <1>1, <1>2, <3>1 DEF RestartFacts, InstancesInPlace
  <2>5. Renewed(k)'
    BY <2>3, <2>4 DEF Old, Renewed
  <2>6. ASSUME NEW i \in InstanceIds, i # k
        PROVE  /\ instanceState'[i].exists
               /\ i < ToldUpTo' => Old(i)' \/ Renewed(i)'
               /\ i >= ToldUpTo' => /\ instanceState'[i].container = 1 /\ instanceState'[i].want = "run"
                                    /\ instanceState'[i].status # "down"
               /\ rr'.pc # "mark" /\ i < rr'.next =>
                     instanceState'[i].status # "pending" \/ instanceState'[i].want = "restart"
    BY <1>1, <2>1, <2>2, <2>6 DEF RestartFacts, InstancesInPlace, Old, Renewed
  <2>7. ~(k >= ToldUpTo') /\ instanceState'[k].exists
    <3>1. ToldUpTo \in Int /\ k \in Int
      BY RestartFields
    <3> QED
      BY <2>1, <2>3, <2>4, <3>1 DEF RestartFacts, InstancesInPlace
  <2> QED
    BY <2>3, <2>5, <2>6, <2>7 DEF InstancesInPlace
<1>5. CheckedIsHealthy'
  BY <1>1 DEF RestartFacts, CheckedIsHealthy
<1>6. \A i \in InstanceIds : Renewed(i) => instanceState'[i] = instanceState[i]
  BY <1>0, <1>8, <1>2
<1> QED
  BY <1>0, <1>1, <1>3, <1>4, <1>5, <1>6, WorldLeavesRestart

\* A check that passes is that of a container that runs now.
LEMMA CheckPassesStep ==
    ASSUME RestartFacts, NEW k \in InstanceIds, CheckPasses(k) \/ EntryExpires(k)
    PROVE  RestartFacts'
<1>0. /\ instanceState \in [InstanceIds -> NodeRecords] /\ cached \in [InstanceIds -> Nat]
      /\ healthy \in [InstanceIds -> BOOLEAN]
  BY DEF RestartFacts, RestartTyped
<1>1. /\ UNCHANGED <<instanceState, rr, unreported>>
      /\ \/ healthy' = [healthy EXCEPT ![k] = TRUE] /\ cached' = [cached EXCEPT ![k] = instanceState[k].container]
         \/ UNCHANGED healthy /\ cached' = [cached EXCEPT ![k] = 0]
  BY DEF CheckPasses, EntryExpires
<1>2. cached' \in [InstanceIds -> Nat]
  <2>1. instanceState[k].container \in Nat
    BY <1>0, NodeFields
  <2>2. \E n \in Nat : cached' = [cached EXCEPT ![k] = n]
    BY <1>1, <2>1
  <2> QED
    BY <1>0, <2>2
<1>3. healthy' \in [InstanceIds -> BOOLEAN]
  BY <1>0, <1>1
<1>4. \A i \in InstanceIds : healthy[i] => healthy'[i]
  BY <1>0, <1>1
<1>5. CheckedIsHealthy'
  BY <1>0, <1>1 DEF RestartFacts, CheckedIsHealthy
<1>6. InstancesInPlace'
  BY <1>1 DEF RestartFacts, InstancesInPlace, ToldUpTo, Old, Renewed
<1> QED
  BY <1>0, <1>1, <1>2, <1>3, <1>4, <1>5, <1>6, WorldLeavesRestart

\* A step of the restart that tells nobody anything, and passes no instance.
LEMMA RestartGoesOn ==
    ASSUME RestartFacts, UNCHANGED <<instanceState, cached, healthy, unreported>>,
           rr' \in RestartRecords, RestartInPlace', ToldUpTo' = ToldUpTo, rr'.next = rr.next,
           rr'.pc = "mark" <=> rr.pc = "mark", PassedInTime'
    PROVE  RestartFacts'
<1>1. RestartTyped' /\ CheckedIsHealthy'
  BY DEF RestartFacts, RestartTyped, CheckedIsHealthy
<1>2. InstancesInPlace'
  BY DEF RestartFacts, InstancesInPlace, Old, Renewed
<1> QED
  BY <1>1, <1>2 DEF RestartFacts

\* Nothing is lost of what was passed while the restart is at the same instance.
LEMMA StillPassed ==
    ASSUME RestartFacts, UNCHANGED <<instanceState, healthy, unreported>>,
           rr'.i = rr.i, rr'.late <=> rr.late, rr'.pc = "mark" <=> rr.pc = "mark",
           rr'.pc = "ready" /\ ~rr'.over => Renewed(rr.i)
    PROVE  PassedInTime'
BY DEF RestartFacts, PassedInTime, Renewed

\* The timer of the instance fires, or a later request cancels the restart.
LEMMA TimerStep ==
    ASSUME RestartFacts, TimerFires \/ Cancelled
    PROVE  RestartFacts'
<1>1. \/ rr.pc \in {"look", "restart", "wait", "ready"} /\ rr' = [rr EXCEPT !.over = TRUE]
      \/ /\ rr.pc \notin {"unmark", "done"}
         /\ rr' = [rr EXCEPT !.cancelled = TRUE, !.over = (rr.pc \in {"look", "restart", "wait", "ready"})]
  BY DEF TimerFires, Cancelled
<1>2. UNCHANGED <<instanceState, cached, healthy, unreported>>
  BY DEF TimerFires, Cancelled
<1>3. rr \in RestartRecords
  BY DEF RestartFacts, RestartTyped
<1>4. /\ rr'.pc = rr.pc /\ rr'.i = rr.i /\ rr'.next = rr.next /\ rr'.old = rr.old /\ rr'.punctual = rr.punctual
      /\ rr'.late = rr.late /\ rr'.running = rr.running /\ (rr.pc = "ready" => rr'.over)
  <2>1. CASE rr' = [rr EXCEPT !.over = TRUE]
    BY <1>3, <2>1 DEF RestartRecords
  <2>2. CASE rr' = [rr EXCEPT !.cancelled = TRUE, !.over = (rr.pc \in {"look", "restart", "wait", "ready"})]
    BY <1>3, <2>2 DEF RestartRecords
  <2> QED
    BY <1>1, <2>1, <2>2
<1>5. rr' \in RestartRecords
  <2>1. (rr.pc \in {"look", "restart", "wait", "ready"}) \in BOOLEAN
    OBVIOUS
  <2>2. \A b \in BOOLEAN : /\ [rr EXCEPT !.over = b] \in RestartRecords
                          /\ [rr EXCEPT !.cancelled = TRUE, !.over = b] \in RestartRecords
    BY <1>3 DEF RestartRecords
  <2> QED
    BY <1>1, <2>1, <2>2, Zenon
<1>6. RestartInPlace'
  BY <1>4 DEF RestartFacts, RestartInPlace
<1>7. ToldUpTo' = ToldUpTo
  BY <1>4 DEF ToldUpTo
<1>8. PassedInTime'
  BY <1>2, <1>4, StillPassed
<1> QED
  BY <1>2, <1>4, <1>5, <1>6, <1>7, <1>8, RestartGoesOn

\* The restart takes the next instance, or is over; it is called running if none was late.
LEMMA NextInstanceStep ==
    ASSUME RestartFacts, NextInstance
    PROVE  RestartFacts'
<1>0. rr \in RestartRecords /\ rr.pc = "top" /\ UNCHANGED <<instanceState, cached, healthy, unreported>>
  BY DEF RestartFacts, RestartTyped, NextInstance
<1>1. \/ rr' = [rr EXCEPT !.pc = "unmark"]
      \/ rr.i = RestartInstances /\ rr' = [rr EXCEPT !.pc = "unmark", !.running = (rr.punctual = RestartInstances)]
      \/ rr.i # RestartInstances /\ rr' = [rr EXCEPT !.pc = "look", !.over = FALSE]
  BY DEF NextInstance, RestartAt
<1>2. rr' \in RestartRecords
  <2>1. (rr.punctual = RestartInstances) \in BOOLEAN
    OBVIOUS
  <2>2. /\ [rr EXCEPT !.pc = "unmark"] \in RestartRecords /\ [rr EXCEPT !.pc = "look", !.over = FALSE] \in RestartRecords
        /\ \A b \in BOOLEAN : [rr EXCEPT !.pc = "unmark", !.running = b] \in RestartRecords
    BY <1>0 DEF RestartRecords
  <2> QED
    BY <1>1, <2>1, <2>2, Zenon
<1>3. /\ rr'.i = rr.i /\ rr'.next = rr.next /\ rr'.punctual = rr.punctual /\ rr'.late = rr.late
      /\ rr'.pc \in {"unmark", "look"} /\ (rr'.pc = "look" => rr.i # RestartInstances)
      /\ (rr'.running => rr.running \/ (rr.i = RestartInstances /\ rr.punctual = RestartInstances))
      /\ (rr'.running /\ ~rr.running => rr'.pc = "unmark")
  BY <1>0, <1>1 DEF RestartRecords
<1>4. RestartInPlace'
  BY <1>0, <1>3, RestartFields, RestartAssumption DEF RestartFacts, RestartInPlace
<1>5. ToldUpTo' = ToldUpTo
  BY <1>0, <1>3 DEF ToldUpTo
<1>6. PassedInTime'
  BY <1>0, <1>3, StillPassed
<1> QED
  BY <1>0, <1>2, <1>3, <1>4, <1>5, <1>6, RestartGoesOn

\* The container that is remembered is the first one.
LEMMA RememberContainerStep ==
    ASSUME RestartFacts, RememberContainer
    PROVE  RestartFacts'
<1>0. rr \in RestartRecords /\ rr.pc = "look" /\ UNCHANGED <<instanceState, cached, healthy, unreported>>
  BY DEF RestartFacts, RestartTyped, RememberContainer
<1>1. rr.i \in InstanceIds /\ ToldUpTo = rr.i
  BY <1>0, RestartFields DEF RestartFacts, RestartInPlace, ToldUpTo
<1>2. instanceState[rr.i].exists /\ instanceState[rr.i].container = 1
  BY <1>1, RestartFields DEF RestartFacts, InstancesInPlace
<1>3. rr' = [rr EXCEPT !.pc = "restart", !.old = 1]
  BY <1>2 DEF RememberContainer
<1>4. /\ rr' \in RestartRecords /\ rr'.pc = "restart" /\ rr'.old = 1
      /\ rr'.i = rr.i /\ rr'.next = rr.next /\ rr'.punctual = rr.punctual /\ rr'.late = rr.late /\ rr'.running = rr.running
  BY <1>0, <1>3 DEF RestartRecords
<1>5. RestartInPlace'
  BY <1>0, <1>4 DEF RestartFacts, RestartInPlace
<1>6. ToldUpTo' = ToldUpTo
  BY <1>0, <1>4 DEF ToldUpTo
<1>7. PassedInTime'
  BY <1>0, <1>4, StillPassed
<1> QED
  BY <1>0, <1>4, <1>5, <1>6, <1>7, RestartGoesOn

\* The new container is seen in time only if there is one: the node's container is not the
\* one that was remembered.
LEMMA WaitInstanceStep ==
    ASSUME RestartFacts, WaitInstance
    PROVE  RestartFacts'
<1>0. /\ rr \in RestartRecords /\ rr.pc = "wait" /\ (rr.over \/ checkContainer) /\ rr' = [rr EXCEPT !.pc = "ready"]
      /\ UNCHANGED <<instanceState, cached, healthy, unreported>>
  BY DEF RestartFacts, RestartTyped, WaitInstance, RestartAt
<1>1. /\ rr' \in RestartRecords /\ rr'.pc = "ready" /\ rr'.over = rr.over /\ rr'.old = rr.old
      /\ rr'.i = rr.i /\ rr'.next = rr.next /\ rr'.punctual = rr.punctual /\ rr'.late = rr.late /\ rr'.running = rr.running
  BY <1>0 DEF RestartRecords
<1>2. RestartInPlace'
  BY <1>0, <1>1 DEF RestartFacts, RestartInPlace
<1>3. ToldUpTo' = ToldUpTo
  BY <1>0, <1>1 DEF ToldUpTo
<1>4. checkContainer => Renewed(rr.i)
  <2>1. rr.i \in InstanceIds /\ rr.i < ToldUpTo /\ rr.old = 1
    BY <1>0, RestartFields DEF RestartFacts, RestartInPlace, ToldUpTo
  <2> QED
    BY <2>1 DEF checkContainer, MonitorState, RestartFacts, InstancesInPlace, Old
<1>5. PassedInTime'
  BY <1>0, <1>1, <1>4, StillPassed
<1> QED
  BY <1>0, <1>1, <1>2, <1>3, <1>5, RestartGoesOn

\* An instance is passed in time only when it is renewed and its check has passed.
LEMMA ReadyStep ==
    ASSUME RestartFacts, Ready
    PROVE  RestartFacts'
<1>0. /\ rr \in RestartRecords /\ rr.pc = "ready" /\ (rr.over \/ rr.i = RestartInstances - 1 \/ getInstanceHealth)
      /\ UNCHANGED <<instanceState, cached, healthy, unreported>>
  BY DEF RestartFacts, RestartTyped, Ready
<1>1. /\ rr.i \in InstanceIds /\ rr.i + 1 \in 0 .. RestartInstances /\ rr.next = rr.i + 1 /\ ~rr.running
      /\ rr.punctual \in Nat /\ rr.i \in Nat
  BY <1>0, RestartFields, RestartAssumption DEF RestartFacts, RestartInPlace
<1>2. /\ rr' \in RestartRecords /\ rr'.pc = "top" /\ rr'.i = rr.i + 1 /\ rr'.next = rr.next /\ rr'.running = rr.running
      /\ rr'.punctual = (IF rr.over THEN rr.punctual ELSE rr.punctual + 1)
      /\ (rr'.late <=> rr.late \/ rr.over)
  <2> DEFINE punct == IF rr.over THEN rr.punctual ELSE rr.punctual + 1
  <2>1. rr' = [rr EXCEPT !.pc = "top", !.i = rr.i + 1, !.punctual = punct, !.late = rr.late \/ rr.over]
    BY DEF Ready
  <2>2. punct \in Nat /\ (rr.late \/ rr.over) \in BOOLEAN
    BY <1>1
  <2>3. \A b \in BOOLEAN, p \in Nat :
           [rr EXCEPT !.pc = "top", !.i = rr.i + 1, !.punctual = p, !.late = b] \in RestartRecords
    BY <1>0, <1>1 DEF RestartRecords
  <2>4. rr' \in RestartRecords
    BY <2>1, <2>2, <2>3, Zenon
  <2>5. /\ rr'.pc = "top" /\ rr'.i = rr.i + 1 /\ rr'.next = rr.next /\ rr'.running = rr.running
        /\ rr'.punctual = punct
    BY <1>0, <2>1 DEF RestartRecords
  <2>6. rr'.late = (rr.late \/ rr.over)
    BY <1>0, <2>1 DEF RestartRecords
  <2> QED
    BY <2>4, <2>5, <2>6
<1>3. RestartInPlace'
  <2>1. rr'.punctual <= rr'.i /\ (rr'.late => rr'.punctual < rr'.i)
    BY <1>1, <1>2 DEF RestartFacts, RestartInPlace
  <2> QED
    BY <1>1, <1>2, <2>1 DEF RestartInPlace
<1>4. ToldUpTo' = ToldUpTo
  BY <1>0, <1>1, <1>2 DEF ToldUpTo
<1>5. PassedInTime'
  <2> SUFFICES ASSUME ~rr.late, ~rr.over, NEW i \in InstanceIds, i < rr.i + 1
               PROVE  Renewed(i) /\ (healthy[i] \/ i \in unreported \/ i = RestartInstances - 1)
    BY <1>0, <1>2 DEF PassedInTime, Renewed
  <2>1. CASE i < rr.i
    BY <1>0, <2>1 DEF RestartFacts, PassedInTime
  <2>2. CASE i = rr.i
    BY <1>0, <2>2 DEF RestartFacts, PassedInTime, CheckedIsHealthy, getInstanceHealth
  <2> QED
    BY <1>1, <2>1, <2>2, RestartFields
<1> QED
  BY <1>0, <1>2, <1>3, <1>4, <1>5, RestartGoesOn
\* One more instance is told to restart, or the call fails and nothing has changed.
LEMMA RestartInstanceStep ==
    ASSUME RestartFacts, RestartInstance
    PROVE  RestartFacts'
<1>0. /\ rr \in RestartRecords /\ rr.pc = "restart" /\ UNCHANGED <<cached, healthy, unreported>>
      /\ instanceState \in [InstanceIds -> NodeRecords]
  BY DEF RestartFacts, RestartTyped, RestartInstance
<1>1. /\ rr.i \in InstanceIds /\ rr.i \in Nat /\ rr.i < RestartInstances /\ rr.next = rr.i /\ rr.old = 1 /\ ~rr.running
      /\ ToldUpTo = rr.i
  BY <1>0, RestartFields DEF RestartFacts, RestartInPlace, ToldUpTo
<1>2. CASE UNCHANGED instanceState /\ rr' = [rr EXCEPT !.pc = "unmark"]
  <2>1. /\ rr' \in RestartRecords /\ rr'.pc = "unmark"
        /\ rr'.i = rr.i /\ rr'.next = rr.next /\ rr'.punctual = rr.punctual /\ rr'.late = rr.late /\ rr'.running = rr.running
    BY <1>0, <1>2 DEF RestartRecords
  <2>2. RestartInPlace'
    BY <1>0, <1>1, <2>1 DEF RestartFacts, RestartInPlace
  <2>3. ToldUpTo' = ToldUpTo
    BY <1>0, <2>1 DEF ToldUpTo
  <2>4. PassedInTime'
    BY <1>0, <1>2, <2>1, StillPassed
  <2> QED
    BY <1>0, <1>2, <2>1, <2>2, <2>3, <2>4, RestartGoesOn
<1>3. CASE /\ instanceState' = [instanceState EXCEPT ![rr.i].want = "restart"]
           /\ rr' = [rr EXCEPT !.pc = "wait", !.next = @ + 1]
  <2>1. /\ rr' \in RestartRecords /\ rr'.pc = "wait" /\ rr'.next = rr.next + 1 /\ rr'.old = rr.old
        /\ rr'.i = rr.i /\ rr'.punctual = rr.punctual /\ rr'.late = rr.late /\ rr'.running = rr.running
    <3>1. rr.next + 1 \in 0 .. RestartInstances
      BY <1>1, RestartAssumption
    <3>2. rr' = [rr EXCEPT !.pc = "wait", !.next = rr.next + 1]
      BY <1>3
    <3> QED
      BY <1>0, <3>1, <3>2 DEF RestartRecords
  <2>2. RestartInPlace'
    BY <1>0, <1>1, <2>1 DEF RestartFacts, RestartInPlace
  <2>3. ToldUpTo' = rr.i + 1
    BY <2>1 DEF ToldUpTo
  <2>4. instanceState' \in [InstanceIds -> NodeRecords]
    <3>1. [instanceState[rr.i] EXCEPT !.want = "restart"] \in NodeRecords
      BY <1>0, <1>1, NodeFields
    <3>2. instanceState' = [instanceState EXCEPT ![rr.i] = [instanceState[rr.i] EXCEPT !.want = "restart"]]
      BY <1>3
    <3> QED
      BY <1>0, <3>1, <3>2
  <2>5. \A i \in InstanceIds \ {rr.i} : instanceState'[i] = instanceState[i]
    BY <1>0, <1>3
  <2>6. /\ instanceState'[rr.i].want = "restart"
        /\ instanceState'[rr.i].container = instanceState[rr.i].container
        /\ instanceState'[rr.i].exists = instanceState[rr.i].exists
    BY <1>0, <1>1, <1>3 DEF NodeRecords
  <2>7. InstancesInPlace'
    <3>1. ASSUME NEW i \in InstanceIds, i # rr.i
          PROVE  /\ instanceState'[i].exists
                 /\ i < ToldUpTo' => Old(i)' \/ Renewed(i)'
                 /\ i >= ToldUpTo' => /\ instanceState'[i].container = 1 /\ instanceState'[i].want = "run"
                                      /\ instanceState'[i].status # "down"
                 /\ i < rr'.next => instanceState'[i].status # "pending" \/ instanceState'[i].want = "restart"
      <4>1. i < rr.i + 1 <=> i < rr.i
        BY <1>1, <3>1, RestartFields
      <4>2. i >= rr.i + 1 <=> ~(i < rr.i)
        BY <1>1, <3>1, RestartFields
      <4>3. i >= rr.i <=> ~(i < rr.i)
        BY <1>1, <3>1, RestartFields
      <4>4. instanceState'[i] = instanceState[i]
        BY <2>5, <3>1
      <4> QED
        BY <1>0, <1>1, <2>1, <2>3, <4>1, <4>2, <4>3, <4>4 DEF RestartFacts, InstancesInPlace, Old, Renewed
    <3>2. /\ instanceState'[rr.i].exists /\ ~(rr.i >= ToldUpTo')
          /\ instanceState'[rr.i].container = 1 /\ instanceState'[rr.i].want = "restart"
      BY <1>1, <2>1, <2>3, <2>6 DEF RestartFacts, InstancesInPlace
    <3>3. \A i \in InstanceIds : instanceState'[i].exists
      BY <3>1, <3>2
    <3>4. \A i \in InstanceIds : i < ToldUpTo' => Old(i)' \/ Renewed(i)'
      BY <3>1, <3>2 DEF Old
    <3>5. \A i \in InstanceIds : i >= ToldUpTo' => /\ instanceState'[i].container = 1 /\ instanceState'[i].want = "run"
                                                   /\ instanceState'[i].status # "down"
      BY <3>1, <3>2
    <3>6. \A i \in InstanceIds : i < rr'.next => instanceState'[i].status # "pending" \/ instanceState'[i].want = "restart"
      BY <2>6, <3>1
    <3> QED
      BY <3>3, <3>4, <3>5, <3>6 DEF InstancesInPlace
  <2>8. PassedInTime'
    <3>1. \A i \in InstanceIds : i < rr.i => i # rr.i
      BY <1>1
    <3> QED
      BY <1>0, <2>1, <2>5, <3>1 DEF RestartFacts, PassedInTime, Renewed
  <2>9. CheckedIsHealthy'
    BY <1>0 DEF RestartFacts, CheckedIsHealthy
  <2> QED
    BY <1>0, <2>1, <2>2, <2>4, <2>7, <2>8, <2>9 DEF RestartFacts, RestartTyped
<1> QED
  BY <1>2, <1>3 DEF RestartInstance, RestartAt

\* Only the status of an instance that has not been told to restart is changed, and that to
\* no other than pending and running.
LEMMA MarksAreHarmless ==
    ASSUME RestartFacts, NEW k \in InstanceIds, k >= ToldUpTo, NEW s \in {"running", "pending"},
           instanceState' = [instanceState EXCEPT ![k].status = s], UNCHANGED <<cached, healthy, unreported>>,
           rr' \in RestartRecords, RestartInPlace', ToldUpTo' = ToldUpTo,
           rr'.pc # "mark" => s = "running" /\ rr'.next <= rr.next + 1 /\ rr.next = k /\ rr.pc # "mark",
           rr'.i = rr.i \/ rr'.pc = "mark", rr'.late <=> rr.late, rr'.pc # "ready"
    PROVE  RestartFacts'
<1>0. instanceState \in [InstanceIds -> NodeRecords]
  BY DEF RestartFacts, RestartTyped
<1>1. instanceState' \in [InstanceIds -> NodeRecords]
  <2>1. [instanceState[k] EXCEPT !.status = s] \in NodeRecords
    BY <1>0, NodeFields
  <2>2. instanceState' = [instanceState EXCEPT ![k] = [instanceState[k] EXCEPT !.status = s]]
    OBVIOUS
  <2> QED
    BY <1>0, <2>1, <2>2
<1>2. \A i \in InstanceIds \ {k} : instanceState'[i] = instanceState[i]
  BY <1>0
<1>3. /\ instanceState'[k].want = instanceState[k].want /\ instanceState'[k].status = s
      /\ instanceState'[k].container = instanceState[k].container
      /\ instanceState'[k].exists = instanceState[k].exists
  BY <1>0 DEF NodeRecords
<1>4. ~(k < ToldUpTo)
  BY RestartFields
<1>5. InstancesInPlace'
  <2>1. ASSUME NEW i \in InstanceIds, i # k
        PROVE  /\ instanceState'[i].exists
               /\ i < ToldUpTo' => Old(i)' \/ Renewed(i)'
               /\ i >= ToldUpTo' => /\ instanceState'[i].container = 1 /\ instanceState'[i].want = "run"
                                    /\ instanceState'[i].status # "down"
               /\ rr'.pc # "mark" /\ i < rr'.next =>
                     instanceState'[i].status # "pending" \/ instanceState'[i].want = "restart"
    <3>1. rr'.pc # "mark" /\ i < rr'.next => i < rr.next /\ rr.pc # "mark"
      <4>1. rr'.next \in Nat
        BY RestartAssumption DEF RestartRecords
      <4> QED
        BY <2>1, <4>1, RestartFields
    <3> QED
      BY <1>2, <2>1, <3>1 DEF RestartFacts, InstancesInPlace, Old, Renewed
  <2>2. /\ instanceState'[k].exists
        /\ k >= ToldUpTo' => /\ instanceState'[k].container = 1 /\ instanceState'[k].want = "run"
                             /\ instanceState'[k].status # "down"
        /\ rr'.pc # "mark" => instanceState'[k].status # "pending"
    BY <1>3 DEF RestartFacts, InstancesInPlace
  <2> QED
    BY <1>4, <2>1, <2>2 DEF InstancesInPlace
<1>6. PassedInTime'
  <2>1. ASSUME rr'.pc # "mark", ~rr'.late, NEW i \in InstanceIds, i < rr.i
        PROVE  Renewed(i)' /\ (healthy'[i] \/ i \in unreported' \/ i = RestartInstances - 1)
    <3>1. rr.pc # "mark" /\ Renewed(i) /\ (healthy[i] \/ i \in unreported \/ i = RestartInstances - 1)
      BY <2>1 DEF RestartFacts, PassedInTime
    <3>2. i # k
      <4>1. rr.i <= ToldUpTo
        BY <3>1, RestartFields DEF ToldUpTo
      <4> QED
        BY <2>1, <4>1, RestartFields
    <3> QED
      BY <1>2, <3>1, <3>2 DEF Renewed
  <2> QED
    BY <2>1 DEF PassedInTime
<1>7. CheckedIsHealthy'
  BY DEF RestartFacts, CheckedIsHealthy
<1> QED
  BY <1>1, <1>5, <1>6, <1>7 DEF RestartFacts, RestartTyped

\* The marks are made before any instance is told to restart.
LEMMA MarkPendingStep ==
    ASSUME RestartFacts, MarkPending, ~rrExcuse'
    PROVE  RestartFacts'
<1>0. rr \in RestartRecords /\ rr.pc = "mark" /\ UNCHANGED <<cached, healthy, unreported>> /\ ToldUpTo = 0
  BY DEF RestartFacts, RestartTyped, MarkPending, ToldUpTo
<1>1. /\ rr.i \in Nat /\ rr.next = 0 /\ rr.punctual = 0 /\ ~rr.late /\ ~rr.running
  BY <1>0, RestartFields DEF RestartFacts, RestartInPlace
<1>2. CASE /\ rr.i < RestartInstances
           /\ instanceState' = [instanceState EXCEPT ![rr.i].status = "pending"] /\ rr' = [rr EXCEPT !.i = @ + 1]
  <2>1. rr.i \in InstanceIds /\ rr.i >= ToldUpTo
    BY <1>0, <1>1, <1>2, RestartFields
  <2>2. /\ rr' \in RestartRecords /\ rr'.pc = "mark" /\ rr'.next = rr.next /\ rr'.punctual = rr.punctual
        /\ rr'.late = rr.late /\ rr'.running = rr.running /\ rr'.i \in Nat
    <3>1. rr.i + 1 \in 0 .. RestartInstances
      BY <1>1, <1>2, RestartAssumption
    <3>2. rr' = [rr EXCEPT !.i = rr.i + 1]
      BY <1>2
    <3> QED
      BY <1>0, <3>1, <3>2 DEF RestartRecords
  <2>3. RestartInPlace'
    <3>1. rr'.punctual = 0 /\ ~rr'.late /\ ~rr'.running /\ rr'.next = 0 /\ rr'.punctual <= rr'.i
      BY <1>1, <2>2
    <3> QED
      BY <2>2, <3>1 DEF RestartInPlace
  <2>4. ToldUpTo' = ToldUpTo
    BY <1>0, <2>2 DEF ToldUpTo
  <2> QED
    BY <1>0, <1>2, <2>1, <2>2, <2>3, <2>4, MarksAreHarmless
<1>3. CASE rr' = [rr EXCEPT !.pc = "top", !.i = 0] /\ UNCHANGED instanceState
  <2>1. /\ rr' \in RestartRecords /\ rr'.pc = "top" /\ rr'.i = 0 /\ rr'.next = rr.next /\ rr'.punctual = rr.punctual
        /\ rr'.late = rr.late /\ rr'.running = rr.running
    <3>1. 0 \in 0 .. RestartInstances
      BY RestartAssumption
    <3> QED
      BY <1>0, <1>3, <3>1 DEF RestartRecords
  <2>2. RestartInPlace' /\ ToldUpTo' = 0
    BY <1>1, <2>1 DEF RestartInPlace, ToldUpTo
  <2>3. InstancesInPlace'
    <3>1. \A i \in InstanceIds : ~(i < 0)
      BY RestartFields
    <3> QED
      BY <1>0, <1>1, <1>3, <2>1, <2>2, <3>1 DEF RestartFacts, InstancesInPlace, Old, Renewed
  <2>4. PassedInTime'
    <3>1. \A i \in InstanceIds : ~(i < 0)
      BY RestartFields
    <3> QED
      BY <2>1, <3>1 DEF PassedInTime
  <2> QED
    BY <1>0, <1>3, <2>1, <2>2, <2>3, <2>4 DEF RestartFacts, RestartTyped, CheckedIsHealthy
<1> QED
  BY <1>0, <1>2, <1>3 DEF MarkPending

\* The marks are taken back from the instances that were not told to restart.
LEMMA UnmarkStep ==
    ASSUME RestartFacts, Unmark, ~rrExcuse'
    PROVE  RestartFacts'
<1>0. rr \in RestartRecords /\ rr.pc = "unmark" /\ UNCHANGED <<cached, healthy, unreported>> /\ ToldUpTo = rr.i
  BY DEF RestartFacts, RestartTyped, Unmark, ToldUpTo
<1>1. rr.next \in Nat /\ rr.i \in Nat /\ rr.next >= rr.i /\ rr.next <= RestartInstances
  BY <1>0, RestartFields DEF RestartFacts, RestartInPlace
<1>2. CASE rr.next = RestartInstances /\ rr' = [rr EXCEPT !.pc = "done"] /\ UNCHANGED instanceState
  <2>1. /\ rr' \in RestartRecords /\ rr'.pc = "done" /\ rr'.i = rr.i /\ rr'.next = rr.next /\ rr'.punctual = rr.punctual
        /\ rr'.late = rr.late /\ rr'.running = rr.running
    BY <1>0, <1>2 DEF RestartRecords
  <2>2. RestartInPlace'
    BY <1>0, <1>2, <2>1 DEF RestartFacts, RestartInPlace
  <2>3. ToldUpTo' = ToldUpTo
    BY <1>0, <2>1 DEF ToldUpTo
  <2>4. PassedInTime'
    BY <1>0, <1>2, <2>1, StillPassed
  <2> QED
    BY <1>0, <1>2, <2>1, <2>2, <2>3, <2>4, RestartGoesOn
<1>3. CASE /\ rr.next # RestartInstances /\ rr' = [rr EXCEPT !.next = @ + 1]
           /\ instanceState' = [instanceState EXCEPT ![rr.next].status =
                                   IF instanceState[rr.next].exists THEN "running" ELSE @]
  <2>1. rr.next \in InstanceIds /\ rr.next >= ToldUpTo
    BY <1>0, <1>1, <1>3, RestartFields, RestartAssumption
  <2>2. instanceState' = [instanceState EXCEPT ![rr.next].status = "running"]
    <3>1. instanceState[rr.next].exists
      BY <2>1 DEF RestartFacts, InstancesInPlace
    <3> QED
      BY <1>3, <3>1
  <2>3. /\ rr' \in RestartRecords /\ rr'.pc = "unmark" /\ rr'.next = rr.next + 1 /\ rr'.i = rr.i
        /\ rr'.punctual = rr.punctual /\ rr'.late = rr.late /\ rr'.running = rr.running
    <3>1. rr.next + 1 \in 0 .. RestartInstances
      BY <1>1, <1>3, RestartAssumption
    <3>2. rr' = [rr EXCEPT !.next = rr.next + 1]
      BY <1>3
    <3> QED
      BY <1>0, <3>1, <3>2 DEF RestartRecords
  <2>4. RestartInPlace'
    BY <1>0, <1>1, <2>3 DEF RestartFacts, RestartInPlace
  <2>5. ToldUpTo' = ToldUpTo
    BY <1>0, <2>3 DEF ToldUpTo
  <2>6. rr'.next <= rr.next + 1
    BY <1>1, <2>3
  <2> QED
    BY <1>0, <2>1, <2>2, <2>3, <2>4, <2>5, <2>6, MarksAreHarmless
<1> QED
  BY <1>0, <1>2, <1>3 DEF Unmark, RestartAt

\* At the beginning every instance runs its first container, and its check has passed.
LEMMA RestartInit == rrInit => RestartInv
<1> SUFFICES ASSUME rrInit PROVE RestartFacts
  BY DEF RestartInv
<1>1. rr \in RestartRecords
  BY RestartAssumption DEF rrInit, RestartRecords
<1>2. RestartTyped
  BY <1>1 DEF rrInit, RestartTyped, NodeRecords
<1>3. RestartInPlace /\ CheckedIsHealthy /\ PassedInTime
  BY DEF rrInit, RestartInPlace, CheckedIsHealthy, PassedInTime
<1>4. InstancesInPlace
  <2>1. ToldUpTo = 0 /\ \A i \in InstanceIds : ~(i < 0)
    BY RestartAssumption DEF rrInit, ToldUpTo, InstanceIds
  <2> QED
    BY <2>1 DEF rrInit, InstancesInPlace
<1> QED
  BY <1>2, <1>3, <1>4 DEF RestartFacts

\* Every step keeps it; an excuse is never taken back.
LEMMA RestartStepKeeps == RestartInv /\ [rrNext]_rrVars => RestartInv'
<1> SUFFICES ASSUME RestartInv, [rrNext]_rrVars, ~rrExcuse' PROVE RestartFacts'
  BY DEF RestartInv
<1>1. rrExcuse => rrExcuse'
  BY DEF rrNext, RestartStep, MarkPending, NextInstance, RememberContainer, RestartInstance, WaitInstance, Ready,
         TimerFires, Cancelled, Unmark, AgentStep, ContainerStops, ContainerStarts, CheckPasses, EntryExpires,
         StateDisappears, rrVars
<1>2. RestartFacts
  BY <1>1 DEF RestartInv
<1>3. ASSUME RestartStep \/ Cancelled PROVE RestartFacts'
  BY <1>2, <1>3, MarkPendingStep, NextInstanceStep, RememberContainerStep, RestartInstanceStep, WaitInstanceStep,
     ReadyStep, TimerStep, UnmarkStep DEF RestartStep
<1>4. ASSUME NEW i \in InstanceIds, AgentStep(i) \/ EntryExpires(i) \/ StateDisappears(i) PROVE RestartFacts'
  BY <1>2, <1>4, ContainerStopsStep, ContainerStartsStep, CheckPassesStep DEF AgentStep, StateDisappears
<1>5. ASSUME UNCHANGED rrVars PROVE RestartFacts'
  BY <1>2, <1>5 DEF rrVars, RestartFacts, RestartTyped, RestartInPlace, InstancesInPlace, PassedInTime,
                    CheckedIsHealthy, ToldUpTo, Old, Renewed
<1> QED
  BY <1>3, <1>4, <1>5 DEF rrNext

\* A rolling restart takes one instance away at a time, calls the service running only when
\* every instance is renewed, and leaves no mark behind, with the exceptions that RestartSound
\* names (Facade.rollingRestart).
THEOREM OneInstanceAtATime == rrSpec => []RestartSound
<1>1. RestartInv => RestartSound
  <2> SUFFICES ASSUME RestartFacts, ~rrExcuse PROVE RestartSound
    BY DEF RestartInv, RestartSound, OneAtATime, RunningMeansRestarted, NoMarkLeft
  <2>1. OneAtATime
    <3> SUFFICES ASSUME NEW i \in InstanceIds, NEW j \in InstanceIds, i < j, Away(i),
                        instanceState[j].want = "restart", ~rr.late, i \notin unreported
                 PROVE  FALSE
      BY DEF OneAtATime, TimedOut
    <3>1. j < ToldUpTo
      BY RestartFields DEF RestartFacts, InstancesInPlace
    <3>2. rr.pc # "mark" /\ i < rr.i
      BY <3>1, RestartFields DEF ToldUpTo
    <3>3. i # RestartInstances - 1
      BY RestartFields, RestartAssumption
    <3>4. Renewed(i) /\ healthy[i]
      BY <3>2, <3>3 DEF RestartFacts, PassedInTime
    <3> QED
      BY <3>4 DEF Away, Renewed
  <2>2. RunningMeansRestarted
    <3> SUFFICES ASSUME rr.running, NEW i \in InstanceIds PROVE instanceState[i].container = 2
      BY DEF RunningMeansRestarted
    <3>1. ~rr.late /\ rr.pc # "mark" /\ i < rr.i
      BY RestartFields DEF RestartFacts, RestartInPlace
    <3> QED
      BY <3>1 DEF RestartFacts, PassedInTime, Renewed
  <2>3. NoMarkLeft
    <3> SUFFICES ASSUME rr.pc = "done", NEW i \in InstanceIds
                 PROVE  instanceState[i].status # "pending" \/ instanceState[i].want = "restart"
      BY DEF NoMarkLeft
    <3>1. i < rr.next
      BY RestartFields DEF RestartFacts, RestartInPlace
    <3> QED
      BY <3>1 DEF RestartFacts, InstancesInPlace
  <2> QED
    BY <2>1, <2>2, <2>3 DEF RestartSound
<1>2. rrSpec => []RestartInv
  BY RestartInit, RestartStepKeeps, PTL DEF rrSpec
<1> QED
  BY <1>1, <1>2, PTL

-----------------------------------------------------------------------------
(* The election of the masters                                              *)

ElectionStates == [at : {"out", "looks", "waits", "holds"}, own : Nat, watched : Nat]
LdPlaces == {"off", "stuck", "connect", "electing", "locks", "works", "drains", "releases", "next", "stopped", "gone"}

ElectionTyped ==
    /\ candidates \in [Paths -> SUBSET [seq : Nat, of : Masters]]
    /\ nextSeq \in [Paths -> Nat]
    /\ election \in [Paths -> [Masters -> ElectionStates]]
LdLeftTyped == ldLeft \in [{"hiccups", "expirations", "resets", "ends", "stops"} -> Nat] /\ ldLeft.hiccups <= MaxHiccups
LoopTyped == mainloop \in [Masters -> LdPlaces] /\ workers \in [Masters -> SUBSET LdWorkers]

\* The nodes of an election have different numbers, and the next number is a new one.
NodesApart ==
    \A p \in Paths : \A c \in candidates[p] :
        c.seq < nextSeq[p] /\ \A d \in candidates[p] : d.seq = c.seq => d = c

\* Who holds the lead and has not lost its node has the first node.
HoldersFirst ==
    \A p \in Paths, m \in Masters :
        /\ election[p][m].own < nextSeq[p]
        /\ At(p, m) = "holds" /\ Stands(p, m) => \A c \in candidates[p] : election[p][m].own <= c.seq

\* As long as every call to ZooKeeper has succeeded, the Leader object of a master knows its node.
NodesKnown ==
    ldLeft.hiccups = MaxHiccups =>
        \A p \in Paths : \A c \in candidates[p] : At(p, c.of) # "out" /\ election[p][c.of].own = c.seq

\* Where the loop of a master is, it has the lead that the place needs, and the server of the
\* file system has a Leader object only while it runs.
LeadHeld(m) ==
    /\ mainloop[m] = "electing" => At("scheduler", m) \in {"looks", "waits"}
    /\ mainloop[m] \in {"locks", "works", "drains", "releases"} => At("scheduler", m) = "holds"
    /\ At("scheduler", m) # "out" => mainloop[m] \in {"electing", "locks", "works", "drains", "releases"}
    /\ workers[m] # {} => mainloop[m] \in {"works", "drains"}
    /\ "storage" \notin workers[m] => At("storage", m) = "out"

ElectionInv == ElectionTyped /\ LdLeftTyped /\ NodesApart /\ HoldersFirst /\ NodesKnown
LeadInv == ElectionInv /\ LoopTyped /\ \A m \in Masters : LeadHeld(m)

-----------------------------------------------------------------------------
\* A set of numbers that is not empty has a least one.
LEMMA LeastNumber ==
    ASSUME NEW S \in SUBSET Nat, S # {}
    PROVE  Min(S) \in S /\ \A y \in S : Min(S) <= y
  <1>1. PICK k \in S : \A j \in S : ~ (<<j, k>> \in OpToRel(<, Nat))
    BY NatLessThanWellFounded, WFMin, Zenon
  <1>2. ASSUME NEW j \in S PROVE k <= j
    <2>1. ~ (<<j, k>> \in {ss \in Nat \X Nat : ss[1] < ss[2]})
      BY <1>1 DEF OpToRel
    <2>2. QED
      BY <2>1
  <1>3. QED
    BY <1>2 DEF Min

\* The first node comes before all others.
LEMMA LowestIsFirst ==
    ASSUME ElectionTyped, NEW p \in Paths
    PROVE  \A c \in candidates[p] : LowestSeq(p) <= c.seq
  <1> DEFINE S == Seqs(p) \cup {nextSeq[p]}
  <1>1. S \in SUBSET Nat /\ S # {}
    BY DEF ElectionTyped, Seqs
  <1> HIDE DEF S
  <1>2. \A y \in S : Min(S) <= y
    BY <1>1, LeastNumber
  <1>3. QED
    BY <1>2 DEF S, LowestSeq, Seqs

\* A new state of one Leader object.
LEMMA OneElection ==
    ASSUME ElectionTyped, NEW p \in Paths, NEW m \in Masters, NEW e \in ElectionStates, Becomes(p, m, e)
    PROVE  /\ election' \in [Paths -> [Masters -> ElectionStates]]
           /\ election'[p][m] = e
           /\ \A q \in Paths, n \in Masters : q # p \/ n # m => election'[q][n] = election[q][n]
  BY DEF ElectionTyped, Becomes

\* What may be spent.
LEMMA SpendTyped ==
    ASSUME LdLeftTyped, UNCHANGED ldLeft \/ \E w \in {"hiccups", "expirations", "resets", "ends", "stops"} : Spend(w)
    PROVE  /\ LdLeftTyped' /\ ldLeft'.hiccups <= ldLeft.hiccups
           /\ Spend("hiccups") => ldLeft'.hiccups < ldLeft.hiccups
  BY LeadershipAssumption DEF LdLeftTyped, Spend

\* Nodes that go and Leader objects that do not change.
LEMMA FewerNodes ==
    ASSUME ElectionInv, LdLeftTyped', ldLeft'.hiccups <= ldLeft.hiccups, UNCHANGED <<nextSeq, election>>,
           candidates' \in [Paths -> SUBSET [seq : Nat, of : Masters]], \A p \in Paths : candidates'[p] \subseteq candidates[p]
    PROVE  ElectionInv'
  <1> USE DEF ElectionInv
  <1>1. ElectionTyped'
    BY DEF ElectionTyped
  <1>2. NodesApart'
    BY DEF NodesApart
  <1>3. HoldersFirst'
    BY DEF HoldersFirst, Stands, At
  <1>4. NodesKnown'
    BY DEF NodesKnown, LdLeftTyped, At
  <1>5. QED
    BY <1>1, <1>2, <1>3, <1>4

\* A master makes its node: the last one, and the only one that it has while no call has failed.
LEMMA EnrollKeeps ==
    ASSUME ElectionInv, NEW p \in Paths, NEW m \in Masters, At(p, m) = "out", Enroll(p, m), UNCHANGED ldLeft
    PROVE  /\ ElectionInv' /\ At(p, m)' = "looks"
           /\ \A q \in Paths, n \in Masters : q # p \/ n # m => At(q, n)' = At(q, n)
  <1> USE DEF ElectionInv
  <1> DEFINE e == [at |-> "looks", own |-> nextSeq[p], watched |-> 0]
             x == [seq |-> nextSeq[p], of |-> m]
  <1>1. e \in ElectionStates /\ x \in [seq : Nat, of : Masters] /\ e.own = nextSeq[p] /\ e.at = "looks" /\ x.seq = nextSeq[p] /\ x.of = m
    BY DEF ElectionTyped, ElectionStates
  <1>2. Becomes(p, m, e) /\ candidates' = [candidates EXCEPT ![p] = @ \cup {x}] /\ nextSeq' = [nextSeq EXCEPT ![p] = @ + 1]
    BY DEF Enroll, Node
  <1> HIDE DEF e, x
  <1>3. /\ election' \in [Paths -> [Masters -> ElectionStates]]
        /\ election'[p][m] = e
        /\ \A q \in Paths, n \in Masters : q # p \/ n # m => election'[q][n] = election[q][n]
    BY <1>1, <1>2, OneElection
  <1>4. /\ candidates'[p] = candidates[p] \cup {x} /\ \A q \in Paths \ {p} : candidates'[q] = candidates[q]
        /\ nextSeq'[p] = nextSeq[p] + 1 /\ \A q \in Paths \ {p} : nextSeq'[q] = nextSeq[q]
        /\ \A q \in Paths : nextSeq[q] \in Nat /\ candidates[q] \subseteq [seq : Nat, of : Masters]
    BY <1>2 DEF ElectionTyped
  <1>5. ElectionTyped'
    <2>1. candidates' \in [Paths -> SUBSET [seq : Nat, of : Masters]]
      BY <1>1, <1>2, <1>4 DEF ElectionTyped
    <2>2. nextSeq' \in [Paths -> Nat]
      BY <1>2 DEF ElectionTyped
    <2>3. QED
      BY <1>3, <2>1, <2>2 DEF ElectionTyped
  <1>6. NodesApart'
    BY <1>1, <1>4 DEF NodesApart
  <1>7. HoldersFirst'
    <2> SUFFICES ASSUME NEW q \in Paths, NEW n \in Masters
                 PROVE  /\ election'[q][n].own < nextSeq'[q]
                        /\ election'[q][n].at = "holds" /\ Node(election'[q][n].own, n) \in candidates'[q]
                             => \A c \in candidates'[q] : election'[q][n].own <= c.seq
      BY DEF HoldersFirst, Stands, At
    <2>1. CASE q = p /\ n = m
      BY <1>1, <1>3, <1>4, <2>1
    <2>2. CASE q # p
      BY <1>3, <1>4, <2>2 DEF HoldersFirst, Stands, At
    <2>3. CASE q = p /\ n # m
      <3>1. election'[q][n] = election[q][n] /\ election[q][n].own \in Nat /\ election[q][n].own < nextSeq[q]
        BY <1>3, <2>3 DEF HoldersFirst, ElectionTyped, ElectionStates
      <3>2. Node(election[q][n].own, n) # x
        BY <2>3, <1>1 DEF Node
      <3>3. QED
        BY <1>1, <1>4, <2>3, <3>1, <3>2 DEF HoldersFirst, Stands, At
    <2>4. QED
      BY <2>1, <2>2, <2>3
  <1>8. NodesKnown'
    BY <1>1, <1>3, <1>4 DEF NodesKnown, At, ElectionTyped
  <1>9. LdLeftTyped' /\ At(p, m)' = "looks" /\ \A q \in Paths, n \in Masters : q # p \/ n # m => At(q, n)' = At(q, n)
    BY <1>1, <1>3 DEF At, LdLeftTyped
  <1>10. QED
    BY <1>5, <1>6, <1>7, <1>8, <1>9

\* The numbers of the elections.
LEMMA NumbersAreNatural ==
    ASSUME ElectionTyped, NEW p \in Paths, NEW m \in Masters
    PROVE  election[p][m] \in ElectionStates /\ election[p][m].own \in Nat /\ LowestSeq(p) \in Nat
  <1> DEFINE S == Seqs(p) \cup {nextSeq[p]}
  <1>1. S \in SUBSET Nat /\ S # {}
    BY DEF ElectionTyped, Seqs
  <1> HIDE DEF S
  <1>2. Min(S) \in Nat
    BY <1>1, LeastNumber
  <1>3. QED
    BY <1>2 DEF S, LowestSeq, ElectionTyped, ElectionStates

\* A master looks, watches and wins: its node stays its node.
LEMMA LookingKeeps ==
    ASSUME ElectionInv, NEW p \in Paths, NEW m \in Masters, Watches(p, m) \/ LooksAgain(p, m) \/ Wins(p, m), UNCHANGED ldLeft
    PROVE  /\ ElectionInv' /\ At(p, m) \in {"looks", "waits"}
           /\ At(p, m)' = (IF Wins(p, m) THEN "holds" ELSE IF At(p, m) = "looks" THEN "waits" ELSE "looks")
           /\ \A q \in Paths, n \in Masters : q # p \/ n # m => At(q, n)' = At(q, n)
  <1> USE DEF ElectionInv
  <1>1. PICK e \in ElectionStates :
             /\ Becomes(p, m, e) /\ e.own = election[p][m].own
             /\ e.at = "holds" => Wins(p, m)
             /\ e.at = (IF Wins(p, m) THEN "holds" ELSE IF At(p, m) = "looks" THEN "waits" ELSE "looks")
    <2>1. election[p][m] \in ElectionStates /\ election[p][m].own \in Nat /\ LowestSeq(p) \in Nat
      BY NumbersAreNatural
    <2>2. CASE Watches(p, m)
      <3>1. ~Wins(p, m) /\ At(p, m) = "looks"
        BY <2>1, <2>2 DEF Watches, Wins, ElectionStates
      <3> DEFINE e == [election[p][m] EXCEPT !.at = "waits", !.watched = LowestSeq(p)]
      <3>2. e \in ElectionStates /\ e.own = election[p][m].own /\ e.at = "waits"
        BY <2>1 DEF ElectionStates
      <3>3. Becomes(p, m, e)
        BY <2>2 DEF Watches
      <3> HIDE DEF e
      <3>4. QED
        BY <3>1, <3>2, <3>3
    <2>3. CASE LooksAgain(p, m)
      <3>1. ~Wins(p, m) /\ At(p, m) = "waits"
        BY <2>3 DEF LooksAgain, Wins
      <3> DEFINE e == [election[p][m] EXCEPT !.at = "looks"]
      <3>2. e \in ElectionStates /\ e.own = election[p][m].own /\ e.at = "looks"
        BY <2>1 DEF ElectionStates
      <3>3. Becomes(p, m, e)
        BY <2>3 DEF LooksAgain
      <3> HIDE DEF e
      <3>4. QED
        BY <3>1, <3>2, <3>3
    <2>4. CASE Wins(p, m)
      <3> DEFINE e == [election[p][m] EXCEPT !.at = "holds"]
      <3>1. e \in ElectionStates /\ e.own = election[p][m].own /\ e.at = "holds"
        BY <2>1 DEF ElectionStates
      <3>2. Becomes(p, m, e)
        BY <2>4 DEF Wins
      <3> HIDE DEF e
      <3>3. QED
        BY <2>4, <3>1, <3>2
    <2>5. QED
      BY <2>2, <2>3, <2>4
  <1>2. UNCHANGED <<candidates, nextSeq>> /\ At(p, m) \in {"looks", "waits"}
    BY DEF Watches, LooksAgain, Wins
  <1>3. /\ election' \in [Paths -> [Masters -> ElectionStates]]
        /\ election'[p][m] = e
        /\ \A q \in Paths, n \in Masters : q # p \/ n # m => election'[q][n] = election[q][n]
    BY <1>1, OneElection
  <1>4. ElectionTyped' /\ LdLeftTyped' /\ NodesApart'
    BY <1>2, <1>3 DEF ElectionTyped, NodesApart, LdLeftTyped
  <1>5. HoldersFirst'
    <2> SUFFICES ASSUME NEW q \in Paths, NEW n \in Masters
                 PROVE  /\ election'[q][n].own < nextSeq[q]
                        /\ election'[q][n].at = "holds" /\ Node(election'[q][n].own, n) \in candidates[q]
                             => \A c \in candidates[q] : election'[q][n].own <= c.seq
      BY <1>2 DEF HoldersFirst, Stands, At
    <2>1. CASE q = p /\ n = m
      <3>1. Wins(p, m) => election[p][m].own = LowestSeq(p)
        BY DEF Wins
      <3>2. QED
        BY <1>1, <1>3, <2>1, <3>1, LowestIsFirst DEF HoldersFirst
    <2>2. CASE q # p \/ n # m
      BY <1>3, <2>2 DEF HoldersFirst, Stands, At
    <2>3. QED
      BY <2>1, <2>2
  <1>6. NodesKnown'
    BY <1>1, <1>2, <1>3 DEF NodesKnown, At, ElectionTyped
  <1>7. QED
    BY <1>1, <1>2, <1>3, <1>4, <1>5, <1>6 DEF At

\* A master leaves an election, with its node unless a call has failed.
LEMMA LeavingKeeps ==
    ASSUME ElectionInv, NEW p \in Paths, NEW m \in Masters, Becomes(p, m, Out), UNCHANGED nextSeq,
           LdLeftTyped', ldLeft'.hiccups <= ldLeft.hiccups,
           candidates' \in [Paths -> SUBSET [seq : Nat, of : Masters]], \A q \in Paths : candidates'[q] \subseteq candidates[q],
           ldLeft'.hiccups = MaxHiccups => Node(election[p][m].own, m) \notin candidates'[p]
    PROVE  /\ ElectionInv' /\ At(p, m)' = "out"
           /\ \A q \in Paths, n \in Masters : q # p \/ n # m => At(q, n)' = At(q, n)
  <1> USE DEF ElectionInv
  <1>1. Out \in ElectionStates /\ Out.at = "out" /\ Out.own = 0
    BY DEF Out, ElectionStates
  <1>2. /\ election' \in [Paths -> [Masters -> ElectionStates]]
        /\ election'[p][m] = Out
        /\ \A q \in Paths, n \in Masters : q # p \/ n # m => election'[q][n] = election[q][n]
    BY <1>1, OneElection
  <1>3. ElectionTyped' /\ NodesApart'
    BY <1>2 DEF ElectionTyped, NodesApart
  <1>4. HoldersFirst'
    <2> SUFFICES ASSUME NEW q \in Paths, NEW n \in Masters
                 PROVE  /\ election'[q][n].own < nextSeq[q]
                        /\ election'[q][n].at = "holds" /\ Node(election'[q][n].own, n) \in candidates'[q]
                             => \A c \in candidates'[q] : election'[q][n].own <= c.seq
      BY DEF HoldersFirst, Stands, At
    <2>1. CASE q = p /\ n = m
      <3>1. election[q][n].own \in Nat /\ nextSeq[q] \in Nat /\ election[q][n].own < nextSeq[q]
        BY DEF ElectionTyped, ElectionStates, HoldersFirst
      <3>2. QED
        BY <1>1, <1>2, <2>1, <3>1
    <2>2. CASE q # p \/ n # m
      BY <1>2, <2>2 DEF HoldersFirst, Stands, At
    <2>3. QED
      BY <2>1, <2>2
  <1>5. NodesKnown'
    <2> SUFFICES ASSUME ldLeft'.hiccups = MaxHiccups, NEW q \in Paths, NEW c \in candidates'[q]
                 PROVE  election'[q][c.of].at # "out" /\ election'[q][c.of].own = c.seq
      BY DEF NodesKnown, At
    <2>1. c \in candidates[q] /\ c \in [seq : Nat, of : Masters] /\ election[q][c.of].at # "out" /\ election[q][c.of].own = c.seq
      <3>1. ldLeft.hiccups = MaxHiccups
        BY LeadershipAssumption DEF LdLeftTyped
      <3>2. QED
        BY <3>1 DEF NodesKnown, At, ElectionTyped
    <2>2. c = Node(election[q][c.of].own, c.of)
      BY <2>1 DEF Node
    <2>3. q # p \/ c.of # m
      BY <2>2
    <2>4. QED
      BY <1>2, <2>1, <2>3
  <1>6. QED
    BY <1>1, <1>2, <1>3, <1>4, <1>5 DEF At

\* The nodes of a session go.
LEMMA SessionGone ==
    ASSUME ElectionTyped, NEW m \in Masters, candidates' = WithoutNodesOf(m)
    PROVE  /\ candidates' \in [Paths -> SUBSET [seq : Nat, of : Masters]]
           /\ \A p \in Paths : candidates'[p] \subseteq candidates[p] /\ \A c \in candidates'[p] : c.of # m
  BY DEF ElectionTyped, WithoutNodesOf

\* TakeLead fails.
LEMMA TakeLeadFailsKeeps ==
    ASSUME ElectionInv, NEW p \in Paths, NEW m \in Masters, TakeLeadFails(p, m)
    PROVE  /\ ElectionInv' /\ At(p, m)' = "out" /\ At(p, m) # "out"
           /\ \A q \in Paths, n \in Masters : q # p \/ n # m => At(q, n)' = At(q, n)
  <1> USE DEF ElectionInv
  <1>1. Becomes(p, m, Out) /\ UNCHANGED <<candidates, nextSeq>> /\ At(p, m) # "out"
    BY DEF TakeLeadFails, Refused
  <1>2. (~Stands(p, m) /\ UNCHANGED ldLeft) \/ Spend("hiccups")
    BY DEF TakeLeadFails, Refused
  <1>3. LdLeftTyped' /\ ldLeft'.hiccups <= ldLeft.hiccups /\ (Spend("hiccups") => ldLeft'.hiccups < ldLeft.hiccups)
    BY <1>2, SpendTyped
  <1>4. candidates' \in [Paths -> SUBSET [seq : Nat, of : Masters]] /\ \A q \in Paths : candidates'[q] \subseteq candidates[q]
    BY <1>1 DEF ElectionTyped
  <1>5. ldLeft'.hiccups = MaxHiccups => Node(election[p][m].own, m) \notin candidates'[p]
    <2>1. Spend("hiccups") => ldLeft'.hiccups < MaxHiccups
      BY <1>3, LeadershipAssumption DEF LdLeftTyped
    <2>2. QED
      BY <1>1, <1>2, <1>3, <2>1, LeadershipAssumption DEF Stands, LdLeftTyped
  <1>6. QED
    BY <1>1, <1>3, <1>4, <1>5, LeavingKeeps

\* A master gives up its lead, or a call fails and its node stays.
LEMMA ReleaseLeadKeeps ==
    ASSUME ElectionInv, NEW p \in Paths, NEW m \in Masters, ReleaseLead(p, m)
    PROVE  /\ ElectionInv' /\ At(p, m)' = "out"
           /\ \A q \in Paths, n \in Masters : q # p \/ n # m => At(q, n)' = At(q, n)
  <1> USE DEF ElectionInv
  <1> DEFINE x == Node(election[p][m].own, m)
  <1>1. Becomes(p, m, Out) /\ UNCHANGED nextSeq
    BY DEF ReleaseLead
  <1>2. \/ candidates' = [candidates EXCEPT ![p] = @ \ {x}] /\ UNCHANGED ldLeft
        \/ Spend("hiccups") /\ UNCHANGED candidates
    BY Zenon DEF ReleaseLead
  <1> HIDE DEF x
  <1>3. LdLeftTyped' /\ ldLeft'.hiccups <= ldLeft.hiccups /\ (Spend("hiccups") => ldLeft'.hiccups < ldLeft.hiccups)
    BY <1>2, SpendTyped
  <1>4. candidates' \in [Paths -> SUBSET [seq : Nat, of : Masters]] /\ \A q \in Paths : candidates'[q] \subseteq candidates[q]
    BY <1>2 DEF ElectionTyped
  <1>5. ldLeft'.hiccups = MaxHiccups => x \notin candidates'[p]
    <2>1. Spend("hiccups") => ldLeft'.hiccups < MaxHiccups
      BY <1>3, LeadershipAssumption DEF LdLeftTyped
    <2>2. QED
      BY <1>2, <1>3, <2>1, LeadershipAssumption DEF ElectionTyped, LdLeftTyped
  <1>6. QED
    BY <1>1, <1>3, <1>4, <1>5, LeavingKeeps DEF x

-----------------------------------------------------------------------------
(* Every action of a master.                                               *)

\* Nothing of the elections changes.
LEMMA ElectionStays ==
    ASSUME ElectionInv, UNCHANGED electionVars, UNCHANGED ldLeft \/ \E w \in {"hiccups", "expirations", "resets", "ends", "stops"} : Spend(w)
    PROVE  ElectionInv' /\ \A q \in Paths, n \in Masters : At(q, n)' = At(q, n)
  <1> USE DEF ElectionInv
  <1>1. LdLeftTyped' /\ ldLeft'.hiccups <= ldLeft.hiccups
    BY SpendTyped
  <1>2. UNCHANGED <<candidates, nextSeq, election>>
    BY DEF electionVars
  <1>3. candidates' \in [Paths -> SUBSET [seq : Nat, of : Masters]] /\ \A p \in Paths : candidates'[p] \subseteq candidates[p]
    BY <1>2 DEF ElectionTyped
  <1>4. QED
    BY <1>1, <1>2, <1>3, FewerNodes DEF At

\* The loop of one master goes from one place to another.
LEMMA LoopGoes ==
    ASSUME LoopTyped, NEW m \in Masters, NEW from \in LdPlaces, NEW to \in LdPlaces, LdLoop(m, from, to)
    PROVE  /\ mainloop' \in [Masters -> LdPlaces] /\ mainloop[m] = from /\ mainloop'[m] = to
           /\ \A n \in Masters \ {m} : mainloop'[n] = mainloop[n]
  BY DEF LoopTyped, LdLoop

\* What LeadHeld says of a master that has not moved.
LEMMA OthersHeld ==
    ASSUME NEW n \in Masters, LeadHeld(n), mainloop'[n] = mainloop[n], workers'[n] = workers[n],
           \A p \in Paths : At(p, n)' = At(p, n)
    PROVE  LeadHeld(n)'
  BY DEF LeadHeld, Paths

\* The locks are reset and the workers start: the lead is held.
LEMMA ResetLocksKeeps ==
    ASSUME LeadInv, NEW m \in Masters, ResetLocks(m)
    PROVE  LeadInv'
  <1> USE DEF LeadInv
  <1>1. LdLoop(m, "locks", "works") /\ UNCHANGED electionVars
    BY DEF ResetLocks
  <1>2. UNCHANGED ldLeft \/ \E w \in {"hiccups", "expirations", "resets", "ends", "stops"} : Spend(w)
    BY DEF ResetLocks
  <1>3. ElectionInv' /\ \A q \in Paths, n \in Masters : At(q, n)' = At(q, n)
    BY <1>1, <1>2, ElectionStays
  <1>4. mainloop' \in [Masters -> LdPlaces] /\ mainloop[m] = "locks" /\ mainloop'[m] = "works" /\ \A n \in Masters \ {m} : mainloop'[n] = mainloop[n]
    BY <1>1, LoopGoes DEF LdPlaces
  <1>5. /\ workers' \in [Masters -> SUBSET LdWorkers] /\ workers'[m] = LdWorkers
        /\ \A n \in Masters \ {m} : workers'[n] = workers[n]
    BY DEF ResetLocks, LoopTyped
  <1>6. LeadHeld(m)'
    BY <1>3, <1>4, <1>5 DEF LeadHeld, Paths, LdWorkers
  <1>7. \A n \in Masters \ {m} : LeadHeld(n)'
    BY <1>3, <1>4, <1>5, OthersHeld
  <1>8. QED
    BY <1>3, <1>4, <1>5, <1>6, <1>7 DEF LoopTyped

\* The locks cannot be reset.
LEMMA ResetLocksFailsKeeps ==
    ASSUME LeadInv, NEW m \in Masters, ResetLocksFails(m)
    PROVE  LeadInv'
  <1> USE DEF LeadInv
  <1>1. LdLoop(m, "locks", "releases") /\ UNCHANGED electionVars
    BY DEF ResetLocksFails
  <1>2. UNCHANGED ldLeft \/ \E w \in {"hiccups", "expirations", "resets", "ends", "stops"} : Spend(w)
    BY DEF ResetLocksFails
  <1>3. ElectionInv' /\ \A q \in Paths, n \in Masters : At(q, n)' = At(q, n)
    BY <1>1, <1>2, ElectionStays
  <1>4. mainloop' \in [Masters -> LdPlaces] /\ mainloop[m] = "locks" /\ mainloop'[m] = "releases" /\ \A n \in Masters \ {m} : mainloop'[n] = mainloop[n]
    BY <1>1, LoopGoes DEF LdPlaces
  <1>5. UNCHANGED workers
    BY DEF ResetLocksFails, LoopTyped
  <1>6. LeadHeld(m)'
    BY <1>3, <1>4, <1>5 DEF LeadHeld, Paths, LdWorkers
  <1>7. \A n \in Masters \ {m} : LeadHeld(n)'
    BY <1>3, <1>4, <1>5, OthersHeld
  <1>8. QED
    BY <1>3, <1>4, <1>5, <1>6, <1>7 DEF LoopTyped

\* The loop closes _shutdown.
LEMMA WorkEndsKeeps ==
    ASSUME LeadInv, NEW m \in Masters, WorkEnds(m)
    PROVE  LeadInv'
  <1> USE DEF LeadInv
  <1>1. LdLoop(m, "works", "drains") /\ UNCHANGED electionVars
    BY DEF WorkEnds
  <1>2. UNCHANGED ldLeft \/ \E w \in {"hiccups", "expirations", "resets", "ends", "stops"} : Spend(w)
    BY DEF WorkEnds
  <1>3. ElectionInv' /\ \A q \in Paths, n \in Masters : At(q, n)' = At(q, n)
    BY <1>1, <1>2, ElectionStays
  <1>4. mainloop' \in [Masters -> LdPlaces] /\ mainloop[m] = "works" /\ mainloop'[m] = "drains" /\ \A n \in Masters \ {m} : mainloop'[n] = mainloop[n]
    BY <1>1, LoopGoes DEF LdPlaces
  <1>5. UNCHANGED workers
    BY DEF WorkEnds, LoopTyped
  <1>6. LeadHeld(m)'
    BY <1>3, <1>4, <1>5 DEF LeadHeld, Paths, LdWorkers
  <1>7. \A n \in Masters \ {m} : LeadHeld(n)'
    BY <1>3, <1>4, <1>5, OthersHeld
  <1>8. QED
    BY <1>3, <1>4, <1>5, <1>6, <1>7 DEF LoopTyped

\* The loop starts again or ends.
LEMMA GoesOnKeeps ==
    ASSUME LeadInv, NEW m \in Masters, GoesOn(m)
    PROVE  LeadInv'
  <1> USE DEF LeadInv
  <1>1. LdLoop(m, "next", (IF stopCalled[m] THEN "stopped" ELSE "connect")) /\ UNCHANGED electionVars
    BY DEF GoesOn
  <1>2. UNCHANGED ldLeft \/ \E w \in {"hiccups", "expirations", "resets", "ends", "stops"} : Spend(w)
    BY DEF GoesOn
  <1>3. ElectionInv' /\ \A q \in Paths, n \in Masters : At(q, n)' = At(q, n)
    BY <1>1, <1>2, ElectionStays
  <1>4. mainloop' \in [Masters -> LdPlaces] /\ mainloop[m] = "next" /\ mainloop'[m] = (IF stopCalled[m] THEN "stopped" ELSE "connect") /\ \A n \in Masters \ {m} : mainloop'[n] = mainloop[n]
    BY <1>1, LoopGoes DEF LdPlaces
  <1>5. UNCHANGED workers
    BY DEF GoesOn, LoopTyped
  <1>6. LeadHeld(m)'
    BY <1>3, <1>4, <1>5 DEF LeadHeld, Paths, LdWorkers
  <1>7. \A n \in Masters \ {m} : LeadHeld(n)'
    BY <1>3, <1>4, <1>5, OthersHeld
  <1>8. QED
    BY <1>3, <1>4, <1>5, <1>6, <1>7 DEF LoopTyped

\* One master moves.
LEMMA OneMoves ==
    ASSUME LeadInv, NEW m \in Masters, ElectionInv', LoopTyped', LeadHeld(m)',
           \A n \in Masters \ {m} : mainloop'[n] = mainloop[n] /\ workers'[n] = workers[n] /\ \A p \in Paths : At(p, n)' = At(p, n)
    PROVE  LeadInv'
  BY OthersHeld DEF LeadInv

\* The scheduler starts.
LEMMA StartKeeps ==
    ASSUME LeadInv, NEW m \in Masters, Start(m)
    PROVE  LeadInv'
  <1> USE DEF LeadInv
  <1>1. PICK to \in {"connect", "stuck"} : LdLoop(m, "off", to)
    BY DEF Start
  <1>2. UNCHANGED electionVars /\ UNCHANGED workers
    BY DEF Start
  <1>3. UNCHANGED ldLeft \/ \E w \in {"hiccups", "expirations", "resets", "ends", "stops"} : Spend(w)
    BY DEF Start
  <1>4. ElectionInv' /\ \A q \in Paths, n \in Masters : At(q, n)' = At(q, n)
    BY <1>2, <1>3, ElectionStays
  <1>5. mainloop' \in [Masters -> LdPlaces] /\ mainloop[m] = "off" /\ mainloop'[m] = to /\ \A n \in Masters \ {m} : mainloop'[n] = mainloop[n]
    BY <1>1, LoopGoes DEF LdPlaces
  <1>6. LeadHeld(m)'
    BY <1>2, <1>4, <1>5 DEF LeadHeld, Paths
  <1>7. QED
    BY <1>2, <1>4, <1>5, <1>6, OneMoves DEF LoopTyped

\* The loop enters the election, in which it has no node.
LEMMA EnterElectionKeeps ==
    ASSUME LeadInv, NEW m \in Masters, EnterElection(m)
    PROVE  LeadInv'
  <1> USE DEF LeadInv
  <1>1. LdLoop(m, "connect", "electing") /\ UNCHANGED workers
    BY DEF EnterElection
  <1>2. mainloop' \in [Masters -> LdPlaces] /\ mainloop[m] = "connect" /\ mainloop'[m] = "electing" /\ \A n \in Masters \ {m} : mainloop'[n] = mainloop[n]
    BY <1>1, LoopGoes DEF LdPlaces
  <1>3. ElectionInv' /\ At("scheduler", m)' = "looks" /\ \A q \in Paths, n \in Masters : q # "scheduler" \/ n # m => At(q, n)' = At(q, n)
    <2>1. At("scheduler", m) = "out"
      BY <1>2 DEF LeadHeld, ElectionInv, ElectionTyped, ElectionStates, At, Paths
    <2>2. Enroll("scheduler", m) /\ UNCHANGED ldLeft
      BY DEF EnterElection
    <2>3. QED
      BY <2>1, <2>2, EnrollKeeps DEF Paths
  <1>4. LeadHeld(m)'
    BY <1>1, <1>2, <1>3 DEF LeadHeld, Paths
  <1>5. QED
    BY <1>1, <1>2, <1>3, <1>4, OneMoves DEF LoopTyped

\* TakeLead returns an error.
LEMMA NotElectedKeeps ==
    ASSUME LeadInv, NEW m \in Masters, NotElected(m)
    PROVE  LeadInv'
  <1> USE DEF LeadInv
  <1>1. LdLoop(m, "electing", "next") /\ UNCHANGED workers
    BY DEF NotElected
  <1>2. mainloop' \in [Masters -> LdPlaces] /\ mainloop[m] = "electing" /\ mainloop'[m] = "next" /\ \A n \in Masters \ {m} : mainloop'[n] = mainloop[n]
    BY <1>1, LoopGoes DEF LdPlaces
  <1>3. ElectionInv' /\ At("scheduler", m)' = "out" /\ \A q \in Paths, n \in Masters : q # "scheduler" \/ n # m => At(q, n)' = At(q, n)
    BY TakeLeadFailsKeeps DEF NotElected, Paths
  <1>4. LeadHeld(m)'
    BY <1>1, <1>2, <1>3 DEF LeadHeld, Paths
  <1>5. QED
    BY <1>1, <1>2, <1>3, <1>4, OneMoves DEF LoopTyped

\* The lead is taken.
LEMMA ElectedKeeps ==
    ASSUME LeadInv, NEW m \in Masters, Elected(m)
    PROVE  LeadInv'
  <1> USE DEF LeadInv
  <1>1. LdLoop(m, "electing", (IF stopCalled[m] THEN "releases" ELSE "locks")) /\ UNCHANGED workers
    BY DEF Elected
  <1>2. mainloop' \in [Masters -> LdPlaces] /\ mainloop[m] = "electing" /\ mainloop'[m] = (IF stopCalled[m] THEN "releases" ELSE "locks") /\ \A n \in Masters \ {m} : mainloop'[n] = mainloop[n]
    BY <1>1, LoopGoes DEF LdPlaces
  <1>3. ElectionInv' /\ At("scheduler", m)' = "holds" /\ \A q \in Paths, n \in Masters : q # "scheduler" \/ n # m => At(q, n)' = At(q, n)
    BY LookingKeeps DEF Elected, Paths
  <1>4. LeadHeld(m)'
    BY <1>1, <1>2, <1>3 DEF LeadHeld, Paths
  <1>5. QED
    BY <1>1, <1>2, <1>3, <1>4, OneMoves DEF LoopTyped

\* The loop waits for the lead.
LEMMA ElectsKeeps ==
    ASSUME LeadInv, NEW m \in Masters, Elects(m)
    PROVE  LeadInv'
  <1> USE DEF LeadInv
  <1>1. UNCHANGED <<mainloop, workers, ldLeft>> /\ mainloop[m] = "electing"
    BY DEF Elects
  <1>2. ElectionInv' /\ At("scheduler", m)' \in {"looks", "waits"} /\ \A q \in Paths, n \in Masters : q # "scheduler" \/ n # m => At(q, n)' = At(q, n)
    <2>1. Watches("scheduler", m) \/ LooksAgain("scheduler", m)
      BY DEF Elects
    <2>2. ~Wins("scheduler", m)
      <3>1. election["scheduler"][m].own \in Nat /\ LowestSeq("scheduler") \in Nat
        BY NumbersAreNatural DEF ElectionInv, Paths
      <3>2. QED
        BY <2>1, <3>1 DEF Wins, Watches, LooksAgain
    <2>3. QED
      BY <1>1, <2>1, <2>2, LookingKeeps DEF Paths
  <1>3. LeadHeld(m)'
    BY <1>1, <1>2 DEF LeadHeld, Paths
  <1>4. QED
    BY <1>1, <1>2, <1>3, OneMoves DEF LoopTyped

\* The last worker has ended before the lead is released.
LEMMA ReleasesKeeps ==
    ASSUME LeadInv, NEW m \in Masters, Releases(m)
    PROVE  LeadInv'
  <1> USE DEF LeadInv
  <1>1. LdLoop(m, mainloop[m], "next") /\ UNCHANGED workers /\ workers[m] = {}
    BY DEF Releases, LdLoop
  <1>2. mainloop' \in [Masters -> LdPlaces] /\ mainloop'[m] = "next" /\ \A n \in Masters \ {m} : mainloop'[n] = mainloop[n]
    BY <1>1, LoopGoes DEF LoopTyped, LdPlaces
  <1>3. ElectionInv' /\ At("scheduler", m)' = "out" /\ \A q \in Paths, n \in Masters : q # "scheduler" \/ n # m => At(q, n)' = At(q, n)
    BY ReleaseLeadKeeps DEF Releases, Paths
  <1>4. LeadHeld(m)'
    BY <1>1, <1>2, <1>3 DEF LeadHeld, Paths
  <1>5. QED
    BY <1>1, <1>2, <1>3, <1>4, OneMoves DEF LoopTyped

\* One worker of a master ends.
LEMMA WorkerGone ==
    ASSUME LoopTyped, NEW m \in Masters, NEW w \in LdWorkers, WorkerLeaves(m, w)
    PROVE  /\ w \in workers[m] /\ workers' \in [Masters -> SUBSET LdWorkers] /\ workers'[m] = workers[m] \ {w}
           /\ \A n \in Masters \ {m} : workers'[n] = workers[n]
  BY DEF LoopTyped, WorkerLeaves

\* A worker that is no server of the file system ends.
LEMMA WorkerKeeps ==
    ASSUME LeadInv, NEW m \in Masters, Worker(m)
    PROVE  LeadInv'
  <1> USE DEF LeadInv
  <1>1. PICK w \in {"sync", "pools"} : WorkerLeaves(m, w)
    BY DEF Worker
  <1>2. UNCHANGED electionVars /\ UNCHANGED mainloop
    BY DEF Worker
  <1>3. UNCHANGED ldLeft \/ \E x \in {"hiccups", "expirations", "resets", "ends", "stops"} : Spend(x)
    BY DEF Worker
  <1>4. ElectionInv' /\ \A q \in Paths, n \in Masters : At(q, n)' = At(q, n)
    BY <1>2, <1>3, ElectionStays
  <1>5. w \in workers[m] /\ workers' \in [Masters -> SUBSET LdWorkers] /\ workers'[m] = workers[m] \ {w} /\ \A n \in Masters \ {m} : workers'[n] = workers[n]
    BY <1>1, WorkerGone DEF LdWorkers
  <1>6. LeadHeld(m)'
    BY <1>2, <1>4, <1>5 DEF LeadHeld, Paths
  <1>7. QED
    BY <1>2, <1>4, <1>5, <1>6, OneMoves DEF LoopTyped

\* The server of the file system is in its election.
LEMMA ServerRunKeeps ==
    ASSUME LeadInv, NEW m \in Masters, ServerRun(m)
    PROVE  LeadInv'
  <1> USE DEF LeadInv
  <1>1. UNCHANGED <<mainloop, workers, ldLeft>> /\ "storage" \in workers[m]
    BY DEF ServerRun
  <1>2. ElectionInv' /\ \A q \in Paths, n \in Masters : q # "storage" \/ n # m => At(q, n)' = At(q, n)
    <2>1. ASSUME At("storage", m) = "out", Enroll("storage", m) PROVE ElectionInv' /\ \A q \in Paths, n \in Masters : q # "storage" \/ n # m => At(q, n)' = At(q, n)
      BY <1>1, <2>1, EnrollKeeps DEF Paths
    <2>2. ASSUME Watches("storage", m) \/ LooksAgain("storage", m) \/ Wins("storage", m) PROVE ElectionInv' /\ \A q \in Paths, n \in Masters : q # "storage" \/ n # m => At(q, n)' = At(q, n)
      BY <1>1, <2>2, LookingKeeps DEF Paths
    <2>3. QED
      BY <2>1, <2>2 DEF ServerRun
  <1>3. LeadHeld(m)'
    BY <1>1, <1>2 DEF LeadHeld, Paths
  <1>4. QED
    BY <1>1, <1>2, <1>3, OneMoves DEF LoopTyped

\* It ends without the lead.
LEMMA ServerRefusedKeeps ==
    ASSUME LeadInv, NEW m \in Masters, ServerRefused(m)
    PROVE  LeadInv'
  <1> USE DEF LeadInv
  <1>1. WorkerLeaves(m, "storage") /\ UNCHANGED mainloop
    BY DEF ServerRefused
  <1>2. "storage" \in workers[m] /\ workers' \in [Masters -> SUBSET LdWorkers] /\ workers'[m] = workers[m] \ {"storage"} /\ \A n \in Masters \ {m} : workers'[n] = workers[n]
    BY <1>1, WorkerGone DEF LdWorkers
  <1>3. ElectionInv' /\ At("storage", m)' = "out" /\ \A q \in Paths, n \in Masters : q # "storage" \/ n # m => At(q, n)' = At(q, n)
    BY TakeLeadFailsKeeps DEF ServerRefused, Paths
  <1>4. LeadHeld(m)'
    BY <1>1, <1>2, <1>3 DEF LeadHeld, Paths
  <1>5. QED
    BY <1>1, <1>2, <1>3, <1>4, OneMoves DEF LoopTyped

\* It gives its lead up.
LEMMA ServerEndsKeeps ==
    ASSUME LeadInv, NEW m \in Masters, ServerEnds(m)
    PROVE  LeadInv'
  <1> USE DEF LeadInv
  <1>1. WorkerLeaves(m, "storage") /\ UNCHANGED mainloop
    BY DEF ServerEnds
  <1>2. "storage" \in workers[m] /\ workers' \in [Masters -> SUBSET LdWorkers] /\ workers'[m] = workers[m] \ {"storage"} /\ \A n \in Masters \ {m} : workers'[n] = workers[n]
    BY <1>1, WorkerGone DEF LdWorkers
  <1>3. ElectionInv' /\ At("storage", m)' = "out" /\ \A q \in Paths, n \in Masters : q # "storage" \/ n # m => At(q, n)' = At(q, n)
    BY ReleaseLeadKeeps DEF ServerEnds, Paths
  <1>4. LeadHeld(m)'
    BY <1>1, <1>2, <1>3 DEF LeadHeld, Paths
  <1>5. QED
    BY <1>1, <1>2, <1>3, <1>4, OneMoves DEF LoopTyped

\* It ends with an error.
LEMMA StorageSyncFailedKeeps ==
    ASSUME LeadInv, NEW m \in Masters, StorageSyncFailed(m)
    PROVE  LeadInv'
  <1> USE DEF LeadInv
  <1>1. WorkerLeaves(m, "storage") /\ UNCHANGED mainloop
    BY DEF StorageSyncFailed
  <1>2. "storage" \in workers[m] /\ workers' \in [Masters -> SUBSET LdWorkers] /\ workers'[m] = workers[m] \ {"storage"} /\ \A n \in Masters \ {m} : workers'[n] = workers[n]
    BY <1>1, WorkerGone DEF LdWorkers
  <1>3. ElectionInv' /\ At("storage", m)' = "out" /\ \A q \in Paths, n \in Masters : q # "storage" \/ n # m => At(q, n)' = At(q, n)
    <2> USE DEF ElectionInv
    <2> DEFINE x == Node(election["storage"][m].own, m)
    <2>1. Becomes("storage", m, Out) /\ UNCHANGED nextSeq /\ Spend("ends")
      BY DEF StorageSyncFailed
    <2>2. candidates' = [candidates EXCEPT !["storage"] = @ \ {x}]
      BY DEF StorageSyncFailed
    <2> HIDE DEF x
    <2>3. LdLeftTyped' /\ ldLeft'.hiccups <= ldLeft.hiccups
      BY <2>1, SpendTyped
    <2>4. candidates' \in [Paths -> SUBSET [seq : Nat, of : Masters]] /\ (\A q \in Paths : candidates'[q] \subseteq candidates[q]) /\ x \notin candidates'["storage"]
      BY <2>2 DEF ElectionTyped, Paths
    <2>5. QED
      BY <2>1, <2>3, <2>4, LeavingKeeps DEF x, Paths
  <1>4. LeadHeld(m)'
    BY <1>1, <1>2, <1>3 DEF LeadHeld, Paths
  <1>5. QED
    BY <1>1, <1>2, <1>3, <1>4, OneMoves DEF LoopTyped

\* The nodes of a session go.
LEMMA ExpiresKeeps ==
    ASSUME LeadInv, NEW m \in Masters, Expires(m)
    PROVE  LeadInv'
  <1> USE DEF LeadInv
  <1> USE DEF ElectionInv
  <1>1. UNCHANGED <<nextSeq, election, mainloop, workers>> /\ candidates' = WithoutNodesOf(m)
    BY DEF Expires
  <1>2. LdLeftTyped' /\ ldLeft'.hiccups <= ldLeft.hiccups
    BY SpendTyped DEF Expires
  <1>3. candidates' \in [Paths -> SUBSET [seq : Nat, of : Masters]] /\ \A p \in Paths : candidates'[p] \subseteq candidates[p]
    BY <1>1, SessionGone
  <1>4. ElectionInv'
    BY <1>1, <1>2, <1>3, FewerNodes
  <1>5. \A n \in Masters, p \in Paths : At(p, n)' = At(p, n)
    BY <1>1 DEF At
  <1>6. LeadHeld(m)'
    BY <1>1, <1>5, OthersHeld
  <1>7. QED
    BY <1>1, <1>4, <1>5, <1>6, OneMoves DEF LoopTyped

\* Stop closes the channel of the scheduler.
LEMMA StopKeeps ==
    ASSUME LeadInv, NEW m \in Masters, Stop(m)
    PROVE  LeadInv'
  <1> USE DEF LeadInv
  <1>1. UNCHANGED electionVars /\ UNCHANGED <<mainloop, workers>> /\ Spend("stops")
    BY DEF Stop
  <1>2. ElectionInv' /\ \A q \in Paths, n \in Masters : At(q, n)' = At(q, n)
    BY <1>1, ElectionStays
  <1>3. LeadHeld(m)'
    BY <1>1, <1>2, OthersHeld
  <1>4. QED
    BY <1>1, <1>2, <1>3, OneMoves DEF LoopTyped

\* The process ends.
LEMMA ShutdownConnectionsKeeps ==
    ASSUME LeadInv, NEW m \in Masters, ShutdownConnections(m)
    PROVE  LeadInv'
  <1> USE DEF LeadInv
  <1> USE DEF ElectionInv
  <1>1. candidates' = WithoutNodesOf(m) /\ UNCHANGED <<nextSeq, ldLeft>>
    BY DEF ShutdownConnections
  <1>2. /\ candidates' \in [Paths -> SUBSET [seq : Nat, of : Masters]]
        /\ \A p \in Paths : candidates'[p] \subseteq candidates[p] /\ \A c \in candidates'[p] : c.of # m
    BY <1>1, SessionGone
  <1>3. Out \in ElectionStates /\ Out.at = "out" /\ Out.own = 0
    BY DEF Out, ElectionStates
  <1>4. /\ election' \in [Paths -> [Masters -> ElectionStates]]
        /\ \A p \in Paths : election'[p][m] = Out
        /\ \A p \in Paths : \A n \in Masters \ {m} : election'[p][n] = election[p][n]
    BY <1>3 DEF ShutdownConnections, ElectionTyped
  <1>5. /\ mainloop' \in [Masters -> LdPlaces] /\ workers' \in [Masters -> SUBSET LdWorkers] /\ mainloop'[m] = "gone" /\ workers'[m] = {}
        /\ \A n \in Masters \ {m} : mainloop'[n] = mainloop[n] /\ workers'[n] = workers[n]
    BY DEF ShutdownConnections, LoopTyped, LdPlaces
  <1>6. ElectionTyped' /\ LdLeftTyped' /\ NodesApart'
    BY <1>1, <1>2, <1>4 DEF ElectionTyped, NodesApart, LdLeftTyped
  <1>7. HoldersFirst'
    <2> SUFFICES ASSUME NEW q \in Paths, NEW n \in Masters
                 PROVE  /\ election'[q][n].own < nextSeq[q]
                        /\ election'[q][n].at = "holds" /\ Node(election'[q][n].own, n) \in candidates'[q]
                             => \A c \in candidates'[q] : election'[q][n].own <= c.seq
      BY <1>1 DEF HoldersFirst, Stands, At
    <2>1. CASE n = m
      <3>1. election[q][n].own \in Nat /\ nextSeq[q] \in Nat /\ election[q][n].own < nextSeq[q]
        BY DEF ElectionTyped, ElectionStates, HoldersFirst
      <3>2. QED
        BY <1>3, <1>4, <2>1, <3>1
    <2>2. CASE n # m
      BY <1>2, <1>4, <2>2 DEF HoldersFirst, Stands, At
    <2>3. QED
      BY <2>1, <2>2
  <1>8. NodesKnown'
    BY <1>1, <1>2, <1>4 DEF NodesKnown, At, ElectionTyped
  <1>9. LeadHeld(m)'
    BY <1>3, <1>4, <1>5 DEF LeadHeld, At, Paths
  <1>10. QED
    BY <1>4, <1>5, <1>6, <1>7, <1>8, <1>9, OneMoves DEF LoopTyped, At

-----------------------------------------------------------------------------
\* No master has been started.
LEMMA LeadInit ==
    ldInit => LeadInv
  <1> SUFFICES ASSUME ldInit PROVE LeadInv
    OBVIOUS
  <1>1. Out \in ElectionStates /\ Out.at = "out" /\ Out.own = 0
    BY DEF Out, ElectionStates
  <1>2. /\ candidates = [p \in Paths |-> {}] /\ nextSeq = [p \in Paths |-> 1] /\ election = [p \in Paths |-> [m \in Masters |-> Out]]
        /\ mainloop = [m \in Masters |-> "off"] /\ workers = [m \in Masters |-> {}]
        /\ ldLeft = [hiccups |-> MaxHiccups, expirations |-> MaxExpirations, resets |-> MaxResetFailures,
                     ends |-> MaxWorkerEnds, stops |-> MaxMasterStops]
    BY DEF ldInit
  <1>3. ElectionTyped /\ LoopTyped
    BY <1>1, <1>2 DEF ElectionTyped, LoopTyped, LdPlaces
  <1>4. LdLeftTyped
    BY <1>2, LeadershipAssumption DEF LdLeftTyped
  <1>5. NodesApart /\ HoldersFirst /\ NodesKnown
    BY <1>1, <1>2 DEF NodesApart, HoldersFirst, NodesKnown, Stands, At
  <1>6. \A m \in Masters : LeadHeld(m)
    BY <1>1, <1>2 DEF LeadHeld, At, Paths
  <1>7. QED
    BY <1>3, <1>4, <1>5, <1>6 DEF LeadInv, ElectionInv

\* Every step of a master, of its workers and of ZooKeeper.
LEMMA LeadStep ==
    LeadInv /\ [ldNext]_ldVars => LeadInv'
  <1> SUFFICES ASSUME LeadInv, [ldNext]_ldVars PROVE LeadInv'
    OBVIOUS
  <1>1. CASE ldNext
    <2>1. PICK m \in Masters :
            \/ Start(m) \/ EnterElection(m) \/ Elects(m) \/ NotElected(m) \/ Elected(m) \/ ResetLocks(m) \/ ResetLocksFails(m)
            \/ WorkEnds(m) \/ Releases(m) \/ GoesOn(m) \/ Worker(m) \/ ServerRun(m) \/ ServerRefused(m) \/ ServerEnds(m)
            \/ StorageSyncFailed(m) \/ Expires(m) \/ Stop(m) \/ ShutdownConnections(m)
      BY <1>1 DEF ldNext
    <2>2. CASE Start(m) \/ EnterElection(m) \/ Elects(m) \/ NotElected(m) \/ Elected(m)
      BY <2>2, StartKeeps, EnterElectionKeeps, ElectsKeeps, NotElectedKeeps, ElectedKeeps
    <2>3. CASE ResetLocks(m) \/ ResetLocksFails(m) \/ WorkEnds(m) \/ Releases(m) \/ GoesOn(m)
      BY <2>3, ResetLocksKeeps, ResetLocksFailsKeeps, WorkEndsKeeps, ReleasesKeeps, GoesOnKeeps
    <2>4. CASE Worker(m) \/ ServerRun(m) \/ ServerRefused(m) \/ ServerEnds(m) \/ StorageSyncFailed(m)
      BY <2>4, WorkerKeeps, ServerRunKeeps, ServerRefusedKeeps, ServerEndsKeeps, StorageSyncFailedKeeps
    <2>5. CASE Expires(m) \/ Stop(m) \/ ShutdownConnections(m)
      BY <2>5, ExpiresKeeps, StopKeeps, ShutdownConnectionsKeeps
    <2>6. QED
      BY <2>1, <2>2, <2>3, <2>4, <2>5
  <1>2. CASE UNCHANGED ldVars
    BY <1>2 DEF LeadInv, ElectionInv, ElectionTyped, LdLeftTyped, LoopTyped, NodesApart, HoldersFirst, NodesKnown, LeadHeld, Stands, At, ldVars
  <1>3. QED
    BY <1>1, <1>2

\* Two holders of the lead with a node would each have the lower one.
LEMMA LeadSound ==
    LeadInv => LeadershipSound
  <1> SUFFICES ASSUME LeadInv PROVE LeadershipSound
    OBVIOUS
  <1> USE DEF LeadInv, ElectionInv
  <1>1. OneMasterWorks
    <2> SUFFICES ASSUME NEW m \in Masters, NEW n \in Masters, m # n, Works(m), Works(n), Stands("scheduler", m), Stands("scheduler", n)
                 PROVE  FALSE
      BY DEF OneMasterWorks
    <2> DEFINE c == Node(election["scheduler"][m].own, m)
               d == Node(election["scheduler"][n].own, n)
    <2>1. At("scheduler", m) = "holds" /\ At("scheduler", n) = "holds"
      BY DEF LeadHeld, Works
    <2>2. c \in candidates["scheduler"] /\ d \in candidates["scheduler"] /\ "scheduler" \in Paths
      BY DEF Stands, Paths
    <2>3. c.seq = election["scheduler"][m].own /\ d.seq = election["scheduler"][n].own /\ c.of = m /\ d.of = n
      BY DEF Node
    <2>4. c.seq \in Nat /\ d.seq \in Nat
      BY <2>2, <2>3, NumbersAreNatural
    <2> HIDE DEF c, d
    <2>5. c.seq <= d.seq /\ d.seq <= c.seq
      BY <2>1, <2>2, <2>3 DEF HoldersFirst
    <2>6. c.seq = d.seq
      BY <2>4, <2>5
    <2>7. c = d
      BY <2>2, <2>6 DEF NodesApart
    <2>8. QED
      BY <2>3, <2>7
  <1>2. NothingForgotten
    <2> SUFFICES ASSUME NEW p \in Paths, NEW c \in candidates[p], ~(ldLeft.hiccups < MaxHiccups)
                 PROVE  LeadTaken(p, c.of)
      BY DEF NothingForgotten
    <2>1. ldLeft.hiccups = MaxHiccups
      BY LeadershipAssumption DEF LdLeftTyped
    <2>2. c.of \in Masters /\ At(p, c.of) # "out"
      BY <2>1 DEF NodesKnown, ElectionTyped
    <2>3. CASE p = "scheduler"
      BY <2>2, <2>3 DEF LeadHeld, LeadTaken
    <2>4. CASE p = "storage"
      BY <2>2, <2>4 DEF LeadHeld, LeadTaken
    <2>5. QED
      BY <2>3, <2>4 DEF Paths
  <1>3. QED
    BY <1>1, <1>2 DEF LeadershipSound

-----------------------------------------------------------------------------
(* The queue loops of a tenant                                              *)

\* Where a process may be.
LockPlaces == {"off", "lock", "in", "send2", "send1", "delete", "unlock", "locked", "found", "top", "next", "resync", "work", "rest", "gone"}

\* What is kept of the types.
LockTyped == lockPc \in [Processes -> LockPlaces] /\ tenant \in BOOLEAN /\ writing \in BOOLEAN

\* Who is past its announcement is the writer, and who acts on the tenants holds the lock.
WriterHolds ==
    \A p \in {"remover", "scheduler"} :
        /\ lockPc[p] = "lock" => writer = p
        /\ lockPc[p] \in {"in", "send2", "send1", "delete", "unlock"} => writer = p /\ writing
        /\ lockPc[p] = "in" => p = "scheduler"
        /\ lockPc[p] \in {"send2", "send1", "delete", "unlock"} => p = "remover"

\* How many loops a removal has ended yet.
LoopsCancelled ==
    /\ lockPc["remover"] = "send2" => tenant /\ \A q \in Loops : lockPc[q] # "gone"
    /\ lockPc["remover"] = "send1" => \E q \in Loops : lockPc[q] = "gone" /\ \A r \in Loops \ {q} : lockPc[r] # "gone"
    /\ lockPc["remover"] = "delete" => \A q \in Loops : lockPc[q] = "gone"

LoopsInv == LockTyped /\ WriterHolds /\ LoopsCancelled /\ LoopsWithTenant

\* Every step of a loop, of the scheduler, of a removal and of who waits.
LEMMA LoopsStep ==
    LoopsInv /\ [lockNext]_lockVars => LoopsInv'
  <1> SUFFICES ASSUME LoopsInv, [lockNext]_lockVars PROVE LoopsInv'
    OBVIOUS
  <1> USE DEF LoopsInv, LockTyped, WriterHolds, LoopsCancelled, LoopsWithTenant, LockPlaces, Processes,
              Loops, Others, LockGoes, NoLock, Announce, Acquire, ReleaseRead
  <1>1. ASSUME NEW q \in Loops, CheckCancel(q) PROVE LoopsInv'
    BY <1>1 DEF CheckCancel
  <1>2. ASSUME NEW q \in Loops, NextBatch(q) PROVE LoopsInv'
    BY <1>2 DEF NextBatch
  <1>3. ASSUME NEW q \in Loops, SyncFailed(q) PROVE LoopsInv'
    BY <1>3 DEF SyncFailed
  <1>4. ASSUME NEW q \in Loops, ProcessBatch(q) PROVE LoopsInv'
    BY <1>4 DEF ProcessBatch
  <1>5. ASSUME ScheduleBegin PROVE LoopsInv'
    BY <1>5 DEF ScheduleBegin
  <1>6. ASSUME ScheduleLocked PROVE LoopsInv'
    BY <1>6 DEF ScheduleLocked
  <1>7. ASSUME NEW q \in Loops, ScheduleBatch(q) PROVE LoopsInv'
    BY <1>7 DEF ScheduleBatch
  <1>8. ASSUME AddTenant PROVE LoopsInv'
    <2>1. lockPc["scheduler"] = "in" /\ writer = "scheduler" /\ writer' = "none" /\ writing' = FALSE /\ ~tenant
      BY <1>8 DEF AddTenant, ReleaseRead
    <2>2. lockPc["remover"] \notin {"lock", "send2", "send1", "delete", "unlock"}
      BY <2>1
    <2>3. CASE manager = "running"
      <3>1. tenant' = TRUE /\ lockPc' = [p \in Processes |-> IF p \in Loops THEN "top" ELSE IF p = "scheduler" THEN "off" ELSE lockPc[p]]
        BY <1>8, <2>3 DEF AddTenant
      <3>2. QED
        BY <2>1, <2>2, <3>1
    <2>4. CASE manager # "running"
      <3>1. tenant' = tenant /\ lockPc' = [lockPc EXCEPT !["scheduler"] = "off"]
        BY <1>8, <2>4 DEF AddTenant
      <3>2. QED
        BY <2>1, <2>2, <3>1
    <2>5. QED
      BY <2>3, <2>4
  <1>9. ASSUME RemoveBegin PROVE LoopsInv'
    BY <1>9 DEF RemoveBegin
  <1>10. ASSUME NEW shut \in BOOLEAN, RemoveLocked(shut) PROVE LoopsInv'
    BY <1>10 DEF RemoveLocked
  <1>11. ASSUME NEW q \in Loops, HandCancel(q) PROVE LoopsInv'
    BY <1>11 DEF HandCancel
  <1>12. ASSUME RemoveEnd PROVE LoopsInv'
    BY <1>12 DEF RemoveEnd
  <1>13. ASSUME StartManager PROVE LoopsInv'
    BY <1>13 DEF StartManager
  <1>14. ASSUME WaitLock PROVE LoopsInv'
    BY <1>14 DEF WaitLock
  <1>15. ASSUME FindService PROVE LoopsInv'
    BY <1>15 DEF FindService
  <1>16. ASSUME WaitUnlock PROVE LoopsInv'
    BY <1>16 DEF WaitUnlock
  <1>17. CASE UNCHANGED lockVars
    BY <1>17 DEF lockVars
  <1>18. QED
    BY <1>1, <1>2, <1>3, <1>4, <1>5, <1>6, <1>7, <1>8, <1>9, <1>10, <1>11, <1>12, <1>13, <1>14, <1>15, <1>16, <1>17 DEF lockNext, lockLoop, lockScheduler, lockRemover

\* The loops of the first tenant.
LEMMA LoopsInit ==
    lockInit => LoopsInv
  BY DEF lockInit, LoopsInv, LockTyped, WriterHolds, LoopsCancelled, LoopsWithTenant, LockPlaces, Processes, Loops, Others

-----------------------------------------------------------------------------
(* The start of a master                                                    *)

\* Where the internal services have been started.
DmnBegun == {"isvcs", "version", "grant", "images", "volumes", "pool", "registry", "serves", "signal", "waits", "closes"}

\* What may still happen, and how many starts have failed.
DmnLeftTyped == dmnLeft \in [{"fatals", "images", "signals", "ops"} -> Nat] /\ dmnLeft.fatals <= MaxFatals

\* What is done of an upgrade at each place of a start, and what was left to be done.
StartInv ==
    /\ DmnLeftTyped /\ dmnAt \in {"off", "rpc", "ended"} \cup DmnBegun
    /\ dmnAt \in DmnBegun => isvcsUp
    /\ dmnAt = "ended" => ~isvcsUp
    /\ dmnAt = "off" /\ dmnSignal = "hup" /\ dmnLeft.fatals = MaxFatals => isvcsUp
    /\ dmnAt = "grant" => storedVersion = "none"
    /\ dmnAt \in {"volumes", "pool", "registry", "serves", "signal", "waits", "closes"} => storedVersion = "new"
    /\ storedVersion = "new" => images = {} \/ skipped
    /\ storedVersion # "new" => revoked = {}
    /\ revoked \subseteq DOMAIN permissions
    /\ RevokedStays
    /\ dmnAt \in {"registry", "serves", "signal"} => FirstPoolId \in DOMAIN permissions
    /\ dmnAt = "volumes" => tenantDocs \subseteq tenantVols \cup todo
    /\ dmnAt \in {"pool", "registry", "serves", "signal"} => tenantDocs \subseteq tenantVols \cap nfsExports
\* Every step of the daemon, of a user, or of what kills the daemon.
LEMMA StartStep ==
    StartInv /\ [dmnNext]_dmnVars => StartInv'
  <1> SUFFICES ASSUME StartInv, [dmnNext]_dmnVars PROVE StartInv'
    OBVIOUS
  <1> USE DEF StartInv, DmnLeftTyped, DmnBegun, RevokedStays, DmnSpend, DmnStep, With, storeVars, diskVars, DmnServes
  <1>1. ASSUME startRPC PROVE StartInv'
    BY <1>1 DEF startRPC
  <1>2. ASSUME startISVCS PROVE StartInv'
    BY <1>2 DEF startISVCS
  <1>3. ASSUME Fatal PROVE StartInv'
    <2>1. DmnLeftTyped' /\ dmnLeft'.fatals < MaxFatals
      <3>1. dmnLeft \in [{"fatals", "images", "signals", "ops"} -> Nat] /\ dmnLeft.fatals <= MaxFatals /\ dmnLeft.fatals > 0
        BY <1>3 DEF Fatal
      <3>2. dmnLeft' = [dmnLeft EXCEPT !["fatals"] = @ - 1]
        BY <1>3 DEF Fatal
      <3>3. dmnLeft' \in [{"fatals", "images", "signals", "ops"} -> Nat] /\ dmnLeft'.fatals = dmnLeft.fatals - 1
        BY <3>1, <3>2
      <3>4. QED
        BY <3>1, <3>3, DaemonStartAssumption
    <2>2. dmnAt' = "off" /\ UNCHANGED <<tenantVols, isvcsUp, dmnSignal>> /\ UNCHANGED storeVars
      BY <1>3 DEF Fatal
    <2>3. dmnLeft'.fatals # MaxFatals
      BY <2>1, DaemonStartAssumption
    <2>4. QED
      BY <2>1, <2>2, <2>3
  <1>4. ASSUME initFacade PROVE StartInv'
    BY <1>4 DEF initFacade
  <1>5. ASSUME checkVersion PROVE StartInv'
    BY <1>5 DEF checkVersion
  <1>6. ASSUME UpdatePermission PROVE StartInv'
    BY <1>6 DEF UpdatePermission
  <1>7. ASSUME removeOrphanRegistryImages PROVE StartInv'
    BY <1>7 DEF removeOrphanRegistryImages
  <1>8. ASSUME PutVersion PROVE StartInv'
    BY <1>8 DEF PutVersion
  <1>9. ASSUME TenantVolume PROVE StartInv'
    BY <1>9 DEF TenantVolume
  <1>10. ASSUME AddVolumes PROVE StartInv'
    BY <1>10 DEF AddVolumes
  <1>11. ASSUME CreateDefaultPool PROVE StartInv'
    BY <1>11 DEF CreateDefaultPool
  <1>12. ASSUME registerMasterRPC PROVE StartInv'
    BY <1>12 DEF registerMasterRPC
  <1>13. ASSUME SignalNotify PROVE StartInv'
    BY <1>13 DEF SignalNotify
  <1>14. ASSUME Interrupt PROVE StartInv'
    BY <1>14 DEF Interrupt
  <1>15. ASSUME ShutdownAll PROVE StartInv'
    BY <1>15 DEF ShutdownAll
  <1>16. ASSUME ExecOrStop PROVE StartInv'
    BY <1>16 DEF ExecOrStop
  <1>17. ASSUME UserChanges PROVE StartInv'
    <2>1. DmnLeftTyped'
      BY <1>17 DEF UserChanges
    <2>2. dmnAt \in {"serves", "signal"} /\ UNCHANGED <<dmnAt, isvcsUp, todo, dmnSignal, storedVersion, images, skipped>>
      BY <1>17 DEF UserChanges
    <2>3. ASSUME NEW p, permissions' = With(permissions, {p}, "none"), revoked' = revoked \cup {p}, UNCHANGED <<tenantDocs, tenantVols, nfsExports>>
          PROVE  StartInv'
      <3>1. DOMAIN permissions' = DOMAIN permissions \cup {p} /\ permissions'[p] = "none" /\ \A q \in DOMAIN permissions \ {p} : permissions'[q] = permissions[q]
        BY <2>3
      <3>2. RevokedStays' /\ revoked' \subseteq DOMAIN permissions'
        BY <2>3, <3>1
      <3>3. QED
        BY <2>1, <2>2, <2>3, <3>1, <3>2
    <2>4. ASSUME NEW t, UNCHANGED <<permissions, revoked>>,
                 tenantDocs' = tenantDocs \cup {t}, tenantVols' = tenantVols \cup {t}, nfsExports' = nfsExports \cup {t}
          PROVE  StartInv'
      BY <2>1, <2>2, <2>4
    <2>5. QED
      BY <1>17, <2>3, <2>4 DEF UserChanges
  <1>18. ASSUME VolumeLost PROVE StartInv'
    BY <1>18 DEF VolumeLost
  <1>19. CASE UNCHANGED dmnVars
    BY <1>19 DEF dmnVars
  <1>20. QED
    BY <1>1, <1>2, <1>3, <1>4, <1>5, <1>6, <1>7, <1>8, <1>9, <1>10, <1>11, <1>12, <1>13, <1>14, <1>15, <1>16, <1>17, <1>18, <1>19 DEF dmnNext, dmnRuns

\* A master that has not been started, new or of an older version.
LEMMA StartInit ==
    dmnInit => StartInv
  BY DaemonStartAssumption DEF dmnInit, StartInv, DmnLeftTyped, DmnBegun, RevokedStays

\* What StartInv says of the ends of a start.
LEMMA StartIsSound ==
    StartInv => StartSound
  BY DEF StartInv, StartSound, ServedComplete, RevokedStays, ServicesFollowSignal, DmnServes, DmnBegun

-----------------------------------------------------------------------------
\* One master works: the loops that schedule a tenant run exactly while it is known
\* (ServiceStateManager.AddTenant and RemoveTenant), no two masters lead at the same time unless
\* one has lost its session and has not noticed (scheduler.mainloop, Leader.TakeLead), and
\* nobody is served before the upgrade is complete, however often a start was broken off
\* (daemon.startMaster).
THEOREM MastersAreAlone ==
    lockSpec /\ ldSpec /\ dmnSpec => []LeadersAlone
  <1>1. lockSpec => []LoopsWithTenant
    <2>1. LoopsInv => LoopsWithTenant
      BY DEF LoopsInv
    <2>2. QED
      BY <2>1, LoopsInit, LoopsStep, PTL DEF lockSpec
  <1>2. ldSpec => []LeadershipSound
    BY LeadInit, LeadStep, LeadSound, PTL DEF ldSpec
  <1>3. dmnSpec => []StartSound
    BY StartInit, StartStep, StartIsSound, PTL DEF dmnSpec
  <1>4. LoopsWithTenant /\ LeadershipSound /\ StartSound => LeadersAlone
    BY DEF LeadersAlone
  <1>5. QED
    BY <1>1, <1>2, <1>3, <1>4, PTL

-----------------------------------------------------------------------------
(* The mounts of a delegate                                                 *)

\* Where the goroutine of the storage client may be.
ClientPlaces == {"none", "enters", "reads", "tells", "told", "rests", "closed"}

\* Nobody has the client before the connection is made; a client that rests has kept its path,
\* and the one who waits for it goes on only behind the path or a shutdown.
MountInv ==
    /\ nfsClient = [at |-> nfsClient.at, path |-> nfsClient.path] /\ nfsClient.at \in ClientPlaces
    /\ dgStart = [at |-> dgStart.at, read |-> dgStart.read] /\ dgShutdown \in BOOLEAN
    /\ nfsClient.at \in {"tells", "told"} => nfsClient.path # 0
    /\ nfsClient.at = "rests" => exportedPath # 0
    /\ dgStart.at \in {"asks", "updates", "connects"} => nfsClient.at = "none"
    /\ dgStart.at \in {"begins", "runs"} /\ nfsClient.at # "none" /\ ~dgShutdown => exportedPath # 0 \/ nfsClient.at = "told"

\* Every step of the delegate, of its client and of who moves the host.
LEMMA MountStep ==
    MountInv /\ [dgNext]_dgVars => MountInv'
  <1> SUFFICES ASSUME MountInv, [dgNext]_dgVars PROVE MountInv'
    OBVIOUS
  <1> USE DEF MountInv, ClientPlaces, StartGoes, ClientGoes, masterSide, mountSide
  <1>1. ASSUME NEW p \in DgPools, AdminAdds(p) PROVE MountInv'
    BY <1>1 DEF AdminAdds
  <1>2. ASSUME NEW p \in DgPools, AdminMoves(p) PROVE MountInv'
    BY <1>2 DEF AdminMoves
  <1>3. ASSUME AdminReads PROVE MountInv'
    BY <1>3 DEF AdminReads
  <1>4. ASSUME GetsToken PROVE MountInv'
    BY <1>4 DEF GetsToken
  <1>5. ASSUME StorageLeads PROVE MountInv'
    BY <1>5 DEF StorageLeads
  <1>6. ASSUME GetHost PROVE MountInv'
    BY <1>6 DEF GetHost
  <1>7. ASSUME AsksInVain PROVE MountInv'
    BY <1>7 DEF AsksInVain
  <1>8. ASSUME TellsMaster PROVE MountInv'
    BY <1>8 DEF TellsMaster
  <1>9. ASSUME AsksAgain PROVE MountInv'
    BY <1>9 DEF AsksAgain
  <1>10. ASSUME TellsAgain PROVE MountInv'
    BY <1>10 DEF TellsAgain
  <1>11. ASSUME Connects PROVE MountInv'
    BY <1>11 DEF Connects
  <1>12. ASSUME Waited PROVE MountInv'
    BY <1>12 DEF Waited
  <1>13. ASSUME AgentStarts PROVE MountInv'
    BY <1>13 DEF AgentStarts
  <1>14. ASSUME AgentReturns PROVE MountInv'
    BY <1>14 DEF AgentReturns
  <1>15. ASSUME ClientEnters PROVE MountInv'
    BY <1>15 DEF ClientEnters
  <1>16. ASSUME ReadsLeader PROVE MountInv'
    BY <1>16 DEF ReadsLeader
  <1>17. ASSUME EntersAgain PROVE MountInv'
    BY <1>17 DEF EntersAgain
  <1>18. ASSUME TellsPath PROVE MountInv'
    BY <1>18 DEF TellsPath
  <1>19. ASSUME KeepsPath PROVE MountInv'
    BY <1>19 DEF KeepsPath
  <1>20. ASSUME ClientCloses PROVE MountInv'
    BY <1>20 DEF ClientCloses
  <1>21. ASSUME ToldToEnd PROVE MountInv'
    BY <1>21 DEF ToldToEnd
  <1>22. CASE UNCHANGED dgVars
    BY <1>22 DEF dgVars
  <1>23. QED
    BY <1>1, <1>2, <1>3, <1>4, <1>5, <1>6, <1>7, <1>8, <1>9, <1>10, <1>11, <1>12, <1>13, <1>14, <1>15, <1>16, <1>17, <1>18, <1>19, <1>20, <1>21, <1>22 DEF dgNext

\* The initial states.
LEMMA MountInit ==
    dgInit => MountInv
  <1>1. dgInit => /\ nfsClient = [at |-> "none", path |-> 0] /\ dgShutdown = FALSE /\ exportedPath = 0
                  /\ dgStart = [at |-> "asks", read |-> NotRead]
    BY DEF dgInit
  <1>2. ASSUME nfsClient = [at |-> "none", path |-> 0], dgShutdown = FALSE, dgStart = [at |-> "asks", read |-> NotRead]
        PROVE  MountInv
    <2>1. nfsClient.at = "none" /\ nfsClient.path = 0 /\ dgStart.at = "asks" /\ dgStart.read = NotRead
      BY <1>2
    <2>2. QED
      BY <1>2, <2>1 DEF MountInv, ClientPlaces
  <1>3. QED
    BY <1>1, <1>2

-----------------------------------------------------------------------------
(* The internal services                                                    *)

\* Where the goroutine of a service may be, and what is kept of each service.
IsvcPlaces == {"idle", "attach", "begin", "checking", "failed", "stopping"}
IsvcStates == [pc : IsvcPlaces, for : {"none", "request", "exit"}, again : BOOLEAN, new : Nat, exited : Nat, collecting : BOOLEAN, flaps : Nat]
CtrStates == [id : Nat, up : BOOLEAN]
DieStates == [registered : SUBSET Nat, fired : SUBSET Nat]

\* The containers that were made for a service.
MadeIds(s) == 1 .. made[s]

\* What is kept of the types.
IsvcTyped ==
    /\ svc \in [IServices -> IsvcStates] /\ ctr \in [IServices -> CtrStates] /\ die \in [IServices -> DieStates]
    /\ notified \in [IServices -> SUBSET Nat] /\ made \in [IServices -> Nat]

\* Docker gives numbers that are new; what has exited has not the name any more, and a container
\* that is checked has the name as long as it is there.
ContainersKnown(s) ==
    /\ ctr[s].id <= made[s] /\ (ctr[s].id = 0 => ~ctr[s].up)
    /\ die[s].registered \subseteq MadeIds(s) /\ die[s].fired \subseteq MadeIds(s) /\ notified[s] \subseteq MadeIds(s)
    /\ ctr[s].id \notin notified[s]
    /\ svc[s].pc = "checking" => svc[s].new # 0 /\ ctr[s].id \in {0, svc[s].new}

\* In which places of the loop none of its containers may be up: not while one is checked, and
\* not while one is started anew after an exit.
HeldForDown(s) ==
    \/ svc[s].pc = "stopping" \/ (svc[s].pc = "idle" /\ ~IsRunning(s))
    \/ svc[s].pc \in {"attach", "begin", "failed"} /\ svc[s].for = "request"

\* No container with a handler runs.
Down(s) == ctr[s].up => ctr[s].id \notin die[s].registered

IsvcInv == IsvcTyped /\ \A s \in IServices : ContainersKnown(s) /\ (HeldForDown(s) => Down(s))

\* What one service does leaves the others alone.
LEMMA OneServiceMoves ==
    ASSUME IsvcInv, NEW s \in IServices, IsvcTyped', ContainersKnown(s)', (HeldForDown(s) => Down(s))',
           \A t \in IServices \ {s} : svc'[t] = svc[t] /\ ctr'[t] = ctr[t] /\ die'[t] = die[t] /\ notified'[t] = notified[t] /\ made'[t] = made[t]
    PROVE  IsvcInv'
  BY DEF IsvcInv, ContainersKnown, HeldForDown, Down, MadeIds, IsRunning

\* A new state of the goroutine of a service.
LEMMA SvcMoves ==
    ASSUME IsvcInv, NEW s \in IServices, NEW v \in IsvcStates, svc' = [svc EXCEPT ![s] = v]
    PROVE  svc' \in [IServices -> IsvcStates] /\ svc'[s] = v /\ \A t \in IServices \ {s} : svc'[t] = svc[t]
  BY DEF IsvcInv, IsvcTyped

\* A new place of it.
LEMMA SvcGoes ==
    ASSUME IsvcInv, NEW s \in IServices, NEW pc \in IsvcPlaces, SvcAt(s, pc)
    PROVE  /\ svc' \in [IServices -> IsvcStates] /\ \A t \in IServices \ {s} : svc'[t] = svc[t]
           /\ svc'[s].pc = pc /\ svc'[s].for = svc[s].for /\ svc'[s].new = svc[s].new /\ svc'[s].exited = svc[s].exited
  BY DEF SvcAt, IsvcInv, IsvcTyped, IsvcStates

\* A container that is down has kept its number and its handlers.
LEMMA CtrIsDown ==
    ASSUME IsvcInv, NEW s \in IServices, CtrStops(s)
    PROVE  /\ ctr' \in [IServices -> CtrStates] /\ die' \in [IServices -> DieStates]
           /\ ctr'[s].id = ctr[s].id /\ ~ctr'[s].up /\ die'[s].registered = die[s].registered /\ die'[s].fired \subseteq MadeIds(s)
           /\ \A t \in IServices \ {s} : ctr'[t] = ctr[t] /\ die'[t] = die[t]
  <1>1. ctr[s] \in CtrStates /\ die[s] \in DieStates /\ die[s].registered \subseteq MadeIds(s) /\ die[s].fired \subseteq MadeIds(s)
    BY DEF IsvcInv, IsvcTyped, ContainersKnown
  <1> DEFINE c == [ctr[s] EXCEPT !.up = FALSE]
             d == [die[s] EXCEPT !.fired = @ \cup (die[s].registered \cap {ctr[s].id})]
  <1>2. c \in CtrStates /\ c.id = ctr[s].id /\ ~c.up
    BY <1>1 DEF CtrStates
  <1>3. d \in DieStates /\ d.registered = die[s].registered /\ d.fired \subseteq MadeIds(s)
    BY <1>1 DEF DieStates, MadeIds
  <1>4. ctr' = [ctr EXCEPT ![s] = c] /\ die' = [die EXCEPT ![s] = d]
    BY DEF CtrStops
  <1> HIDE DEF c, d
  <1>5. QED
    BY <1>2, <1>3, <1>4 DEF IsvcInv, IsvcTyped

\* What is known of one service.
LEMMA OneService ==
    ASSUME IsvcInv, NEW s \in IServices
    PROVE  /\ svc[s] \in IsvcStates /\ ctr[s] \in CtrStates /\ die[s] \in DieStates /\ notified[s] \in SUBSET Nat /\ made[s] \in Nat
           /\ ContainersKnown(s) /\ (HeldForDown(s) => Down(s))
  BY DEF IsvcInv, IsvcTyped

\* The stop of a service has seen the exit of its container, which stays down.
LEMMA StopEndsKeeps ==
    ASSUME IsvcInv, NEW s \in IServices, StopEnds(s)
    PROVE  IsvcInv'
  <1>1. /\ svc[s] \in IsvcStates /\ ctr[s] \in CtrStates /\ die[s] \in DieStates /\ notified[s] \in SUBSET Nat /\ made[s] \in Nat
        /\ ContainersKnown(s) /\ (HeldForDown(s) => Down(s))
    BY OneService
  <1> DEFINE v == [svc[s] EXCEPT !.pc = "idle", !.exited = 0]
  <1>2. v \in IsvcStates /\ v.pc = "idle" /\ v.exited = 0
    BY <1>1 DEF IsvcStates, IsvcPlaces
  <1>3. svc' = [svc EXCEPT ![s] = v] /\ UNCHANGED <<ctr, die, notified, made>> /\ svc[s].pc = "stopping"
    BY DEF StopEnds
  <1> HIDE DEF v
  <1>4. svc' \in [IServices -> IsvcStates] /\ svc'[s] = v /\ \A t \in IServices \ {s} : svc'[t] = svc[t]
    BY <1>2, <1>3, SvcMoves
  <1>5. ContainersKnown(s)' /\ (HeldForDown(s) => Down(s))'
    BY <1>1, <1>2, <1>3, <1>4 DEF ContainersKnown, HeldForDown, Down, MadeIds, IsRunning
  <1>6. QED
    BY <1>3, <1>4, <1>5, OneServiceMoves DEF IsvcInv, IsvcTyped

\* The service runs: it waits for the exit of the container that was checked.
LEMMA StartupPassesKeeps ==
    ASSUME IsvcInv, NEW s \in IServices, StartupPasses(s)
    PROVE  IsvcInv'
  <1>1. /\ svc[s] \in IsvcStates /\ ctr[s] \in CtrStates /\ die[s] \in DieStates /\ notified[s] \in SUBSET Nat /\ made[s] \in Nat
        /\ ContainersKnown(s) /\ (HeldForDown(s) => Down(s))
    BY OneService
  <1> DEFINE v == [svc[s] EXCEPT !.pc = "idle", !.exited = svc[s].new, !.collecting = TRUE]
  <1>2. v \in IsvcStates /\ v.pc = "idle" /\ v.exited = svc[s].new
    BY <1>1 DEF IsvcStates, IsvcPlaces
  <1>3. svc' = [svc EXCEPT ![s] = v] /\ UNCHANGED <<ctr, die, notified, made>> /\ svc[s].pc = "checking"
    BY DEF StartupPasses
  <1> HIDE DEF v
  <1>4. svc' \in [IServices -> IsvcStates] /\ svc'[s] = v /\ \A t \in IServices \ {s} : svc'[t] = svc[t]
    BY <1>2, <1>3, SvcMoves
  <1>5. ContainersKnown(s)' /\ (HeldForDown(s) => Down(s))'
    BY <1>1, <1>2, <1>3, <1>4 DEF ContainersKnown, HeldForDown, Down, MadeIds, IsRunning
  <1>6. QED
    BY <1>3, <1>4, <1>5, OneServiceMoves DEF IsvcInv, IsvcTyped

\* Docker makes no container.
LEMMA AttachFailsKeeps ==
    ASSUME IsvcInv, NEW s \in IServices, AttachFails(s)
    PROVE  IsvcInv'
  <1>1. /\ svc[s] \in IsvcStates /\ ctr[s] \in CtrStates /\ die[s] \in DieStates /\ notified[s] \in SUBSET Nat /\ made[s] \in Nat
        /\ ContainersKnown(s) /\ (HeldForDown(s) => Down(s))
    BY OneService
  <1>2. SvcAt(s, "failed") /\ UNCHANGED <<ctr, die, notified, made>> /\ svc[s].pc = "attach"
    BY DEF AttachFails
  <1>3. /\ svc' \in [IServices -> IsvcStates] /\ \A t \in IServices \ {s} : svc'[t] = svc[t]
        /\ svc'[s].pc = "failed" /\ svc'[s].for = svc[s].for /\ svc'[s].new = svc[s].new /\ svc'[s].exited = svc[s].exited
    BY <1>2, SvcGoes DEF IsvcPlaces
  <1>4. ContainersKnown(s)' /\ (HeldForDown(s) => Down(s))'
    BY <1>1, <1>2, <1>3 DEF ContainersKnown, HeldForDown, Down, MadeIds, IsRunning
  <1>5. QED
    BY <1>2, <1>3, <1>4, OneServiceMoves DEF IsvcInv, IsvcTyped

\* The container exits while it is checked: the handler has removed it.
LEMMA StartupExitsKeeps ==
    ASSUME IsvcInv, NEW s \in IServices, StartupExits(s)
    PROVE  IsvcInv'
  <1>1. /\ svc[s] \in IsvcStates /\ ctr[s] \in CtrStates /\ die[s] \in DieStates /\ notified[s] \in SUBSET Nat /\ made[s] \in Nat
        /\ ContainersKnown(s) /\ (HeldForDown(s) => Down(s))
    BY OneService
  <1>2. SvcAt(s, "failed") /\ UNCHANGED <<ctr, die, notified, made>> /\ svc[s].pc = "checking" /\ svc[s].new \in notified[s]
    BY DEF StartupExits
  <1>3. /\ svc' \in [IServices -> IsvcStates] /\ \A t \in IServices \ {s} : svc'[t] = svc[t]
        /\ svc'[s].pc = "failed" /\ svc'[s].for = svc[s].for /\ svc'[s].new = svc[s].new /\ svc'[s].exited = svc[s].exited
    BY <1>2, SvcGoes DEF IsvcPlaces
  <1>4. ContainersKnown(s)' /\ (HeldForDown(s) => Down(s))'
    BY <1>1, <1>2, <1>3 DEF ContainersKnown, HeldForDown, Down, MadeIds, IsRunning
  <1>5. QED
    BY <1>2, <1>3, <1>4, OneServiceMoves DEF IsvcInv, IsvcTyped

\* The startup check does not pass: the container is stopped.
LEMMA StartupFailsKeeps ==
    ASSUME IsvcInv, NEW s \in IServices, StartupFails(s)
    PROVE  IsvcInv'
  <1>1. /\ svc[s] \in IsvcStates /\ ctr[s] \in CtrStates /\ die[s] \in DieStates /\ notified[s] \in SUBSET Nat /\ made[s] \in Nat
        /\ ContainersKnown(s) /\ (HeldForDown(s) => Down(s))
    BY OneService
  <1>2. SvcAt(s, "failed") /\ UNCHANGED <<notified, made>> /\ CtrStops(s)
    BY DEF StartupFails
  <1>3. /\ svc' \in [IServices -> IsvcStates] /\ \A t \in IServices \ {s} : svc'[t] = svc[t]
        /\ svc'[s].pc = "failed" /\ svc'[s].for = svc[s].for /\ svc'[s].new = svc[s].new /\ svc'[s].exited = svc[s].exited
    BY <1>2, SvcGoes DEF IsvcPlaces
  <1>4. /\ ctr' \in [IServices -> CtrStates] /\ die' \in [IServices -> DieStates]
        /\ ctr'[s].id = ctr[s].id /\ ~ctr'[s].up /\ die'[s].registered = die[s].registered /\ die'[s].fired \subseteq MadeIds(s)
        /\ \A t \in IServices \ {s} : ctr'[t] = ctr[t] /\ die'[t] = die[t]
    BY <1>2, CtrIsDown
  <1>5. ContainersKnown(s)' /\ (HeldForDown(s) => Down(s))'
    BY <1>1, <1>2, <1>3, <1>4 DEF ContainersKnown, HeldForDown, Down, MadeIds, IsRunning, CtrStates
  <1>6. QED
    BY <1>2, <1>3, <1>4, <1>5, OneServiceMoves DEF IsvcInv, IsvcTyped

\* Nothing of the services changes.
LEMMA ServicesStay ==
    ASSUME IsvcInv, UNCHANGED <<svc, ctr, die, notified, made>>
    PROVE  IsvcInv'
  BY DEF IsvcInv, IsvcTyped, ContainersKnown, HeldForDown, Down, MadeIds, IsRunning

\* A start is requested of a service that is held for down.
LEMMA TakeStartKeeps ==
    ASSUME IsvcInv, NEW s \in IServices, TakeStart(s)
    PROVE  IsvcInv'
  <1>1. /\ svc[s] \in IsvcStates /\ ctr[s] \in CtrStates /\ die[s] \in DieStates /\ notified[s] \in SUBSET Nat /\ made[s] \in Nat
        /\ ContainersKnown(s) /\ (HeldForDown(s) => Down(s))
    BY OneService
  <1>2. CASE IsRunning(s)
    BY <1>2, ServicesStay DEF TakeStart
  <1>3. CASE ~IsRunning(s)
    <2> DEFINE r == Definition(s).recovers
               v == [svc[s] EXCEPT !.pc = "attach", !.for = "request", !.again = r]
    <2>0. r \in BOOLEAN
      BY SMT DEF Definition
    <2>2. svc' = [svc EXCEPT ![s] = v] /\ UNCHANGED <<ctr, die, notified, made>> /\ svc[s].pc = "idle"
      BY <1>3 DEF TakeStart
    <2> HIDE DEF r
    <2>1. v \in IsvcStates /\ v.pc = "attach" /\ v.for = "request"
      BY <1>1, <2>0 DEF IsvcStates, IsvcPlaces
    <2> HIDE DEF v
    <2>3. svc' \in [IServices -> IsvcStates] /\ svc'[s] = v /\ \A t \in IServices \ {s} : svc'[t] = svc[t]
      BY <2>1, <2>2, SvcMoves
    <2>4. ContainersKnown(s)' /\ (HeldForDown(s) => Down(s))'
      BY <1>1, <1>3, <2>1, <2>2, <2>3 DEF ContainersKnown, HeldForDown, Down, MadeIds, IsRunning
    <2>5. QED
      BY <2>2, <2>3, <2>4, OneServiceMoves DEF IsvcInv, IsvcTyped
  <1>4. QED
    BY <1>2, <1>3

\* A stop is requested: the container is down before its exit is awaited.
LEMMA TakeStopKeeps ==
    ASSUME IsvcInv, NEW s \in IServices, TakeStop(s)
    PROVE  IsvcInv'
  <1>1. /\ svc[s] \in IsvcStates /\ ctr[s] \in CtrStates /\ die[s] \in DieStates /\ notified[s] \in SUBSET Nat /\ made[s] \in Nat
        /\ ContainersKnown(s) /\ (HeldForDown(s) => Down(s))
    BY OneService
  <1>2. CASE UNCHANGED <<svc, ctr, die>>
    BY <1>2, ServicesStay DEF TakeStop
  <1>3. ASSUME svc' = [svc EXCEPT ![s] = [@ EXCEPT !.pc = "stopping", !.collecting = FALSE]], CtrStops(s), UNCHANGED <<notified, made>>
        PROVE  IsvcInv'
    <2> DEFINE v == [svc[s] EXCEPT !.pc = "stopping", !.collecting = FALSE]
    <2>1. v \in IsvcStates /\ v.pc = "stopping"
      BY <1>1 DEF IsvcStates, IsvcPlaces
    <2>2. svc' = [svc EXCEPT ![s] = v] /\ CtrStops(s) /\ UNCHANGED <<notified, made>>
      BY <1>3
    <2> HIDE DEF v
    <2>3. svc' \in [IServices -> IsvcStates] /\ svc'[s] = v /\ \A t \in IServices \ {s} : svc'[t] = svc[t]
      BY <2>1, <2>2, SvcMoves
    <2>4. /\ ctr' \in [IServices -> CtrStates] /\ die' \in [IServices -> DieStates]
          /\ ctr'[s].id = ctr[s].id /\ ~ctr'[s].up /\ die'[s].registered = die[s].registered /\ die'[s].fired \subseteq MadeIds(s)
          /\ \A t \in IServices \ {s} : ctr'[t] = ctr[t] /\ die'[t] = die[t]
      BY <2>2, CtrIsDown
    <2>5. ContainersKnown(s)' /\ (HeldForDown(s) => Down(s))'
      BY <1>1, <2>1, <2>2, <2>3, <2>4, <1>3 DEF ContainersKnown, HeldForDown, Down, MadeIds, IsRunning, CtrStates
    <2>6. QED
      BY <2>2, <2>3, <2>4, <2>5, OneServiceMoves DEF IsvcInv, IsvcTyped
  <1>4. ASSUME svc' = [svc EXCEPT ![s].collecting = FALSE], IsRunning(s), svc[s].pc = "idle", UNCHANGED <<ctr, die, notified, made>>
        PROVE  IsvcInv'
    <2> DEFINE v == [svc[s] EXCEPT !.collecting = FALSE]
    <2>1. v \in IsvcStates /\ v.pc = svc[s].pc /\ v.exited = svc[s].exited /\ v.new = svc[s].new /\ v.for = svc[s].for
      BY <1>1 DEF IsvcStates, IsvcPlaces
    <2>2. svc' = [svc EXCEPT ![s] = v] /\ UNCHANGED <<ctr, die, notified, made>>
      BY <1>4
    <2> HIDE DEF v
    <2>3. svc' \in [IServices -> IsvcStates] /\ svc'[s] = v /\ \A t \in IServices \ {s} : svc'[t] = svc[t]
      BY <2>1, <2>2, SvcMoves
    <2>5. ContainersKnown(s)' /\ (HeldForDown(s) => Down(s))'
      BY <1>1, <2>1, <2>2, <2>3, <1>4 DEF ContainersKnown, HeldForDown, Down, MadeIds, IsRunning, CtrStates
    <2>6. QED
      BY <2>2, <2>3, <2>5, OneServiceMoves DEF IsvcInv, IsvcTyped
  <1>5. QED
    BY <1>2, <1>3, <1>4 DEF TakeStop

\* A start that has failed is tried again, answered, or given up with the container down.
LEMMA StartFailedKeeps ==
    ASSUME IsvcInv, NEW s \in IServices, StartFailed(s)
    PROVE  IsvcInv'
  <1>1. /\ svc[s] \in IsvcStates /\ ctr[s] \in CtrStates /\ die[s] \in DieStates /\ notified[s] \in SUBSET Nat /\ made[s] \in Nat
        /\ ContainersKnown(s) /\ (HeldForDown(s) => Down(s))
    BY OneService
  <1>2. svc[s].pc = "failed" /\ UNCHANGED <<notified, made>>
    BY DEF StartFailed
  <1>3. ASSUME svc' = [svc EXCEPT ![s] = [@ EXCEPT !.pc = "attach", !.again = FALSE]], UNCHANGED <<ctr, die>>
        PROVE  IsvcInv'
    <2> DEFINE v == [svc[s] EXCEPT !.pc = "attach", !.again = FALSE]
    <2>1. v \in IsvcStates /\ v.pc = "attach" /\ v.for = svc[s].for
      BY <1>1 DEF IsvcStates, IsvcPlaces
    <2>2. svc' = [svc EXCEPT ![s] = v] /\ UNCHANGED <<ctr, die, notified, made>> /\ svc[s].pc = "failed"
      BY <1>2, <1>3
    <2> HIDE DEF v
    <2>3. svc' \in [IServices -> IsvcStates] /\ svc'[s] = v /\ \A t \in IServices \ {s} : svc'[t] = svc[t]
      BY <2>1, <2>2, SvcMoves
    <2>5. ContainersKnown(s)' /\ (HeldForDown(s) => Down(s))'
      BY <1>1, <2>1, <2>2, <2>3, <1>2, <1>3 DEF ContainersKnown, HeldForDown, Down, MadeIds, IsRunning, CtrStates
    <2>6. QED
      BY <2>2, <2>3, <2>5, OneServiceMoves DEF IsvcInv, IsvcTyped
  <1>4. ASSUME svc[s].for = "request", svc' = [svc EXCEPT ![s] = [@ EXCEPT !.pc = "idle", !.exited = 0]], UNCHANGED <<ctr, die>>
        PROVE  IsvcInv'
    <2> DEFINE v == [svc[s] EXCEPT !.pc = "idle", !.exited = 0]
    <2>1. v \in IsvcStates /\ v.pc = "idle"
      BY <1>1 DEF IsvcStates, IsvcPlaces
    <2>2. svc' = [svc EXCEPT ![s] = v] /\ UNCHANGED <<ctr, die, notified, made>> /\ svc[s].pc = "failed" /\ svc[s].for = "request"
      BY <1>2, <1>4
    <2> HIDE DEF v
    <2>3. svc' \in [IServices -> IsvcStates] /\ svc'[s] = v /\ \A t \in IServices \ {s} : svc'[t] = svc[t]
      BY <2>1, <2>2, SvcMoves
    <2>5. ContainersKnown(s)' /\ (HeldForDown(s) => Down(s))'
      BY <1>1, <2>1, <2>2, <2>3, <1>2, <1>4 DEF ContainersKnown, HeldForDown, Down, MadeIds, IsRunning, CtrStates
    <2>6. QED
      BY <2>2, <2>3, <2>5, OneServiceMoves DEF IsvcInv, IsvcTyped
  <1>5. ASSUME svc' = [svc EXCEPT ![s] = [@ EXCEPT !.pc = "idle", !.exited = 0, !.collecting = FALSE]], CtrStops(s)
        PROVE  IsvcInv'
    <2> DEFINE v == [svc[s] EXCEPT !.pc = "idle", !.exited = 0, !.collecting = FALSE]
    <2>1. v \in IsvcStates /\ v.pc = "idle"
      BY <1>1 DEF IsvcStates, IsvcPlaces
    <2>2. svc' = [svc EXCEPT ![s] = v] /\ CtrStops(s) /\ UNCHANGED <<notified, made>>
      BY <1>2, <1>5
    <2> HIDE DEF v
    <2>3. svc' \in [IServices -> IsvcStates] /\ svc'[s] = v /\ \A t \in IServices \ {s} : svc'[t] = svc[t]
      BY <2>1, <2>2, SvcMoves
    <2>4. /\ ctr' \in [IServices -> CtrStates] /\ die' \in [IServices -> DieStates]
          /\ ctr'[s].id = ctr[s].id /\ ~ctr'[s].up /\ die'[s].registered = die[s].registered /\ die'[s].fired \subseteq MadeIds(s)
          /\ \A t \in IServices \ {s} : ctr'[t] = ctr[t] /\ die'[t] = die[t]
      BY <2>2, CtrIsDown
    <2>5. ContainersKnown(s)' /\ (HeldForDown(s) => Down(s))'
      BY <1>1, <2>1, <2>2, <2>3, <2>4, <1>2, <1>5 DEF ContainersKnown, HeldForDown, Down, MadeIds, IsRunning, CtrStates
    <2>6. QED
      BY <2>2, <2>3, <2>4, <2>5, OneServiceMoves DEF IsvcInv, IsvcTyped
  <1>6. QED
    BY <1>3, <1>4, <1>5 DEF StartFailed

\* The container is gone: the service flaps, or is started anew.
LEMMA TakeExitKeeps ==
    ASSUME IsvcInv, NEW s \in IServices, TakeExit(s)
    PROVE  IsvcInv'
  <1>1. /\ svc[s] \in IsvcStates /\ ctr[s] \in CtrStates /\ die[s] \in DieStates /\ notified[s] \in SUBSET Nat /\ made[s] \in Nat
        /\ ContainersKnown(s) /\ (HeldForDown(s) => Down(s))
    BY OneService
  <1>2. svc[s].pc = "idle" /\ svc[s].exited \in notified[s] /\ svc[s].exited # 0 /\ UNCHANGED <<notified, made>>
    BY DEF TakeExit, IsRunning
  <1>3. PICK flaps \in Nat :
          \/ svc' = [svc EXCEPT ![s] = [@ EXCEPT !.flaps = flaps, !.exited = 0, !.collecting = FALSE]] /\ CtrStops(s)
          \/ svc' = [svc EXCEPT ![s] = [@ EXCEPT !.flaps = flaps, !.pc = "attach", !.for = "exit", !.again = FALSE]] /\ UNCHANGED <<ctr, die>>
    <2>1. PICK quick \in BOOLEAN :
            LET n == IF quick THEN svc[s].flaps + 1 ELSE 0 IN
            IF n >= Flapping
            THEN svc' = [svc EXCEPT ![s] = [@ EXCEPT !.flaps = n, !.exited = 0, !.collecting = FALSE]] /\ CtrStops(s)
            ELSE svc' = [svc EXCEPT ![s] = [@ EXCEPT !.flaps = n, !.pc = "attach", !.for = "exit", !.again = FALSE]] /\ UNCHANGED <<ctr, die>>
      BY DEF TakeExit
    <2> DEFINE n == IF quick THEN svc[s].flaps + 1 ELSE 0
    <2>2. n \in Nat
      BY <1>1 DEF IsvcStates
    <2> HIDE DEF n
    <2>3. \/ svc' = [svc EXCEPT ![s] = [@ EXCEPT !.flaps = n, !.exited = 0, !.collecting = FALSE]] /\ CtrStops(s)
          \/ svc' = [svc EXCEPT ![s] = [@ EXCEPT !.flaps = n, !.pc = "attach", !.for = "exit", !.again = FALSE]] /\ UNCHANGED <<ctr, die>>
      BY <2>1, Zenon DEF n
    <2>4. QED
      BY <2>2, <2>3
  <1>4. ASSUME svc' = [svc EXCEPT ![s] = [@ EXCEPT !.flaps = flaps, !.exited = 0, !.collecting = FALSE]], CtrStops(s)
        PROVE  IsvcInv'
    <2> DEFINE v == [svc[s] EXCEPT !.flaps = flaps, !.exited = 0, !.collecting = FALSE]
    <2>1. v \in IsvcStates /\ v.pc = svc[s].pc
      BY <1>1 DEF IsvcStates, IsvcPlaces
    <2>2. svc' = [svc EXCEPT ![s] = v] /\ CtrStops(s) /\ UNCHANGED <<notified, made>>
      BY <1>2, <1>4
    <2> HIDE DEF v
    <2>3. svc' \in [IServices -> IsvcStates] /\ svc'[s] = v /\ \A t \in IServices \ {s} : svc'[t] = svc[t]
      BY <2>1, <2>2, SvcMoves
    <2>4. /\ ctr' \in [IServices -> CtrStates] /\ die' \in [IServices -> DieStates]
          /\ ctr'[s].id = ctr[s].id /\ ~ctr'[s].up /\ die'[s].registered = die[s].registered /\ die'[s].fired \subseteq MadeIds(s)
          /\ \A t \in IServices \ {s} : ctr'[t] = ctr[t] /\ die'[t] = die[t]
      BY <2>2, CtrIsDown
    <2>5. ContainersKnown(s)' /\ (HeldForDown(s) => Down(s))'
      BY <1>1, <2>1, <2>2, <2>3, <2>4, <1>2, <1>4 DEF ContainersKnown, HeldForDown, Down, MadeIds, IsRunning, CtrStates
    <2>6. QED
      BY <2>2, <2>3, <2>4, <2>5, OneServiceMoves DEF IsvcInv, IsvcTyped
  <1>5. ASSUME svc' = [svc EXCEPT ![s] = [@ EXCEPT !.flaps = flaps, !.pc = "attach", !.for = "exit", !.again = FALSE]], UNCHANGED <<ctr, die>>
        PROVE  IsvcInv'
    <2> DEFINE v == [svc[s] EXCEPT !.flaps = flaps, !.pc = "attach", !.for = "exit", !.again = FALSE]
    <2>1. v \in IsvcStates /\ v.pc = "attach" /\ v.for = "exit"
      BY <1>1 DEF IsvcStates, IsvcPlaces
    <2>2. svc' = [svc EXCEPT ![s] = v] /\ UNCHANGED <<ctr, die, notified, made>>
      BY <1>2, <1>5
    <2> HIDE DEF v
    <2>3. svc' \in [IServices -> IsvcStates] /\ svc'[s] = v /\ \A t \in IServices \ {s} : svc'[t] = svc[t]
      BY <2>1, <2>2, SvcMoves
    <2>5. ContainersKnown(s)' /\ (HeldForDown(s) => Down(s))'
      BY <1>1, <2>1, <2>2, <2>3, <1>2, <1>5 DEF ContainersKnown, HeldForDown, Down, MadeIds, IsRunning, CtrStates
    <2>6. QED
      BY <2>2, <2>3, <2>5, OneServiceMoves DEF IsvcInv, IsvcTyped
  <1>6. QED
    BY <1>3, <1>4, <1>5

\* The handler is registered, and the container is up.
LEMMA BeginManagerOpKeeps ==
    ASSUME IsvcInv, NEW s \in IServices, BeginManagerOp(s)
    PROVE  IsvcInv'
  <1>1. /\ svc[s] \in IsvcStates /\ ctr[s] \in CtrStates /\ die[s] \in DieStates /\ notified[s] \in SUBSET Nat /\ made[s] \in Nat
        /\ ContainersKnown(s) /\ (HeldForDown(s) => Down(s))
    BY OneService
  <1>2. svc[s].pc = "begin" /\ UNCHANGED <<notified, made>>
    BY DEF BeginManagerOp
  <1>3. ASSUME ctr[s].id # 0, ctr' = [ctr EXCEPT ![s].up = TRUE], die' = [die EXCEPT ![s].registered = @ \cup {ctr[s].id}],
               svc' = [svc EXCEPT ![s] = [@ EXCEPT !.pc = "checking", !.new = ctr[s].id]]
        PROVE  IsvcInv'
    <2> DEFINE v == [svc[s] EXCEPT !.pc = "checking", !.new = ctr[s].id]
               c == [ctr[s] EXCEPT !.up = TRUE]
               d == [die[s] EXCEPT !.registered = @ \cup {ctr[s].id}]
    <2>1. v \in IsvcStates /\ v.pc = "checking" /\ v.new = ctr[s].id
      BY <1>1 DEF IsvcStates, IsvcPlaces, CtrStates
    <2>2. c \in CtrStates /\ c.id = ctr[s].id
      BY <1>1 DEF CtrStates
    <2>3. d \in DieStates /\ d.registered = die[s].registered \cup {ctr[s].id} /\ d.fired = die[s].fired
      BY <1>1 DEF DieStates, CtrStates
    <2>4. svc' = [svc EXCEPT ![s] = v] /\ ctr' = [ctr EXCEPT ![s] = c] /\ die' = [die EXCEPT ![s] = d]
      BY <1>3
    <2> HIDE DEF v, c, d
    <2>5. svc' \in [IServices -> IsvcStates] /\ svc'[s] = v /\ \A t \in IServices \ {s} : svc'[t] = svc[t]
      BY <2>1, <2>4, SvcMoves
    <2>6. /\ ctr' \in [IServices -> CtrStates] /\ ctr'[s] = c /\ die' \in [IServices -> DieStates] /\ die'[s] = d
          /\ \A t \in IServices \ {s} : ctr'[t] = ctr[t] /\ die'[t] = die[t]
      BY <2>2, <2>3, <2>4 DEF IsvcInv, IsvcTyped
    <2>7. ctr[s].id \in MadeIds(s)
      BY <1>1, <1>3 DEF ContainersKnown, MadeIds, CtrStates
    <2>8. ContainersKnown(s)' /\ (HeldForDown(s) => Down(s))'
      BY <1>1, <1>2, <1>3, <2>1, <2>2, <2>3, <2>5, <2>6, <2>7 DEF ContainersKnown, HeldForDown, MadeIds, IsRunning
    <2>9. QED
      BY <1>2, <2>5, <2>6, <2>8, OneServiceMoves DEF IsvcInv, IsvcTyped
  <1>4. ASSUME SvcAt(s, "failed"), UNCHANGED <<ctr, die>>
        PROVE  IsvcInv'
    <2>1. /\ svc' \in [IServices -> IsvcStates] /\ \A t \in IServices \ {s} : svc'[t] = svc[t]
          /\ svc'[s].pc = "failed" /\ svc'[s].for = svc[s].for /\ svc'[s].new = svc[s].new /\ svc'[s].exited = svc[s].exited
      BY <1>4, SvcGoes DEF IsvcPlaces
    <2>2. ContainersKnown(s)' /\ (HeldForDown(s) => Down(s))'
      BY <1>1, <1>2, <1>4, <2>1 DEF ContainersKnown, HeldForDown, Down, MadeIds, IsRunning
    <2>3. QED
      BY <1>2, <1>4, <2>1, <2>2, OneServiceMoves DEF IsvcInv, IsvcTyped
  <1>5. QED
    BY <1>3, <1>4 DEF BeginManagerOp

\* A container of that name is taken over, removed or made.
LEMMA AttachKeeps ==
    ASSUME IsvcInv, NEW s \in IServices, Attach(s)
    PROVE  IsvcInv'
  <1>1. /\ svc[s] \in IsvcStates /\ ctr[s] \in CtrStates /\ die[s] \in DieStates /\ notified[s] \in SUBSET Nat /\ made[s] \in Nat
        /\ ContainersKnown(s) /\ (HeldForDown(s) => Down(s))
    BY OneService
  <1>2. svc[s].pc = "attach" /\ UNCHANGED <<die, notified>>
    BY DEF Attach
  <1>3. NoCtr \in CtrStates /\ NoCtr.id = 0 /\ ~NoCtr.up
    BY DEF NoCtr, CtrStates
  <1>4. ASSUME SvcAt(s, "begin"), UNCHANGED <<ctr, made>>
        PROVE  IsvcInv'
    <2>1. /\ svc' \in [IServices -> IsvcStates] /\ \A t \in IServices \ {s} : svc'[t] = svc[t]
          /\ svc'[s].pc = "begin" /\ svc'[s].for = svc[s].for /\ svc'[s].new = svc[s].new /\ svc'[s].exited = svc[s].exited
      BY <1>4, SvcGoes DEF IsvcPlaces
    <2>2. ContainersKnown(s)' /\ (HeldForDown(s) => Down(s))'
      BY <1>1, <1>2, <1>4, <2>1 DEF ContainersKnown, HeldForDown, Down, MadeIds, IsRunning
    <2>3. QED
      BY <1>2, <1>4, <2>1, <2>2, OneServiceMoves DEF IsvcInv, IsvcTyped
  <1>5. ASSUME ctr' = [ctr EXCEPT ![s] = NoCtr], UNCHANGED <<svc, made>>
        PROVE  IsvcInv'
    <2>1. ctr' \in [IServices -> CtrStates] /\ ctr'[s] = NoCtr /\ \A t \in IServices \ {s} : ctr'[t] = ctr[t]
      BY <1>3, <1>5 DEF IsvcInv, IsvcTyped
    <2>2. ContainersKnown(s)' /\ (HeldForDown(s) => Down(s))'
      BY <1>1, <1>2, <1>3, <1>5, <2>1 DEF ContainersKnown, HeldForDown, Down, MadeIds, IsRunning
    <2>3. QED
      BY <1>2, <1>5, <2>1, <2>2, OneServiceMoves DEF IsvcInv, IsvcTyped
  <1>6. ASSUME made' = [made EXCEPT ![s] = @ + 1], create(s), SvcAt(s, "begin")
        PROVE  IsvcInv'
    <2>1. /\ svc' \in [IServices -> IsvcStates] /\ \A t \in IServices \ {s} : svc'[t] = svc[t]
          /\ svc'[s].pc = "begin" /\ svc'[s].for = svc[s].for /\ svc'[s].new = svc[s].new /\ svc'[s].exited = svc[s].exited
      BY <1>6, SvcGoes DEF IsvcPlaces
    <2> DEFINE c == [id |-> made[s] + 1, up |-> FALSE]
    <2>2. c \in CtrStates /\ c.id = made[s] + 1 /\ ~c.up
      BY <1>1 DEF CtrStates
    <2>3. ctr' = [ctr EXCEPT ![s] = c]
      BY <1>6 DEF create
    <2> HIDE DEF c
    <2>4. /\ ctr' \in [IServices -> CtrStates] /\ ctr'[s] = c /\ made' \in [IServices -> Nat] /\ made'[s] = made[s] + 1
          /\ \A t \in IServices \ {s} : ctr'[t] = ctr[t] /\ made'[t] = made[t]
      BY <1>6, <2>2, <2>3 DEF IsvcInv, IsvcTyped
    <2>5. ContainersKnown(s)' /\ (HeldForDown(s) => Down(s))'
      BY <1>1, <1>2, <2>1, <2>2, <2>4 DEF ContainersKnown, HeldForDown, Down, MadeIds, IsRunning
    <2>6. QED
      BY <1>2, <2>1, <2>4, <2>5, OneServiceMoves DEF IsvcInv, IsvcTyped
  <1>7. QED
    BY <1>4, <1>5, <1>6 DEF Attach

\* Docker: a container exits.
LEMMA ContainerExitsKeeps ==
    ASSUME IsvcInv, NEW s \in IServices, ContainerExits(s)
    PROVE  IsvcInv'
  <1>1. /\ svc[s] \in IsvcStates /\ ctr[s] \in CtrStates /\ die[s] \in DieStates /\ notified[s] \in SUBSET Nat /\ made[s] \in Nat
        /\ ContainersKnown(s) /\ (HeldForDown(s) => Down(s))
    BY OneService
  <1>2. CtrStops(s) /\ UNCHANGED <<svc, notified, made>>
    BY DEF ContainerExits
  <1>3. /\ ctr' \in [IServices -> CtrStates] /\ die' \in [IServices -> DieStates]
        /\ ctr'[s].id = ctr[s].id /\ ~ctr'[s].up /\ die'[s].registered = die[s].registered /\ die'[s].fired \subseteq MadeIds(s)
        /\ \A t \in IServices \ {s} : ctr'[t] = ctr[t] /\ die'[t] = die[t]
    BY <1>2, CtrIsDown
  <1>4. ContainersKnown(s)' /\ (HeldForDown(s) => Down(s))'
    BY <1>1, <1>2, <1>3 DEF ContainersKnown, HeldForDown, Down, MadeIds, IsRunning, CtrStates
  <1>5. QED
    BY <1>2, <1>3, <1>4, OneServiceMoves DEF IsvcInv, IsvcTyped

\* The handler removes what has the name, and tells of the exit of its own container.
LEMMA RemoveKeeps ==
    ASSUME IsvcInv, NEW s \in IServices, NEW id \in die[s].fired, remove(s, id)
    PROVE  IsvcInv'
  <1>1. /\ svc[s] \in IsvcStates /\ ctr[s] \in CtrStates /\ die[s] \in DieStates /\ notified[s] \in SUBSET Nat /\ made[s] \in Nat
        /\ ContainersKnown(s) /\ (HeldForDown(s) => Down(s))
    BY OneService
  <1>2. NoCtr \in CtrStates /\ NoCtr.id = 0 /\ ~NoCtr.up
    BY DEF NoCtr, CtrStates
  <1> DEFINE d == [registered |-> die[s].registered \ {id}, fired |-> (die[s].fired \ {id}) \cup (die[s].registered \cap ({ctr[s].id} \ {id}))]
  <1>3. d \in DieStates /\ d.registered \subseteq die[s].registered /\ d.fired \subseteq MadeIds(s) /\ id \in MadeIds(s) /\ id \in Nat /\ id # 0
    BY <1>1 DEF DieStates, CtrStates, ContainersKnown, MadeIds
  <1>4. ctr' = [ctr EXCEPT ![s] = NoCtr] /\ die' = [die EXCEPT ![s] = d] /\ notified' = [notified EXCEPT ![s] = @ \cup {id}] /\ UNCHANGED <<svc, made>>
    BY DEF remove
  <1> HIDE DEF d
  <1>5. /\ ctr' \in [IServices -> CtrStates] /\ ctr'[s] = NoCtr /\ die' \in [IServices -> DieStates] /\ die'[s] = d
        /\ notified' \in [IServices -> SUBSET Nat] /\ notified'[s] = notified[s] \cup {id}
        /\ \A t \in IServices \ {s} : ctr'[t] = ctr[t] /\ die'[t] = die[t] /\ notified'[t] = notified[t]
    BY <1>2, <1>3, <1>4 DEF IsvcInv, IsvcTyped
  <1>6. ContainersKnown(s)' /\ (HeldForDown(s) => Down(s))'
    BY <1>1, <1>2, <1>3, <1>4, <1>5 DEF ContainersKnown, HeldForDown, Down, MadeIds, IsRunning
  <1>7. QED
    BY <1>4, <1>5, <1>6, OneServiceMoves DEF IsvcInv, IsvcTyped

\* The daemon restarts: nobody has a handler any more.
LEMMA DaemonRestartsKeeps ==
    ASSUME IsvcInv, DaemonRestarts
    PROVE  IsvcInv'
  <1>1. NewIService \in IsvcStates /\ NewIService.pc = "idle" /\ [registered |-> {}, fired |-> {}] \in DieStates
    BY DEF NewIService, IsvcStates, IsvcPlaces, DieStates
  <1>2. /\ svc' = [s \in IServices |-> NewIService] /\ die' = [s \in IServices |-> [registered |-> {}, fired |-> {}]]
        /\ notified' = [s \in IServices |-> {}] /\ UNCHANGED <<ctr, made>>
    BY DEF DaemonRestarts
  <1>3. IsvcTyped'
    BY <1>1, <1>2 DEF IsvcInv, IsvcTyped
  <1>4. ASSUME NEW s \in IServices PROVE ContainersKnown(s)' /\ Down(s)'
    <2>1. svc'[s].pc = "idle" /\ die'[s].registered = {} /\ die'[s].fired = {} /\ notified'[s] = {}
      BY <1>1, <1>2
    <2>2. QED
      BY <1>2, <2>1, OneService DEF ContainersKnown, Down, MadeIds
  <1>5. QED
    BY <1>3, <1>4 DEF IsvcInv

\* The initial states.
LEMMA IsvcInit ==
    isvcInit => IsvcInv
  <1> SUFFICES ASSUME isvcInit PROVE IsvcInv
    OBVIOUS
  <1>1. /\ NewIService \in IsvcStates /\ NewIService.pc = "idle" /\ [registered |-> {}, fired |-> {}] \in DieStates
        /\ NoCtr \in CtrStates /\ NoCtr.id = 0 /\ ~NoCtr.up
    BY DEF NewIService, IsvcStates, IsvcPlaces, DieStates, NoCtr, CtrStates
  <1>2. /\ svc = [s \in IServices |-> NewIService] /\ die = [s \in IServices |-> [registered |-> {}, fired |-> {}]]
        /\ ctr = [s \in IServices |-> NoCtr] /\ notified = [s \in IServices |-> {}] /\ made = [s \in IServices |-> 0]
    BY DEF isvcInit
  <1>3. IsvcTyped
    BY <1>1, <1>2 DEF IsvcTyped
  <1>4. ASSUME NEW s \in IServices PROVE ContainersKnown(s) /\ Down(s)
    <2>1. svc[s].pc = "idle" /\ die[s].registered = {} /\ die[s].fired = {} /\ notified[s] = {} /\ ctr[s] = NoCtr /\ made[s] = 0
      BY <1>1, <1>2
    <2>2. QED
      BY <1>1, <2>1 DEF ContainersKnown, Down, MadeIds
  <1>5. QED
    BY <1>3, <1>4 DEF IsvcInv

\* Every step.
LEMMA IsvcStep ==
    IsvcInv /\ [isvcNext]_isvcVars => IsvcInv'
  <1> SUFFICES ASSUME IsvcInv, [isvcNext]_isvcVars PROVE IsvcInv'
    OBVIOUS
  <1>1. ASSUME NEW s \in IServices, ServiceLoop(s) PROVE IsvcInv'
    BY <1>1, TakeStartKeeps, TakeStopKeeps, StopEndsKeeps, AttachKeeps, AttachFailsKeeps, BeginManagerOpKeeps, StartupPassesKeeps,
       StartupFailsKeeps, StartupExitsKeeps, StartFailedKeeps, TakeExitKeeps DEF ServiceLoop
  <1>2. ASSUME NEW s \in IServices, Handler(s) \/ ContainerExits(s) PROVE IsvcInv'
    BY <1>2, RemoveKeeps, ContainerExitsKeeps DEF Handler
  <1>3. CASE startServiceGroup \/ ManagerAnswers \/ (\E op \in {"start", "stop"} : ManagerRequest(op)) \/ UNCHANGED isvcVars
    BY <1>3, ServicesStay DEF startServiceGroup, ManagerAnswers, ManagerRequest, isvcVars
  <1>4. QED
    BY <1>1, <1>2, <1>3, DaemonRestartsKeeps DEF isvcNext

-----------------------------------------------------------------------------
\* What runs on a host is what was asked for: an internal service that its manager holds for
\* stopped has no container that runs (isvcs.IService), and the agent of a delegate stays in the
\* pool its host was moved to and knows where the volumes are before it runs a container
\* (daemon.startAgent, storage.Client).
THEOREM ProcessesAreSound ==
    isvcSpec /\ dgSpec => []ProcessesSound
  <1>1. isvcSpec => []StoppedMeansDown
    <2>1. IsvcInv => StoppedMeansDown
      BY DEF IsvcInv, HeldForDown, Down, StoppedMeansDown
    <2>2. QED
      BY <2>1, IsvcInit, IsvcStep, PTL DEF isvcSpec
  <1>2. dgSpec => []Mountable
    <2>1. MountInv => Mountable
      BY DEF MountInv, Mountable
    <2>2. QED
      BY <2>1, MountInit, MountStep, PTL DEF dgSpec
  <1>3. StoppedMeansDown /\ HostKeepsPool /\ Mountable => ProcessesSound
    BY DEF ProcessesSound, DelegateSound
  <1>4. QED
    BY <1>1, <1>2, <1>3, MoveIsKept, PTL

-----------------------------------------------------------------------------
(* The batches of the service state manager.                                *)

\* Ascending enumerates a finite set of numbers, every one of them and the smaller ones first.
LEMMA AscendingSorts ==
    ASSUME NEW S \in SUBSET Nat, IsFiniteSet(S)
    PROVE  /\ Cardinality(S) \in Nat
           /\ Ascending(S) \in [1 .. Cardinality(S) -> S]
           /\ \A x \in S : \E i \in 1 .. Cardinality(S) : Ascending(S)[i] = x
           /\ \A i, j \in 1 .. Cardinality(S) : i < j => Ascending(S)[i] < Ascending(S)[j]
<1> DEFINE n == Cardinality(S)
           Below(x) == {y \in S : y < x}
           rank == [x \in S |-> Cardinality(Below(x)) + 1]
<1>1. n \in Nat
  BY FS_CardinalityType
<1>2. ASSUME NEW x \in S
      PROVE  IsFiniteSet(Below(x)) /\ Cardinality(Below(x)) \in Nat /\ Cardinality(Below(x)) < n
  <2>1. Below(x) \in SUBSET S /\ Below(x) # S
    OBVIOUS
  <2> HIDE DEF Below
  <2>2. IsFiniteSet(Below(x)) /\ Cardinality(Below(x)) <= n /\ n # Cardinality(Below(x))
    BY <2>1, FS_Subset
  <2> QED
    BY <1>1, <2>2, FS_CardinalityType
<1>3. ASSUME NEW x \in S, NEW y \in S, x < y PROVE Cardinality(Below(x)) < Cardinality(Below(y))
  <2>1. Below(x) \in SUBSET Below(y) /\ Below(x) # Below(y)
    <3>1. x \in Below(y) /\ x \notin Below(x)
      BY <1>3
    <3>2. \A z \in Below(x) : z \in Below(y)
      BY <1>3
    <3> HIDE DEF Below
    <3> QED
      BY <3>1, <3>2
  <2> HIDE DEF Below
  <2>2. Cardinality(Below(x)) <= Cardinality(Below(y)) /\ Cardinality(Below(y)) # Cardinality(Below(x))
    BY <1>2, <2>1, FS_Subset
  <2> QED
    BY <1>2, <2>2
<1> HIDE DEF Below
<1>4. \A x, y \in S : Cardinality(Below(x)) = Cardinality(Below(y)) => x = y
  <2>1. \A x \in S : Cardinality(Below(x)) \in Nat
    BY <1>2
  <2> QED
    BY <1>3, <2>1
<1>5. rank \in Surjection(S, 1 .. n)
  <2>1. rank \in [S -> 1 .. n]
    BY <1>1, <1>2
  <2>2. rank \in Injection(S, 1 .. n)
    <3>1. ASSUME NEW x \in S, NEW y \in S, rank[x] = rank[y] PROVE x = y
      BY <1>2, <1>4, <3>1
    <3> QED
      BY <2>1, <3>1 DEF Injection, IsInjective
  <2>3. IsFiniteSet(1 .. n) /\ Cardinality(1 .. n) = n
    BY <1>1, FS_Interval
  <2> HIDE DEF rank
  <2> QED
    BY <2>2, <2>3, FS_Injection
<1>6. \A i \in 1 .. n : \E x \in S : Cardinality(Below(x)) = i - 1
  <2> SUFFICES ASSUME NEW i \in 1 .. n PROVE \E x \in S : Cardinality(Below(x)) = i - 1
    OBVIOUS
  <2>1. PICK x \in S : rank[x] = i
    BY <1>5 DEF Surjection
  <2> QED
    BY <1>2, <2>1
<1>7. \A i \in 1 .. n : Ascending(S)[i] \in S /\ Cardinality(Below(Ascending(S)[i])) = i - 1
  BY <1>6 DEF Ascending, Below
<1>8. Ascending(S) \in [1 .. n -> S]
  BY <1>7 DEF Ascending
<1>9. ASSUME NEW x \in S PROVE \E i \in 1 .. n : Ascending(S)[i] = x
  <2>1. Cardinality(Below(x)) + 1 \in 1 .. n
    BY <1>1, <1>2
  <2>2. Cardinality(Below(Ascending(S)[Cardinality(Below(x)) + 1])) = Cardinality(Below(x))
    BY <1>2, <1>7, <2>1
  <2> QED
    BY <1>4, <1>7, <2>1, <2>2
<1>10. ASSUME NEW i \in 1 .. n, NEW j \in 1 .. n, i < j PROVE Ascending(S)[i] < Ascending(S)[j]
  <2> DEFINE x == Ascending(S)[i]
             y == Ascending(S)[j]
  <2>1. x \in S /\ y \in S /\ Cardinality(Below(x)) = i - 1 /\ Cardinality(Below(y)) = j - 1
    BY <1>7
  <2>2. x \in Nat /\ y \in Nat
    BY <2>1
  <2> HIDE DEF x, y
  <2>3. ~ (y < x) /\ x # y
    BY <1>1, <1>3, <1>10, <2>1
  <2>4. x < y
    BY <2>2, <2>3
  <2> QED
    BY <2>4 DEF x, y
<1> QED
  BY <1>1, <1>8, <1>9, <1>10

Entries == [id : Services, n : Nat]
DesiredStates == {"Run", "Stop", "Restart", "Pause"}
BatchStates ==
    {b \in [svcs : SUBSET Entries, ds : DesiredStates, em : BOOLEAN] : b.em => b.ds = "Stop"}

\* The entries of a queue.
Held(q) == UNION {q[i].svcs : i \in DOMAIN q}

\* No service in two batches of a queue, and the emergencies in front, in the order of their levels.
BatchesApart(q) ==
    \A i, j \in DOMAIN q : \A d \in q[i].svcs, e \in q[j].svcs : d.id = e.id => i = j
UrgentFirst(q) ==
    \A i, j \in DOMAIN q : i < j /\ q[j].em =>
        /\ q[i].em
        /\ \A d \in q[i].svcs, e \in q[j].svcs : OrderKey(d.id, "Stop", TRUE) < OrderKey(e.id, "Stop", TRUE)
Orderly(q) == q \in Seq(BatchStates) /\ BatchesApart(q) /\ UrgentFirst(q)

\* The keys that services are sorted by are small numbers.
LEMMA KeysAreSmall ==
    ASSUME NEW s \in Services, NEW ds, NEW em \in BOOLEAN
    PROVE  OrderKey(s, ds, em) \in Nat /\ OrderKey(s, ds, em) <= 255
<1>1. /\ StartLevel[s] \in 0 .. 15 /\ ShutdownLevel[s] \in 0 .. 15
  BY LevelsAssumption DEF LevelWidth
<1>2. Rank(StartLevel[s]) \in 0 .. 15 /\ Rank(ShutdownLevel[s]) \in 0 .. 15
  BY <1>1 DEF Rank, LevelWidth
<1>3. CASE ds = "Stop" /\ em
  <2>1. OrderKey(s, ds, em) = Rank(ShutdownLevel[s]) * 16
            + (IF ShutdownLevel[s] = 0 THEN 15 - Rank(StartLevel[s]) ELSE 0)
    BY <1>3 DEF OrderKey, LevelWidth
  <2> QED
    BY <1>2, <2>1 DEF LevelWidth
<1>4. CASE ~ (ds = "Stop" /\ em)
  <2>1. OrderKey(s, ds, em) \in {Rank(StartLevel[s]), 15 - Rank(StartLevel[s])}
    BY <1>4 DEF OrderKey, LevelWidth
  <2> QED
    BY <1>2, <2>1 DEF LevelWidth
<1> QED
  BY <1>3, <1>4

\* MergeBatches keeps every entry, in batches that are sorted by level.
LEMMA MergedBatches ==
    ASSUME NEW b \in Seq(BatchStates), NEW ds \in DesiredStates, NEW em \in BOOLEAN, em => ds = "Stop",
           NEW r, r = MergeBatches(b, ds, em)
    PROVE  /\ r \in Seq(BatchStates)
           /\ \A i \in DOMAIN r : r[i].ds = ds /\ r[i].em = em
           /\ Held(r) = Held(b)
           /\ \A i, j \in DOMAIN r : \A d \in r[i].svcs, e \in r[j].svcs :
                 /\ d.id = e.id => i = j
                 /\ i < j => OrderKey(d.id, ds, em) < OrderKey(e.id, ds, em)
<1> DEFINE all  == UNION {b[i].svcs : i \in DOMAIN b}
           key(e) == OrderKey(e.id, ds, em)
           levels == {key(e) : e \in all}
           keys == Ascending(levels)
           n == Cardinality(levels)
<1>1. all \in SUBSET Entries /\ all = Held(b)
  BY DEF Held, BatchStates
<1>2. \A e \in all : key(e) \in Nat /\ key(e) <= 255
  BY <1>1, KeysAreSmall DEF Entries
<1>3. levels \in SUBSET Nat /\ IsFiniteSet(levels)
  <2>1. ASSUME NEW x \in levels PROVE x \in Nat /\ x <= 255
    <3> HIDE DEF key, all
    <3>1. PICK e \in all : x = key(e)
      OBVIOUS
    <3> QED
      BY <1>2, <3>1
  <2> HIDE DEF levels
  <2>2. levels \in SUBSET Nat /\ 255 \in Nat
    BY <2>1
  <2> QED
    BY <2>1, <2>2, FS_BoundedSetOfNaturals
<1>4. /\ n \in Nat /\ keys \in [1 .. n -> levels]
      /\ \A x \in levels : \E i \in 1 .. n : keys[i] = x
      /\ \A i, j \in 1 .. n : i < j => keys[i] < keys[j]
  <2> HIDE DEF levels
  <2> QED
    BY <1>3, AscendingSorts
<1>5. r = [i \in 1 .. n |-> [svcs |-> {e \in all : key(e) = keys[i]}, ds |-> ds, em |-> em]]
  <2>1. DOMAIN keys = 1 .. n
    BY <1>4
  <2>2. r = [i \in DOMAIN keys |-> [svcs |-> {e \in all : key(e) = keys[i]}, ds |-> ds, em |-> em]]
    BY DEF MergeBatches
  <2> HIDE DEF keys, n, levels, key, all
  <2> QED
    BY <2>1, <2>2
<1> HIDE DEF keys, n
<1>6. \A i \in 1 .. n : /\ r[i] \in BatchStates /\ r[i].ds = ds /\ r[i].em = em
                        /\ r[i].svcs = {e \in all : key(e) = keys[i]}
  <2> HIDE DEF all, key
  <2>1. ASSUME NEW i \in 1 .. n
        PROVE  r[i] = [svcs |-> {e \in all : key(e) = keys[i]}, ds |-> ds, em |-> em]
    BY <1>5
  <2>2. \A i \in 1 .. n : {e \in all : key(e) = keys[i]} \in SUBSET Entries
    BY <1>1
  <2>3. ASSUME NEW i \in 1 .. n
        PROVE  r[i] \in BatchStates /\ r[i].ds = ds /\ r[i].em = em /\ r[i].svcs = {e \in all : key(e) = keys[i]}
    <3>1. PICK s \in SUBSET Entries : s = {e \in all : key(e) = keys[i]}
      BY <2>2
    <3>2. r[i] = [svcs |-> s, ds |-> ds, em |-> em]
      BY <2>1, <3>1
    <3>3. r[i].ds = ds /\ r[i].svcs = s
      BY <3>2
    <3>4. r[i].em = em
      BY <3>2
    <3>5. r[i] \in [svcs : SUBSET Entries, ds : DesiredStates, em : BOOLEAN]
      BY <3>2
    <3> QED
      BY <3>1, <3>3, <3>4, <3>5 DEF BatchStates
  <2> QED
    BY <2>3
<1>7. r \in Seq(BatchStates) /\ DOMAIN r = 1 .. n
  <2>1. r \in [1 .. n -> BatchStates]
    <3>1. r = [i \in 1 .. n |-> r[i]]
      BY <1>5
    <3> QED
      BY <1>6, <3>1
  <2> QED
    BY <1>4, <2>1
<1>8. Held(r) = Held(b)
  <2>1. ASSUME NEW e \in all PROVE \E i \in 1 .. n : e \in r[i].svcs
    <3>1. key(e) \in levels
      BY <2>1
    <3>2. PICK i \in 1 .. n : keys[i] = key(e)
      BY <1>4, <3>1
    <3> HIDE DEF levels, key, all
    <3> QED
      BY <1>6, <2>1, <3>2
  <2>2. \A i \in 1 .. n : r[i].svcs \subseteq all
    BY <1>6
  <2> HIDE DEF all
  <2> QED
    BY <1>1, <1>7, <2>1, <2>2 DEF Held
<1>9. ASSUME NEW i \in 1 .. n, NEW j \in 1 .. n, NEW d \in r[i].svcs, NEW e \in r[j].svcs
      PROVE  (d.id = e.id => i = j) /\ (i < j => key(d) < key(e))
  <2>1. key(d) = keys[i] /\ key(e) = keys[j]
    BY <1>6
  <2>2. d.id = e.id => keys[i] = keys[j]
    BY <2>1
  <2>3. \A x \in levels : x \in Nat
    BY <1>3
  <2> HIDE DEF levels, key
  <2>4. keys[i] \in Nat /\ keys[j] \in Nat
    BY <1>4, <2>3
  <2> QED
    BY <1>4, <2>1, <2>2, <2>4
<1> QED
  BY <1>6, <1>7, <1>8, <1>9

\* The parts of a queue hold what the queue holds.
Joined(s, t) == s \o t

\* The entries of two queues behind each other.
LEMMA HeldConcat ==
    ASSUME NEW s \in Seq(BatchStates), NEW t \in Seq(BatchStates), NEW m, m = Joined(s, t)
    PROVE  /\ m \in Seq(BatchStates)
           /\ \A i \in DOMAIN s : i \in DOMAIN m /\ m[i] = s[i]
           /\ \A i \in DOMAIN m : i \in DOMAIN s \/ (i - Len(s) \in DOMAIN t /\ m[i] = t[i - Len(s)])
           /\ \A i, j \in DOMAIN m : j \in DOMAIN s /\ i < j => i \in DOMAIN s
           /\ Held(m) = Held(s) \cup Held(t)
<1>1. /\ m \in Seq(BatchStates)
      /\ DOMAIN m = 1 .. Len(s) + Len(t)
      /\ Len(s) \in Nat /\ Len(t) \in Nat
      /\ DOMAIN s = 1 .. Len(s) /\ DOMAIN t = 1 .. Len(t)
  BY ConcatProperties DEF Joined
<1>2. ASSUME NEW i \in DOMAIN s PROVE i \in DOMAIN m /\ m[i] = s[i]
  BY <1>1, ConcatProperties DEF Joined
<1>3. ASSUME NEW i \in DOMAIN m, i \notin DOMAIN s PROVE i - Len(s) \in DOMAIN t /\ m[i] = t[i - Len(s)]
  <2>1. i \in 1 .. Len(s) + Len(t) /\ ~ (i <= Len(s)) /\ i - Len(s) \in DOMAIN t
    BY <1>1, <1>3
  <2> QED
    BY <2>1, ConcatProperties DEF Joined
<1>4. ASSUME NEW i \in DOMAIN t PROVE Len(s) + i \in DOMAIN m /\ m[Len(s) + i] = t[i]
  <2>1. Len(s) + i \in DOMAIN m /\ Len(s) + i \notin DOMAIN s /\ Len(s) + i - Len(s) = i
    BY <1>1
  <2>2. m[Len(s) + i] = t[Len(s) + i - Len(s)]
    BY <1>3, <2>1
  <2> QED
    BY <2>1, <2>2
<1>5. Held(m) = Held(s) \cup Held(t)
  <2>1. ASSUME NEW e \in Held(m) PROVE e \in Held(s) \cup Held(t)
    <3>1. PICK i \in DOMAIN m : e \in m[i].svcs
      BY DEF Held
    <3>2. CASE i \in DOMAIN s
      BY <1>2, <3>1, <3>2 DEF Held
    <3>3. CASE i \notin DOMAIN s
      BY <1>3, <3>1, <3>3 DEF Held
    <3> QED
      BY <3>2, <3>3
  <2>2. ASSUME NEW e \in Held(s) PROVE e \in Held(m)
    <3>1. PICK i \in DOMAIN s : e \in s[i].svcs
      BY DEF Held
    <3> QED
      BY <1>2, <3>1 DEF Held
  <2>3. ASSUME NEW e \in Held(t) PROVE e \in Held(m)
    <3>1. PICK i \in DOMAIN t : e \in t[i].svcs
      BY DEF Held
    <3> QED
      BY <1>4, <3>1 DEF Held
  <2> QED
    BY <2>1, <2>2, <2>3
<1>6. ASSUME NEW i \in DOMAIN m, NEW j \in DOMAIN m, j \in DOMAIN s, i < j PROVE i \in DOMAIN s
  BY <1>1, <1>6
<1> QED
  BY <1>1, <1>2, <1>3, <1>5, <1>6

\* The entries of a queue with one batch more.
LEMMA HeldAppend ==
    ASSUME NEW s \in Seq(BatchStates), NEW b \in BatchStates
    PROVE  /\ Append(s, b) \in Seq(BatchStates) /\ DOMAIN Append(s, b) = 1 .. Len(s) + 1
           /\ \A i \in 1 .. Len(s) : Append(s, b)[i] = s[i]
           /\ Append(s, b)[Len(s) + 1] = b
           /\ Held(Append(s, b)) = Held(s) \cup b.svcs
<1>1. /\ Append(s, b) \in Seq(BatchStates) /\ DOMAIN Append(s, b) = 1 .. Len(s) + 1
      /\ \A i \in 1 .. Len(s) : Append(s, b)[i] = s[i]
      /\ Append(s, b)[Len(s) + 1] = b
      /\ Len(s) \in Nat /\ DOMAIN s = 1 .. Len(s)
  BY AppendProperties
<1>2. PICK m : m = Append(s, b)
  OBVIOUS
<1>3. Held(m) = Held(s) \cup b.svcs
  <2>1. ASSUME NEW e \in Held(m) PROVE e \in Held(s) \cup b.svcs
    <3>1. PICK i \in 1 .. Len(s) + 1 : e \in m[i].svcs
      BY <1>1, <1>2 DEF Held
    <3>2. CASE i = Len(s) + 1
      BY <1>1, <1>2, <3>1, <3>2
    <3>3. CASE i # Len(s) + 1
      <4>1. i \in DOMAIN s /\ m[i] = s[i]
        BY <1>1, <1>2, <3>3
      <4> QED
        BY <3>1, <4>1 DEF Held
    <3> QED
      BY <3>2, <3>3
  <2>2. ASSUME NEW e \in Held(s) PROVE e \in Held(m)
    <3>1. PICK i \in 1 .. Len(s) : e \in s[i].svcs
      BY <1>1 DEF Held
    <3>2. i \in DOMAIN m /\ m[i] = s[i]
      BY <1>1, <1>2
    <3> QED
      BY <3>1, <3>2 DEF Held
  <2>3. ASSUME NEW e \in b.svcs PROVE e \in Held(m)
    <3>1. Len(s) + 1 \in DOMAIN m /\ m[Len(s) + 1] = b
      BY <1>1, <1>2
    <3> QED
      BY <3>1 DEF Held
  <2> QED
    BY <2>1, <2>2, <2>3
<1> QED
  BY <1>1, <1>2, <1>3

UpTo(q, k) == SubSeq(q, 1, k)
After(q, k) == SubSeq(q, k + 1, Len(q))

\* A queue cut in two.
LEMMA SplitQueue ==
    ASSUME NEW q \in Seq(BatchStates), NEW k \in 0 .. Len(q), NEW s, s = UpTo(q, k), NEW t, t = After(q, k)
    PROVE  /\ s \in Seq(BatchStates) /\ Len(s) = k /\ DOMAIN s = 1 .. k
           /\ t \in Seq(BatchStates) /\ Len(t) = Len(q) - k /\ DOMAIN t = 1 .. Len(q) - k
           /\ \A i \in DOMAIN s : i \in DOMAIN q /\ s[i] = q[i]
           /\ \A i \in DOMAIN t : i + k \in DOMAIN q /\ t[i] = q[i + k]
           /\ Held(q) = Held(s) \cup Held(t)
<1>1. Len(q) \in Nat /\ k \in Nat /\ DOMAIN q = 1 .. Len(q) /\ \A i \in 1 .. Len(q) : q[i] \in BatchStates
  OBVIOUS
<1>2. s \in Seq(BatchStates) /\ Len(s) = k /\ DOMAIN s = 1 .. k
      /\ \A i \in DOMAIN s : i \in DOMAIN q /\ s[i] = q[i]
  <2>1. \A i \in 1 .. k : q[i] \in BatchStates
    BY <1>1
  <2>2. /\ s \in Seq(BatchStates) /\ Len(s) = IF 1 <= k THEN k - 1 + 1 ELSE 0
        /\ \A i \in 1 .. k - 1 + 1 : s[i] = q[1 + i - 1]
    BY <1>1, <2>1, SubSeqProperties DEF UpTo
  <2>3. Len(s) = k
    BY <1>1, <2>2
  <2>4. DOMAIN s = 1 .. k
    BY <2>2, <2>3
  <2>5. ASSUME NEW i \in DOMAIN s PROVE i \in DOMAIN q /\ s[i] = q[i]
    <3>1. i \in 1 .. k - 1 + 1 /\ 1 + i - 1 = i /\ i \in 1 .. Len(q)
      BY <1>1, <2>4
    <3>2. s[i] = q[1 + i - 1]
      BY <2>2, <3>1
    <3> QED
      BY <1>1, <3>1, <3>2
  <2> QED
    BY <2>2, <2>3, <2>4, <2>5
<1>3. t \in Seq(BatchStates) /\ Len(t) = Len(q) - k /\ DOMAIN t = 1 .. Len(q) - k
      /\ \A i \in DOMAIN t : i + k \in DOMAIN q /\ t[i] = q[i + k]
  <2>1. \A i \in k + 1 .. Len(q) : q[i] \in BatchStates
    BY <1>1
  <2>2. /\ t \in Seq(BatchStates) /\ Len(t) = IF k + 1 <= Len(q) THEN Len(q) - (k + 1) + 1 ELSE 0
        /\ \A i \in 1 .. Len(q) - (k + 1) + 1 : t[i] = q[k + 1 + i - 1]
    <3>1. k + 1 \in Int /\ Len(q) \in Int
      BY <1>1
    <3> QED
      BY <2>1, <3>1, SubSeqProperties DEF After
  <2>3. Len(t) = Len(q) - k
    <3>1. Len(t) = IF k + 1 <= Len(q) THEN Len(q) - (k + 1) + 1 ELSE 0
      BY <2>2
    <3>2. k \in Nat /\ Len(q) \in Nat /\ k <= Len(q)
      BY <1>1
    <3> QED
      BY <3>1, <3>2
  <2>4. DOMAIN t = 1 .. Len(q) - k
    BY <2>2, <2>3
  <2>5. ASSUME NEW i \in DOMAIN t PROVE i + k \in DOMAIN q /\ t[i] = q[i + k]
    <3>1. i \in 1 .. Len(q) - (k + 1) + 1 /\ k + 1 + i - 1 = i + k /\ i + k \in 1 .. Len(q)
      BY <1>1, <2>4
    <3>2. t[i] = q[k + 1 + i - 1]
      BY <2>2, <3>1
    <3> QED
      BY <1>1, <3>1, <3>2
  <2> QED
    BY <2>2, <2>3, <2>4, <2>5
<1>5. Held(q) = Held(s) \cup Held(t)
  <2>1. ASSUME NEW e \in Held(q) PROVE e \in Held(s) \cup Held(t)
    <3>1. PICK i \in 1 .. Len(q) : e \in q[i].svcs
      BY <1>1 DEF Held
    <3>2. CASE i <= k
      <4>1. i \in DOMAIN s /\ s[i] = q[i]
        BY <1>1, <1>2, <3>2
      <4> QED
        BY <3>1, <4>1 DEF Held
    <3>3. CASE ~ (i <= k)
      <4>1. PICK j \in 1 .. Len(q) - k : i = j + k
        <5>1. i - k \in 1 .. Len(q) - k /\ i = (i - k) + k
          BY <1>1, <3>3
        <5> QED
          BY <5>1
      <4>2. j \in DOMAIN t /\ t[j] = q[i]
        BY <1>3, <4>1
      <4> QED
        BY <3>1, <4>2 DEF Held
    <3> QED
      BY <3>2, <3>3
  <2>2. ASSUME NEW e \in Held(s) PROVE e \in Held(q)
    <3>1. PICK i \in DOMAIN s : e \in s[i].svcs
      BY DEF Held
    <3>2. i \in DOMAIN q /\ q[i] = s[i]
      BY <1>2
    <3> QED
      BY <3>1, <3>2 DEF Held
  <2>3. ASSUME NEW e \in Held(t) PROVE e \in Held(q)
    <3>1. PICK i \in DOMAIN t : e \in t[i].svcs
      BY DEF Held
    <3>2. i + k \in DOMAIN q /\ q[i + k] = t[i]
      BY <1>3
    <3> QED
      BY <3>1, <3>2 DEF Held
  <2> QED
    BY <2>1, <2>2, <2>3
<1> QED
  BY <1>2, <1>3, <1>5

\* Two parts without a service in common.
LEMMA ConcatApart ==
    ASSUME NEW s \in Seq(BatchStates), NEW t \in Seq(BatchStates), BatchesApart(s), BatchesApart(t),
           \A d \in Held(s), e \in Held(t) : d.id # e.id, NEW m, m = Joined(s, t)
    PROVE  BatchesApart(m)
<1>1. /\ \A i \in DOMAIN s : i \in DOMAIN m /\ m[i] = s[i]
      /\ \A i \in DOMAIN m : i \in DOMAIN s \/ (i - Len(s) \in DOMAIN t /\ m[i] = t[i - Len(s)])
  BY HeldConcat
<1>2. ASSUME NEW i \in DOMAIN m
      PROVE  \/ i \in DOMAIN s /\ m[i] = s[i] /\ m[i].svcs \subseteq Held(s)
             \/ i - Len(s) \in DOMAIN t /\ m[i] = t[i - Len(s)] /\ m[i].svcs \subseteq Held(t)
  BY <1>1 DEF Held
<1>3. ASSUME NEW i \in DOMAIN m, NEW j \in DOMAIN m, NEW d \in m[i].svcs, NEW e \in m[j].svcs, d.id = e.id
      PROVE  i = j
  <2>1. CASE i \in DOMAIN s /\ m[i] = s[i] /\ j \in DOMAIN s /\ m[j] = s[j]
    BY <1>3, <2>1 DEF BatchesApart
  <2>2. CASE i - Len(s) \in DOMAIN t /\ m[i] = t[i - Len(s)] /\ j - Len(s) \in DOMAIN t /\ m[j] = t[j - Len(s)]
    <3>1. i - Len(s) = j - Len(s)
      BY <1>3, <2>2 DEF BatchesApart
    <3>2. i \in Int /\ j \in Int /\ Len(s) \in Nat
      BY HeldConcat
    <3> QED
      BY <3>1, <3>2
  <2>3. ~ (d \in Held(s) /\ e \in Held(t)) /\ ~ (d \in Held(t) /\ e \in Held(s))
    BY <1>3
  <2> QED
    BY <1>2, <2>1, <2>2, <2>3
<1> QED
  BY <1>3 DEF BatchesApart

\* A part of an orderly queue is orderly, and has no service in common with the other part.
LEMMA PartsOrderly ==
    ASSUME NEW q, Orderly(q), NEW k \in 0 .. Len(q), NEW s, s = UpTo(q, k), NEW t, t = After(q, k)
    PROVE  /\ Orderly(s) /\ Orderly(t)
           /\ \A d \in Held(s), e \in Held(t) : d.id # e.id
<1> USE DEF Orderly
<1>1. /\ s \in Seq(BatchStates) /\ DOMAIN s = 1 .. k
      /\ t \in Seq(BatchStates) /\ DOMAIN t = 1 .. Len(q) - k
      /\ \A i \in DOMAIN s : i \in DOMAIN q /\ s[i] = q[i]
      /\ \A i \in DOMAIN t : i + k \in DOMAIN q /\ t[i] = q[i + k]
  BY SplitQueue
<1>2. DOMAIN q = 1 .. Len(q) /\ Len(q) \in Nat /\ k \in Nat
  OBVIOUS
<1>3. \A i \in DOMAIN s : i \in DOMAIN q /\ s[i] = q[i]
  BY <1>1
<1>4. \A i \in DOMAIN t : i + k \in DOMAIN q /\ t[i] = q[i + k]
  BY <1>1
<1>5. Orderly(s)
  <2>1. BatchesApart(s)
    <3> SUFFICES ASSUME NEW i \in DOMAIN s, NEW j \in DOMAIN s, NEW d \in s[i].svcs, NEW e \in s[j].svcs, d.id = e.id
                 PROVE  i = j
      BY DEF BatchesApart
    <3> QED
      BY <1>3 DEF BatchesApart
  <2>2. UrgentFirst(s)
    <3> SUFFICES ASSUME NEW i \in DOMAIN s, NEW j \in DOMAIN s, i < j, s[j].em
                 PROVE  /\ s[i].em
                        /\ \A d \in s[i].svcs, e \in s[j].svcs : OrderKey(d.id, "Stop", TRUE) < OrderKey(e.id, "Stop", TRUE)
      BY DEF UrgentFirst
    <3> QED
      BY <1>3 DEF UrgentFirst
  <2> QED
    BY <1>1, <2>1, <2>2
<1>6. BatchesApart(t)
  <2> SUFFICES ASSUME NEW i \in DOMAIN t, NEW j \in DOMAIN t, NEW d \in t[i].svcs, NEW e \in t[j].svcs, d.id = e.id
               PROVE  i = j
    BY DEF BatchesApart
  <2>1. i + k = j + k
    BY <1>4 DEF BatchesApart
  <2> QED
    BY <1>1, <1>2, <2>1
<1>7. UrgentFirst(t)
  <2> SUFFICES ASSUME NEW i \in DOMAIN t, NEW j \in DOMAIN t, i < j, t[j].em
               PROVE  /\ t[i].em
                      /\ \A d \in t[i].svcs, e \in t[j].svcs : OrderKey(d.id, "Stop", TRUE) < OrderKey(e.id, "Stop", TRUE)
    BY DEF UrgentFirst
  <2>1. i + k < j + k
    BY <1>1, <1>2
  <2>2. i + k \in DOMAIN q /\ j + k \in DOMAIN q /\ t[i] = q[i + k] /\ t[j] = q[j + k]
    BY <1>4
  <2> QED
    BY <2>1, <2>2 DEF UrgentFirst
<1>8. ASSUME NEW d \in Held(s), NEW e \in Held(t) PROVE d.id # e.id
  <2>1. PICK i \in DOMAIN s : d \in s[i].svcs
    BY DEF Held
  <2>2. PICK j \in DOMAIN t : e \in t[j].svcs
    BY DEF Held
  <2>3. i # j + k
    BY <1>1, <1>2
  <2> QED
    BY <1>3, <1>4, <2>1, <2>2, <2>3 DEF BatchesApart
<1> QED
  BY <1>1, <1>5, <1>6, <1>7, <1>8

\* An emergency joins the emergencies at the front of its queue.
LEMMA EmergencyMerged ==
    ASSUME NEW q, Orderly(q), NEW b \in BatchStates, b.em, \A d \in Held(q), e \in b.svcs : d.id # e.id,
           NEW m, m = mergeEmergencyBatch(q, b)
    PROVE  Orderly(m) /\ Held(m) = Held(q) \cup b.svcs
<1>1. q \in Seq(BatchStates) /\ Len(q) \in Nat /\ DOMAIN q = 1 .. Len(q) /\ \A i \in DOMAIN q : q[i] \in BatchStates
  BY DEF Orderly
<1> DEFINE Front(k) == (\A i \in 1 .. k : Alike(b, q[i])) /\ (k = Len(q) \/ ~ Alike(b, q[k + 1]))
           ends == {k \in 0 .. Len(q) : k = Len(q) \/ ~ Alike(b, q[k + 1])}
           end == CHOOSE k \in 0 .. Len(q) : Front(k)
<1>2. PICK n \in 0 .. Len(q) : n = end /\ Front(n)
  <2>1. ends \in SUBSET Nat /\ Len(q) \in ends
    BY <1>1
  <2>2. PICK k \in ends : \A j \in ends : k <= j
    <3> HIDE DEF ends
    <3> QED
      BY <2>1, LeastNumber
  <2>3. ASSUME NEW i \in 1 .. k PROVE Alike(b, q[i])
    <3>1. i - 1 \in 0 .. Len(q) /\ i - 1 \notin ends
      <4>1. k \in 0 .. Len(q)
        BY <2>2
      <4> HIDE DEF ends
      <4>2. i - 1 \in 0 .. Len(q) /\ ~ (k <= i - 1)
        BY <1>1, <4>1
      <4> QED
        BY <2>2, <4>2
    <3>2. i - 1 + 1 = i
      OBVIOUS
    <3> QED
      BY <3>1, <3>2
  <2>4. k \in 0 .. Len(q) /\ Front(k)
    BY <2>2, <2>3
  <2> HIDE DEF Front
  <2> QED
    BY <2>4
<1>3. PICK s : s = UpTo(q, n)
  OBVIOUS
<1>4. PICK t : t = After(q, n)
  OBVIOUS
<1>5. PICK r : r = MergeBatches(Append(s, b), b.ds, b.em)
  OBVIOUS
<1>6. m = Joined(r, t)
  BY <1>2, <1>3, <1>4, <1>5 DEF mergeEmergencyBatch, UpTo, After, Joined
<1>7. /\ Orderly(s) /\ Orderly(t) /\ \A d \in Held(s), e \in Held(t) : d.id # e.id
      /\ Held(q) = Held(s) \cup Held(t)
      /\ DOMAIN t = 1 .. Len(q) - n /\ \A i \in DOMAIN t : i + n \in DOMAIN q /\ t[i] = q[i + n]
      /\ t \in Seq(BatchStates) /\ s \in Seq(BatchStates) /\ Len(t) = Len(q) - n
  <2>1. n \in 0 .. Len(q) /\ q \in Seq(BatchStates)
    BY <1>1, <1>2
  <2>2. Orderly(s) /\ Orderly(t) /\ \A d \in Held(s), e \in Held(t) : d.id # e.id
    BY <1>3, <1>4, <2>1, PartsOrderly
  <2>3. /\ s \in Seq(BatchStates) /\ Len(s) = n /\ DOMAIN s = 1 .. n
        /\ t \in Seq(BatchStates) /\ Len(t) = Len(q) - n /\ DOMAIN t = 1 .. Len(q) - n
        /\ \A i \in DOMAIN t : i + n \in DOMAIN q /\ t[i] = q[i + n]
        /\ Held(q) = Held(s) \cup Held(t)
    BY <1>3, <1>4, <2>1, SplitQueue
  <2> QED
    BY <2>2, <2>3
<1>8. Append(s, b) \in Seq(BatchStates) /\ Held(Append(s, b)) = Held(s) \cup b.svcs
  BY <1>7, HeldAppend
<1>9. b.ds = "Stop" /\ b.em = TRUE /\ b.ds \in DesiredStates
  BY DEF BatchStates
<1>10. /\ r \in Seq(BatchStates)
       /\ \A i \in DOMAIN r : r[i].ds = b.ds /\ r[i].em = b.em
       /\ Held(r) = Held(s) \cup b.svcs
       /\ \A i, j \in DOMAIN r : \A d \in r[i].svcs, e \in r[j].svcs :
             /\ d.id = e.id => i = j
             /\ i < j => OrderKey(d.id, "Stop", TRUE) < OrderKey(e.id, "Stop", TRUE)
  <2>1. PICK a \in Seq(BatchStates) : a = Append(s, b)
    BY <1>8
  <2>2. PICK ds \in DesiredStates : ds = b.ds
    BY <1>9
  <2>3. PICK em \in BOOLEAN : em = b.em
    BY <1>9
  <2>4. r = MergeBatches(a, ds, em) /\ (em => ds = "Stop")
    BY <1>5, <1>9, <2>1, <2>2, <2>3
  <2>5. /\ r \in Seq(BatchStates)
        /\ \A i \in DOMAIN r : r[i].ds = ds /\ r[i].em = em
        /\ Held(r) = Held(a)
        /\ \A i, j \in DOMAIN r : \A d \in r[i].svcs, e \in r[j].svcs :
              /\ d.id = e.id => i = j
              /\ i < j => OrderKey(d.id, ds, em) < OrderKey(e.id, ds, em)
    BY <2>4, MergedBatches
  <2>6. ds = "Stop" /\ em = TRUE
    BY <1>9, <2>2, <2>3
  <2> QED
    BY <1>8, <1>9, <2>1, <2>5, <2>6
<1>11. m \in Seq(BatchStates) /\ Held(m) = Held(q) \cup b.svcs
  <2>1. m \in Seq(BatchStates) /\ Held(m) = Held(r) \cup Held(t)
    BY <1>6, <1>7, <1>10, HeldConcat
  <2> QED
    BY <1>7, <1>10, <2>1
<1>12. BatchesApart(m)
  <2>1. BatchesApart(r) /\ BatchesApart(t)
    <3>1. BatchesApart(r)
      BY <1>10 DEF BatchesApart
    <3> QED
      BY <1>7, <3>1 DEF Orderly
  <2>2. ASSUME NEW d \in Held(r), NEW e \in Held(t) PROVE d.id # e.id
    BY <1>7, <1>10
  <2> QED
    BY <1>6, <1>7, <1>10, <2>1, <2>2, ConcatApart
<1>13. \A i \in DOMAIN t : ~ t[i].em
  <2> SUFFICES ASSUME NEW i \in DOMAIN t, t[i].em PROVE FALSE
    OBVIOUS
  <2>1. 1 \in DOMAIN t /\ t[1] = q[n + 1] /\ n + 1 \in DOMAIN q /\ n # Len(q) /\ 1 + n = n + 1
    <3>1. n \in Nat /\ Len(q) \in Nat
      BY <1>1
    <3>0. i \in 1 .. Len(q) - n
      BY <1>7
    <3>2. 1 \in 1 .. Len(q) - n /\ n + 1 \in 1 .. Len(q) /\ n # Len(q)
      BY <3>0, <3>1
    <3>3. 1 \in DOMAIN t /\ 1 + n = n + 1
      BY <1>7, <3>1, <3>2
    <3>4. t[1] = q[1 + n]
      BY <1>7, <3>3
    <3> QED
      BY <3>2, <3>3, <3>4
  <2>2. ~ Alike(b, t[1])
    BY <1>2, <2>1
  <2>3. t[1].em
    <3>1. i = 1 \/ 1 < i
      BY <1>7
    <3> QED
      BY <1>7, <2>1, <3>1 DEF Orderly, UrgentFirst
  <2>4. t[1] \in BatchStates
    BY <1>1, <2>1
  <2>5. t[1].ds = "Stop" /\ t[1].em = TRUE
    BY <2>3, <2>4 DEF BatchStates
  <2> QED
    BY <1>9, <2>2, <2>5 DEF Alike
<1>14. UrgentFirst(m)
  <2>1. /\ \A i \in DOMAIN r : i \in DOMAIN m /\ m[i] = r[i]
        /\ \A i \in DOMAIN m : i \in DOMAIN r \/ (i - Len(r) \in DOMAIN t /\ m[i] = t[i - Len(r)])
        /\ \A i, j \in DOMAIN m : j \in DOMAIN r /\ i < j => i \in DOMAIN r
    BY <1>6, <1>7, <1>10, HeldConcat
  <2> SUFFICES ASSUME NEW i \in DOMAIN m, NEW j \in DOMAIN m, i < j, m[j].em
               PROVE  /\ m[i].em
                      /\ \A d \in m[i].svcs, e \in m[j].svcs : OrderKey(d.id, "Stop", TRUE) < OrderKey(e.id, "Stop", TRUE)
    BY DEF UrgentFirst
  <2>2. j \in DOMAIN r
    BY <1>13, <2>1
  <2>3. i \in DOMAIN r /\ m[i] = r[i] /\ m[j] = r[j]
    BY <2>1, <2>2
  <2> QED
    BY <1>9, <1>10, <2>2, <2>3
<1> QED
  BY <1>11, <1>12, <1>14 DEF Orderly

\* Any other batch joins the ones like it at the end of its queue.
LEMMA BatchMerged ==
    ASSUME NEW q, Orderly(q), NEW b \in BatchStates, ~ b.em, \A d \in Held(q), e \in b.svcs : d.id # e.id,
           NEW m, m = mergeBatch(q, b)
    PROVE  Orderly(m) /\ Held(m) = Held(q) \cup b.svcs
<1>1. q \in Seq(BatchStates) /\ Len(q) \in Nat /\ DOMAIN q = 1 .. Len(q) /\ \A i \in DOMAIN q : q[i] \in BatchStates
  BY DEF Orderly
<1> DEFINE Back(k) == (\A i \in k + 1 .. Len(q) : Alike(b, q[i])) /\ (k = 0 \/ ~ Alike(b, q[k]))
           backs == {k \in 0 .. Len(q) : \A i \in k + 1 .. Len(q) : Alike(b, q[i])}
           end == CHOOSE k \in 0 .. Len(q) : Back(k)
<1>2. PICK n \in 0 .. Len(q) : n = end /\ Back(n)
  <2>1. backs \in SUBSET Nat /\ Len(q) \in backs
    BY <1>1
  <2>2. PICK k \in backs : \A j \in backs : k <= j
    <3> HIDE DEF backs
    <3> QED
      BY <2>1, LeastNumber
  <2>3. ASSUME k # 0, Alike(b, q[k]) PROVE FALSE
    <3>1. k - 1 \in 0 .. Len(q) /\ k \in 1 .. Len(q)
      BY <1>1, <2>3
    <3>2. \A i \in k - 1 + 1 .. Len(q) : i = k \/ i \in k + 1 .. Len(q)
      BY <1>1, <3>1
    <3>3. k - 1 \in backs
      BY <2>2, <2>3, <3>1, <3>2
    <3>4. k <= k - 1
      BY <2>2, <3>3
    <3> QED
      BY <3>1, <3>4
  <2>4. k \in 0 .. Len(q) /\ Back(k)
    BY <2>2, <2>3
  <2> HIDE DEF Back
  <2> QED
    BY <2>4
<1>3. PICK s : s = UpTo(q, n)
  OBVIOUS
<1>4. PICK t : t = After(q, n)
  OBVIOUS
<1>5. PICK r : r = MergeBatches(Append(t, b), b.ds, b.em)
  OBVIOUS
<1>6. m = Joined(s, r)
  BY <1>2, <1>3, <1>4, <1>5 DEF mergeBatch, UpTo, After, Joined
<1>7. /\ Orderly(s) /\ Orderly(t) /\ \A d \in Held(s), e \in Held(t) : d.id # e.id
      /\ Held(q) = Held(s) \cup Held(t)
      /\ t \in Seq(BatchStates) /\ s \in Seq(BatchStates)
  <2>1. n \in 0 .. Len(q) /\ q \in Seq(BatchStates)
    BY <1>1, <1>2
  <2>2. Orderly(s) /\ Orderly(t) /\ \A d \in Held(s), e \in Held(t) : d.id # e.id
    BY <1>3, <1>4, <2>1, PartsOrderly
  <2>3. /\ s \in Seq(BatchStates) /\ Len(s) = n /\ DOMAIN s = 1 .. n
        /\ t \in Seq(BatchStates) /\ Len(t) = Len(q) - n /\ DOMAIN t = 1 .. Len(q) - n
        /\ \A i \in DOMAIN t : i + n \in DOMAIN q /\ t[i] = q[i + n]
        /\ Held(q) = Held(s) \cup Held(t)
    BY <1>3, <1>4, <2>1, SplitQueue
  <2> QED
    BY <2>2, <2>3
<1>8. Append(t, b) \in Seq(BatchStates) /\ Held(Append(t, b)) = Held(t) \cup b.svcs
  BY <1>7, HeldAppend
<1>9. b.em = FALSE /\ b.ds \in DesiredStates
  BY DEF BatchStates
<1>10. /\ r \in Seq(BatchStates)
       /\ \A i \in DOMAIN r : r[i].ds = b.ds /\ r[i].em = b.em
       /\ Held(r) = Held(t) \cup b.svcs
       /\ \A i, j \in DOMAIN r : \A d \in r[i].svcs, e \in r[j].svcs : d.id = e.id => i = j
  <2>1. PICK a \in Seq(BatchStates) : a = Append(t, b)
    BY <1>8
  <2>2. PICK ds \in DesiredStates : ds = b.ds
    BY <1>9
  <2>3. PICK em \in BOOLEAN : em = b.em
    BY <1>9
  <2>4. r = MergeBatches(a, ds, em) /\ (em => ds = "Stop")
    BY <1>5, <1>9, <2>1, <2>2, <2>3
  <2>5. /\ r \in Seq(BatchStates)
        /\ \A i \in DOMAIN r : r[i].ds = ds /\ r[i].em = em
        /\ Held(r) = Held(a)
        /\ \A i, j \in DOMAIN r : \A d \in r[i].svcs, e \in r[j].svcs : d.id = e.id => i = j
    BY <2>4, MergedBatches
  <2> QED
    BY <1>8, <2>1, <2>2, <2>3, <2>5
<1>11. m \in Seq(BatchStates) /\ Held(m) = Held(q) \cup b.svcs
  <2>1. m \in Seq(BatchStates) /\ Held(m) = Held(s) \cup Held(r)
    BY <1>6, <1>7, <1>10, HeldConcat
  <2> QED
    BY <1>7, <1>10, <2>1
<1>12. BatchesApart(m)
  <2>1. BatchesApart(r) /\ BatchesApart(s)
    <3>1. BatchesApart(r)
      BY <1>10 DEF BatchesApart
    <3> QED
      BY <1>7, <3>1 DEF Orderly
  <2>2. ASSUME NEW d \in Held(s), NEW e \in Held(r) PROVE d.id # e.id
    BY <1>7, <1>10
  <2> QED
    BY <1>6, <1>7, <1>10, <2>1, <2>2, ConcatApart
<1>13. UrgentFirst(m)
  <2>1. /\ \A i \in DOMAIN s : i \in DOMAIN m /\ m[i] = s[i]
        /\ \A i \in DOMAIN m : i \in DOMAIN s \/ (i - Len(s) \in DOMAIN r /\ m[i] = r[i - Len(s)])
        /\ \A i, j \in DOMAIN m : j \in DOMAIN s /\ i < j => i \in DOMAIN s
    BY <1>6, <1>7, <1>10, HeldConcat
  <2> SUFFICES ASSUME NEW i \in DOMAIN m, NEW j \in DOMAIN m, i < j, m[j].em
               PROVE  /\ m[i].em
                      /\ \A d \in m[i].svcs, e \in m[j].svcs : OrderKey(d.id, "Stop", TRUE) < OrderKey(e.id, "Stop", TRUE)
    BY DEF UrgentFirst
  <2>2. j \in DOMAIN s
    BY <1>9, <1>10, <2>1
  <2>3. i \in DOMAIN s /\ m[i] = s[i] /\ m[j] = s[j]
    BY <2>1, <2>2
  <2> QED
    BY <1>7, <2>2, <2>3 DEF Orderly, UrgentFirst
<1> QED
  BY <1>11, <1>12, <1>13 DEF Orderly


-----------------------------------------------------------------------------
\* What a reconciliation works on.
Accs == [new : BatchStates, kept : Seq(BatchStates), fast : SUBSET Entries, shut : SUBSET Entries,
         again : SUBSET Services]

\* The first n steps of the reconciliation with a queue, from z on.
StepsOf(g, z, q, n) ==
    /\ g = [i \in 0 .. n |-> g[i]]
    /\ g[0] = z
    /\ \A i \in 1 .. n : g[i] = reconcile(g[i - 1], q[i])

\* The recursive function of reconcileWithBatchQueue is defined.
LEMMA QueueSteps ==
    ASSUME NEW acc, NEW z, z = [acc EXCEPT !.kept = <<>>], NEW q \in Seq(BatchStates)
    PROVE  \E g : StepsOf(g, z, q, Len(q)) /\ reconcileWithBatchQueue(acc, q) = g[Len(q)]
<1> DEFINE bad == {n \in 0 .. Len(q) : ~ \E g : StepsOf(g, z, q, n)}
<1>0. Len(q) \in Nat
  OBVIOUS
<1>1. bad = {}
  <2> SUFFICES ASSUME bad # {} PROVE FALSE
    OBVIOUS
  <2>1. bad \in SUBSET Nat
    BY <1>0
  <2>2. PICK k \in bad : \A j \in bad : k <= j
    <3> HIDE DEF bad
    <3> QED
      BY <2>1, LeastNumber
  <2>3. k \in Nat /\ k <= Len(q) /\ ~ \E g : StepsOf(g, z, q, k)
    BY <1>0, <2>2
  <2>4. CASE k = 0
    <3>1. PICK g : g = [i \in 0 .. 0 |-> z]
      OBVIOUS
    <3>2. g = [i \in 0 .. 0 |-> g[i]] /\ g[0] = z /\ \A i \in 1 .. 0 : FALSE
      BY <3>1
    <3> QED
      BY <2>3, <2>4, <3>2 DEF StepsOf
  <2>5. CASE k # 0
    <3>1. k - 1 \in 0 .. Len(q) /\ k - 1 \notin bad
      <4>1. k - 1 \in 0 .. Len(q) /\ ~ (k <= k - 1)
        BY <1>0, <2>3, <2>5
      <4> HIDE DEF bad
      <4> QED
        BY <2>2, <4>1
    <3>2. PICK g : StepsOf(g, z, q, k - 1)
      BY <3>1
    <3>3. PICK h : h = [i \in 0 .. k |-> IF i = k THEN reconcile(g[k - 1], q[k]) ELSE g[i]]
      OBVIOUS
    <3>4. /\ h = [i \in 0 .. k |-> h[i]]
          /\ h[k] = reconcile(g[k - 1], q[k])
          /\ \A i \in 0 .. k : i # k => h[i] = g[i]
      BY <2>3, <3>3
    <3>5. h[0] = z
      <4>1. 0 \in 0 .. k /\ g[0] = z
        BY <2>3, <3>2 DEF StepsOf
      <4> QED
        BY <2>5, <3>4, <4>1
    <3>6. ASSUME NEW i \in 1 .. k PROVE h[i] = reconcile(h[i - 1], q[i])
      <4>1. i - 1 \in 0 .. k /\ i - 1 # k /\ h[i - 1] = g[i - 1]
        BY <2>3, <3>4
      <4>2. CASE i = k
        BY <3>4, <4>1, <4>2
      <4>3. CASE i # k
        <5>1. i \in 1 .. k - 1 /\ i \in 0 .. k
          BY <2>3, <4>3
        <5>2. h[i] = g[i] /\ g[i] = reconcile(g[i - 1], q[i])
          BY <3>2, <3>4, <4>3, <5>1 DEF StepsOf
        <5> QED
          BY <4>1, <5>2
      <4> QED
        BY <4>2, <4>3
    <3>7. StepsOf(h, z, q, k)
      BY <3>4, <3>5, <3>6 DEF StepsOf
    <3> QED
      BY <2>3, <3>7
  <2> QED
    BY <2>4, <2>5
<1>2. PICK n \in 0 .. Len(q) : n = Len(q)
  BY <1>0
<1>3. PICK f : StepsOf(f, z, q, n)
  BY <1>1
<1> DEFINE Is(g) == g = [i \in 0 .. Len(q) |->
                           IF i = 0 THEN [acc EXCEPT !.kept = <<>>] ELSE reconcile(g[i - 1], q[i])]
           fold == CHOOSE g : Is(g)
<1>4. Is(f)
  <2>1. ASSUME NEW i \in 0 .. n
        PROVE  f[i] = IF i = 0 THEN [acc EXCEPT !.kept = <<>>] ELSE reconcile(f[i - 1], q[i])
    <3>1. CASE i = 0
      BY <1>3, <3>1 DEF StepsOf
    <3>2. CASE i # 0
      <4>1. i \in 1 .. n
        BY <1>0, <1>2, <3>2
      <4> QED
        BY <1>3, <3>2, <4>1 DEF StepsOf
    <3> QED
      BY <3>1, <3>2
  <2>2. f = [i \in 0 .. n |-> f[i]]
    BY <1>3 DEF StepsOf
  <2> QED
    BY <1>2, <2>1, <2>2
<1>5. PICK g : g = fold /\ Is(g)
  <2> HIDE DEF Is
  <2> QED
    BY <1>4
<1>6. reconcileWithBatchQueue(acc, q) = fold[Len(q)]
  BY DEF reconcileWithBatchQueue
<1>7. reconcileWithBatchQueue(acc, q) = g[Len(q)]
  <2> HIDE DEF fold
  <2> QED
    BY <1>5, <1>6
<1>8. StepsOf(g, z, q, n)
  <2>0. g = [i \in 0 .. n |-> IF i = 0 THEN [acc EXCEPT !.kept = <<>>] ELSE reconcile(g[i - 1], q[i])]
    BY <1>2, <1>5
  <2>1. g = [i \in 0 .. n |-> IF i = 0 THEN z ELSE reconcile(g[i - 1], q[i])]
    BY <2>0
  <2>2. g = [i \in 0 .. n |-> g[i]]
    BY <2>1
  <2>3. \A i \in 0 .. n : g[i] = IF i = 0 THEN z ELSE reconcile(g[i - 1], q[i])
    BY <2>1
  <2>4. g[0] = z
    BY <1>0, <1>2, <2>3
  <2>5. ASSUME NEW i \in 1 .. n PROVE g[i] = reconcile(g[i - 1], q[i])
    <3>1. i \in 0 .. n /\ i # 0
      BY <1>0, <1>2
    <3> QED
      BY <2>3, <3>1
  <2> QED
    BY <2>2, <2>4, <2>5 DEF StepsOf
<1> QED
  BY <1>2, <1>7, <1>8

\* What c, the outcome of reconciling a with the batch b, has to do with a and b.
TakenIn(a, b, c) ==
    /\ c \in Accs
    /\ Alike(c.new, a.new) /\ c.new.svcs \subseteq a.new.svcs
    /\ a.fast \subseteq c.fast /\ a.shut \subseteq c.shut
    /\ \/ c.kept = a.kept /\ b.svcs \subseteq c.fast \cup c.shut
       \/ \E k \in BatchStates :
             /\ c.kept = Append(a.kept, k)
             /\ Alike(k, b) /\ k.svcs \subseteq b.svcs
             /\ b.svcs \subseteq c.fast \cup c.shut \cup k.svcs
             /\ \A d \in k.svcs, e \in c.new.svcs : d.id # e.id

\* One batch: what it held is kept, expedited or closed, and what is kept is not in the new batch.
LEMMA OneReconciled ==
    ASSUME NEW a \in Accs, NEW b \in BatchStates, NEW c, c = reconcile(a, b)
    PROVE  TakenIn(a, b, c)
<1>1. PICK shared : shared = Ids(a.new.svcs) \cap Ids(b.svcs)
  OBVIOUS
<1>2. PICK v : v = Verdict(b, a.new)
  OBVIOUS
<1>3. PICK old : old = {e \in b.svcs : e.id \in shared}
  OBVIOUS
<1>4. PICK newer : newer = {e \in a.new.svcs : e.id \in shared}
  OBVIOUS
<1>5. PICK remains : remains = IF v = "drop new" THEN b.svcs ELSE b.svcs \ old
  OBVIOUS
<1>6. PICK rest : rest = IF v = "replace" THEN a.new.svcs ELSE a.new.svcs \ newer
  OBVIOUS
<1>7. PICK kept : kept = IF remains = {} THEN a.kept ELSE Append(a.kept, [b EXCEPT !.svcs = remains])
  OBVIOUS
<1>8. PICK fast : fast = a.fast \cup (IF v = "expedite" THEN old ELSE {})
  OBVIOUS
<1>9. PICK shut : shut = a.shut \cup (IF v \in {"replace", "cancel"} THEN old ELSE {})
                            \cup (IF v \in {"drop new", "expedite"} THEN newer ELSE {})
  OBVIOUS
<1>10. PICK resynced : resynced = a.again \cup (IF v = "cancel" THEN shared ELSE {})
  OBVIOUS
<1>11. PICK new : new = [a.new EXCEPT !.svcs = rest]
  OBVIOUS
<1>12. c = [new |-> new, kept |-> kept, fast |-> fast, shut |-> shut, again |-> resynced]
  <2>1. [a.new EXCEPT !.svcs = IF v = "replace" THEN @ ELSE @ \ newer] = new
    BY <1>6, <1>11
  <2> QED
    BY <1>1, <1>2, <1>3, <1>4, <1>5, <1>7, <1>8, <1>9, <1>10, <2>1 DEF reconcile
<1>13. v \in {"drop new", "replace", "expedite", "cancel"}
  BY <1>2 DEF Verdict
<1>14. /\ a.new \in BatchStates /\ a.kept \in Seq(BatchStates) /\ a.fast \in SUBSET Entries
       /\ a.shut \in SUBSET Entries /\ a.again \in SUBSET Services
  BY DEF Accs
<1>15. /\ a.new.svcs \in SUBSET Entries /\ a.new.ds \in DesiredStates /\ a.new.em \in BOOLEAN
       /\ (a.new.em => a.new.ds = "Stop")
       /\ b.svcs \in SUBSET Entries /\ b.ds \in DesiredStates /\ b.em \in BOOLEAN
       /\ (b.em => b.ds = "Stop")
       /\ a.new = [svcs |-> a.new.svcs, ds |-> a.new.ds, em |-> a.new.em]
       /\ b = [svcs |-> b.svcs, ds |-> b.ds, em |-> b.em]
  BY <1>14 DEF BatchStates
<1>16. shared \in SUBSET Services /\ old \in SUBSET Entries /\ newer \in SUBSET Entries
       /\ remains \in SUBSET Entries /\ rest \in SUBSET Entries
       /\ rest \subseteq a.new.svcs /\ remains \subseteq b.svcs
  BY <1>1, <1>3, <1>4, <1>5, <1>6, <1>15 DEF Ids, Entries
<1>17. new = [svcs |-> rest, ds |-> a.new.ds, em |-> a.new.em]
  BY <1>11, <1>15
<1>18. new \in BatchStates /\ new.svcs = rest /\ Alike(new, a.new)
  <2>1. PICK ds \in DesiredStates, em \in BOOLEAN : ds = a.new.ds /\ em = a.new.em /\ (em => ds = "Stop")
    BY <1>15
  <2>2. new = [svcs |-> rest, ds |-> ds, em |-> em]
    BY <1>17, <2>1
  <2>3. new.svcs = rest /\ new.ds = ds
    BY <2>2
  <2>4. new.em = em
    BY <2>2
  <2>5. new \in [svcs : SUBSET Entries, ds : DesiredStates, em : BOOLEAN]
    BY <1>16, <2>2
  <2> QED
    BY <2>1, <2>3, <2>4, <2>5 DEF BatchStates, Alike
<1>19. PICK k : k = [b EXCEPT !.svcs = remains]
  OBVIOUS
<1>20. k \in BatchStates /\ k.svcs = remains /\ Alike(k, b)
  <2>1. PICK ds \in DesiredStates, em \in BOOLEAN : ds = b.ds /\ em = b.em /\ (em => ds = "Stop")
    BY <1>15
  <2>2. k = [svcs |-> remains, ds |-> ds, em |-> em]
    BY <1>15, <1>19, <2>1
  <2>3. k.svcs = remains /\ k.ds = ds
    BY <2>2
  <2>4. k.em = em
    BY <2>2
  <2>5. k \in [svcs : SUBSET Entries, ds : DesiredStates, em : BOOLEAN]
    BY <1>16, <2>2
  <2> QED
    BY <2>1, <2>3, <2>4, <2>5 DEF BatchStates, Alike
<1>21. kept = IF remains = {} THEN a.kept ELSE Append(a.kept, k)
  BY <1>7, <1>19
<1>22. kept \in Seq(BatchStates)
  BY <1>14, <1>20, <1>21, AppendProperties
<1>23. /\ fast \in SUBSET Entries /\ shut \in SUBSET Entries /\ resynced \in SUBSET Services
       /\ a.fast \subseteq fast /\ a.shut \subseteq shut
  BY <1>8, <1>9, <1>10, <1>14, <1>16
<1>24. c.new = new /\ c.kept = kept /\ c.fast = fast /\ c.shut = shut /\ c \in Accs
  BY <1>12, <1>18, <1>22, <1>23 DEF Accs
<1>25. b.svcs \subseteq fast \cup shut \cup remains
  BY <1>3, <1>5, <1>8, <1>9, <1>13
<1>26. ASSUME NEW d \in remains, NEW e \in rest PROVE d.id # e.id
  <2> SUFFICES ASSUME d.id = e.id PROVE FALSE
    OBVIOUS
  <2>1. d \in b.svcs /\ e \in a.new.svcs
    BY <1>16
  <2>2. d.id \in shared
    BY <1>1, <2>1 DEF Ids
  <2>3. d \in old /\ e \in newer
    BY <1>3, <1>4, <2>1, <2>2
  <2> QED
    BY <1>5, <1>6, <2>3
<1>27. \/ kept = a.kept /\ b.svcs \subseteq fast \cup shut
       \/ /\ kept = Append(a.kept, k)
          /\ Alike(k, b) /\ k.svcs \subseteq b.svcs
          /\ b.svcs \subseteq fast \cup shut \cup k.svcs
          /\ \A d \in k.svcs, e \in rest : d.id # e.id
  <2>1. CASE remains = {}
    BY <1>21, <1>25, <2>1
  <2>2. CASE remains # {}
    BY <1>16, <1>20, <1>21, <1>25, <1>26, <2>2
  <2> QED
    BY <2>1, <2>2
<1> QED
  BY <1>16, <1>18, <1>20, <1>23, <1>24, <1>27 DEF TakenIn

\* What c, the outcome of reconciling a with the first i batches of q, has to do with a and q.
Narrowed(a, c) ==
    /\ c \in Accs /\ Alike(c.new, a.new) /\ c.new.svcs \subseteq a.new.svcs
    /\ a.fast \subseteq c.fast /\ a.shut \subseteq c.shut
Reconciled(a, q, i, c) ==
    /\ Narrowed(a, c)
    /\ Orderly(c.kept)
    /\ \A k \in DOMAIN c.kept : \E j \in DOMAIN q :
          j <= i /\ Alike(c.kept[k], q[j]) /\ c.kept[k].svcs \subseteq q[j].svcs
    /\ \A d \in Held(c.kept), e \in c.new.svcs : d.id # e.id
    /\ \A j \in DOMAIN q : j <= i => q[j].svcs \subseteq c.fast \cup c.shut \cup Held(c.kept)

\* Reconciling only takes services from the new batch, however often.
LEMMA NarrowedTwice ==
    ASSUME NEW a, NEW b, NEW c, Narrowed(a, b), Narrowed(b, c)
    PROVE  Narrowed(a, c)
BY DEF Narrowed, Alike

\* One more batch of the queue.
LEMMA NextReconciled ==
    ASSUME NEW a, NEW q, Orderly(q), NEW i \in DOMAIN q, NEW b, Reconciled(a, q, i - 1, b),
           NEW c, c = reconcile(b, q[i])
    PROVE  Reconciled(a, q, i, c)
<1>0. /\ q \in Seq(BatchStates) /\ Len(q) \in Nat /\ DOMAIN q = 1 .. Len(q) /\ i \in Nat
      /\ \A j \in DOMAIN q : j \in Nat /\ q[j] \in BatchStates
  BY DEF Orderly
<1>1. b \in Accs /\ Narrowed(a, b) /\ Orderly(b.kept) /\ b.kept \in Seq(BatchStates)
  BY DEF Reconciled, Narrowed, Orderly
<1>2. PICK p \in BatchStates : p = q[i]
  BY <1>0
<1>3. /\ c \in Accs
      /\ Alike(c.new, b.new) /\ c.new.svcs \subseteq b.new.svcs
      /\ b.fast \subseteq c.fast /\ b.shut \subseteq c.shut
      /\ \/ c.kept = b.kept /\ p.svcs \subseteq c.fast \cup c.shut
         \/ \E k \in BatchStates :
               /\ c.kept = Append(b.kept, k)
               /\ Alike(k, p) /\ k.svcs \subseteq p.svcs
               /\ p.svcs \subseteq c.fast \cup c.shut \cup k.svcs
               /\ \A d \in k.svcs, e \in c.new.svcs : d.id # e.id
  <2>1. b \in Accs /\ p \in BatchStates /\ c = reconcile(b, p)
    BY <1>1, <1>2
  <2>2. TakenIn(b, p, c)
    BY <2>1, OneReconciled
  <2> QED
    BY <2>2 DEF TakenIn
<1>4. Narrowed(a, c)
  BY <1>1, <1>3, NarrowedTwice DEF Narrowed
<1>5. \A k \in DOMAIN b.kept : \E j \in DOMAIN q :
          j <= i - 1 /\ Alike(b.kept[k], q[j]) /\ b.kept[k].svcs \subseteq q[j].svcs
  BY DEF Reconciled
<1>6. \A d \in Held(b.kept), e \in c.new.svcs : d.id # e.id
  BY <1>3 DEF Reconciled
<1>7. \A j \in DOMAIN q : j <= i - 1 => q[j].svcs \subseteq b.fast \cup b.shut \cup Held(b.kept)
  BY DEF Reconciled
<1>8. \A j \in DOMAIN q : (j <= i - 1 => j <= i /\ j # i) /\ (j <= i => j <= i - 1 \/ j = i)
  BY <1>0
<1>9. CASE c.kept = b.kept /\ p.svcs \subseteq c.fast \cup c.shut
  <2>1. \A k \in DOMAIN c.kept : \E j \in DOMAIN q :
           j <= i /\ Alike(c.kept[k], q[j]) /\ c.kept[k].svcs \subseteq q[j].svcs
    BY <1>5, <1>8, <1>9
  <2>2. ASSUME NEW j \in DOMAIN q, j <= i PROVE q[j].svcs \subseteq c.fast \cup c.shut \cup Held(c.kept)
    <3>1. CASE j = i
      BY <1>2, <1>9, <3>1
    <3>2. CASE j <= i - 1
      BY <1>3, <1>7, <1>9, <3>2
    <3> QED
      BY <1>8, <2>2, <3>1, <3>2
  <2> QED
    BY <1>1, <1>4, <1>6, <1>9, <2>1, <2>2 DEF Reconciled
<1>10. ASSUME NEW k \in BatchStates, c.kept = Append(b.kept, k), Alike(k, p), k.svcs \subseteq p.svcs,
              p.svcs \subseteq c.fast \cup c.shut \cup k.svcs,
              \A d \in k.svcs, e \in c.new.svcs : d.id # e.id
       PROVE  Reconciled(a, q, i, c)
  <2>1. PICK s \in Seq(BatchStates) : s = c.kept
    BY <1>3 DEF Accs
  <2>2. PICK l \in Nat : l = Len(b.kept)
    BY <1>1
  <2>3. /\ DOMAIN s = 1 .. l + 1 /\ s[l + 1] = k /\ DOMAIN b.kept = 1 .. l
        /\ \A n \in 1 .. l : s[n] = b.kept[n]
        /\ Held(s) = Held(b.kept) \cup k.svcs
    BY <1>1, <1>10, <2>1, <2>2, HeldAppend
  <2>4. \A n \in DOMAIN s : n = l + 1 \/ n \in 1 .. l
    BY <2>3
  <2>5. \A n \in 1 .. l : \E j \in DOMAIN q : j <= i - 1 /\ Alike(s[n], q[j]) /\ s[n].svcs \subseteq q[j].svcs
    BY <1>5, <2>3
  <2>6. \A n \in DOMAIN s : \E j \in DOMAIN q : j <= i /\ Alike(s[n], q[j]) /\ s[n].svcs \subseteq q[j].svcs
    <3> SUFFICES ASSUME NEW n \in DOMAIN s
                 PROVE  \E j \in DOMAIN q : j <= i /\ Alike(s[n], q[j]) /\ s[n].svcs \subseteq q[j].svcs
      OBVIOUS
    <3>1. CASE n = l + 1
      <4>1. i <= i /\ Alike(s[n], q[i]) /\ s[n].svcs \subseteq q[i].svcs
        BY <1>0, <1>2, <1>10, <2>3, <3>1
      <4> QED
        BY <4>1
    <3>2. CASE n \in 1 .. l
      BY <1>8, <2>5, <3>2
    <3> QED
      BY <2>4, <3>1, <3>2
  <2>7. ASSUME NEW d \in Held(s), NEW e \in c.new.svcs PROVE d.id # e.id
    BY <1>6, <1>10, <2>3
  <2>8. ASSUME NEW j \in DOMAIN q, j <= i PROVE q[j].svcs \subseteq c.fast \cup c.shut \cup Held(s)
    <3>1. CASE j = i
      BY <1>2, <1>10, <2>3, <3>1
    <3>2. CASE j <= i - 1
      BY <1>3, <1>7, <2>3, <3>2
    <3> QED
      BY <1>8, <2>8, <3>1, <3>2
  <2>9. ASSUME NEW n \in 1 .. l, NEW d \in s[n].svcs, NEW e \in k.svcs PROVE d.id # e.id
    <3>1. PICK j \in DOMAIN q : j <= i - 1 /\ s[n].svcs \subseteq q[j].svcs
      BY <2>5
    <3>2. j # i /\ d \in q[j].svcs /\ e \in q[i].svcs
      BY <1>2, <1>8, <1>10, <2>9, <3>1
    <3> QED
      BY <3>2 DEF Orderly, BatchesApart
  <2>10. BatchesApart(s)
    <3> SUFFICES ASSUME NEW m \in DOMAIN s, NEW n \in DOMAIN s, NEW d \in s[m].svcs, NEW e \in s[n].svcs, d.id = e.id
                 PROVE  m = n
      BY DEF BatchesApart
    <3>1. CASE m \in 1 .. l /\ n \in 1 .. l
      <4>1. d \in b.kept[m].svcs /\ e \in b.kept[n].svcs /\ m \in DOMAIN b.kept /\ n \in DOMAIN b.kept
        BY <2>3, <3>1
      <4> QED
        BY <1>1, <4>1 DEF Orderly, BatchesApart
    <3>2. CASE m \in 1 .. l /\ n = l + 1
      BY <2>3, <2>9, <3>2
    <3>3. CASE m = l + 1 /\ n \in 1 .. l
      BY <2>3, <2>9, <3>3
    <3>4. CASE m = l + 1 /\ n = l + 1
      BY <3>4
    <3> QED
      BY <2>4, <3>1, <3>2, <3>3, <3>4
  <2>11. UrgentFirst(s)
    <3> SUFFICES ASSUME NEW m \in DOMAIN s, NEW n \in DOMAIN s, m < n, s[n].em
                 PROVE  /\ s[m].em
                        /\ \A d \in s[m].svcs, e \in s[n].svcs : OrderKey(d.id, "Stop", TRUE) < OrderKey(e.id, "Stop", TRUE)
      BY DEF UrgentFirst
    <3>0. m \in 1 .. l
      BY <2>3
    <3>1. CASE n \in 1 .. l
      <4>1. /\ m \in DOMAIN b.kept /\ n \in DOMAIN b.kept /\ s[m] = b.kept[m] /\ s[n] = b.kept[n]
        BY <2>3, <3>0, <3>1
      <4> QED
        BY <1>1, <4>1 DEF Orderly, UrgentFirst
    <3>2. CASE n = l + 1
      <4>1. PICK j \in DOMAIN q : j <= i - 1 /\ Alike(s[m], q[j]) /\ s[m].svcs \subseteq q[j].svcs
        BY <2>5, <3>0
      <4>2. j < i
        BY <1>0, <4>1
      <4>3. q[i].em /\ s[n].svcs \subseteq q[i].svcs
        BY <1>2, <1>10, <2>3, <3>2 DEF Alike
      <4>4. q[j].em /\ \A d \in q[j].svcs, e \in q[i].svcs : OrderKey(d.id, "Stop", TRUE) < OrderKey(e.id, "Stop", TRUE)
        BY <4>2, <4>3 DEF Orderly, UrgentFirst
      <4>5. s[m].em = q[j].em
        BY <4>1 DEF Alike
      <4> QED
        BY <4>1, <4>3, <4>4, <4>5
    <3> QED
      BY <2>4, <3>1, <3>2
  <2> QED
    BY <1>4, <2>1, <2>6, <2>7, <2>8, <2>10, <2>11 DEF Reconciled, Orderly
<1> QED
  BY <1>3, <1>9, <1>10

\* What c, the outcome of reconciling a with the queue q, has to do with a and q.
QueueTakenIn(a, q, c) ==
    /\ Narrowed(a, c) /\ Orderly(c.kept)
    /\ \A d \in Held(c.kept), e \in c.new.svcs : d.id # e.id
    /\ Held(c.kept) \subseteq Held(q)
    /\ Held(q) \subseteq c.fast \cup c.shut \cup Held(c.kept)

\* All of the queue: it stays orderly, shares no service with what is left of the new batch,
\* and what it has lost is expedited or closed.
LEMMA QueueReconciled ==
    ASSUME NEW a \in Accs, NEW q, Orderly(q), NEW c, c = reconcileWithBatchQueue(a, q)
    PROVE  QueueTakenIn(a, q, c)
<1>0. q \in Seq(BatchStates) /\ Len(q) \in Nat /\ DOMAIN q = 1 .. Len(q)
  BY DEF Orderly
<1>1. PICK z : z = [a EXCEPT !.kept = <<>>]
  OBVIOUS
<1>2. PICK g : StepsOf(g, z, q, Len(q)) /\ c = g[Len(q)]
  BY <1>0, <1>1, QueueSteps
<1>3. Reconciled(a, q, 0, z)
  <2>1. a = [new |-> a.new, kept |-> a.kept, fast |-> a.fast, shut |-> a.shut, again |-> a.again]
        /\ a.new \in BatchStates /\ a.fast \in SUBSET Entries /\ a.shut \in SUBSET Entries /\ a.again \in SUBSET Services
    BY DEF Accs
  <2>2. z = [new |-> a.new, kept |-> <<>>, fast |-> a.fast, shut |-> a.shut, again |-> a.again]
    BY <1>1, <2>1
  <2>3. z.new = a.new /\ z.kept = <<>> /\ z.fast = a.fast /\ z.shut = a.shut
    BY <2>2
  <2>4. z \in Accs
    <3>1. <<>> \in Seq(BatchStates)
      OBVIOUS
    <3> QED
      BY <2>1, <2>2, <3>1 DEF Accs
  <2>5. Narrowed(a, z)
    BY <2>3, <2>4 DEF Narrowed, Alike
  <2>6. DOMAIN z.kept = {} /\ z.kept \in Seq(BatchStates)
    BY <2>3
  <2>7. Orderly(z.kept) /\ Held(z.kept) = {}
    BY <2>6 DEF Orderly, BatchesApart, UrgentFirst, Held
  <2>8. \A j \in DOMAIN q : ~ (j <= 0)
    BY <1>0
  <2> QED
    BY <2>5, <2>6, <2>7, <2>8 DEF Reconciled
<1> DEFINE bad == {n \in 0 .. Len(q) : ~ Reconciled(a, q, n, g[n])}
<1>4. bad = {}
  <2> SUFFICES ASSUME bad # {} PROVE FALSE
    OBVIOUS
  <2>1. bad \in SUBSET Nat
    BY <1>0
  <2>2. PICK k \in bad : \A j \in bad : k <= j
    <3> HIDE DEF bad
    <3> QED
      BY <2>1, LeastNumber
  <2>3. k \in Nat /\ k <= Len(q) /\ ~ Reconciled(a, q, k, g[k])
    BY <1>0, <2>2
  <2>4. k # 0
    BY <1>2, <1>3, <2>3 DEF StepsOf
  <2>5. k - 1 \in 0 .. Len(q) /\ k - 1 \notin bad
    <3>1. k - 1 \in 0 .. Len(q) /\ ~ (k <= k - 1)
      BY <1>0, <2>3, <2>4
    <3> HIDE DEF bad
    <3> QED
      BY <2>2, <3>1
  <2>6. Reconciled(a, q, k - 1, g[k - 1])
    BY <2>5
  <2>7. k \in DOMAIN q /\ g[k] = reconcile(g[k - 1], q[k])
    BY <1>0, <1>2, <2>3, <2>4 DEF StepsOf
  <2>8. Reconciled(a, q, k, g[k])
    BY <2>6, <2>7, NextReconciled
  <2> QED
    BY <2>3, <2>8
<1>5. Reconciled(a, q, Len(q), c)
  <2>1. Len(q) \in 0 .. Len(q)
    BY <1>0
  <2> QED
    BY <1>2, <1>4, <2>1
<1>6. Held(c.kept) \subseteq Held(q)
  BY <1>5 DEF Reconciled, Held
<1>7. Held(q) \subseteq c.fast \cup c.shut \cup Held(c.kept)
  <2> SUFFICES ASSUME NEW e \in Held(q) PROVE e \in c.fast \cup c.shut \cup Held(c.kept)
    OBVIOUS
  <2>1. PICK j \in DOMAIN q : e \in q[j].svcs
    BY DEF Held
  <2>2. j <= Len(q)
    BY <1>0
  <2> QED
    BY <1>5, <2>1, <2>2 DEF Reconciled
<1> QED
  BY <1>5, <1>6, <1>7 DEF Reconciled, QueueTakenIn

\* The batch in progress closes entries and takes services out of the new batch.
LEMMA PendingReconciled ==
    ASSUME NEW a \in Accs, NEW b \in BatchStates, NEW c, c = reconcileWithPendingBatch(a, b)
    PROVE  Narrowed(a, c) /\ c.kept = a.kept /\ c.fast = a.fast
<1>1. PICK shared : shared = Ids(a.new.svcs) \cap Ids(b.svcs)
  OBVIOUS
<1>2. /\ a = [new |-> a.new, kept |-> a.kept, fast |-> a.fast, shut |-> a.shut, again |-> a.again]
      /\ a.new \in BatchStates /\ a.kept \in Seq(BatchStates) /\ a.fast \in SUBSET Entries
      /\ a.shut \in SUBSET Entries /\ a.again \in SUBSET Services
  BY DEF Accs
<1>3. /\ a.new = [svcs |-> a.new.svcs, ds |-> a.new.ds, em |-> a.new.em]
      /\ a.new.svcs \in SUBSET Entries /\ b.svcs \in SUBSET Entries
  BY <1>2 DEF BatchStates
<1>4. CASE Verdict(b, a.new) \in {"replace", "cancel"}
  <2>1. PICK shut \in SUBSET Entries : shut = a.shut \cup {e \in b.svcs : e.id \in shared}
    BY <1>2, <1>3
  <2>2. c = [a EXCEPT !.shut = shut]
    BY <1>1, <1>4, <2>1 DEF reconcileWithPendingBatch
  <2>3. c = [new |-> a.new, kept |-> a.kept, fast |-> a.fast, shut |-> shut, again |-> a.again]
    BY <1>2, <2>2
  <2>4. c \in Accs
    BY <1>2, <2>3 DEF Accs
  <2>5. c.new = a.new /\ c.kept = a.kept /\ c.fast = a.fast /\ c.shut = shut
    BY <2>3
  <2> QED
    BY <2>1, <2>4, <2>5 DEF Narrowed, Alike
<1>5. CASE Verdict(b, a.new) \notin {"replace", "cancel"}
  <2>1. PICK shut \in SUBSET Entries : shut = a.shut \cup {e \in a.new.svcs : e.id \in shared}
    BY <1>2, <1>3
  <2>2. PICK remains \in SUBSET Entries : remains = {e \in a.new.svcs : e.id \notin shared}
    BY <1>3
  <2>3. PICK new : new = [a.new EXCEPT !.svcs = remains]
    OBVIOUS
  <2>4. c = [[a EXCEPT !.new = new] EXCEPT !.shut = shut]
    <3>1. c = [a EXCEPT !.new.svcs = {e \in @ : e.id \notin shared},
                        !.shut = @ \cup {e \in a.new.svcs : e.id \in shared}]
      BY <1>1, <1>5 DEF reconcileWithPendingBatch
    <3>2. c = [a EXCEPT !.new.svcs = remains, !.shut = shut]
      BY <2>1, <2>2, <3>1
    <3> QED
      BY <1>2, <1>3, <2>3, <3>2
  <2>5. c = [new |-> new, kept |-> a.kept, fast |-> a.fast, shut |-> shut, again |-> a.again]
    BY <1>2, <2>4
  <2>6. new \in BatchStates /\ new.svcs = remains /\ Alike(new, a.new)
    <3>1. PICK ds \in DesiredStates, em \in BOOLEAN : ds = a.new.ds /\ em = a.new.em /\ (em => ds = "Stop")
      BY <1>2 DEF BatchStates
    <3>2. new = [svcs |-> remains, ds |-> ds, em |-> em]
      BY <1>3, <2>3, <3>1
    <3>3. new.svcs = remains /\ new.ds = ds
      BY <3>2
    <3>4. new.em = em
      BY <3>2
    <3>5. new \in [svcs : SUBSET Entries, ds : DesiredStates, em : BOOLEAN]
      BY <3>2
    <3> QED
      BY <3>1, <3>3, <3>4, <3>5 DEF BatchStates, Alike
  <2>7. c \in Accs
    BY <1>2, <2>5, <2>6 DEF Accs
  <2>8. c.new = new /\ c.kept = a.kept /\ c.fast = a.fast /\ c.shut = shut
    BY <2>5
  <2> QED
    BY <2>1, <2>2, <2>6, <2>7, <2>8 DEF Narrowed
<1> QED
  BY <1>4, <1>5

\* The states that the caller has read only take services out of the new batch.
LEMMA StatesReconciled ==
    ASSUME NEW a \in Accs, NEW seen, NEW c, c = reconcileWithCurrentState(a, seen)
    PROVE  Narrowed(a, c) /\ c.kept = a.kept /\ c.fast = a.fast
<1>2. /\ a = [new |-> a.new, kept |-> a.kept, fast |-> a.fast, shut |-> a.shut, again |-> a.again]
      /\ a.new \in BatchStates /\ a.kept \in Seq(BatchStates) /\ a.fast \in SUBSET Entries
      /\ a.shut \in SUBSET Entries /\ a.again \in SUBSET Services
  BY DEF Accs
<1>3. /\ a.new = [svcs |-> a.new.svcs, ds |-> a.new.ds, em |-> a.new.em]
      /\ a.new.svcs \in SUBSET Entries
  BY <1>2 DEF BatchStates
<1>4. PICK done : done = {e \in a.new.svcs : DesiredStateIsRedundant(a.new.ds, a.new.em, seen[e.id])}
  OBVIOUS
<1>5. done \in SUBSET a.new.svcs
  BY <1>4
<1>6. PICK shut \in SUBSET Entries : shut = a.shut \cup done
  BY <1>2, <1>3, <1>5
<1>7. PICK remains \in SUBSET Entries : remains = a.new.svcs \ done
  BY <1>3
<1>8. PICK resynced \in SUBSET Services : resynced = a.again \cup Ids(done)
  <2>1. Ids(done) \in SUBSET Services
    BY <1>3, <1>5 DEF Ids, Entries
  <2> QED
    BY <1>2, <2>1
<1>9. PICK new : new = [a.new EXCEPT !.svcs = remains]
  OBVIOUS
<1>10. c = [[[a EXCEPT !.new = new] EXCEPT !.shut = shut] EXCEPT !.again = resynced]
  <2>1. c = [a EXCEPT !.new.svcs = @ \ done, !.shut = @ \cup done, !.again = @ \cup Ids(done)]
    BY <1>4 DEF reconcileWithCurrentState
  <2>2. c = [a EXCEPT !.new.svcs = remains, !.shut = shut, !.again = resynced]
    BY <1>6, <1>7, <1>8, <2>1
  <2> QED
    BY <1>2, <1>3, <1>9, <2>2
<1>11. c = [new |-> new, kept |-> a.kept, fast |-> a.fast, shut |-> shut, again |-> resynced]
  BY <1>2, <1>10
<1>12. new \in BatchStates /\ new.svcs = remains /\ Alike(new, a.new)
  <2>1. PICK ds \in DesiredStates, em \in BOOLEAN : ds = a.new.ds /\ em = a.new.em /\ (em => ds = "Stop")
    BY <1>2 DEF BatchStates
  <2>2. new = [svcs |-> remains, ds |-> ds, em |-> em]
    BY <1>3, <1>9, <2>1
  <2>3. new.svcs = remains /\ new.ds = ds
    BY <2>2
  <2>4. new.em = em
    BY <2>2
  <2>5. new \in [svcs : SUBSET Entries, ds : DesiredStates, em : BOOLEAN]
    BY <2>2
  <2> QED
    BY <2>1, <2>3, <2>4, <2>5 DEF BatchStates, Alike
<1>13. c \in Accs
  BY <1>2, <1>11, <1>12 DEF Accs
<1>14. c.new = new /\ c.kept = a.kept /\ c.fast = a.fast /\ c.shut = shut
  BY <1>11
<1> QED
  BY <1>6, <1>7, <1>12, <1>13, <1>14 DEF Narrowed

\* Both queues: each is orderly, and they share no service.
QueuesSound(r) ==
    /\ r = [q \in QueueNames |-> r[q]]
    /\ \A q \in QueueNames : Orderly(r[q])
    /\ \A p, q \in QueueNames : p # q => \A d \in Held(r[p]), e \in Held(r[q]) : d.id # e.id

AllHeld(r) == Held(r["Run"]) \cup Held(r["Stop"])

\* What ScheduleServices reconciles: c and the queues "rest" come from the new batch and the queues r.
Settled(new, r, rest, c) ==
    /\ c \in Accs /\ Alike(c.new, new) /\ c.new.svcs \subseteq new.svcs
    /\ QueuesSound(rest)
    /\ AllHeld(r) \subseteq c.fast \cup c.shut \cup AllHeld(rest)
    /\ \A d \in AllHeld(rest), e \in c.new.svcs : d.id # e.id

FirstAcc(new) == [new |-> new, kept |-> <<>>, fast |-> {}, shut |-> {}, again |-> {}]
Replaced(r, p, s, q, t) == [r EXCEPT ![p] = s, ![q] = t]

\* ScheduleServices reconciles the new batch with both queues.
LEMMA QueuesReconciled ==
    ASSUME NEW new \in BatchStates, NEW r, QueuesSound(r), NEW cur \in [QueueNames -> BatchStates],
           NEW first \in QueueNames, NEW second \in QueueNames, first # second, NEW seen,
           NEW a0, a0 = FirstAcc(new),
           NEW a1, a1 = reconcileWithBatchQueue(a0, r[first]),
           NEW a2, a2 = reconcileWithPendingBatch(a1, cur[first]),
           NEW a3, a3 = reconcileWithBatchQueue(a2, r[second]),
           NEW a4, a4 = reconcileWithPendingBatch(a3, cur[second]),
           NEW c, c = reconcileWithCurrentState(a4, seen),
           NEW rest, rest = Replaced(r, first, a1.kept, second, a3.kept)
    PROVE  Settled(new, r, rest, c)
<1>0. a0 \in Accs /\ a0.new = new
  <2>1. <<>> \in Seq(BatchStates)
    OBVIOUS
  <2> QED
    BY <2>1 DEF Accs, FirstAcc
<1>1. PICK p : p = r[first]
  OBVIOUS
<1>2. PICK q : q = r[second]
  OBVIOUS
<1>3. Orderly(p) /\ Orderly(q) /\ \A d \in Held(p), e \in Held(q) : d.id # e.id
  BY <1>1, <1>2 DEF QueuesSound
<1>4. /\ Narrowed(a0, a1) /\ Orderly(a1.kept)
      /\ \A d \in Held(a1.kept), e \in a1.new.svcs : d.id # e.id
      /\ Held(a1.kept) \subseteq Held(p)
      /\ Held(p) \subseteq a1.fast \cup a1.shut \cup Held(a1.kept)
  <2>1. QueueTakenIn(a0, p, a1)
    BY <1>0, <1>1, <1>3, QueueReconciled
  <2> QED
    BY <2>1 DEF QueueTakenIn
<1>5. Narrowed(a1, a2)
  <2>1. a1 \in Accs /\ cur[first] \in BatchStates
    BY <1>4 DEF Narrowed
  <2> QED
    BY <2>1, PendingReconciled
<1>6. /\ Narrowed(a2, a3) /\ Orderly(a3.kept)
      /\ \A d \in Held(a3.kept), e \in a3.new.svcs : d.id # e.id
      /\ Held(a3.kept) \subseteq Held(q)
      /\ Held(q) \subseteq a3.fast \cup a3.shut \cup Held(a3.kept)
  <2>1. a2 \in Accs
    BY <1>5 DEF Narrowed
  <2>2. QueueTakenIn(a2, q, a3)
    BY <1>2, <1>3, <2>1, QueueReconciled
  <2> QED
    BY <2>2 DEF QueueTakenIn
<1>7. Narrowed(a3, a4)
  <2>1. a3 \in Accs /\ cur[second] \in BatchStates
    BY <1>6 DEF Narrowed
  <2> QED
    BY <2>1, PendingReconciled
<1>8. Narrowed(a4, c)
  <2>1. a4 \in Accs
    BY <1>7 DEF Narrowed
  <2> QED
    BY <2>1, StatesReconciled
<1>9. Narrowed(a3, c)
  BY <1>7, <1>8, NarrowedTwice
<1>10. Narrowed(a1, c)
  <2>1. Narrowed(a1, a3)
    BY <1>5, <1>6, NarrowedTwice
  <2> QED
    BY <1>9, <2>1, NarrowedTwice
<1>11. Narrowed(a0, c)
  BY <1>4, <1>10, NarrowedTwice
<1>12. PICK s, t : s = a1.kept /\ t = a3.kept
  OBVIOUS
<1>13. rest = [n \in QueueNames |-> IF n = second THEN t ELSE IF n = first THEN s ELSE r[n]]
  <2>1. rest = [r EXCEPT ![first] = s, ![second] = t]
    BY <1>12 DEF Replaced
  <2> QED
    BY <2>1 DEF QueuesSound
<1>14. /\ rest = [n \in QueueNames |-> rest[n]] /\ rest[first] = s /\ rest[second] = t
       /\ \A n \in QueueNames : n = first \/ n = second
  BY <1>13 DEF QueueNames
<1>15. AllHeld(rest) = Held(s) \cup Held(t) /\ AllHeld(r) = Held(p) \cup Held(q)
  BY <1>1, <1>2, <1>14 DEF AllHeld, QueueNames
<1>16. \A d \in Held(s), e \in Held(t) : d.id # e.id
  <2>1. Held(s) \subseteq Held(p) /\ Held(t) \subseteq Held(q)
    BY <1>4, <1>6, <1>12
  <2> QED
    BY <1>3, <2>1
<1>17. QueuesSound(rest)
  <2>1. \A n \in QueueNames : Orderly(rest[n])
    BY <1>4, <1>6, <1>12, <1>14
  <2>2. ASSUME NEW m \in QueueNames, NEW n \in QueueNames, m # n, NEW d \in Held(rest[m]), NEW e \in Held(rest[n])
        PROVE  d.id # e.id
    BY <1>14, <1>16, <2>2
  <2> QED
    BY <1>14, <2>1, <2>2 DEF QueuesSound
<1>18. AllHeld(r) \subseteq c.fast \cup c.shut \cup AllHeld(rest)
  <2>1. Held(p) \subseteq a1.fast \cup a1.shut \cup Held(s) /\ Held(q) \subseteq a3.fast \cup a3.shut \cup Held(t)
    BY <1>4, <1>6, <1>12
  <2>2. /\ a1.fast \subseteq c.fast /\ a1.shut \subseteq c.shut
        /\ a3.fast \subseteq c.fast /\ a3.shut \subseteq c.shut
    BY <1>9, <1>10 DEF Narrowed
  <2> QED
    BY <1>15, <2>1, <2>2
<1>19. \A d \in AllHeld(rest), e \in c.new.svcs : d.id # e.id
  <2>1. /\ \A d \in Held(s), e \in a1.new.svcs : d.id # e.id
        /\ \A d \in Held(t), e \in a3.new.svcs : d.id # e.id
    BY <1>4, <1>6, <1>12
  <2>2. c.new.svcs \subseteq a1.new.svcs /\ c.new.svcs \subseteq a3.new.svcs
    BY <1>9, <1>10 DEF Narrowed
  <2>3. ASSUME NEW d \in AllHeld(rest), NEW e \in c.new.svcs PROVE d.id # e.id
    <3>1. d \in Held(s) \/ d \in Held(t)
      BY <1>15
    <3>2. e \in a1.new.svcs /\ e \in a3.new.svcs
      BY <2>2
    <3> QED
      BY <2>1, <3>1, <3>2
  <2> QED
    BY <2>3
<1> QED
  BY <1>0, <1>11, <1>17, <1>18, <1>19 DEF Settled, Narrowed

\* The new batch goes to its queue.
LEMMA BatchQueued ==
    ASSUME NEW rest, QueuesSound(rest), NEW b \in BatchStates, NEW home \in QueueNames,
           \A d \in AllHeld(rest), e \in b.svcs : d.id # e.id,
           NEW r, r = IF b.svcs = {} THEN rest
                      ELSE IF b.em THEN [rest EXCEPT ![home] = mergeEmergencyBatch(@, b)]
                      ELSE [rest EXCEPT ![home] = mergeBatch(@, b)]
    PROVE  QueuesSound(r) /\ AllHeld(r) = AllHeld(rest) \cup b.svcs
<1>1. CASE b.svcs = {}
  BY <1>1
<1>2. CASE b.svcs # {}
  <2>1. PICK q : q = rest[home]
    OBVIOUS
  <2>2. PICK m : m = IF b.em THEN mergeEmergencyBatch(q, b) ELSE mergeBatch(q, b)
    OBVIOUS
  <2>3. Orderly(q) /\ Held(q) \subseteq AllHeld(rest)
    BY <2>1 DEF QueuesSound, AllHeld, QueueNames
  <2>4. \A d \in Held(q), e \in b.svcs : d.id # e.id
    BY <2>3
  <2>5. Orderly(m) /\ Held(m) = Held(q) \cup b.svcs
    <3>1. CASE b.em
      <4>1. m = mergeEmergencyBatch(q, b)
        BY <2>2, <3>1
      <4> QED
        BY <2>3, <2>4, <3>1, <4>1, EmergencyMerged
    <3>2. CASE ~ b.em
      <4>1. m = mergeBatch(q, b)
        BY <2>2, <3>2
      <4> QED
        BY <2>3, <2>4, <3>2, <4>1, BatchMerged
    <3> QED
      BY <3>1, <3>2
  <2>6. r = [rest EXCEPT ![home] = m]
    <3>1. CASE b.em
      BY <1>2, <2>1, <2>2, <3>1
    <3>2. CASE ~ b.em
      BY <1>2, <2>1, <2>2, <3>2
    <3> QED
      BY <3>1, <3>2
  <2>7. /\ r = [n \in QueueNames |-> r[n]] /\ r[home] = m
        /\ \A n \in QueueNames : n # home => r[n] = rest[n]
    BY <2>6 DEF QueuesSound
  <2>8. AllHeld(r) = AllHeld(rest) \cup b.svcs
    <3>1. CASE home = "Run"
      BY <2>1, <2>5, <2>7, <3>1 DEF AllHeld, QueueNames
    <3>2. CASE home = "Stop"
      BY <2>1, <2>5, <2>7, <3>2 DEF AllHeld, QueueNames
    <3> QED
      BY <3>1, <3>2 DEF QueueNames
  <2>9. \A n \in QueueNames : Orderly(r[n])
    BY <2>5, <2>7 DEF QueuesSound
  <2>10. \A n \in QueueNames : n # home => Held(rest[n]) \subseteq AllHeld(rest)
    BY DEF AllHeld, QueueNames
  <2>11. ASSUME NEW n \in QueueNames, n # home, NEW d \in Held(r[n]), NEW e \in Held(m) PROVE d.id # e.id
    <3>1. d \in Held(rest[n]) /\ d \in AllHeld(rest)
      BY <2>7, <2>10, <2>11
    <3>2. CASE e \in b.svcs
      BY <3>1, <3>2
    <3>3. CASE e \in Held(q)
      BY <2>1, <2>11, <3>1, <3>3 DEF QueuesSound
    <3> QED
      BY <2>5, <3>2, <3>3
  <2>12. ASSUME NEW p \in QueueNames, NEW n \in QueueNames, p # n, NEW d \in Held(r[p]), NEW e \in Held(r[n])
         PROVE  d.id # e.id
    <3>1. CASE n = home
      BY <2>7, <2>11, <2>12, <3>1
    <3>2. CASE p = home
      BY <2>7, <2>11, <2>12, <3>2
    <3>3. CASE p # home /\ n # home
      BY <2>12, <3>3 DEF QueueNames
    <3> QED
      BY <3>1, <3>2, <3>3
  <2> QED
    BY <2>7, <2>8, <2>9, <2>12 DEF QueuesSound
<1> QED
  BY <1>1, <1>2

\* The front of a queue is taken off.
LEMMA BatchTaken ==
    ASSUME NEW r, QueuesSound(r), NEW q \in QueueNames, r[q] # <<>>, NEW t, t = [r EXCEPT ![q] = Tail(@)]
    PROVE  /\ Head(r[q]) \in BatchStates
           /\ QueuesSound(t) /\ AllHeld(r) = AllHeld(t) \cup Head(r[q]).svcs
<1>1. PICK s : s = r[q]
  OBVIOUS
<1>2. Orderly(s) /\ s \in Seq(BatchStates) /\ s # <<>>
  BY <1>1 DEF QueuesSound, Orderly
<1>3. 1 \in 0 .. Len(s) /\ 1 \in DOMAIN s /\ Len(s) \in Nat /\ Head(s) = s[1] /\ s[1] \in BatchStates
  BY <1>2
<1>4. PICK u, v : u = UpTo(s, 1) /\ v = After(s, 1)
  OBVIOUS
<1>5. Orderly(v) /\ v \in Seq(BatchStates)
  BY <1>2, <1>3, <1>4, PartsOrderly DEF Orderly
<1>6. /\ DOMAIN u = 1 .. 1 /\ \A i \in DOMAIN u : u[i] = s[i]
      /\ Held(s) = Held(u) \cup Held(v)
  <2>1. PICK k \in 0 .. Len(s) : k = 1
    BY <1>3
  <2>2. u = UpTo(s, k) /\ v = After(s, k)
    BY <1>4, <2>1
  <2>3. DOMAIN u = 1 .. k /\ (\A i \in DOMAIN u : u[i] = s[i]) /\ Held(s) = Held(u) \cup Held(v)
    BY <1>2, <2>2, SplitQueue
  <2> QED
    BY <2>1, <2>3
<1>7. Held(u) = s[1].svcs
  <2>1. DOMAIN u = {1} /\ u[1] = s[1]
    BY <1>6
  <2> QED
    BY <2>1 DEF Held
<1>8. v = Tail(s)
  <2>1. 1 + 1 = 2
    OBVIOUS
  <2> QED
    BY <1>2, <1>4, <2>1 DEF After
<1>9. /\ t = [n \in QueueNames |-> t[n]] /\ t[q] = v
      /\ \A n \in QueueNames : n # q => t[n] = r[n]
  BY <1>1, <1>8 DEF QueuesSound
<1>10. Held(s) = Held(v) \cup s[1].svcs
  BY <1>6, <1>7
<1>11. AllHeld(r) = AllHeld(t) \cup s[1].svcs
  <2>1. CASE q = "Run"
    BY <1>1, <1>9, <1>10, <2>1 DEF AllHeld, QueueNames
  <2>2. CASE q = "Stop"
    BY <1>1, <1>9, <1>10, <2>2 DEF AllHeld, QueueNames
  <2> QED
    BY <2>1, <2>2 DEF QueueNames
<1>12. \A n \in QueueNames : Orderly(t[n]) /\ Held(t[n]) \subseteq Held(r[n])
  BY <1>1, <1>5, <1>9, <1>10 DEF QueuesSound
<1>13. QueuesSound(t)
  <2>1. ASSUME NEW m \in QueueNames, NEW n \in QueueNames, m # n, NEW d \in Held(t[m]), NEW e \in Held(t[n])
        PROVE  d.id # e.id
    <3>1. d \in Held(r[m]) /\ e \in Held(r[n])
      BY <1>12
    <3> QED
      BY <2>1, <3>1 DEF QueuesSound
  <2> QED
    BY <1>9, <1>12, <2>1 DEF QueuesSound
<1> QED
  BY <1>1, <1>3, <1>11, <1>13

-----------------------------------------------------------------------------
\* The inductive invariant.  A thread that is still to write a final state follows the state
\* that was marked last; a loop that is about to take a batch has none; the goroutine of a
\* call that is yet to be scheduled has not been started.
StatesSound ==
    /\ waits = [s \in Services |-> waits[s]]
    /\ shown = [s \in Services |-> shown[s]]
    /\ marked = [s \in Services |-> marked[s]]
    /\ \A s \in Services :
          /\ waits[s] = [ds |-> waits[s].ds, em |-> waits[s].em, phase |-> waits[s].phase]
          /\ waits[s].phase \in {"wait", "write"} => marked[s] = Transition(waits[s].ds, waits[s].em)
          /\ shown[s] # marked[s] => shown[s] = Final(marked[s][2], marked[s][3])

WorkerSound(v) ==
    /\ v = [pc |-> v.pc, batch |-> v.batch, open |-> v.open, snap |-> v.snap, bad |-> v.bad]
    /\ v.pc \in {"top", "empty", "idle"} => v.batch.svcs = {}

WorkersSound(f) ==
    /\ f = [w \in Workers |-> f[w]]
    /\ \A w \in Workers : WorkerSound(f[w])

CallSound ==
    /\ requests \in 0 .. MaxRequests
    /\ asked # <<>> =>
          requests # 0 /\ asked[1].svcs \subseteq Services /\ asked[1].order \in Orders
    /\ \A n \in 1 .. MaxRequests :
          n > requests \/ (n = requests /\ asked # <<>>) => worker[Goroutine(n)] = Resting

Worked(f) == UNION {f[w].batch.svcs : w \in Workers}

WaitersKept == entered \subseteq closed \cup AllHeld(batchQueue) \cup Worked(worker)

BatchInv ==
    /\ StatesSound
    /\ QueuesSound(batchQueue)
    /\ current \in [QueueNames -> BatchStates]
    /\ WorkersSound(worker)
    /\ CallSound
    /\ WaitersKept

\* The final state of a transition.
LEMMA FinalOfTransition ==
    ASSUME NEW ds, NEW em, NEW t, t = Transition(ds, em)
    PROVE  Final(ds, em) = Final(t[2], t[3])
<1>1. PICK x \in BOOLEAN : x = (em /\ ds = "Stop")
  OBVIOUS
<1>2. t = <<"moving", ds, x>>
  BY <1>1 DEF Transition
<1>3. t[2] = ds /\ t[3] = x
  BY <1>2
<1>4. (x /\ ds = "Stop") = x
  BY <1>1
<1>5. PICK y : y = IF ds = "Restart" THEN "Run" ELSE ds
  OBVIOUS
<1>6. Final(ds, em) = <<"final", y, x>>
  BY <1>1, <1>5 DEF Final
<1>7. Final(ds, x) = <<"final", y, x>>
  BY <1>4, <1>5 DEF Final
<1> QED
  BY <1>3, <1>6, <1>7

\* Whoever sets a state has cancelled the threads that follow the services.
LEMMA StateMarked ==
    ASSUME StatesSound, NEW state, NEW ids, updateServiceCurrentState(state, ids)
    PROVE  StatesSound'
<1>1. /\ waits' = [s \in Services |-> IF s \in ids THEN NoWait ELSE waits[s]]
      /\ shown' = [s \in Services |-> IF s \in ids THEN state ELSE shown[s]]
      /\ marked' = [s \in Services |-> IF s \in ids THEN state ELSE marked[s]]
  BY DEF updateServiceCurrentState, CancelWaits
<1>2. /\ waits' = [s \in Services |-> waits'[s]]
      /\ shown' = [s \in Services |-> shown'[s]]
      /\ marked' = [s \in Services |-> marked'[s]]
  BY <1>1
<1>3. ASSUME NEW s \in Services
      PROVE  /\ waits'[s] = [ds |-> waits'[s].ds, em |-> waits'[s].em, phase |-> waits'[s].phase]
             /\ waits'[s].phase \in {"wait", "write"} => marked'[s] = Transition(waits'[s].ds, waits'[s].em)
             /\ shown'[s] # marked'[s] => shown'[s] = Final(marked'[s][2], marked'[s][3])
  <2>1. CASE s \in ids
    <3>1. waits'[s] = [ds |-> "none", em |-> FALSE, phase |-> "none"] /\ shown'[s] = marked'[s]
      BY <1>1, <2>1 DEF NoWait
    <3>2. waits'[s].phase = "none" /\ waits'[s].ds = "none" /\ waits'[s].em = FALSE
      BY <3>1
    <3> QED
      BY <3>1, <3>2
  <2>2. CASE s \notin ids
    <3>1. waits'[s] = waits[s] /\ shown'[s] = shown[s] /\ marked'[s] = marked[s]
      BY <1>1, <2>2
    <3> QED
      BY <3>1 DEF StatesSound
  <2> QED
    BY <2>1, <2>2
<1> QED
  BY <1>2, <1>3 DEF StatesSound

\* A thread that is started follows the transition that is shown with it.
LEMMA WaitStarted ==
    ASSUME StatesSound, NEW goal, startCurrentStateWait(goal)
    PROVE  StatesSound'
<1>1. PICK fresh : fresh = {s \in DOMAIN goal : waits[s].ds # goal[s].ds}
  OBVIOUS
<1>2. /\ waits' = [s \in Services |-> IF s \in fresh
                      THEN [ds |-> goal[s].ds, em |-> goal[s].em, phase |-> "wait"] ELSE waits[s]]
      /\ shown' = [s \in Services |-> IF s \in fresh THEN Transition(goal[s].ds, goal[s].em) ELSE shown[s]]
      /\ marked' = [s \in Services |-> IF s \in fresh THEN Transition(goal[s].ds, goal[s].em) ELSE marked[s]]
  BY <1>1 DEF startCurrentStateWait
<1>3. /\ waits' = [s \in Services |-> waits'[s]]
      /\ shown' = [s \in Services |-> shown'[s]]
      /\ marked' = [s \in Services |-> marked'[s]]
  BY <1>2
<1>4. ASSUME NEW s \in Services
      PROVE  /\ waits'[s] = [ds |-> waits'[s].ds, em |-> waits'[s].em, phase |-> waits'[s].phase]
             /\ waits'[s].phase \in {"wait", "write"} => marked'[s] = Transition(waits'[s].ds, waits'[s].em)
             /\ shown'[s] # marked'[s] => shown'[s] = Final(marked'[s][2], marked'[s][3])
  <2>1. CASE s \in fresh
    <3>1. PICK ds, em : ds = goal[s].ds /\ em = goal[s].em
      OBVIOUS
    <3>2. /\ waits'[s] = [ds |-> ds, em |-> em, phase |-> "wait"]
          /\ shown'[s] = marked'[s] /\ marked'[s] = Transition(ds, em)
      BY <1>2, <2>1, <3>1
    <3>3. waits'[s].ds = ds /\ waits'[s].em = em /\ waits'[s].phase = "wait"
      BY <3>2
    <3> QED
      BY <3>2, <3>3
  <2>2. CASE s \notin fresh
    <3>1. waits'[s] = waits[s] /\ shown'[s] = shown[s] /\ marked'[s] = marked[s]
      BY <1>2, <2>2
    <3> QED
      BY <3>1 DEF StatesSound
  <2> QED
    BY <2>1, <2>2
<1> QED
  BY <1>3, <1>4 DEF StatesSound

\* What the property says of states depends on three variables only.
LEMMA StatesUnchanged ==
    ASSUME StatesSound, UNCHANGED <<shown, marked, waits>>
    PROVE  StatesSound'
BY DEF StatesSound

\* A worker moves on, or gets another batch.
Moved(f, w, v) == [f EXCEPT ![w] = v]

\* One worker changes, the others do not.
LEMMA WorkerMoved ==
    ASSUME NEW f, WorkersSound(f), NEW w \in Workers, NEW v, WorkerSound(v), NEW g, g = Moved(f, w, v)
    PROVE  /\ WorkersSound(g) /\ g[w] = v /\ \A x \in Workers : x # w => g[x] = f[x]
           /\ Worked(f) \subseteq Worked(g) \cup f[w].batch.svcs
           /\ v.batch.svcs \subseteq Worked(g)
<1>1. /\ g = [x \in Workers |-> g[x]] /\ g[w] = v
      /\ \A x \in Workers : x # w => g[x] = f[x]
  BY DEF WorkersSound, Moved
<1>2. WorkersSound(g)
  BY <1>1 DEF WorkersSound
<1>3. v.batch.svcs \subseteq Worked(g)
  BY <1>1 DEF Worked
<1>4. ASSUME NEW e \in Worked(f) PROVE e \in Worked(g) \cup f[w].batch.svcs
  <2>1. PICK x \in Workers : e \in f[x].batch.svcs
    BY DEF Worked
  <2>2. CASE x = w
    BY <2>1, <2>2
  <2>3. CASE x # w
    <3>1. e \in g[x].batch.svcs
      BY <1>1, <2>1, <2>3
    <3> QED
      BY <3>1 DEF Worked
  <2> QED
    BY <2>2, <2>3
<1> QED
  BY <1>1, <1>2, <1>3, <1>4

\* The same within a step that leaves the callers alone.
LEMMA WorkerStep ==
    ASSUME BatchInv, NEW w \in Workers, worker[w].pc # "gone", NEW v, WorkerSound(v),
           worker' = Moved(worker, w, v), UNCHANGED <<requests, asked>>
    PROVE  /\ WorkersSound(worker') /\ CallSound'
           /\ Worked(worker) \subseteq Worked(worker') \cup worker[w].batch.svcs
           /\ v.batch.svcs \subseteq Worked(worker')
<1>1. WorkersSound(worker)
  BY DEF BatchInv
<1>2. PICK f, g : f = worker /\ g = worker'
  OBVIOUS
<1>3. /\ WorkersSound(g) /\ g[w] = v /\ \A x \in Workers : x # w => g[x] = f[x]
      /\ Worked(f) \subseteq Worked(g) \cup f[w].batch.svcs
      /\ v.batch.svcs \subseteq Worked(g)
  <2>1. WorkersSound(f) /\ g = Moved(f, w, v)
    BY <1>1, <1>2 DEF Moved
  <2> HIDE <1>2
  <2> QED
    BY <2>1, WorkerMoved
<1>4. CallSound'
  <2>1. ASSUME NEW n \in 1 .. MaxRequests, n > requests \/ (n = requests /\ asked # <<>>)
        PROVE  worker'[Goroutine(n)] = Resting
    <3>1. worker[Goroutine(n)] = Resting
      BY <2>1 DEF BatchInv, CallSound
    <3>2. worker[Goroutine(n)].pc = "gone"
      BY <3>1 DEF Resting
    <3>3. Goroutine(n) \in Workers /\ Goroutine(n) # w
      BY <3>2 DEF Workers
    <3> QED
      BY <1>2, <1>3, <3>1, <3>3
  <2> QED
    BY <2>1 DEF BatchInv, CallSound
<1> QED
  BY <1>2, <1>3, <1>4

\* What is worked on when no worker changes.
LEMMA WorkUnchanged ==
    ASSUME BatchInv, UNCHANGED <<batchQueue, current, worker, closed, entered, requests, asked>>
    PROVE  /\ QueuesSound(batchQueue)' /\ (current \in [QueueNames -> BatchStates])'
           /\ WorkersSound(worker)' /\ CallSound' /\ WaitersKept'
<1>1. /\ batchQueue' = batchQueue /\ current' = current /\ worker' = worker
      /\ QueuesSound(batchQueue) /\ current \in [QueueNames -> BatchStates] /\ WorkersSound(worker)
  BY DEF BatchInv
<1>2. QueuesSound(batchQueue)' /\ (current \in [QueueNames -> BatchStates])' /\ WorkersSound(worker)'
  BY <1>1
<1>3. CallSound'
  BY DEF BatchInv, CallSound
<1>4. WaitersKept'
  BY <1>1 DEF BatchInv, WaitersKept
<1> QED
  BY <1>2, <1>3, <1>4

\* No request has been made yet.
LEMMA BatchInvInit == ssmInit => BatchInv
<1> SUFFICES ASSUME ssmInit PROVE BatchInv
  OBVIOUS
<1> USE DEF ssmInit
<1>1. StatesSound
  <2>1. /\ waits = [s \in Services |-> NoWait] /\ shown = [s \in Services |-> Stopped] /\ marked = shown
    OBVIOUS
  <2>2. ASSUME NEW s \in Services
        PROVE  /\ waits[s] = [ds |-> "none", em |-> FALSE, phase |-> "none"]
               /\ shown[s] = marked[s]
    BY <2>1 DEF NoWait
  <2>3. ASSUME NEW s \in Services
        PROVE  /\ waits[s] = [ds |-> waits[s].ds, em |-> waits[s].em, phase |-> waits[s].phase]
               /\ waits[s].phase = "none"
    <3>1. waits[s].ds = "none" /\ waits[s].em = FALSE /\ waits[s].phase = "none"
      BY <2>2
    <3> QED
      BY <2>2, <3>1
  <2>4. /\ waits = [s \in Services |-> waits[s]] /\ shown = [s \in Services |-> shown[s]]
        /\ marked = [s \in Services |-> marked[s]]
    BY <2>1
  <2> QED
    BY <2>2, <2>3, <2>4 DEF StatesSound
<1>2. QueuesSound(batchQueue)
  <2>1. \A q \in QueueNames : batchQueue[q] = <<>>
    OBVIOUS
  <2>2. \A q \in QueueNames : DOMAIN batchQueue[q] = {} /\ batchQueue[q] \in Seq(BatchStates)
    BY <2>1
  <2>3. \A q \in QueueNames : Orderly(batchQueue[q]) /\ Held(batchQueue[q]) = {}
    BY <2>2 DEF Orderly, BatchesApart, UrgentFirst, Held
  <2> QED
    BY <2>3 DEF QueuesSound
<1>3. current \in [QueueNames -> BatchStates]
  <2>1. NoBatch \in [svcs : SUBSET Entries, ds : DesiredStates, em : BOOLEAN] /\ NoBatch.em = FALSE
    BY DEF NoBatch, DesiredStates
  <2> QED
    BY <2>1 DEF BatchStates
<1>4. ASSUME NEW w \in Workers
      PROVE  /\ worker[w] = [pc |-> IF IsQueue(w) THEN "top" ELSE "gone", batch |-> NoBatch,
                             open |-> {}, snap |-> <<>>, bad |-> {}]
             /\ WorkerSound(worker[w])
  <2>1. worker[w] = [pc |-> IF IsQueue(w) THEN "top" ELSE "gone", batch |-> NoBatch,
                     open |-> {}, snap |-> <<>>, bad |-> {}]
    <3>1. CASE IsQueue(w)
      BY <3>1 DEF Resting
    <3>2. CASE ~ IsQueue(w)
      BY <3>2 DEF Resting
    <3> QED
      BY <3>1, <3>2
  <2>2. PICK pc : pc = IF IsQueue(w) THEN "top" ELSE "gone"
    OBVIOUS
  <2>3. worker[w] = [pc |-> pc, batch |-> NoBatch, open |-> {}, snap |-> <<>>, bad |-> {}]
    BY <2>1, <2>2
  <2>4. NoBatch.svcs = {}
    BY DEF NoBatch
  <2>5. /\ worker[w].pc = pc /\ worker[w].batch = NoBatch /\ worker[w].open = {}
        /\ worker[w].snap = <<>> /\ worker[w].bad = {}
    BY <2>3
  <2> QED
    BY <2>1, <2>3, <2>4, <2>5 DEF WorkerSound
<1>5. WorkersSound(worker)
  BY <1>4 DEF WorkersSound
<1>6. CallSound
  <2>1. ASSUME NEW n \in 1 .. MaxRequests PROVE worker[Goroutine(n)] = Resting
    <3>1. Goroutine(n) \in Workers /\ ~ IsQueue(Goroutine(n))
      BY DEF Workers, Goroutine, IsQueue
    <3> QED
      BY <3>1
  <2>2. requests \in 0 .. MaxRequests /\ ~ (asked # <<>>)
    BY RequestsAssumption
  <2> QED
    BY <2>1, <2>2 DEF CallSound
<1>7. WaitersKept
  BY DEF WaitersKept
<1> QED
  BY <1>1, <1>2, <1>3, <1>5, <1>6, <1>7 DEF BatchInv

\* The threads that follow the services.
LEMMA ThreadStep ==
    ASSUME BatchInv, NEW s \in Services, ssmThread(s)
    PROVE  BatchInv'
<1>1. StatesSound
  BY DEF BatchInv
<1>2. CASE ServiceReached(s)
  <2>1. /\ waits' = [waits EXCEPT ![s] = [waits[s] EXCEPT !.phase = "write"]]
        /\ shown' = shown /\ marked' = marked /\ waits[s].phase = "wait"
        /\ UNCHANGED <<batchQueue, current, worker, closed, entered, requests, asked>>
    BY <1>2 DEF ServiceReached
  <2>2. /\ waits' = [t \in Services |-> waits'[t]]
        /\ \A t \in Services : t # s => waits'[t] = waits[t]
        /\ waits'[s] = [waits[s] EXCEPT !.phase = "write"]
    BY <1>1, <2>1 DEF StatesSound
  <2>3. PICK ds, em : waits[s] = [ds |-> ds, em |-> em, phase |-> "wait"]
    BY <1>1, <2>1 DEF StatesSound
  <2>4. waits'[s] = [ds |-> ds, em |-> em, phase |-> "write"]
    BY <2>2, <2>3
  <2>5. /\ waits[s].ds = ds /\ waits[s].em = em /\ waits[s].phase = "wait"
        /\ waits'[s].ds = ds /\ waits'[s].em = em /\ waits'[s].phase = "write"
    BY <2>3, <2>4
  <2>6. marked[s] = Transition(ds, em)
    BY <1>1, <2>5 DEF StatesSound
  <2>7. ASSUME NEW t \in Services
        PROVE  /\ waits'[t] = [ds |-> waits'[t].ds, em |-> waits'[t].em, phase |-> waits'[t].phase]
               /\ waits'[t].phase \in {"wait", "write"} => marked'[t] = Transition(waits'[t].ds, waits'[t].em)
               /\ shown'[t] # marked'[t] => shown'[t] = Final(marked'[t][2], marked'[t][3])
    <3>1. CASE t = s
      BY <1>1, <2>1, <2>4, <2>5, <2>6, <3>1 DEF StatesSound
    <3>2. CASE t # s
      BY <1>1, <2>1, <2>2, <3>2 DEF StatesSound
    <3> QED
      BY <3>1, <3>2
  <2>8. StatesSound'
    BY <1>1, <2>1, <2>2, <2>7 DEF StatesSound
  <2> QED
    BY <2>1, <2>8, WorkUnchanged DEF BatchInv
<1>3. CASE SetFinalState(s)
  <2>1. /\ waits' = [waits EXCEPT ![s] = [waits[s] EXCEPT !.phase = "done"]]
        /\ shown' = [shown EXCEPT ![s] = Final(waits[s].ds, waits[s].em)]
        /\ marked' = marked /\ waits[s].phase = "write"
        /\ UNCHANGED <<batchQueue, current, worker, closed, entered, requests, asked>>
    BY <1>3 DEF SetFinalState
  <2>2. /\ waits' = [t \in Services |-> waits'[t]]
        /\ \A t \in Services : t # s => waits'[t] = waits[t] /\ shown'[t] = shown[t]
        /\ waits'[s] = [waits[s] EXCEPT !.phase = "done"]
        /\ shown' = [t \in Services |-> shown'[t]]
        /\ shown'[s] = Final(waits[s].ds, waits[s].em)
    BY <1>1, <2>1 DEF StatesSound
  <2>3. PICK ds, em : waits[s] = [ds |-> ds, em |-> em, phase |-> "write"]
    BY <1>1, <2>1 DEF StatesSound
  <2>4. waits'[s] = [ds |-> ds, em |-> em, phase |-> "done"]
    BY <2>2, <2>3
  <2>5. /\ waits[s].ds = ds /\ waits[s].em = em /\ waits[s].phase = "write"
        /\ waits'[s].ds = ds /\ waits'[s].em = em /\ waits'[s].phase = "done"
    BY <2>3, <2>4
  <2>6. marked[s] = Transition(ds, em)
    BY <1>1, <2>5 DEF StatesSound
  <2>7. shown'[s] = Final(marked[s][2], marked[s][3])
    BY <2>2, <2>5, <2>6, FinalOfTransition
  <2>8. ASSUME NEW t \in Services
        PROVE  /\ waits'[t] = [ds |-> waits'[t].ds, em |-> waits'[t].em, phase |-> waits'[t].phase]
               /\ waits'[t].phase \in {"wait", "write"} => marked'[t] = Transition(waits'[t].ds, waits'[t].em)
               /\ shown'[t] # marked'[t] => shown'[t] = Final(marked'[t][2], marked'[t][3])
    <3>1. CASE t = s
      BY <2>1, <2>4, <2>5, <2>7, <3>1
    <3>2. CASE t # s
      BY <1>1, <2>1, <2>2, <3>2 DEF StatesSound
    <3> QED
      BY <3>1, <3>2
  <2>9. StatesSound'
    BY <1>1, <2>1, <2>2, <2>8 DEF StatesSound
  <2> QED
    BY <2>1, <2>9, WorkUnchanged DEF BatchInv
<1>4. CASE Resync(s)
  <2>1. SyncCurrentStates(s) /\ UNCHANGED <<batchQueue, current, worker, closed, entered, requests, asked>>
    BY <1>4 DEF Resync
  <2>2. (\E state : updateServiceCurrentState(state, {s})) \/ (\E goal : startCurrentStateWait(goal))
    BY <2>1 DEF SyncCurrentStates
  <2>3. StatesSound'
    BY <1>1, <2>2, StateMarked, WaitStarted
  <2> QED
    BY <2>1, <2>3, WorkUnchanged DEF BatchInv
<1> QED
  BY <1>2, <1>3, <1>4 DEF ssmThread

\* A caller reads the services.
LEMMA AskStep ==
    ASSUME BatchInv, NEW svcs \in SUBSET Services, NEW order \in Orders, Ask(svcs, order)
    PROVE  BatchInv'
<1>1. /\ asked = <<>> /\ requests < MaxRequests /\ requests' = requests + 1
      /\ asked' = <<[svcs |-> svcs, order |-> order, seen |-> shown]>>
      /\ UNCHANGED <<batchQueue, current, worker, closed, entered, shown, marked, waits>>
  BY DEF Ask
<1>2. CallSound'
  <2>1. requests' \in 0 .. MaxRequests /\ requests' # 0 /\ requests \in Nat
    BY <1>1, RequestsAssumption DEF BatchInv, CallSound
  <2>2. asked'[1].svcs \subseteq Services /\ asked'[1].order \in Orders
    BY <1>1
  <2>3. ASSUME NEW n \in 1 .. MaxRequests, n > requests' \/ n = requests' PROVE worker'[Goroutine(n)] = Resting
    <3>1. n > requests
      BY <1>1, <2>1, <2>3
    <3> QED
      BY <1>1, <3>1 DEF BatchInv, CallSound
  <2> QED
    BY <2>1, <2>2, <2>3 DEF CallSound
<1>3. StatesSound'
  BY <1>1, StatesUnchanged DEF BatchInv
<1>4. /\ QueuesSound(batchQueue)' /\ (current \in [QueueNames -> BatchStates])'
      /\ WorkersSound(worker)' /\ WaitersKept'
  <2>1. /\ batchQueue' = batchQueue /\ current' = current /\ worker' = worker
        /\ entered' = entered /\ closed' = closed
        /\ QueuesSound(batchQueue) /\ current \in [QueueNames -> BatchStates] /\ WorkersSound(worker)
    BY <1>1 DEF BatchInv
  <2>2. WaitersKept'
    BY <2>1 DEF BatchInv, WaitersKept
  <2> QED
    BY <2>1, <2>2
<1> QED
  BY <1>2, <1>3, <1>4 DEF BatchInv

\* A worker goes on with its batch, and channels are closed.
LEMMA WorkGoesOn ==
    ASSUME BatchInv, NEW w \in Workers, worker[w].pc # "gone", NEW v, WorkerSound(v),
           worker' = Moved(worker, w, v), worker[w].batch.svcs \subseteq v.batch.svcs \cup closed',
           closed \subseteq closed', StatesSound',
           UNCHANGED <<batchQueue, current, entered, requests, asked>>
    PROVE  BatchInv'
<1>1. /\ WorkersSound(worker') /\ CallSound'
      /\ Worked(worker) \subseteq Worked(worker') \cup worker[w].batch.svcs
      /\ v.batch.svcs \subseteq Worked(worker')
  BY WorkerStep
<1>2. WaitersKept'
  <2>1. entered \subseteq closed \cup AllHeld(batchQueue) \cup Worked(worker)
    BY DEF BatchInv, WaitersKept
  <2>2. entered' = entered /\ AllHeld(batchQueue') = AllHeld(batchQueue)
    OBVIOUS
  <2>3. Worked(worker) \subseteq Worked(worker') \cup closed'
    BY <1>1
  <2> QED
    BY <2>1, <2>2, <2>3 DEF WaitersKept
<1>3. QueuesSound(batchQueue)' /\ (current \in [QueueNames -> BatchStates])'
  <2>1. /\ batchQueue' = batchQueue /\ current' = current
        /\ QueuesSound(batchQueue) /\ current \in [QueueNames -> BatchStates]
    BY DEF BatchInv
  <2> QED
    BY <2>1
<1> QED
  BY <1>1, <1>2, <1>3 DEF BatchInv

\* A loop is one of the workers.
LEMMA LoopIsWorker ==
    ASSUME NEW q \in QueueNames
    PROVE  QueueLoop(q) \in Workers
BY DEF Workers

\* The fields of a worker.
Rec(pc, batch, open, snap, bad) == [pc |-> pc, batch |-> batch, open |-> open, snap |-> snap, bad |-> bad]
SetPc(r, x)    == [r EXCEPT !.pc = x]
SetBatch(r, x) == [r EXCEPT !.batch = x]
SetOpen(r, x)  == [r EXCEPT !.open = x]
SetSnap(r, x)  == [r EXCEPT !.snap = x]
SetBad(r, x)   == [r EXCEPT !.bad = x]

\* The fields of a changed worker.
LEMMA WorkerFields ==
    ASSUME NEW pc, NEW batch, NEW open, NEW snap, NEW bad, NEW x
    PROVE  /\ SetPc(Rec(pc, batch, open, snap, bad), x) = Rec(x, batch, open, snap, bad)
           /\ SetBatch(Rec(pc, batch, open, snap, bad), x) = Rec(pc, x, open, snap, bad)
           /\ SetOpen(Rec(pc, batch, open, snap, bad), x) = Rec(pc, batch, x, snap, bad)
           /\ SetSnap(Rec(pc, batch, open, snap, bad), x) = Rec(pc, batch, open, x, bad)
           /\ SetBad(Rec(pc, batch, open, snap, bad), x) = Rec(pc, batch, open, snap, x)
<1> USE DEF Rec
<1>1. SetPc(Rec(pc, batch, open, snap, bad), x) = Rec(x, batch, open, snap, bad)
  BY DEF SetPc
<1>2. SetBatch(Rec(pc, batch, open, snap, bad), x) = Rec(pc, x, open, snap, bad)
  BY DEF SetBatch
<1>3. SetOpen(Rec(pc, batch, open, snap, bad), x) = Rec(pc, batch, x, snap, bad)
  BY DEF SetOpen
<1>4. SetSnap(Rec(pc, batch, open, snap, bad), x) = Rec(pc, batch, open, x, bad)
  BY DEF SetSnap
<1>5. SetBad(Rec(pc, batch, open, snap, bad), x) = Rec(pc, batch, open, snap, x)
  BY DEF SetBad
<1> QED
  BY <1>1, <1>2, <1>3, <1>4, <1>5

\* A worker in a new place is a worker.
LEMMA WorkerRecord ==
    ASSUME NEW pc, NEW batch, NEW open, NEW snap, NEW bad, NEW v, v = Rec(pc, batch, open, snap, bad)
    PROVE  /\ v.pc = pc /\ v.batch = batch
           /\ (pc \in {"top", "empty", "idle"} => batch.svcs = {}) => WorkerSound(v)
<1>1. /\ v.pc = pc /\ v.batch = batch /\ v.open = open /\ v.snap = snap /\ v.bad = bad
  BY DEF Rec
<1>2. v = [pc |-> v.pc, batch |-> v.batch, open |-> v.open, snap |-> v.snap, bad |-> v.bad]
  BY <1>1 DEF Rec
<1> QED
  BY <1>1, <1>2 DEF WorkerSound

\* Workers are records.
LEMMA WorkerIsRecord ==
    ASSUME NEW v, WorkerSound(v)
    PROVE  v = Rec(v.pc, v.batch, v.open, v.snap, v.bad)
BY DEF WorkerSound, Rec

\* The loop of a queue takes the next batch, or goes to wait for one.
LEMMA LoopStep ==
    ASSUME BatchInv, NEW q \in QueueNames, ssmLoop(q)
    PROVE  BatchInv'
<1>1. PICK w \in Workers : w = QueueLoop(q)
  BY LoopIsWorker
<1>2. /\ worker = [x \in Workers |-> worker[x]] /\ WorkerSound(worker[w])
      /\ QueuesSound(batchQueue) /\ current \in [QueueNames -> BatchStates] /\ StatesSound
  BY DEF BatchInv, WorkersSound
<1>3. PICK pc, batch, open, snap, bad :
        worker[w] = Rec(pc, batch, open, snap, bad)
  BY <1>2, WorkerIsRecord
<1>4. /\ worker[w].pc = pc /\ worker[w].batch = batch
      /\ pc \in {"top", "empty", "idle"} => batch.svcs = {}
  BY <1>2, <1>3, WorkerRecord DEF WorkerSound
<1>5. CASE WaitForChange(q)
  <2>1. /\ worker[w].pc = "empty" /\ worker' = Moved(worker, w, SetPc(worker[w], "idle"))
        /\ UNCHANGED <<batchQueue, current, closed, entered, requests, asked, shown, marked, waits>>
    BY <1>1, <1>2, <1>5 DEF WaitForChange, SsmGoto, Moved, SetPc
  <2>2. PICK v : v = Rec("idle", batch, open, snap, bad)
    OBVIOUS
  <2>3. worker' = Moved(worker, w, v)
    <3>1. SetPc(worker[w], "idle") = v
      BY <1>3, <2>2, WorkerFields
    <3> QED
      BY <2>1, <3>1
  <2>4. v.batch = batch
    BY <2>2, WorkerRecord
  <2>5. WorkerSound(v)
    BY <1>4, <2>1, <2>2, WorkerRecord
  <2>6. StatesSound'
    BY <1>2, <2>1, StatesUnchanged
  <2>7. worker[w].pc # "gone" /\ worker[w].batch.svcs \subseteq v.batch.svcs \cup closed' /\ closed \subseteq closed'
    BY <1>4, <2>1, <2>4
  <2> QED
    BY <2>1, <2>3, <2>5, <2>6, <2>7, WorkGoesOn
<1>6. CASE getNextBatch(q)
  <2>1. /\ worker[w].pc = "top" /\ batch.svcs = {}
        /\ UNCHANGED <<closed, entered, requests, asked, shown, marked, waits>>
    BY <1>1, <1>4, <1>6 DEF getNextBatch
  <2>2. StatesSound'
    BY <1>2, <2>1, StatesUnchanged
  <2>3. CASE batchQueue[q] = <<>>
    <3>1. /\ current' = [current EXCEPT ![q] = NoBatch] /\ batchQueue' = batchQueue
          /\ worker' = Moved(worker, w, SetBad(SetPc(worker[w], "empty"), {}))
      <4>1. /\ current' = [current EXCEPT ![q] = NoBatch] /\ batchQueue' = batchQueue
            /\ worker' = [worker EXCEPT ![w].pc = "empty", ![w].bad = {}]
        BY <1>1, <1>6, <2>3 DEF getNextBatch
      <4> QED
        BY <1>2, <4>1 DEF Moved, SetPc, SetBad
    <3>2. PICK v : v = Rec("empty", batch, open, snap, {})
      OBVIOUS
    <3>3. worker' = Moved(worker, w, v)
      <4>1. SetBad(SetPc(worker[w], "empty"), {}) = v
        BY <1>3, <3>2, WorkerFields
      <4> QED
        BY <3>1, <4>1
    <3>5. WorkerSound(v)
      BY <2>1, <3>2, WorkerRecord
    <3>6. /\ WorkersSound(worker') /\ CallSound'
          /\ Worked(worker) \subseteq Worked(worker') \cup worker[w].batch.svcs
      BY <2>1, <3>3, <3>5, WorkerStep
    <3>7. current' \in [QueueNames -> BatchStates]
      <4>1. NoBatch \in BatchStates
        <5>1. NoBatch \in [svcs : SUBSET Entries, ds : DesiredStates, em : BOOLEAN] /\ NoBatch.em = FALSE
          BY DEF NoBatch, DesiredStates
        <5> QED
          BY <5>1 DEF BatchStates
      <4> QED
        BY <1>2, <3>1, <4>1
    <3>8. WaitersKept'
      <4>1. entered \subseteq closed \cup AllHeld(batchQueue) \cup Worked(worker)
        BY DEF BatchInv, WaitersKept
      <4>2. Worked(worker) \subseteq Worked(worker')
        BY <1>4, <2>1, <3>6
      <4>3. entered' = entered /\ closed' = closed /\ AllHeld(batchQueue') = AllHeld(batchQueue)
        BY <2>1, <3>1
      <4> QED
        BY <4>1, <4>2, <4>3 DEF WaitersKept
    <3>9. QueuesSound(batchQueue)'
      BY <1>2, <3>1
    <3> QED
      BY <2>2, <3>6, <3>7, <3>8, <3>9 DEF BatchInv
  <2>4. CASE batchQueue[q] # <<>>
    <3>1. PICK next : next = Head(batchQueue[q])
      OBVIOUS
    <3>2. /\ current' = [current EXCEPT ![q] = next]
          /\ batchQueue' = [batchQueue EXCEPT ![q] = Tail(@)]
          /\ worker' = Moved(worker, w, SetBatch(SetBad(SetPc(worker[w], "update"), {}), next))
      <4>1. /\ current' = [current EXCEPT ![q] = next]
            /\ batchQueue' = [batchQueue EXCEPT ![q] = Tail(@)]
            /\ worker' = [worker EXCEPT ![w].pc = "update", ![w].bad = {}, ![w].batch = next]
        BY <1>1, <1>6, <2>4, <3>1 DEF getNextBatch
      <4> QED
        BY <1>2, <4>1 DEF Moved, SetPc, SetBad, SetBatch
    <3>3. PICK v : v = Rec("update", next, open, snap, {})
      OBVIOUS
    <3>4. worker' = Moved(worker, w, v)
      <4>1. SetBatch(SetBad(SetPc(worker[w], "update"), {}), next) = v
        BY <1>3, <3>3, WorkerFields
      <4> QED
        BY <3>2, <4>1
    <3>5. v.batch = next
      BY <3>3, WorkerRecord
    <3>6. WorkerSound(v)
      BY <3>3, WorkerRecord
    <3>7. /\ WorkersSound(worker') /\ CallSound'
          /\ Worked(worker) \subseteq Worked(worker') \cup worker[w].batch.svcs
          /\ v.batch.svcs \subseteq Worked(worker')
      BY <2>1, <3>4, <3>6, WorkerStep
    <3>8. PICK r, t : r = batchQueue /\ t = batchQueue'
      OBVIOUS
    <3>9. /\ next \in BatchStates /\ QueuesSound(batchQueue')
          /\ AllHeld(batchQueue) = AllHeld(batchQueue') \cup next.svcs
      <4>1. QueuesSound(r) /\ r[q] # <<>> /\ t = [r EXCEPT ![q] = Tail(@)]
        BY <1>2, <2>4, <3>2, <3>8
      <4>2. Head(r[q]) \in BatchStates /\ QueuesSound(t) /\ AllHeld(r) = AllHeld(t) \cup Head(r[q]).svcs
        BY <4>1, BatchTaken
      <4> QED
        BY <3>1, <3>8, <4>2
    <3>10. current' \in [QueueNames -> BatchStates]
      BY <1>2, <3>2, <3>9
    <3>11. WaitersKept'
      <4>1. entered \subseteq closed \cup AllHeld(batchQueue) \cup Worked(worker)
        BY DEF BatchInv, WaitersKept
      <4>2. Worked(worker) \subseteq Worked(worker') /\ next.svcs \subseteq Worked(worker')
        BY <1>4, <2>1, <3>5, <3>7
      <4>3. entered' = entered /\ closed' = closed
        BY <2>1
      <4> QED
        BY <3>9, <4>1, <4>2, <4>3 DEF WaitersKept
    <3> QED
      BY <2>2, <3>7, <3>9, <3>10, <3>11 DEF BatchInv
  <2> QED
    BY <2>3, <2>4
<1> QED
  BY <1>5, <1>6 DEF ssmLoop

\* The steps of a worker with its batch.
LEMMA WorkStep ==
    ASSUME BatchInv, NEW w \in Workers, ssmWork(w)
    PROVE  BatchInv'
<1>1. worker = [x \in Workers |-> worker[x]] /\ WorkerSound(worker[w]) /\ StatesSound
  BY DEF BatchInv, WorkersSound
<1>2. PICK pc, batch, open, snap, bad :
        worker[w] = Rec(pc, batch, open, snap, bad)
  BY <1>1, WorkerIsRecord
<1>3. worker[w].pc = pc /\ worker[w].batch = batch
  BY <1>2, WorkerRecord
<1>4. ASSUME NEW pc1 \in {"store", "place", "wait"}, NEW open1, NEW snap1, NEW bad1,
             pc # "gone",
             worker' = Moved(worker, w, Rec(pc1, batch, open1, snap1, bad1)),
             closed \subseteq closed', StatesSound',
             UNCHANGED <<batchQueue, current, entered, requests, asked>>
      PROVE  BatchInv'
  <2>1. PICK v : v = Rec(pc1, batch, open1, snap1, bad1)
    OBVIOUS
  <2>2. v.batch = batch
    BY <2>1, WorkerRecord
  <2>3. WorkerSound(v)
    BY <2>1, WorkerRecord
  <2>4. worker' = Moved(worker, w, v)
    BY <1>4, <2>1
  <2>5. worker[w].pc # "gone" /\ worker[w].batch.svcs \subseteq v.batch.svcs \cup closed'
    BY <1>3, <1>4, <2>2
  <2> QED
    BY <1>4, <2>3, <2>4, <2>5, WorkGoesOn
<1>5. CASE UpdateBatch(w)
  <2>1. PICK op, sn, state :
          /\ worker' = [worker EXCEPT ![w].pc = "store", ![w].open = op, ![w].snap = sn]
          /\ updateServiceCurrentState(state, Ids(op))
          /\ worker[w].pc = "update"
          /\ UNCHANGED <<batchQueue, current, closed, entered, requests, asked>>
    BY <1>5 DEF UpdateBatch
  <2>2. worker' = Moved(worker, w, SetSnap(SetOpen(SetPc(worker[w], "store"), op), sn))
    BY <1>1, <2>1 DEF Moved, SetPc, SetOpen, SetSnap
  <2>3. SetSnap(SetOpen(SetPc(worker[w], "store"), op), sn)
          = Rec("store", batch, op, sn, bad)
    BY <1>2, WorkerFields
  <2>4. worker' = Moved(worker, w, Rec("store", batch, op, sn, bad))
    BY <2>2, <2>3
  <2>5. StatesSound'
    BY <1>1, <2>1, StateMarked
  <2> QED
    BY <1>3, <1>4, <2>1, <2>4, <2>5
<1>6. CASE StoreDesired(w)
  <2>0. /\ worker[w].pc = "store"
        /\ UNCHANGED <<batchQueue, current, closed, entered, requests, asked, shown, marked, waits>>
    BY <1>6 DEF StoreDesired
  <2>1. PICK ba, sn : worker' = [worker EXCEPT ![w].pc = "place", ![w].bad = ba, ![w].snap = sn]
    <3> DEFINE b == worker[w].batch
               snp(e) == worker[w].snap[e.id]
               wanted  == {e \in worker[w].open : snp(e).ds # b.ds}
               wrong == {e \in wanted : snp(e).em /\ ~ (b.ds = "Stop" /\ b.em)}
               goal(e) == IF b.ds = "Restart"
                          THEN IF snp(e).ds = "Stop" THEN "Run" ELSE snp(e).ds
                          ELSE b.ds
               good(lost) == wanted \ (wrong \cup lost \cup closed)
               snap1(lost) == [s \in Ids(good(lost)) |->
                                 [ds |-> goal(CHOOSE e \in good(lost) : e.id = s), em |-> FALSE]]
    <3>1. PICK lost : worker' = [worker EXCEPT ![w].pc = "place", ![w].bad = Ids(wrong \cup lost),
                                               ![w].snap = snap1(lost)]
      BY <1>6 DEF StoreDesired
    <3> HIDE DEF snap1, wrong
    <3> QED
      BY <3>1
  <2>2. worker' = Moved(worker, w, SetSnap(SetBad(SetPc(worker[w], "place"), ba), sn))
    BY <1>1, <2>1 DEF Moved, SetPc, SetBad, SetSnap
  <2>3. SetSnap(SetBad(SetPc(worker[w], "place"), ba), sn)
          = Rec("place", batch, open, sn, ba)
    BY <1>2, WorkerFields
  <2>4. worker' = Moved(worker, w, Rec("place", batch, open, sn, ba))
    BY <2>2, <2>3
  <2>5. StatesSound'
    BY <1>1, <2>0, StatesUnchanged
  <2> QED
    BY <1>3, <1>4, <2>0, <2>4, <2>5
<1>7. CASE PlaceBatch(w)
  <2>1. /\ worker[w].pc = "place" /\ closed \subseteq closed'
        /\ UNCHANGED <<batchQueue, current, entered, requests, asked>>
    BY <1>7 DEF PlaceBatch
  <2>2. CASE /\ \E goal : startCurrentStateWait(goal)
             /\ worker' = Moved(worker, w, SetPc(worker[w], "wait"))
    <3>1. SetPc(worker[w], "wait")
            = Rec("wait", batch, open, snap, bad)
      BY <1>2, WorkerFields
    <3>2. worker' = Moved(worker, w, Rec("wait", batch, open, snap, bad))
      BY <2>2, <3>1
    <3>3. StatesSound'
      BY <1>1, <2>2, WaitStarted
    <3> QED
      BY <1>3, <1>4, <2>1, <3>2, <3>3
  <2>3. ASSUME NEW ba, worker' = [worker EXCEPT ![w].pc = "wait", ![w].bad = ba],
               UNCHANGED <<shown, marked, waits>>
        PROVE  BatchInv'
    <3>1. worker' = Moved(worker, w, SetBad(SetPc(worker[w], "wait"), ba))
      BY <1>1, <2>3 DEF Moved, SetPc, SetBad
    <3>2. SetBad(SetPc(worker[w], "wait"), ba)
            = Rec("wait", batch, open, snap, ba)
      BY <1>2, WorkerFields
    <3>3. worker' = Moved(worker, w, Rec("wait", batch, open, snap, ba))
      BY <3>1, <3>2
    <3>4. StatesSound'
      BY <1>1, <2>3, StatesUnchanged
    <3> QED
      BY <1>3, <1>4, <2>1, <3>3, <3>4
  <2>4. \/ /\ \E goal : startCurrentStateWait(goal)
           /\ worker' = Moved(worker, w, SetPc(worker[w], "wait"))
        \/ /\ \E ba : worker' = [worker EXCEPT ![w].pc = "wait", ![w].bad = ba]
           /\ UNCHANGED <<shown, marked, waits>>
    BY <1>1, <1>7 DEF PlaceBatch, SsmGoto, Moved, SetPc
  <2> QED
    BY <2>2, <2>3, <2>4
<1>8. CASE EndWait(w)
  <2>1. PICK pc1, ba : /\ pc1 \in {"top", "gone"}
                       /\ worker' = Moved(worker, w, Rec(pc1, NoBatch, {}, <<>>, ba))
    <3>1. worker' = [worker EXCEPT ![w] = IF IsQueue(w) THEN [Resting EXCEPT !.pc = "top", !.bad = worker[w].bad]
                                          ELSE Resting]
      BY <1>8 DEF EndWait
    <3>2. PICK b : b = worker[w].bad
      OBVIOUS
    <3>3. Resting = Rec("gone", NoBatch, {}, <<>>, {})
      BY DEF Resting, Rec
    <3>6. [Resting EXCEPT !.pc = "top", !.bad = b] = Rec("top", NoBatch, {}, <<>>, b)
      <4>1. SetBad(SetPc(Resting, "top"), b) = Rec("top", NoBatch, {}, <<>>, b)
        BY <3>3, WorkerFields
      <4> QED
        BY <4>1 DEF SetBad, SetPc
    <3>4. CASE IsQueue(w)
      <4>1. worker' = Moved(worker, w, Rec("top", NoBatch, {}, <<>>, b))
        BY <3>1, <3>2, <3>4, <3>6 DEF Moved
      <4> QED
        BY <4>1
    <3>5. CASE ~ IsQueue(w)
      <4>1. worker' = Moved(worker, w, Rec("gone", NoBatch, {}, <<>>, {}))
        BY <3>1, <3>3, <3>5 DEF Moved
      <4> QED
        BY <4>1
    <3> QED
      BY <3>4, <3>5
  <2>2. /\ worker[w].pc = "wait" /\ closed' = closed \cup worker[w].batch.svcs
        /\ UNCHANGED <<batchQueue, current, entered, requests, asked, shown, marked, waits>>
    BY <1>8 DEF EndWait
  <2>3. PICK v : v = Rec(pc1, NoBatch, {}, <<>>, ba)
    OBVIOUS
  <2>5. WorkerSound(v)
    <3>1. NoBatch.svcs = {}
      BY DEF NoBatch
    <3> QED
      BY <2>3, <3>1, WorkerRecord
  <2>6. worker' = Moved(worker, w, v)
    BY <2>1, <2>3
  <2>7. StatesSound'
    BY <1>1, <2>2, StatesUnchanged
  <2> QED
    BY <2>2, <2>5, <2>6, <2>7, WorkGoesOn
<1> QED
  BY <1>5, <1>6, <1>7, <1>8 DEF ssmWork

\* A call is scheduled.
LEMMA ScheduleStep ==
    ASSUME BatchInv, NEW first \in QueueNames, ScheduleServices(first)
    PROVE  BatchInv'
<1>1. /\ StatesSound /\ QueuesSound(batchQueue) /\ current \in [QueueNames -> BatchStates]
      /\ WorkersSound(worker) /\ CallSound /\ WaitersKept
  BY DEF BatchInv
<1>2. PICK n : n = requests
  OBVIOUS
<1>3. asked # <<>> /\ n \in 1 .. MaxRequests /\ n \in Nat
      /\ asked[1].svcs \subseteq Services /\ asked[1].order \in Orders
  <2>1. asked # <<>>
    BY DEF ScheduleServices
  <2>2. requests \in 0 .. MaxRequests /\ requests # 0 /\ MaxRequests \in Nat
    BY <1>1, <2>1, RequestsAssumption DEF CallSound
  <2>3. asked[1].svcs \subseteq Services /\ asked[1].order \in Orders
    BY <1>1, <2>1 DEF CallSound
  <2>4. n \in 1 .. MaxRequests /\ n \in Nat
    BY <1>2, <2>2
  <2> QED
    BY <2>1, <2>3, <2>4
<1>4. PICK second \in QueueNames : second = (CHOOSE q \in QueueNames : q # first) /\ first # second
  <2>1. \E q \in QueueNames : q # first
    BY DEF QueueNames
  <2> QED
    BY <2>1
<1>5. PICK svcs, ds, em : /\ svcs = {[id |-> s, n |-> n] : s \in asked[1].svcs}
                          /\ ds = asked[1].order.ds /\ em = asked[1].order.em
  OBVIOUS
<1>6. PICK new : new = [svcs |-> svcs, ds |-> ds, em |-> em]
  OBVIOUS
<1>7. new \in BatchStates /\ new.svcs = svcs
  <2>1. svcs \in SUBSET Entries
    BY <1>3, <1>5 DEF Entries
  <2>2. ds \in DesiredStates /\ em \in BOOLEAN /\ (em => ds = "Stop")
    BY <1>3, <1>5, OrdersAssumption DEF DesiredStates
  <2>3. new.svcs = svcs /\ new.ds = ds
    BY <1>6
  <2>4. new.em = em
    BY <1>6
  <2>5. new \in [svcs : SUBSET Entries, ds : DesiredStates, em : BOOLEAN]
    BY <1>6, <2>1, <2>2
  <2> QED
    BY <2>2, <2>3, <2>4, <2>5 DEF BatchStates
<1> DEFINE Second == CHOOSE q \in QueueNames : q # first
           New  == [svcs |-> {[id |-> s, n |-> requests] : s \in asked[1].svcs},
                    ds |-> asked[1].order.ds, em |-> asked[1].order.em]
           Acc0 == [new |-> New, kept |-> <<>>, fast |-> {}, shut |-> {}, again |-> {}]
           Acc1 == reconcileWithBatchQueue(Acc0, batchQueue[first])
           Acc2 == reconcileWithPendingBatch(Acc1, current[first])
           Acc3 == reconcileWithBatchQueue(Acc2, batchQueue[Second])
           Acc4 == reconcileWithPendingBatch(Acc3, current[Second])
           Acc  == reconcileWithCurrentState(Acc4, asked[1].seen)
           Home == QueueOf(Acc.new.ds)
           Left == [batchQueue EXCEPT ![first] = Acc1.kept, ![Second] = Acc3.kept]
<1>8. /\ closed' = closed \cup Acc.shut
      /\ entered' = entered \cup Acc.new.svcs
      /\ batchQueue' = IF Acc.new.svcs = {} THEN Left
                       ELSE IF Acc.new.em THEN [Left EXCEPT ![Home] = mergeEmergencyBatch(@, Acc.new)]
                       ELSE [Left EXCEPT ![Home] = mergeBatch(@, Acc.new)]
      /\ worker' = [w \in Workers |->
            CASE w = Goroutine(requests) /\ Acc.fast # {} ->
                   [Resting EXCEPT !.pc = "update", !.batch = [Acc.new EXCEPT !.svcs = Acc.fast]]
              [] w = QueueLoop(Home) /\ Acc.new.svcs # {} /\ worker[w].pc = "idle" ->
                   [worker[w] EXCEPT !.pc = "top"]
              [] OTHER -> worker[w]]
      /\ IF Acc.new.svcs = {} THEN UNCHANGED <<shown, marked, waits>>
         ELSE updateServiceCurrentState(Pending(Acc.new.ds, Acc.new.em), Ids(Acc.new.svcs))
      /\ asked' = <<>>
      /\ UNCHANGED <<current, requests>>
  BY DEF ScheduleServices
<1>9. PICK r, cur, seen : r = batchQueue /\ cur = current /\ seen = asked[1].seen
  OBVIOUS
<1> HIDE DEF Acc0, Acc1, Acc2, Acc3, Acc4, Acc, Home, Left
<1>10. PICK a0, a1, a2, a3, a4 : a0 = Acc0 /\ a1 = Acc1 /\ a2 = Acc2 /\ a3 = Acc3 /\ a4 = Acc4
  OBVIOUS
<1>11. PICK c, home, rest : c = Acc /\ home = Home /\ rest = Left
  OBVIOUS
<1>12. a0 = FirstAcc(new)
  <2>1. New = new
    BY <1>2, <1>5, <1>6
  <2> QED
    BY <1>10, <2>1 DEF Acc0, FirstAcc
<1>13. /\ a1 = reconcileWithBatchQueue(a0, r[first])
       /\ a2 = reconcileWithPendingBatch(a1, cur[first])
       /\ a3 = reconcileWithBatchQueue(a2, r[second])
       /\ a4 = reconcileWithPendingBatch(a3, cur[second])
  BY <1>4, <1>9, <1>10 DEF Acc1, Acc2, Acc3, Acc4
<1>14. c = reconcileWithCurrentState(a4, seen)
  BY <1>9, <1>10, <1>11 DEF Acc
<1>15. rest = Replaced(r, first, a1.kept, second, a3.kept)
  BY <1>4, <1>9, <1>10, <1>11 DEF Left, Replaced
<1>16. home = QueueOf(c.new.ds)
  BY <1>11 DEF Home
<1>17. /\ closed' = closed \cup c.shut
       /\ entered' = entered \cup c.new.svcs
       /\ batchQueue' = IF c.new.svcs = {} THEN rest
                        ELSE IF c.new.em THEN [rest EXCEPT ![home] = mergeEmergencyBatch(@, c.new)]
                        ELSE [rest EXCEPT ![home] = mergeBatch(@, c.new)]
       /\ worker' = [w \in Workers |->
             CASE w = Goroutine(n) /\ c.fast # {} ->
                    [Resting EXCEPT !.pc = "update", !.batch = [c.new EXCEPT !.svcs = c.fast]]
               [] w = QueueLoop(home) /\ c.new.svcs # {} /\ worker[w].pc = "idle" ->
                    [worker[w] EXCEPT !.pc = "top"]
               [] OTHER -> worker[w]]
       /\ IF c.new.svcs = {} THEN UNCHANGED <<shown, marked, waits>>
          ELSE updateServiceCurrentState(Pending(c.new.ds, c.new.em), Ids(c.new.svcs))
       /\ asked' = <<>>
       /\ UNCHANGED <<current, requests>>
  BY <1>2, <1>8, <1>11
<1>18. Settled(new, r, rest, c)
  <2>1. QueuesSound(r) /\ cur \in [QueueNames -> BatchStates]
    BY <1>1, <1>9
  <2> QED
    BY <1>4, <1>7, <1>12, <1>13, <1>14, <1>15, <2>1, QueuesReconciled
<1>19. /\ c \in Accs /\ c.new \in BatchStates /\ QueuesSound(rest)
       /\ AllHeld(r) \subseteq c.fast \cup c.shut \cup AllHeld(rest)
       /\ \A d \in AllHeld(rest), e \in c.new.svcs : d.id # e.id
  BY <1>18 DEF Settled, Accs
<1>20. home \in QueueNames
  BY <1>16 DEF QueueOf, QueueNames
<1>21. PICK b, m : b = c.new /\ m = batchQueue'
  OBVIOUS
<1>22. QueuesSound(m) /\ AllHeld(m) = AllHeld(rest) \cup b.svcs
  <2>1. m = IF b.svcs = {} THEN rest
            ELSE IF b.em THEN [rest EXCEPT ![home] = mergeEmergencyBatch(@, b)]
            ELSE [rest EXCEPT ![home] = mergeBatch(@, b)]
    BY <1>17, <1>21
  <2>2. b \in BatchStates /\ QueuesSound(rest) /\ \A d \in AllHeld(rest), e \in b.svcs : d.id # e.id
    BY <1>19, <1>21
  <2> QED
    BY <1>20, <2>1, <2>2, BatchQueued
<1>23. StatesSound'
  <2>1. CASE c.new.svcs = {}
    BY <1>1, <1>17, <2>1, StatesUnchanged
  <2>2. CASE c.new.svcs # {}
    <3>1. \E state, ids : updateServiceCurrentState(state, ids)
      BY <1>17, <2>2
    <3> QED
      BY <1>1, <3>1, StateMarked
  <2> QED
    BY <2>1, <2>2
<1>24. PICK fast, woken : fast = c.fast /\ woken = (c.new.svcs # {})
  OBVIOUS
<1>25. PICK bn : bn = [c.new EXCEPT !.svcs = fast]
  OBVIOUS
<1>26. bn.svcs = fast
  BY <1>19, <1>25 DEF BatchStates
<1>27. /\ Goroutine(n) \in Workers /\ QueueLoop(home) \in Workers
       /\ \A k : Goroutine(k) # QueueLoop(home)
       /\ \A k : Goroutine(k) = Goroutine(n) => k = n
  BY <1>3, <1>20, LoopIsWorker DEF Workers, Goroutine, QueueLoop, QueueNames
<1>28. worker[Goroutine(n)] = Resting
  BY <1>1, <1>2, <1>3 DEF CallSound
<1>29. worker' = [w \in Workers |->
             CASE w = Goroutine(n) /\ fast # {} ->
                    [Resting EXCEPT !.pc = "update", !.batch = bn]
               [] w = QueueLoop(home) /\ woken /\ worker[w].pc = "idle" ->
                    [worker[w] EXCEPT !.pc = "top"]
               [] OTHER -> worker[w]]
  BY <1>17, <1>24, <1>25
<1>30. worker' = [w \in Workers |-> worker'[w]]
  BY <1>29
<1>31. ASSUME NEW w \in Workers
       PROVE  \/ w = Goroutine(n) /\ fast # {} /\ worker'[w] = Rec("update", bn, {}, <<>>, {})
              \/ w = QueueLoop(home) /\ worker[w].pc = "idle" /\ worker'[w] = SetPc(worker[w], "top")
              \/ (w # Goroutine(n) \/ fast = {}) /\ worker'[w] = worker[w]
  <2>1. CASE w = Goroutine(n) /\ fast # {}
    <3>1. worker'[w] = [Resting EXCEPT !.pc = "update", !.batch = bn]
      BY <1>27, <1>29, <2>1
    <3>2. Resting = Rec("gone", NoBatch, {}, <<>>, {})
      BY DEF Resting, Rec
    <3>3. SetBatch(SetPc(Resting, "update"), bn) = Rec("update", bn, {}, <<>>, {})
      BY <3>2, WorkerFields
    <3>4. [Resting EXCEPT !.pc = "update", !.batch = bn] = SetBatch(SetPc(Resting, "update"), bn)
      BY DEF SetBatch, SetPc
    <3> QED
      BY <2>1, <3>1, <3>3, <3>4
  <2>2. CASE ~ (w = Goroutine(n) /\ fast # {}) /\ w = QueueLoop(home) /\ woken /\ worker[w].pc = "idle"
    <3>1. worker'[w] = [worker[w] EXCEPT !.pc = "top"]
      BY <1>29, <2>2
    <3> QED
      BY <2>2, <3>1 DEF SetPc
  <2>3. CASE ~ (w = Goroutine(n) /\ fast # {}) /\ ~ (w = QueueLoop(home) /\ woken /\ worker[w].pc = "idle")
    <3>1. worker'[w] = worker[w]
      BY <1>29, <2>3
    <3> QED
      BY <2>3, <3>1
  <2> QED
    BY <2>1, <2>2, <2>3
<1>32. ASSUME NEW w \in Workers
       PROVE  WorkerSound(worker'[w]) /\ worker[w].batch.svcs \subseteq worker'[w].batch.svcs
  <2>1. WorkerSound(worker[w])
    BY <1>1 DEF WorkersSound
  <2>2. CASE w = Goroutine(n) /\ fast # {} /\ worker'[w] = Rec("update", bn, {}, <<>>, {})
    <3>1. WorkerSound(worker'[w])
      BY <2>2, WorkerRecord
    <3>2. worker[w].batch.svcs = {}
      BY <1>28, <2>2 DEF Resting, NoBatch
    <3> QED
      BY <3>1, <3>2
  <2>3. CASE w = QueueLoop(home) /\ worker[w].pc = "idle" /\ worker'[w] = SetPc(worker[w], "top")
    <3>1. PICK pc, batch, open, snap, bad : worker[w] = Rec(pc, batch, open, snap, bad)
      BY <2>1, WorkerIsRecord
    <3>2. worker[w].pc = pc /\ worker[w].batch = batch /\ batch.svcs = {}
      BY <2>1, <2>3, <3>1, WorkerRecord DEF WorkerSound
    <3>3. worker'[w] = Rec("top", batch, open, snap, bad)
      BY <2>3, <3>1, WorkerFields
    <3> QED
      BY <3>2, <3>3, WorkerRecord
  <2>4. CASE worker'[w] = worker[w]
    BY <2>1, <2>4
  <2> QED
    BY <1>31, <2>2, <2>3, <2>4
<1>33. WorkersSound(worker')
  BY <1>30, <1>32 DEF WorkersSound
<1>34. Worked(worker) \cup fast \subseteq Worked(worker')
  <2>1. Worked(worker) \subseteq Worked(worker')
    BY <1>32 DEF Worked
  <2>2. CASE fast # {}
    <3>1. worker'[Goroutine(n)] = Rec("update", bn, {}, <<>>, {})
      BY <1>27, <1>31, <2>2
    <3>2. worker'[Goroutine(n)].batch = bn
      BY <3>1, WorkerRecord
    <3> QED
      BY <1>26, <1>27, <2>1, <3>2 DEF Worked
  <2> QED
    BY <2>1, <2>2
<1>35. CallSound'
  <2>1. ASSUME NEW k \in 1 .. MaxRequests, k > requests' PROVE worker'[Goroutine(k)] = Resting
    <3>1. k > n /\ k # n
      BY <1>2, <1>3, <1>17, <2>1
    <3>2. worker[Goroutine(k)] = Resting /\ Goroutine(k) \in Workers
      BY <1>1, <1>2, <3>1 DEF CallSound, Workers
    <3>3. Goroutine(k) # Goroutine(n) /\ Goroutine(k) # QueueLoop(home)
      BY <1>27, <3>1
    <3> QED
      BY <1>31, <3>2, <3>3
  <2>2. requests' \in 0 .. MaxRequests /\ ~ (asked' # <<>>)
    BY <1>1, <1>17 DEF CallSound
  <2> QED
    BY <2>1, <2>2 DEF CallSound
<1>36. WaitersKept'
  <2>1. entered \subseteq closed \cup AllHeld(r) \cup Worked(worker)
    BY <1>1, <1>9 DEF WaitersKept
  <2>2. AllHeld(r) \subseteq fast \cup closed' \cup AllHeld(rest)
    BY <1>17, <1>19, <1>24
  <2>3. AllHeld(batchQueue') = AllHeld(rest) \cup c.new.svcs
    BY <1>21, <1>22
  <2>4. closed \subseteq closed' /\ entered' = entered \cup c.new.svcs
    BY <1>17
  <2> QED
    BY <1>34, <2>1, <2>2, <2>3, <2>4 DEF WaitersKept
<1>37. QueuesSound(batchQueue)' /\ (current \in [QueueNames -> BatchStates])'
  BY <1>1, <1>17, <1>21, <1>22
<1> QED
  BY <1>23, <1>33, <1>35, <1>36, <1>37 DEF BatchInv

\* Every step keeps the invariant.
LEMMA BatchInvNext == BatchInv /\ [ssmNext]_ssmVars => BatchInv'
<1> SUFFICES ASSUME BatchInv, [ssmNext]_ssmVars PROVE BatchInv'
  OBVIOUS
<1>1. CASE \E svcs \in (SUBSET Services) \ {{}}, order \in Orders : Ask(svcs, order)
  BY <1>1, AskStep
<1>2. CASE \E q \in QueueNames : ScheduleServices(q) \/ ssmLoop(q)
  BY <1>2, ScheduleStep, LoopStep
<1>3. CASE \E w \in Workers : ssmWork(w)
  BY <1>3, WorkStep
<1>4. CASE \E s \in Services : ssmThread(s)
  BY <1>4, ThreadStep
<1>5. CASE UNCHANGED ssmVars
  <2>1. UNCHANGED <<batchQueue, current, worker, closed, entered, requests, asked, shown, marked, waits>>
    BY <1>5 DEF ssmVars
  <2>2. StatesSound'
    BY <2>1, StatesUnchanged DEF BatchInv
  <2> QED
    BY <2>1, <2>2, WorkUnchanged DEF BatchInv
<1> QED
  BY <1>1, <1>2, <1>3, <1>4, <1>5 DEF ssmNext

\* The invariant gives BatchesSound.
LEMMA BatchInvSound == BatchInv => BatchesSound
<1> SUFFICES ASSUME BatchInv PROVE BatchesSound
  OBVIOUS
<1>1. QueuesSound(batchQueue)
  BY DEF BatchInv
<1>2. QueuedOnce
  <2> SUFFICES ASSUME NEW q \in QueueNames, NEW p \in QueueNames,
                      NEW i \in DOMAIN batchQueue[q], NEW j \in DOMAIN batchQueue[p],
                      Ids(batchQueue[q][i].svcs) \cap Ids(batchQueue[p][j].svcs) # {}
               PROVE  q = p /\ i = j
    BY DEF QueuedOnce
  <2>1. PICK d \in batchQueue[q][i].svcs, e \in batchQueue[p][j].svcs : d.id = e.id
    BY DEF Ids
  <2>2. d \in Held(batchQueue[q]) /\ e \in Held(batchQueue[p])
    BY DEF Held
  <2>3. q = p
    BY <1>1, <2>1, <2>2 DEF QueuesSound
  <2>4. BatchesApart(batchQueue[q])
    BY <1>1 DEF QueuesSound, Orderly
  <2> QED
    BY <2>1, <2>3, <2>4 DEF BatchesApart
<1>3. NoForgottenWaiter
  <2> SUFFICES ASSUME NEW e \in entered, e \notin closed
               PROVE  \/ \E b \in QueuedBatches : e \in b.svcs
                      \/ \E w \in Workers : e \in worker[w].batch.svcs
    BY DEF NoForgottenWaiter
  <2>1. e \in AllHeld(batchQueue) \/ e \in Worked(worker)
    BY DEF BatchInv, WaitersKept
  <2>2. CASE e \in AllHeld(batchQueue)
    <3>1. PICK q \in QueueNames : e \in Held(batchQueue[q])
      BY <2>2 DEF AllHeld, QueueNames
    <3>2. PICK i \in DOMAIN batchQueue[q] : e \in batchQueue[q][i].svcs
      BY <3>1 DEF Held
    <3>3. batchQueue[q][i] \in QueuedBatches
      BY DEF QueuedBatches
    <3> QED
      BY <3>2, <3>3
  <2>3. CASE e \in Worked(worker)
    BY <2>3 DEF Worked
  <2> QED
    BY <2>1, <2>2, <2>3
<1>4. EmergencyFirst
  <2> SUFFICES ASSUME NEW q \in QueueNames, NEW i \in DOMAIN batchQueue[q], NEW j \in DOMAIN batchQueue[q],
                      i < j, batchQueue[q][j].em
               PROVE  /\ batchQueue[q][i].em
                      /\ \A d \in batchQueue[q][i].svcs, e \in batchQueue[q][j].svcs :
                           OrderKey(d.id, "Stop", TRUE) < OrderKey(e.id, "Stop", TRUE)
    BY DEF EmergencyFirst
  <2>1. UrgentFirst(batchQueue[q])
    BY <1>1 DEF QueuesSound, Orderly
  <2> QED
    BY <2>1 DEF UrgentFirst
<1>5. NoStaleFinal
  BY DEF BatchInv, StatesSound, NoStaleFinal
<1> QED
  BY <1>2, <1>3, <1>4, <1>5 DEF BatchesSound

\* However the calls of ScheduleServices, the loops of the two queues, the goroutines of the
\* expedited batches and the threads that follow the services overlap: a service is queued
\* once, no caller of WaitScheduled is forgotten, emergencies go first in the order of their
\* levels, and no final state is shown that is not the end of the last transition.
THEOREM BatchesStaySound == ssmSpec => []BatchesSound
<1>1. ssmInit => BatchInv
  BY BatchInvInit
<1>2. BatchInv /\ [ssmNext]_ssmVars => BatchInv'
  BY BatchInvNext
<1>3. BatchInv => BatchesSound
  BY BatchInvSound
<1> QED
  BY <1>1, <1>2, <1>3, PTL DEF ssmSpec
=============================================================================
