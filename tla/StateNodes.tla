----------------------------- MODULE StateNodes -----------------------------
(***************************************************************************)
(* The three ZooKeeper nodes of ONE state and the operations on them       *)
(* (zzk/service/state.go, coordinator/client/zookeeper/transaction.go):    *)
(*   hs   /hosts/<host>/instances/<state>      the desired state           *)
(*   ss   /services/<service>/<state>          what the agent knows        *)
(*   cs   /services/<service>/<state>/current  the current status          *)
(* CreateState is one transaction.  UpdateState reads the nodes one by one *)
(* and commits a transaction that checks the versions it has read.         *)
(* DeleteState asks for the nodes one by one, reads the versions of those  *)
(* it found one by one, and commits a transaction that deletes them.       *)
(* CleanHostStates and CleanServiceStates ask for the nodes one by one and *)
(* delete the state when one is missing.                                   *)
(*                                                                         *)
(* The scheduler, the operators and the agent run these operations at the  *)
(* same time; each call to ZooKeeper is a step.  ZooKeeper counts the      *)
(* versions of a node from 0 again when the node is created anew, so a     *)
(* version does not tell the life of a node it comes from.  The field life *)
(* does; only the properties look at it.                                   *)
(***************************************************************************)
EXTENDS Integers, Sequences

CONSTANTS
    Clients,       \* the goroutines that work on the state
    LifeLimit,     \* bound: how often the state is created
    UpdateLimit,   \* bound: updates begun
    DeleteLimit,   \* bound: deletes and cleans begun, beside those of Start
    FaultLimit     \* bound: operations that break off

ASSUME LimitsAssumption ==
    /\ LifeLimit \in Nat /\ UpdateLimit \in Nat /\ DeleteLimit \in Nat /\ FaultLimit \in Nat

Nodes == {"hs", "ss", "cs"}
UpdateOrder == <<"hs", "ss", "cs">>    \* the order of the reads of UpdateState
ValidOrder == <<"hs", "ss", "cs">>     \* and of IsValidState
DeleteOrder == <<"hs", "cs", "ss">>    \* and of DeleteState

\* The changes that callers of UpdateState make, and the other operations.
Changes == {"pause", "resume", "stop", "save", "status"}
Operations == Changes \cup {"start", "delete", "clean", "none"}
DesiredStates == {"Run", "Pause", "Stop"}
NoOperation == [kind |-> "none", num |-> 0]

\* A node.  Of the data, hs has the desired state, ss the number of the update
\* that stored what the agent knows, and cs of the one that stored the status.
Absent == [life |-> 0, ver |-> 0, desired |-> "None", num |-> 0]
Exists(n) == n.life # 0

VARIABLES
    zk,      \* ZooKeeper: the nodes
    lives,   \* ZooKeeper: how often the state has been created
    pc,      \* each client: where it is
    step,    \* each client: how far in the order of its reads
    nodeOp,      \* each client: the operation, and the number of the update
    rd,      \* each client: the nodes as UpdateState or Commit read them
    del,     \* each client: the nodes that DeleteState found
    since,   \* each client: the lives when its operation began
    updates, deletes, faults   \* how much of each bound is used

boundVars == <<updates, deletes, faults>>
nodesVars == <<zk, lives, pc, step, nodeOp, rd, del, since, updates, deletes, faults>>

nodesInit ==
    /\ zk = [n \in Nodes |-> Absent] /\ lives = 0
    /\ pc = [c \in Clients |-> "idle"]
    /\ step = [c \in Clients |-> 1]
    /\ nodeOp = [c \in Clients |-> NoOperation]
    /\ rd = [c \in Clients |-> [n \in Nodes |-> Absent]]
    /\ del = [c \in Clients |-> {}]
    /\ since = [c \in Clients |-> 0]
    /\ updates = 0 /\ deletes = 0 /\ faults = 0

\* A client's operation is over, or its next part begins.
Goto(c, to) ==
    /\ pc' = [pc EXCEPT ![c] = to]
    /\ step' = [step EXCEPT ![c] = 1]
    /\ IF to = "idle" THEN /\ nodeOp' = [nodeOp EXCEPT ![c] = NoOperation]
                           /\ rd' = [rd EXCEPT ![c] = [n \in Nodes |-> Absent]]
                           /\ del' = [del EXCEPT ![c] = {}]
                           /\ since' = [since EXCEPT ![c] = 0]
                      ELSE UNCHANGED <<nodeOp, rd, del, since>>

\* The state is listed below its host or below its service.
Listed == Exists(zk["hs"]) \/ Exists(zk["ss"])

-----------------------------------------------------------------------------
(* UpdateState                                                             *)

BeginUpdate(c, change) ==
    /\ pc[c] = "idle" /\ Listed
    /\ updates < UpdateLimit /\ updates' = updates + 1
    /\ pc' = [pc EXCEPT ![c] = "get"]
    /\ nodeOp' = [nodeOp EXCEPT ![c] = [kind |-> change, num |-> updates']]
    /\ UNCHANGED <<zk, lives, step, rd, del, since, deletes, faults>>

\* Get one of the nodes; an error when it is absent.
Get(c) ==
    /\ pc[c] = "get"
    /\ LET n == UpdateOrder[step[c]] IN
         IF Exists(zk[n])
           THEN /\ rd' = [rd EXCEPT ![c][n] = zk[n]]
                /\ IF step[c] = 3
                     THEN pc' = [pc EXCEPT ![c] = "set"] /\ step' = [step EXCEPT ![c] = 1]
                     ELSE step' = [step EXCEPT ![c] = @ + 1] /\ UNCHANGED pc
                /\ UNCHANGED <<nodeOp, del, since>>
           ELSE Goto(c, "idle")
    /\ UNCHANGED <<zk, lives, boundVars>>

\* What mutate makes of the desired state; None when it returns false.
Mutate(change, desired) ==
    CASE change = "pause" -> IF desired = "Run" THEN "Pause" ELSE "None"
      [] change = "resume" -> IF desired = "Pause" THEN "Run" ELSE "None"
      [] change = "stop" -> IF desired # "Stop" THEN "Stop" ELSE "None"
      [] change \in {"save", "status"} -> desired

\* The versions that a transaction checks.
Unchanged(c, S) == \A n \in S : Exists(zk[n]) /\ zk[n].ver = rd[c][n].ver

\* A node as the transaction of UpdateState sets it.
NewData(c, n, desired) ==
    [zk[n] EXCEPT !.ver = @ + 1,
                  !.desired = IF n = "hs" THEN desired ELSE "None",
                  !.num = IF <<n, nodeOp[c].kind>> \in {<<"ss", "save">>, <<"cs", "status">>}
                          THEN nodeOp[c].num ELSE rd[c][n].num]

\* Mutant: the transaction checks only that the nodes exist.
UnversionedSet(c) ==
    /\ pc[c] = "set"
    /\ LET desired == Mutate(nodeOp[c].kind, rd[c]["hs"].desired)
       IN IF desired # "None" /\ \A n \in Nodes : Exists(zk[n])
            THEN zk' = [n \in Nodes |-> NewData(c, n, desired)]
            ELSE UNCHANGED zk
    /\ Goto(c, "idle")
    /\ UNCHANGED <<lives, boundVars>>

\* mutate, and the transaction that sets the three nodes; nothing is set when
\* mutate returns false or when a node is gone or has another version.
Set(c) ==
    /\ pc[c] = "set"
    /\ LET desired == Mutate(nodeOp[c].kind, rd[c]["hs"].desired)
       IN IF desired # "None" /\ Unchanged(c, Nodes)
            THEN zk' = [n \in Nodes |-> NewData(c, n, desired)]
            ELSE UNCHANGED zk
    /\ Goto(c, "idle")
    /\ UNCHANGED <<lives, boundVars>>

-----------------------------------------------------------------------------
(* DeleteState, CleanHostStates and CleanServiceStates                     *)

BeginDelete(c) ==
    /\ pc[c] = "idle" /\ Listed
    /\ deletes < DeleteLimit /\ deletes' = deletes + 1
    /\ pc' = [pc EXCEPT ![c] = "exists"]
    /\ nodeOp' = [nodeOp EXCEPT ![c].kind = "delete"]
    /\ since' = [since EXCEPT ![c] = lives]
    /\ UNCHANGED <<zk, lives, step, rd, del, updates, faults>>

BeginClean(c) ==
    /\ pc[c] = "idle" /\ Listed
    /\ deletes < DeleteLimit /\ deletes' = deletes + 1
    /\ pc' = [pc EXCEPT ![c] = "valid"]
    /\ nodeOp' = [nodeOp EXCEPT ![c].kind = "clean"]
    /\ since' = [since EXCEPT ![c] = lives]
    /\ UNCHANGED <<zk, lives, step, rd, del, updates, faults>>

\* IsValidState asks for one node; the state is deleted when it is absent.
IsValid(c) ==
    /\ pc[c] = "valid"
    /\ IF Exists(zk[ValidOrder[step[c]]])
         THEN IF step[c] = 3
                THEN Goto(c, "idle")
                ELSE step' = [step EXCEPT ![c] = @ + 1] /\ UNCHANGED <<pc, nodeOp, rd, del, since>>
         ELSE Goto(c, "exists")
    /\ UNCHANGED <<zk, lives, boundVars>>

\* DeleteState asks for one node, and puts it in the transaction if it exists.
Find(c) ==
    /\ pc[c] = "exists"
    /\ LET n == DeleteOrder[step[c]] IN
         del' = [del EXCEPT ![c] = IF Exists(zk[n]) THEN @ \cup {n} ELSE @]
    /\ IF step[c] = 3
         THEN pc' = [pc EXCEPT ![c] = "version"] /\ step' = [step EXCEPT ![c] = 1]
         ELSE step' = [step EXCEPT ![c] = @ + 1] /\ UNCHANGED pc
    /\ UNCHANGED <<zk, lives, nodeOp, rd, since, boundVars>>

\* DeleteState has failed.  Start goes on all the same.
DeleteFails(c) == Goto(c, IF nodeOp[c].kind = "start" THEN "create" ELSE "idle")

\* Commit reads the version of one node that is to be deleted.
ReadVersion(c) ==
    /\ pc[c] = "version"
    /\ LET n == DeleteOrder[step[c]] IN
         IF n \in del[c] /\ ~ Exists(zk[n])
           THEN DeleteFails(c)
           ELSE /\ rd' = [rd EXCEPT ![c][n] = IF n \in del[c] THEN zk[n] ELSE @]
                /\ IF step[c] = 3
                     THEN pc' = [pc EXCEPT ![c] = "multi"] /\ step' = [step EXCEPT ![c] = 1]
                     ELSE step' = [step EXCEPT ![c] = @ + 1] /\ UNCHANGED pc
                /\ UNCHANGED <<nodeOp, del, since>>
    /\ UNCHANGED <<zk, lives, boundVars>>

\* Mutant: hs is deleted on its own, before the rest.
DeleteInTwo(c) ==
    /\ pc[c] = "multi"
    /\ IF "hs" \in del[c]
         THEN /\ zk' = [zk EXCEPT !["hs"] = Absent]
              /\ del' = [del EXCEPT ![c] = @ \ {"hs"}]
              /\ UNCHANGED <<pc, step, nodeOp, rd, since>>
         ELSE /\ zk' = [n \in Nodes |-> IF n \in del[c] THEN Absent ELSE zk[n]]
              /\ Goto(c, IF nodeOp[c].kind = "start" THEN "create" ELSE "deleted")
    /\ UNCHANGED <<lives, boundVars>>

\* The transaction that deletes the nodes.  It fails if one of them is gone or
\* has another version, or if ss would be left without its parent.
Delete(c) ==
    /\ pc[c] = "multi"
    /\ IF Unchanged(c, del[c]) /\ ("ss" \in del[c] /\ Exists(zk["cs"]) => "cs" \in del[c])
         THEN /\ zk' = [n \in Nodes |-> IF n \in del[c] THEN Absent ELSE zk[n]]
              /\ Goto(c, IF nodeOp[c].kind = "start" THEN "create" ELSE "deleted")
         ELSE UNCHANGED zk /\ DeleteFails(c)
    /\ UNCHANGED <<lives, boundVars>>

\* DeleteState returns without an error.
Return(c) ==
    /\ pc[c] = "deleted"
    /\ Goto(c, "idle")
    /\ UNCHANGED <<zk, lives, boundVars>>

-----------------------------------------------------------------------------
(* Start: DeleteState, whose error is ignored, and CreateState             *)

\* The scheduler starts one instance at a time, and only one that is not listed
\* below its service (module ServiceListener).
BeginStart(c) ==
    /\ pc[c] = "idle" /\ \A d \in Clients : nodeOp[d].kind # "start"
    /\ lives < LifeLimit /\ ~ Exists(zk["ss"])
    /\ pc' = [pc EXCEPT ![c] = "exists"]
    /\ nodeOp' = [nodeOp EXCEPT ![c].kind = "start"]
    /\ since' = [since EXCEPT ![c] = lives]
    /\ UNCHANGED <<zk, lives, step, rd, del, boundVars>>

\* CreateState fails if one of the nodes exists.
Create(c) ==
    /\ pc[c] = "create"
    /\ IF \A n \in Nodes : ~ Exists(zk[n])
         THEN /\ lives' = lives + 1
              /\ zk' = [n \in Nodes |-> [life |-> lives', ver |-> 0,
                                        desired |-> IF n = "hs" THEN "Run" ELSE "None",
                                        num |-> 0]]
         ELSE UNCHANGED <<zk, lives>>
    /\ Goto(c, "idle")
    /\ UNCHANGED boundVars

\* A call fails for want of a connection, or the client crashes.
BreakOff(c) ==
    /\ pc[c] # "idle"
    /\ faults < FaultLimit /\ faults' = faults + 1
    /\ Goto(c, "idle")
    /\ UNCHANGED <<zk, lives, updates, deletes>>

ClientNext(c) ==
    \/ \E change \in Changes : BeginUpdate(c, change)
    \/ Get(c) \/ Set(c)
    \/ BeginDelete(c) \/ BeginClean(c) \/ IsValid(c)
    \/ Find(c) \/ ReadVersion(c) \/ Delete(c) \/ Return(c)
    \/ BeginStart(c) \/ Create(c)
    \/ BreakOff(c)

nodesNext == \E c \in Clients : ClientNext(c)

nodesSpec == nodesInit /\ [][nodesNext]_nodesVars

-----------------------------------------------------------------------------
(* Properties                                                              *)

NodeRecords == [life : 0 .. LifeLimit, ver : 0 .. UpdateLimit,
                desired : DesiredStates \cup {"None"}, num : 0 .. UpdateLimit]

\* Every variable has its type; the status is never left below a missing
\* service state, and the versions do not outrun the updates.
NodesTypeOK ==
    /\ zk \in [Nodes -> NodeRecords]
    /\ Exists(zk["cs"]) => Exists(zk["ss"])
    /\ lives \in 0 .. LifeLimit
    /\ pc \in [Clients -> {"idle", "get", "set", "valid", "exists", "version", "multi",
                           "deleted", "create"}]
    /\ step \in [Clients -> 1 .. 3]
    /\ nodeOp \in [Clients -> [kind : Operations, num : 0 .. UpdateLimit]]
    /\ rd \in [Clients -> [Nodes -> NodeRecords]]
    /\ del \in [Clients -> SUBSET Nodes]
    /\ since \in [Clients -> 0 .. LifeLimit]
    /\ updates \in 0 .. UpdateLimit /\ deletes \in 0 .. DeleteLimit /\ faults \in 0 .. FaultLimit

\* All nodes of the state exist, or none.
Congruent == (\A n \in Nodes : Exists(zk[n])) \/ (\A n \in Nodes : ~ Exists(zk[n]))

\* In its first life a state is there or not, whoever deletes, cleans and
\* updates it at the same time.  (It takes a second creation between the
\* questions of one DeleteState to leave half a state behind.)
CongruentInFirstLife == lives <= 1 => Congruent

\* When DeleteState returns without an error and the state was not created
\* meanwhile, none of its nodes is left.
DeleteIsComplete ==
    \A c \in Clients :
        (pc[c] = "deleted" /\ since[c] = lives) => \A n \in Nodes : ~ Exists(zk[n])

\* UpdateState overwrites nothing it has not read: when its transaction goes
\* through, each node it read in the current life is as it was read.
NoLostUpdate ==
    [][\A c \in Clients :
         (pc[c] = "set" /\ pc'[c] = "idle" /\ zk' # zk)
         => \A n \in Nodes : rd[c][n].life = zk[n].life => rd[c][n] = zk[n]]_nodesVars

\* What the three nodes of a state keep to (UpdateState, DeleteState, CleanHostStates).
NodesSound == NodesTypeOK /\ CongruentInFirstLife /\ DeleteIsComplete

=============================================================================
