--------------------------- MODULE StateNodesProofs ---------------------------
(***************************************************************************)
(* For every set of clients and all bounds: the nodes of a state are what  *)
(* NodesSound says, and UpdateState overwrites nothing that it has not     *)
(* read.                                                                   *)
(*                                                                         *)
(* None of the properties is inductive.  A version is only worth something *)
(* together with the life of the node (Lives, AsRead), an upper bound on   *)
(* versions counts the updates that are under way (Counted), and that a    *)
(* DeleteState leaves nothing behind follows from what it has already      *)
(* asked for (Found).  In the first life a state is deleted as a whole     *)
(* because no delete can begin before the state is created (FirstLife).    *)
(*                                                                         *)
(* A container is the other thing that must not come back: its controller  *)
(* does not start the service again while it shuts it down.  KillingInv    *)
(* says what is cleared by then, and that the goroutine which fetches the  *)
(* endpoints cannot take Run back to the places before its loop.           *)
(***************************************************************************)
EXTENDS StateNodes, ContainerController, FiniteSetTheorems, TLAPS

Deleting == {"exists", "version", "multi"}

\* The nodes that DeleteState has asked for.
Asked(c) ==
    IF pc[c] # "exists" THEN Nodes
    ELSE IF step[c] = 1 THEN {} ELSE IF step[c] = 2 THEN {"hs"} ELSE {"hs", "cs"}

\* The clients with an update under way.
Updating == {c \in Clients : pc[c] \in {"get", "set"}}

\* An operation is where its kind allows, and has collected only what it has come to.
PlacesOf(c) ==
    /\ pc[c] \in {"idle", "multi", "create", "set", "deleted"} => step[c] = 1
    /\ pc[c] \in {"idle", "get", "set", "valid"} => del[c] = {} /\ nodeOp[c].kind # "start"
    /\ pc[c] \in {"get", "set"} => nodeOp[c].kind \in Changes
    /\ pc[c] = "create" => nodeOp[c].kind = "start"
    /\ pc[c] = "deleted" => nodeOp[c].kind # "start"
    /\ pc[c] = "exists" => del[c] \subseteq Asked(c)
Places == \A c \in Clients : PlacesOf(c)

\* A node that is absent has no data, and nobody has seen a life that has not begun.
Lives ==
    /\ \A n \in Nodes : zk[n].life <= lives /\ (zk[n].life = 0 => zk[n] = Absent)
    /\ \A c \in Clients, n \in Nodes : rd[c][n].life <= lives /\ (rd[c][n].life = 0 => rd[c][n] = Absent)
    /\ \A c \in Clients : since[c] <= lives /\ nodeOp[c].num <= updates

\* The versions leave room for the updates under way.
Counted ==
    /\ IsFiniteSet(Updating)
    /\ \A n \in Nodes : zk[n].ver + Cardinality(Updating) <= updates

\* In one life of a node its versions count up, and each stands for one content.
AsRead ==
    \A c \in Clients, n \in Nodes :
        rd[c][n].life = zk[n].life =>
            /\ rd[c][n].ver <= zk[n].ver
            /\ rd[c][n].ver = zk[n].ver => rd[c][n] = zk[n]

\* What DeleteState has asked for and not found does not come back in the same life.
Found ==
    \A c \in Clients :
        pc[c] \in Deleting /\ since[c] = lives => \A n \in Asked(c) : Exists(zk[n]) => n \in del[c]

\* One client starts the state at a time; before the first start there is nothing to delete.
Starters ==
    /\ \A c, d \in Clients : nodeOp[c].kind = "start" /\ nodeOp[d].kind = "start" => c = d
    /\ \A c \in Clients : nodeOp[c].kind = "start" => lives < LifeLimit
    /\ lives = 0 => \A c \in Clients : pc[c] \in {"idle", "create", "exists", "version", "multi"}
                                       /\ nodeOp[c].kind \in {"none", "start"}
                                       /\ (pc[c] \in Deleting => nodeOp[c].kind = "start")

\* A client that deletes has found every node that it has asked for.
Whole(c) == nodeOp[c].kind # "start" /\ (pc[c] \in Deleting => del[c] = Asked(c))

\* In its first life a state that is there was there for every question of a DeleteState.
FirstLife ==
    lives <= 1 =>
        /\ Congruent
        /\ Exists(zk["hs"]) => \A c \in Clients : Whole(c)

NodesInv ==
    NodesTypeOK /\ Places /\ Lives /\ Counted /\ AsRead /\ Found /\ DeleteIsComplete /\ Starters /\ FirstLife

-----------------------------------------------------------------------------

\* The order of the questions of each operation, one by one.
LEMMA Orders ==
    /\ UpdateOrder[1] = "hs" /\ UpdateOrder[2] = "ss" /\ UpdateOrder[3] = "cs"
    /\ ValidOrder[1] = "hs" /\ ValidOrder[2] = "ss" /\ ValidOrder[3] = "cs"
    /\ DeleteOrder[1] = "hs" /\ DeleteOrder[2] = "cs" /\ DeleteOrder[3] = "ss"
    /\ Nodes = {"hs", "cs", "ss"}
    /\ \A i \in 1 .. 3 : UpdateOrder[i] \in Nodes /\ ValidOrder[i] \in Nodes /\ DeleteOrder[i] \in Nodes
  BY DEF UpdateOrder, ValidOrder, DeleteOrder, Nodes

ClientPlaces == {"idle", "get", "set", "valid", "exists", "version", "multi", "deleted", "create"}

\* A client is always somewhere in an operation, or idle, and its count of questions stays
\* within an order.
LEMMA PcTypes ==
    ASSUME NodesTypeOK, [nodesNext]_nodesVars
    PROVE  pc' \in [Clients -> ClientPlaces] /\ step' \in [Clients -> 1 .. 3]
  <1> DEFINE Moves(c) == /\ pc' = pc \/ \E to \in ClientPlaces : pc' = [pc EXCEPT ![c] = to]
                         /\ \/ step' = step \/ step' = [step EXCEPT ![c] = 1]
                            \/ step[c] # 3 /\ step' = [step EXCEPT ![c] = step[c] + 1]
  <1>1. ASSUME NEW c \in Clients, NEW to \in ClientPlaces, Goto(c, to) PROVE Moves(c)
    BY <1>1 DEF Goto
  <1>2. {"idle", "get", "set", "valid", "exists", "version", "multi", "deleted", "create"} = ClientPlaces
    BY DEF ClientPlaces
  <1> HIDE DEF Moves
  <1>3. ASSUME NEW c \in Clients, ClientNext(c) PROVE Moves(c)
    <2>1. ASSUME (\E change \in Changes : BeginUpdate(c, change)) \/ BeginDelete(c) \/ BeginClean(c) \/ BeginStart(c)
          PROVE  Moves(c)
      BY <2>1, <1>2 DEF Moves, BeginUpdate, BeginDelete, BeginClean, BeginStart
    <2>2. ASSUME Get(c) PROVE Moves(c)
      BY <2>2, <1>1, <1>2 DEF Moves, Get
    <2>3. ASSUME Set(c) \/ Return(c) \/ Create(c) \/ BreakOff(c) PROVE Moves(c)
      BY <2>3, <1>1, <1>2 DEF Set, Return, Create, BreakOff
    <2>4. ASSUME IsValid(c) PROVE Moves(c)
      BY <2>4, <1>1, <1>2 DEF Moves, IsValid
    <2>5. ASSUME Find(c) PROVE Moves(c)
      BY <2>5, <1>2 DEF Moves, Find
    <2>6. ASSUME ReadVersion(c) PROVE Moves(c)
      BY <2>6, <1>1, <1>2 DEF Moves, ReadVersion, DeleteFails
    <2>7. ASSUME Delete(c) PROVE Moves(c)
      BY <2>7, <1>1, <1>2 DEF Delete, DeleteFails
    <2>8. QED
      BY <1>3, <2>1, <2>2, <2>3, <2>4, <2>5, <2>6, <2>7 DEF ClientNext
  <1>4. (\E c \in Clients : Moves(c)) \/ UNCHANGED <<pc, step>>
    BY <1>3 DEF nodesNext, nodesVars
  <1>5. pc \in [Clients -> ClientPlaces] /\ step \in [Clients -> 1 .. 3]
    BY <1>2 DEF NodesTypeOK
  <1>6. ASSUME NEW c \in Clients, Moves(c) PROVE pc' \in [Clients -> ClientPlaces] /\ step' \in [Clients -> 1 .. 3]
    BY <1>5, <1>6 DEF Moves
  <1>7. QED
    BY <1>4, <1>5, <1>6

USE LimitsAssumption

\* A node's record, and a node as UpdateState sets it, have their types.
LEMMA RecordTypes ==
    ASSUME NodesTypeOK
    PROVE  /\ Absent \in NodeRecords
           /\ \A n \in Nodes : zk[n] \in NodeRecords
           /\ \A c \in Clients, n \in Nodes : rd[c][n] \in NodeRecords
           /\ \A c \in Clients, n \in Nodes, d \in DesiredStates \cup {"None"} :
                 zk[n].ver < UpdateLimit => NewData(c, n, d) \in NodeRecords
  <1>1. Absent \in NodeRecords
    BY DEF NodeRecords, Absent
  <1>2. \A n \in Nodes : zk[n] \in NodeRecords
    BY DEF NodesTypeOK
  <1>3. \A c \in Clients, n \in Nodes : rd[c][n] \in NodeRecords
    BY DEF NodesTypeOK
  <1>4. ASSUME NEW c \in Clients, NEW n \in Nodes, NEW d \in DesiredStates \cup {"None"}, zk[n].ver < UpdateLimit
        PROVE  NewData(c, n, d) \in NodeRecords
    <2>1. zk[n].ver + 1 \in 0 .. UpdateLimit
      BY <1>2, <1>4 DEF NodeRecords
    <2>2. nodeOp[c].num \in 0 .. UpdateLimit /\ rd[c][n].num \in 0 .. UpdateLimit
      BY <1>3 DEF NodeRecords, NodesTypeOK
    <2>3. QED
      BY <1>2, <2>1, <2>2 DEF NewData, NodeRecords
  <1>5. QED
    BY <1>1, <1>2, <1>3, <1>4

\* An update under way keeps every version below the bound.
LEMMA RoomForUpdate ==
    ASSUME NodesTypeOK, Counted, NEW c \in Clients, pc[c] = "set"
    PROVE  \A n \in Nodes : zk[n].ver + 1 <= updates /\ zk[n].ver < UpdateLimit
  <1>1. c \in Updating
    BY DEF Updating
  <1>2. Cardinality(Updating) \in Nat /\ Cardinality(Updating) # 0
    BY <1>1, FS_CardinalityType, FS_EmptySet DEF Counted
  <1>3. ASSUME NEW n \in Nodes PROVE zk[n].ver \in Nat /\ zk[n].ver + Cardinality(Updating) <= updates
    BY RecordTypes DEF Counted, NodeRecords
  <1>4. updates \in Nat /\ updates <= UpdateLimit
    BY DEF NodesTypeOK
  <1>5. QED
    BY <1>2, <1>3, <1>4

\* What the variables of the clients are.
ClientsTypeOK ==
    /\ pc \in [Clients -> {"idle", "get", "set", "valid", "exists", "version", "multi", "deleted", "create"}]
    /\ step \in [Clients -> 1 .. 3]
    /\ nodeOp \in [Clients -> [kind : Operations, num : 0 .. UpdateLimit]]
    /\ rd \in [Clients -> [Nodes -> NodeRecords]]
    /\ del \in [Clients -> SUBSET Nodes]
    /\ since \in [Clients -> 0 .. LifeLimit]

\* Goto leaves the operation and what it has read, or ends the operation.
LEMMA GotoLeaves ==
    ASSUME NEW c, NEW to, Goto(c, to)
    PROVE  /\ nodeOp' = nodeOp \/ nodeOp' = [nodeOp EXCEPT ![c] = NoOperation]
           /\ rd' = rd \/ rd' = [rd EXCEPT ![c] = [n \in Nodes |-> Absent]]
           /\ del' = del \/ del' = [del EXCEPT ![c] = {}]
           /\ since' = since \/ since' = [since EXCEPT ![c] = 0]
  BY DEF Goto

\* What a step can do to the variables of a client.
LEMMA ClientSteps ==
    ASSUME NodesTypeOK, [nodesNext]_nodesVars
    PROVE  /\ pc' \in [Clients -> {"idle", "get", "set", "valid", "exists", "version", "multi", "deleted", "create"}]
           /\ step' \in [Clients -> 1 .. 3]
           /\ del' \in [Clients -> SUBSET Nodes]
           /\ \/ nodeOp' = nodeOp
              \/ \E c \in Clients : nodeOp' = [nodeOp EXCEPT ![c] = NoOperation]
              \/ \E c \in Clients, k \in {"delete", "clean", "start"} : nodeOp' = [nodeOp EXCEPT ![c].kind = k]
              \/ /\ updates' <= UpdateLimit /\ updates' = updates + 1
                 /\ \E c \in Clients, k \in Changes : nodeOp' = [nodeOp EXCEPT ![c] = [kind |-> k, num |-> updates']]
           /\ since' = since \/ \E c \in Clients, l \in {0, lives} : since' = [since EXCEPT ![c] = l]
           /\ \/ rd' = rd
              \/ \E c \in Clients : rd' = [rd EXCEPT ![c] = [n \in Nodes |-> Absent]]
              \/ \E c \in Clients, n \in Nodes : rd' = [rd EXCEPT ![c][n] = zk[n]] \/ rd' = [rd EXCEPT ![c][n] = rd[c][n]]
  <1> DEFINE Op(c) == \/ nodeOp' = nodeOp \/ nodeOp' = [nodeOp EXCEPT ![c] = NoOperation]
                      \/ \E k \in {"delete", "clean", "start"} : nodeOp' = [nodeOp EXCEPT ![c].kind = k]
                      \/ /\ updates' <= UpdateLimit /\ updates' = updates + 1
                         /\ \E k \in Changes : nodeOp' = [nodeOp EXCEPT ![c] = [kind |-> k, num |-> updates']]
             Since(c) == since' = since \/ \E l \in {0, lives} : since' = [since EXCEPT ![c] = l]
             Read(c) == \/ rd' = rd \/ rd' = [rd EXCEPT ![c] = [n \in Nodes |-> Absent]]
                        \/ \E n \in Nodes : rd' = [rd EXCEPT ![c][n] = zk[n]] \/ rd' = [rd EXCEPT ![c][n] = rd[c][n]]
             Listing(c) == \/ del' = del \/ del' = [del EXCEPT ![c] = {}]
                           \/ \E n \in Nodes : del' = [del EXCEPT ![c] = del[c] \cup {n}] \/ del' = [del EXCEPT ![c] = del[c]]
             Does(c) == Op(c) /\ Since(c) /\ Read(c) /\ Listing(c)
  <1>1. pc' \in [Clients -> {"idle", "get", "set", "valid", "exists", "version", "multi", "deleted", "create"}]
        /\ step' \in [Clients -> 1 .. 3]
    BY PcTypes DEF ClientPlaces
  <1>2. ASSUME NEW c \in Clients, NEW to, Goto(c, to) PROVE Does(c)
    BY <1>2, GotoLeaves
  <1>3. ASSUME NEW c \in Clients, ClientNext(c) PROVE Does(c)
    <2>1. ASSUME NEW change \in Changes, BeginUpdate(c, change) PROVE Does(c)
      <3>1. updates' = updates + 1 /\ updates' <= UpdateLimit
        BY <2>1, LimitsAssumption DEF BeginUpdate, NodesTypeOK
      <3>2. nodeOp' = [nodeOp EXCEPT ![c] = [kind |-> change, num |-> updates']] /\ UNCHANGED <<rd, del, since>>
        BY <2>1 DEF BeginUpdate
      <3>3. QED
        BY <3>1, <3>2
    <2>2. ASSUME Get(c) PROVE Does(c)
      <3> DEFINE n == UpdateOrder[step[c]]
      <3>1. n \in Nodes
        BY Orders DEF NodesTypeOK
      <3>2. Goto(c, "idle") \/ (rd' = [rd EXCEPT ![c][n] = zk[n]] /\ UNCHANGED <<nodeOp, del, since>>)
        BY <2>2 DEF Get
      <3> HIDE DEF n
      <3>3. ASSUME rd' = [rd EXCEPT ![c][n] = zk[n]], UNCHANGED <<nodeOp, del, since>> PROVE Does(c)
        <4>1. Read(c)
          BY <3>1, <3>3
        <4>2. QED
          BY <3>3, <4>1
      <3>4. QED
        BY <3>2, <3>3, <1>2
    <2>3. ASSUME Set(c) \/ Return(c) \/ Create(c) \/ BreakOff(c) PROVE Does(c)
      <3>1. Goto(c, "idle")
        BY <2>3 DEF Set, Return, Create, BreakOff
      <3>2. QED
        BY <3>1, <1>2
    <2>4. ASSUME BeginDelete(c) \/ BeginClean(c) \/ BeginStart(c) PROVE Does(c)
      BY <2>4 DEF BeginDelete, BeginClean, BeginStart
    <2>5. ASSUME IsValid(c) PROVE Does(c)
      <3>1. Goto(c, "idle") \/ Goto(c, "exists") \/ UNCHANGED <<nodeOp, rd, del, since>>
        BY <2>5 DEF IsValid
      <3>2. QED
        BY <3>1, <1>2
    <2>6. ASSUME Find(c) PROVE Does(c)
      <3>1. /\ UNCHANGED <<nodeOp, rd, since>>
            /\ \E n \in Nodes : del' = [del EXCEPT ![c] = del[c] \cup {n}] \/ del' = [del EXCEPT ![c] = del[c]]
        BY <2>6, Orders DEF Find, NodesTypeOK
      <3>2. QED
        BY <3>1
    <2>7. ASSUME ReadVersion(c) PROVE Does(c)
      <3>1. \/ Goto(c, "create") \/ Goto(c, "idle")
            \/ /\ UNCHANGED <<nodeOp, del, since>>
               /\ \E n \in Nodes : rd' = [rd EXCEPT ![c][n] = zk[n]] \/ rd' = [rd EXCEPT ![c][n] = rd[c][n]]
        BY <2>7, Orders DEF ReadVersion, DeleteFails, NodesTypeOK
      <3>2. QED
        BY <3>1, <1>2
    <2>8. ASSUME Delete(c) PROVE Does(c)
      <3>1. Goto(c, "create") \/ Goto(c, "idle") \/ Goto(c, "deleted")
        BY <2>8 DEF Delete, DeleteFails
      <3>2. QED
        BY <3>1, <1>2
    <2>9. QED
      BY <1>3, <2>1, <2>2, <2>3, <2>4, <2>5, <2>6, <2>7, <2>8 DEF ClientNext
  <1>4. (\E c \in Clients : Does(c)) \/ UNCHANGED <<nodeOp, since, rd, del>>
    BY <1>3 DEF nodesNext, nodesVars
  <1>5. del' \in [Clients -> SUBSET Nodes]
    <2>1. del \in [Clients -> SUBSET Nodes]
      BY DEF NodesTypeOK
    <2>2. ASSUME NEW c \in Clients, Listing(c) PROVE del' \in [Clients -> SUBSET Nodes]
      BY <2>1, <2>2
    <2>3. QED
      BY <1>4, <2>1, <2>2
  <1>6. QED
    BY <1>1, <1>4, <1>5

\* Every step keeps the types of the clients' variables.
LEMMA ClientsTypeStep ==
    ASSUME NodesTypeOK, [nodesNext]_nodesVars
    PROVE  ClientsTypeOK'
  <1>1. nodeOp' \in [Clients -> [kind : Operations, num : 0 .. UpdateLimit]]
    <2>1. NoOperation \in [kind : Operations, num : 0 .. UpdateLimit]
      BY DEF NoOperation, Operations
    <2>2. nodeOp \in [Clients -> [kind : Operations, num : 0 .. UpdateLimit]] /\ updates \in 0 .. UpdateLimit
      BY DEF NodesTypeOK
    <2>3. {"delete", "clean", "start"} \cup Changes \subseteq Operations
      BY DEF Operations
    <2>4. QED
      BY <2>1, <2>2, <2>3, ClientSteps
  <1>2. since' \in [Clients -> 0 .. LifeLimit]
    <2>1. since \in [Clients -> 0 .. LifeLimit] /\ lives \in 0 .. LifeLimit
      BY DEF NodesTypeOK
    <2>2. QED
      BY <2>1, ClientSteps
  <1>3. rd' \in [Clients -> [Nodes -> NodeRecords]]
    <2>1. rd \in [Clients -> [Nodes -> NodeRecords]] /\ zk \in [Nodes -> NodeRecords]
      BY DEF NodesTypeOK
    <2>2. [n \in Nodes |-> Absent] \in [Nodes -> NodeRecords]
      BY RecordTypes
    <2>3. CASE rd' = rd \/ \E c \in Clients : rd' = [rd EXCEPT ![c] = [n \in Nodes |-> Absent]]
      BY <2>1, <2>2, <2>3
    <2>4. ASSUME NEW c \in Clients, NEW n \in Nodes, rd' = [rd EXCEPT ![c][n] = zk[n]] \/ rd' = [rd EXCEPT ![c][n] = rd[c][n]]
          PROVE  rd' \in [Clients -> [Nodes -> NodeRecords]]
      BY <2>1, <2>4
    <2>5. QED
      BY <2>3, <2>4, ClientSteps
  <1>4. QED
    BY <1>1, <1>2, <1>3, ClientSteps DEF ClientsTypeOK

\* Only three actions write to ZooKeeper.
LEMMA Writers ==
    ASSUME [nodesNext]_nodesVars
    PROVE  (zk' = zk /\ lives' = lives) \/ \E c \in Clients : Set(c) \/ Delete(c) \/ Create(c)
  BY DEF nodesNext, ClientNext, nodesVars, boundVars, BeginUpdate, Get, BeginDelete, BeginClean, IsValid, Find, ReadVersion,
         Return, BeginStart, BreakOff

\* What a transaction of UpdateState leaves of the nodes.
LEMMA SetWrites ==
    ASSUME NodesTypeOK, Places, Counted, NEW c \in Clients, Set(c), zk' # zk
    PROVE  /\ zk' = [n \in Nodes |-> NewData(c, n, Mutate(nodeOp[c].kind, rd[c]["hs"].desired))]
           /\ zk' \in [Nodes -> NodeRecords]
           /\ \A n \in Nodes : /\ zk'[n].life = zk[n].life /\ zk[n].life # 0
                                /\ zk'[n].ver = zk[n].ver + 1 /\ zk[n].ver = rd[c][n].ver
  <1> DEFINE want == Mutate(nodeOp[c].kind, rd[c]["hs"].desired)
  <1>1. want # "None" /\ Unchanged(c, Nodes) /\ zk' = [n \in Nodes |-> NewData(c, n, want)] /\ pc[c] = "set"
    BY DEF Set
  <1>2. rd[c]["hs"].desired \in DesiredStates \cup {"None"} /\ nodeOp[c].kind \in Changes
    <2>1. rd[c]["hs"] \in NodeRecords
      BY RecordTypes, Orders
    <2>2. nodeOp[c].kind \in Changes
      BY <1>1 DEF Places, PlacesOf
    <2>3. QED
      BY <2>1, <2>2 DEF NodeRecords
  <1>3. want \in DesiredStates \cup {"None"}
    BY <1>2 DEF Mutate, Changes, DesiredStates
  <1> HIDE DEF want
  <1>4. ASSUME NEW n \in Nodes
        PROVE  /\ NewData(c, n, want) \in NodeRecords
               /\ NewData(c, n, want).life = zk[n].life /\ zk[n].life # 0
               /\ NewData(c, n, want).ver = zk[n].ver + 1 /\ zk[n].ver = rd[c][n].ver
    <2>1. zk[n] \in NodeRecords /\ NewData(c, n, want) \in NodeRecords
      BY <1>1, <1>3, RecordTypes, RoomForUpdate
    <2>2. zk[n].life # 0 /\ zk[n].ver = rd[c][n].ver
      BY <1>1 DEF Unchanged, Exists
    <2>3. QED
      BY <2>1, <2>2 DEF NewData, NodeRecords
  <1>5. QED
    BY <1>1, <1>4 DEF want


\* What a transaction of DeleteState leaves of the nodes.
LEMMA DeleteWrites ==
    ASSUME NodesTypeOK, NEW c \in Clients, Delete(c), zk' # zk
    PROVE  /\ zk' = [n \in Nodes |-> IF n \in del[c] THEN Absent ELSE zk[n]]
           /\ zk' \in [Nodes -> NodeRecords]
           /\ \A n \in del[c] : Exists(zk[n])
           /\ "ss" \in del[c] /\ Exists(zk["cs"]) => "cs" \in del[c]
           /\ pc[c] = "multi" /\ lives' = lives
  BY RecordTypes DEF Delete, Unchanged

\* What a transaction of CreateState leaves of the nodes.
LEMMA CreateWrites ==
    ASSUME NodesTypeOK, Places, Starters, NEW c \in Clients, Create(c), zk' # zk \/ lives' # lives
    PROVE  /\ zk' \in [Nodes -> NodeRecords]
           /\ lives' = lives + 1
           /\ \A n \in Nodes : ~Exists(zk[n]) /\ zk'[n].life = lives' /\ zk'[n].ver = 0
           /\ pc[c] = "create"
  <1>1. lives \in Nat /\ lives' = lives + 1 /\ pc[c] = "create" /\ \A n \in Nodes : ~Exists(zk[n])
    BY DEF Create, NodesTypeOK
  <1>2. lives' \in 0 .. LifeLimit
    <2>1. lives < LifeLimit
      BY <1>1 DEF Places, PlacesOf, Starters
    <2>2. QED
      BY <1>1, <2>1
  <1>3. zk' = [n \in Nodes |-> [life |-> lives', ver |-> 0, desired |-> IF n = "hs" THEN "Run" ELSE "None", num |-> 0]]
    BY <1>1 DEF Create
  <1>4. QED
    BY <1>1, <1>2, <1>3 DEF NodeRecords, DesiredStates
-----------------------------------------------------------------------------

\* A step of one client leaves the others where they are.
LEMMA OneActs ==
    ASSUME NodesTypeOK, NEW c \in Clients, ClientNext(c)
    PROVE  \A d \in Clients \ {c} : /\ pc'[d] = pc[d] /\ step'[d] = step[d] /\ nodeOp'[d] = nodeOp[d]
                                   /\ rd'[d] = rd[d] /\ del'[d] = del[d] /\ since'[d] = since[d]
  BY DEF NodesTypeOK, ClientNext, BeginUpdate, Get, Set, BeginDelete, BeginClean, IsValid, Find, ReadVersion, Delete, Return,
         BeginStart, Create, BreakOff, Goto, DeleteFails

\* Goto by its outcome.
LEMMA GotoSets ==
    ASSUME NodesTypeOK, NEW c \in Clients, NEW to \in {"idle", "exists", "create", "deleted"}, Goto(c, to)
    PROVE  /\ pc'[c] = to /\ step'[c] = 1
           /\ to = "idle" => nodeOp'[c] = NoOperation /\ rd'[c] = [n \in Nodes |-> Absent] /\ del'[c] = {} /\ since'[c] = 0
           /\ to # "idle" => nodeOp'[c] = nodeOp[c] /\ rd'[c] = rd[c] /\ del'[c] = del[c] /\ since'[c] = since[c]
  BY DEF Goto, NodesTypeOK

\* The beginning of an operation by its outcome.
LEMMA BeginSets ==
    ASSUME NodesTypeOK, NEW c \in Clients
    PROVE  /\ \A k \in Changes : BeginUpdate(c, k) => pc'[c] = "get" /\ nodeOp'[c] = [kind |-> k, num |-> updates']
           /\ BeginDelete(c) => pc'[c] = "exists" /\ nodeOp'[c].kind = "delete" /\ since'[c] = lives
           /\ BeginClean(c) => pc'[c] = "valid" /\ nodeOp'[c].kind = "clean" /\ since'[c] = lives
           /\ BeginStart(c) => pc'[c] = "exists" /\ nodeOp'[c].kind = "start" /\ since'[c] = lives
           /\ BeginDelete(c) \/ BeginClean(c) \/ BeginStart(c) => nodeOp'[c].num = nodeOp[c].num
           /\ (\E k \in Changes : BeginUpdate(c, k)) \/ BeginDelete(c) \/ BeginClean(c) \/ BeginStart(c) =>
                 pc[c] = "idle" /\ step' = step /\ rd' = rd /\ del' = del
  <1>1. pc \in [Clients -> {"idle", "get", "set", "valid", "exists", "version", "multi", "deleted", "create"}]
        /\ nodeOp \in [Clients -> [kind : Operations, num : 0 .. UpdateLimit]] /\ since \in [Clients -> 0 .. LifeLimit]
    BY DEF NodesTypeOK
  <1>2. QED
    BY <1>1 DEF BeginUpdate, BeginDelete, BeginClean, BeginStart

\* One question of an operation by its outcome.
Moves(c) ==
    \/ step[c] = 3 /\ step'[c] = 1 /\ <<pc[c], pc'[c]>> \in {<<"get", "set">>, <<"exists", "version">>, <<"version", "multi">>}
    \/ step[c] # 3 /\ step'[c] = step[c] + 1 /\ pc'[c] = pc[c]

\* One read of UpdateState by its outcome.
LEMMA GetSets ==
    ASSUME NodesTypeOK, NEW c \in Clients, Get(c)
    PROVE  \/ Goto(c, "idle")
           \/ /\ pc[c] = "get" /\ Moves(c) /\ nodeOp' = nodeOp /\ del' = del /\ since' = since
              /\ \E n \in Nodes : rd' = [rd EXCEPT ![c][n] = zk[n]]
  <1>1. pc \in [Clients -> {"idle", "get", "set", "valid", "exists", "version", "multi", "deleted", "create"}]
        /\ step \in [Clients -> 1 .. 3] /\ UpdateOrder[step[c]] \in Nodes
    BY Orders DEF NodesTypeOK
  <1>2. QED
    BY <1>1 DEF Get, Moves

\* One question of IsValidState by its outcome.
LEMMA ValidSets ==
    ASSUME NodesTypeOK, NEW c \in Clients, IsValid(c)
    PROVE  \/ Goto(c, "idle")
           \/ Goto(c, "exists") /\ pc[c] = "valid" /\ \E n \in Nodes : ~Exists(zk[n])
           \/ pc[c] = "valid" /\ step[c] # 3 /\ step'[c] = step[c] + 1 /\ UNCHANGED <<pc, nodeOp, rd, del, since>>
  BY Orders DEF NodesTypeOK, IsValid

\* One question of DeleteState by its outcome.
LEMMA FindSets ==
    ASSUME NodesTypeOK, NEW c \in Clients, Find(c)
    PROVE  /\ pc[c] = "exists" /\ Moves(c) /\ nodeOp' = nodeOp /\ rd' = rd /\ since' = since
           /\ del'[c] = IF Exists(zk[DeleteOrder[step[c]]]) THEN del[c] \cup {DeleteOrder[step[c]]} ELSE del[c]
  <1>1. pc \in [Clients -> {"idle", "get", "set", "valid", "exists", "version", "multi", "deleted", "create"}]
        /\ step \in [Clients -> 1 .. 3] /\ del \in [Clients -> SUBSET Nodes]
    BY DEF NodesTypeOK
  <1>2. QED
    BY <1>1 DEF Find, Moves

\* One read of Commit by its outcome.
LEMMA ReadSets ==
    ASSUME NodesTypeOK, NEW c \in Clients, ReadVersion(c)
    PROVE  \/ DeleteFails(c)
           \/ /\ pc[c] = "version" /\ Moves(c) /\ nodeOp' = nodeOp /\ del' = del /\ since' = since
              /\ \E n \in Nodes : rd' = [rd EXCEPT ![c][n] = zk[n]] \/ rd' = rd
  <1>1. pc \in [Clients -> {"idle", "get", "set", "valid", "exists", "version", "multi", "deleted", "create"}]
        /\ step \in [Clients -> 1 .. 3] /\ DeleteOrder[step[c]] \in Nodes
    BY Orders DEF NodesTypeOK
  <1>2. rd \in [Clients -> [Nodes -> NodeRecords]]
    BY DEF NodesTypeOK
  <1>3. ASSUME NEW n \in Nodes PROVE [rd EXCEPT ![c][n] = rd[c][n]] = rd
    BY <1>2
  <1>4. QED
    BY <1>1, <1>3 DEF ReadVersion, Moves

\* What DeleteState asks for next.
LEMMA FindAsks ==
    ASSUME NodesTypeOK, NEW c \in Clients, Find(c)
    PROVE  Asked(c)' = Asked(c) \cup {DeleteOrder[step[c]]}
  <1>1. pc[c] = "exists" /\ Moves(c) /\ step[c] \in 1 .. 3
    BY FindSets DEF NodesTypeOK
  <1>2. step[c] = 1 \/ step[c] = 2 \/ step[c] = 3
    BY <1>1
  <1>3. CASE step[c] = 3
    BY <1>1, <1>3, Orders DEF Asked, Moves
  <1>4. CASE step[c] # 3
    BY <1>1, <1>2, <1>4, Orders DEF Asked, Moves
  <1>5. QED
    BY <1>3, <1>4

\* Where a client can get to, and from which action.
LEMMA PcAfter ==
    ASSUME NodesTypeOK, NEW c \in Clients, ClientNext(c)
    PROVE  /\ pc'[c] \in {"get", "set"} => pc[c] \in {"get", "set"} \/ \E k \in Changes : BeginUpdate(c, k)
           /\ pc'[c] \in Deleting =>
                \/ BeginDelete(c) \/ BeginStart(c) \/ Find(c)
                \/ Goto(c, "exists") /\ pc[c] = "valid" /\ IsValid(c) /\ \E n \in Nodes : ~Exists(zk[n])
                \/ /\ ReadVersion(c) /\ pc[c] = "version" /\ Moves(c)
                   /\ nodeOp' = nodeOp /\ del' = del /\ since' = since
           /\ pc'[c] = "deleted" => Delete(c)
           /\ pc'[c] = "valid" => IsValid(c) \/ BeginClean(c)
           /\ pc'[c] = "create" => nodeOp'[c].kind = "start" /\ nodeOp' = nodeOp
  <1> DEFINE Claim ==
           /\ pc'[c] \in {"get", "set"} => pc[c] \in {"get", "set"} \/ \E k \in Changes : BeginUpdate(c, k)
           /\ pc'[c] \in Deleting =>
                \/ BeginDelete(c) \/ BeginStart(c) \/ Find(c)
                \/ Goto(c, "exists") /\ pc[c] = "valid" /\ IsValid(c) /\ \E n \in Nodes : ~Exists(zk[n])
                \/ /\ ReadVersion(c) /\ pc[c] = "version" /\ Moves(c)
                   /\ nodeOp' = nodeOp /\ del' = del /\ since' = since
           /\ pc'[c] = "deleted" => Delete(c)
           /\ pc'[c] = "valid" => IsValid(c) \/ BeginClean(c)
           /\ pc'[c] = "create" => nodeOp'[c].kind = "start" /\ nodeOp' = nodeOp
  <1>1. Goto(c, "idle") => Claim
    BY GotoSets DEF Deleting
  <1>2. Goto(c, "create") /\ nodeOp[c].kind = "start" => Claim
    BY GotoSets DEF Deleting, Goto
  <1>3. DeleteFails(c) => Claim
    BY <1>1, <1>2 DEF DeleteFails
  <1>4. ASSUME (\E k \in Changes : BeginUpdate(c, k)) \/ BeginDelete(c) \/ BeginClean(c) \/ BeginStart(c) PROVE Claim
    BY <1>4, BeginSets DEF Deleting
  <1>5. ASSUME Get(c) PROVE Claim
    BY <1>1, <1>5, GetSets DEF Moves, Deleting
  <1>6. ASSUME Set(c) \/ Return(c) \/ Create(c) \/ BreakOff(c) PROVE Claim
    BY <1>1, <1>6 DEF Set, Return, Create, BreakOff
  <1>7. ASSUME IsValid(c) PROVE Claim
    BY <1>1, <1>7, ValidSets, GotoSets DEF Deleting
  <1>8. ASSUME Find(c) PROVE Claim
    BY <1>8, FindSets DEF Moves, Deleting
  <1>9. ASSUME ReadVersion(c) PROVE Claim
    BY <1>3, <1>9, ReadSets DEF Moves, Deleting
  <1>10. ASSUME Delete(c) PROVE Claim
    <2>1. Goto(c, "deleted") => Claim
      BY <1>10, GotoSets DEF Deleting
    <2>2. QED
      BY <1>2, <1>3, <1>10, <2>1 DEF Delete
  <1>11. QED
    BY <1>4, <1>5, <1>6, <1>7, <1>8, <1>9, <1>10 DEF ClientNext

\* Every step keeps an operation where its kind allows.
LEMMA PlacesStep ==
    ASSUME NodesTypeOK, Places, [nodesNext]_nodesVars
    PROVE  Places'
  <1>1. CASE UNCHANGED nodesVars
    BY <1>1 DEF nodesVars, Places, PlacesOf, Asked
  <1>2. ASSUME NEW c \in Clients, ClientNext(c) PROVE Places'
    <2>1. ASSUME NEW d \in Clients \ {c} PROVE PlacesOf(d)'
      BY <1>2, <2>1, OneActs DEF Places, PlacesOf, Asked
    <2>2. PlacesOf(c)
      BY DEF Places
    <2>3. /\ Goto(c, "idle") => PlacesOf(c)'
          /\ Goto(c, "create") /\ nodeOp[c].kind = "start" => PlacesOf(c)'
          /\ Goto(c, "deleted") /\ nodeOp[c].kind # "start" => PlacesOf(c)'
          /\ Goto(c, "exists") /\ pc[c] = "valid" => PlacesOf(c)'
      BY <2>2, GotoSets DEF PlacesOf, Asked, NoOperation
    <2>4. ASSUME NEW change \in Changes, BeginUpdate(c, change) PROVE PlacesOf(c)'
      BY <2>2, <2>4, BeginSets DEF PlacesOf, Changes
    <2>5. ASSUME Get(c) PROVE PlacesOf(c)'
      BY <2>2, <2>3, <2>5, GetSets DEF PlacesOf, Moves
    <2>6. ASSUME Set(c) \/ Return(c) \/ Create(c) \/ BreakOff(c) PROVE PlacesOf(c)'
      BY <2>3, <2>6 DEF Set, Return, Create, BreakOff
    <2>7. ASSUME BeginDelete(c) \/ BeginClean(c) \/ BeginStart(c) PROVE PlacesOf(c)'
      BY <2>2, <2>7, BeginSets DEF PlacesOf, Asked
    <2>8. ASSUME IsValid(c) PROVE PlacesOf(c)'
      BY <2>2, <2>3, <2>8, ValidSets DEF PlacesOf
    <2>9. ASSUME Find(c) PROVE PlacesOf(c)'
      <3>1. step[c] \in 1 .. 3 /\ Asked(c) \cup {DeleteOrder[step[c]]} \subseteq Nodes
        BY Orders DEF NodesTypeOK, Asked
      <3>2. Asked(c)' = Asked(c) \cup {DeleteOrder[step[c]]}
        BY <2>9, FindAsks
      <3>3. QED
        BY <2>2, <2>9, <3>1, <3>2, FindSets DEF PlacesOf, Moves
    <2>10. ASSUME ReadVersion(c) PROVE PlacesOf(c)'
      BY <2>2, <2>3, <2>10, ReadSets DEF DeleteFails, PlacesOf, Moves
    <2>11. ASSUME Delete(c) PROVE PlacesOf(c)'
      BY <2>2, <2>3, <2>11 DEF Delete, DeleteFails, PlacesOf
    <2>12. QED
      BY <1>2, <2>1, <2>4, <2>5, <2>6, <2>7, <2>8, <2>9, <2>10, <2>11 DEF ClientNext, Places
  <1>3. QED
    BY <1>1, <1>2 DEF nodesNext
-----------------------------------------------------------------------------

\* What a client holds after a step: nothing, what it had, or one node as it is now.
LEMMA HeldAfter ==
    ASSUME NodesTypeOK, [nodesNext]_nodesVars, NEW d \in Clients, NEW n \in Nodes
    PROVE  rd'[d][n] \in {rd[d][n], zk[n], Absent}
  <1>1. rd \in [Clients -> [Nodes -> NodeRecords]]
    BY DEF NodesTypeOK
  <1>2. ASSUME NEW c \in Clients, rd' = [rd EXCEPT ![c] = [m \in Nodes |-> Absent]] PROVE rd'[d][n] \in {rd[d][n], Absent}
    <2>1. rd'[d] = IF d = c THEN [m \in Nodes |-> Absent] ELSE rd[d]
      BY <1>1, <1>2
    <2>2. QED
      BY <2>1
  <1>3. ASSUME NEW c \in Clients, NEW m \in Nodes, rd' = [rd EXCEPT ![c][m] = zk[m]] \/ rd' = [rd EXCEPT ![c][m] = rd[c][m]]
        PROVE  rd'[d][n] \in {rd[d][n], zk[n]}
    BY <1>1, <1>3
  <1>4. QED
    BY <1>2, <1>3, ClientSteps

\* A client that reads a node leaves ZooKeeper as it is.
LEMMA WriterForgets ==
    ASSUME NodesTypeOK, NEW c \in Clients, Set(c) \/ Delete(c) \/ Create(c), NEW d \in Clients, NEW n \in Nodes
    PROVE  rd'[d][n] \in {rd[d][n], Absent}
  <1>1. rd' = rd \/ rd' = [rd EXCEPT ![c] = [m \in Nodes |-> Absent]]
    BY DEF Set, Delete, Create, DeleteFails, Goto
  <1>2. rd \in [Clients -> [Nodes -> NodeRecords]]
    BY DEF NodesTypeOK
  <1>3. rd'[d] = rd[d] \/ rd'[d] = [m \in Nodes |-> Absent]
    BY <1>1, <1>2
  <1>4. QED
    BY <1>3

\* What is absent has no data and the lives count up.
LEMMA LivesStep ==
    ASSUME NodesTypeOK, Places, Starters, Counted, Lives, [nodesNext]_nodesVars
    PROVE  Lives' /\ lives' \in {lives, lives + 1}
  <1>1. lives \in Nat /\ updates \in Nat /\ Absent.life = 0
    BY DEF NodesTypeOK, Absent
  <1>2. lives' \in {lives, lives + 1}
    BY Writers, CreateWrites DEF Set, Delete
  <1>3. ASSUME NEW n \in Nodes PROVE zk'[n].life <= lives' /\ (zk'[n].life = 0 => zk'[n] = Absent)
    <2>1. CASE zk' = zk /\ lives' = lives
      BY <2>1 DEF Lives
    <2>2. ASSUME NEW c \in Clients, Set(c), zk' # zk PROVE zk'[n].life <= lives' /\ (zk'[n].life = 0 => zk'[n] = Absent)
      BY <2>2, SetWrites DEF Lives, Set
    <2>3. ASSUME NEW c \in Clients, Delete(c), zk' # zk PROVE zk'[n].life <= lives' /\ (zk'[n].life = 0 => zk'[n] = Absent)
      BY <1>1, <2>3, DeleteWrites DEF Lives
    <2>4. ASSUME NEW c \in Clients, Create(c), zk' # zk \/ lives' # lives
          PROVE  zk'[n].life <= lives' /\ (zk'[n].life = 0 => zk'[n] = Absent)
      BY <1>1, <2>4, CreateWrites
    <2>5. QED
      BY <2>1, <2>2, <2>3, <2>4, Writers DEF Set, Delete
  <1>4. ASSUME NEW d \in Clients, NEW n \in Nodes PROVE rd'[d][n].life <= lives' /\ (rd'[d][n].life = 0 => rd'[d][n] = Absent)
    <2>1. rd[d][n].life \in Nat /\ zk[n].life \in Nat
      BY RecordTypes DEF NodeRecords
    <2>2. QED
      BY <1>1, <1>2, <2>1, HeldAfter DEF Lives
  <1>5. ASSUME NEW d \in Clients PROVE since'[d] <= lives'
    <2>1. since \in [Clients -> 0 .. LifeLimit] /\ since[d] \in Nat
      BY DEF NodesTypeOK
    <2>2. since'[d] \in {since[d], 0, lives}
      BY <2>1, ClientSteps
    <2>3. QED
      BY <1>1, <1>2, <2>1, <2>2 DEF Lives
  <1>6. ASSUME NEW d \in Clients PROVE nodeOp'[d].num <= updates'
    <2>1. nodeOp \in [Clients -> [kind : Operations, num : 0 .. UpdateLimit]] /\ nodeOp[d].num <= updates
      BY DEF NodesTypeOK, Lives
    <2>2. updates' \in {updates, updates + 1}
      BY DEF nodesVars, boundVars, nodesNext, ClientNext, BeginUpdate, Get, Set, BeginDelete, BeginClean, IsValid, Find,
             ReadVersion, Delete, Return, BeginStart, Create, BreakOff
    <2>3. nodeOp'[d].num \in {nodeOp[d].num, 0} \/ (updates' = updates + 1 /\ nodeOp'[d].num \in {nodeOp[d].num, updates'})
      BY <2>1, ClientSteps DEF NoOperation
    <2>4. QED
      BY <1>1, <2>1, <2>2, <2>3
  <1>7. QED
    BY <1>2, <1>3, <1>4, <1>5, <1>6 DEF Lives

\* Every step keeps the types, and the status never outlives its parent.
LEMMA TypeStep ==
    ASSUME NodesTypeOK, Places, Starters, Counted, [nodesNext]_nodesVars
    PROVE  NodesTypeOK'
  <1>1. zk' \in [Nodes -> NodeRecords] /\ (Exists(zk'["cs"]) => Exists(zk'["ss"]))
    <2>1. CASE zk' = zk
      BY <2>1 DEF NodesTypeOK
    <2>2. ASSUME NEW c \in Clients, Set(c), zk' # zk
          PROVE  zk' \in [Nodes -> NodeRecords] /\ (Exists(zk'["cs"]) => Exists(zk'["ss"]))
      BY <2>2, SetWrites, Orders DEF NodesTypeOK, Exists
    <2>3. ASSUME NEW c \in Clients, Delete(c), zk' # zk
          PROVE  zk' \in [Nodes -> NodeRecords] /\ (Exists(zk'["cs"]) => Exists(zk'["ss"]))
      <3>1. Exists(zk["cs"]) => Exists(zk["ss"])
        BY DEF NodesTypeOK
      <3>2. "cs" \in Nodes /\ "ss" \in Nodes /\ ~Exists(Absent)
        BY Orders DEF Absent, Exists
      <3>3. QED
        BY <2>3, <3>1, <3>2, DeleteWrites
    <2>4. ASSUME NEW c \in Clients, Create(c), zk' # zk
          PROVE  zk' \in [Nodes -> NodeRecords] /\ (Exists(zk'["cs"]) => Exists(zk'["ss"]))
      <3>1. zk'["ss"].life = lives' /\ lives' = lives + 1 /\ lives \in Nat
        BY <2>4, CreateWrites, Orders DEF NodesTypeOK
      <3>2. QED
        BY <2>4, <3>1, CreateWrites DEF Exists
    <2>5. QED
      BY <2>1, <2>2, <2>3, <2>4, Writers
  <1>2. lives' \in 0 .. LifeLimit
    <2>1. ASSUME NEW c \in Clients, Create(c), lives' # lives PROVE lives' = lives + 1 /\ lives < LifeLimit
      BY <2>1, CreateWrites DEF Places, PlacesOf, Starters
    <2>2. QED
      BY <2>1, Writers DEF NodesTypeOK, Set, Delete
  <1>3. updates' \in 0 .. UpdateLimit /\ deletes' \in 0 .. DeleteLimit /\ faults' \in 0 .. FaultLimit
    BY DEF NodesTypeOK, nodesVars, boundVars, nodesNext, ClientNext, BeginUpdate, Get, Set, BeginDelete, BeginClean, IsValid,
           Find, ReadVersion, Delete, Return, BeginStart, Create, BreakOff
  <1>4. QED
    BY <1>1, <1>2, <1>3, ClientsTypeStep DEF NodesTypeOK, ClientsTypeOK

\* Every version leaves room for the updates under way: a new one comes with a new update.
LEMMA CountedStep ==
    ASSUME NodesTypeOK, Places, Starters, Counted, [nodesNext]_nodesVars
    PROVE  Counted'
  <1>1. IsFiniteSet(Updating) /\ Cardinality(Updating) \in Nat /\ updates \in Nat /\ updates' \in Nat
    BY FS_CardinalityType, TypeStep DEF Counted, NodesTypeOK
  <1>2. ASSUME NEW n \in Nodes PROVE zk[n].ver \in Nat /\ zk'[n].ver \in Nat /\ zk[n].ver + Cardinality(Updating) <= updates
    BY RecordTypes, TypeStep DEF NodesTypeOK, NodeRecords, Counted
  <1>3. CASE Updating' \subseteq Updating /\ updates' >= updates /\ \A n \in Nodes : zk'[n].ver <= zk[n].ver
    <2>1. IsFiniteSet(Updating') /\ Cardinality(Updating') \in Nat /\ Cardinality(Updating') <= Cardinality(Updating)
      BY <1>1, <1>3, FS_Subset, FS_CardinalityType
    <2>2. QED
      BY <1>1, <1>2, <1>3, <2>1 DEF Counted
  <1>4. ASSUME NEW c \in Clients, NEW change \in Changes, BeginUpdate(c, change) PROVE Counted'
    <2>1. Updating' = Updating \cup {c} /\ c \notin Updating
      BY <1>4 DEF BeginUpdate, Updating, NodesTypeOK
    <2>2. IsFiniteSet(Updating') /\ Cardinality(Updating') = Cardinality(Updating) + 1
      BY <1>1, <2>1, FS_AddElement
    <2>3. zk' = zk /\ updates' = updates + 1
      BY <1>4 DEF BeginUpdate
    <2>4. QED
      BY <1>1, <1>2, <2>2, <2>3 DEF Counted
  <1>5. ASSUME NEW c \in Clients, Set(c), zk' # zk PROVE Counted'
    <2>1. Updating' = Updating \ {c} /\ c \in Updating /\ updates' = updates
      BY <1>5 DEF Set, Goto, Updating, NodesTypeOK, boundVars
    <2>2. IsFiniteSet(Updating') /\ Cardinality(Updating') = Cardinality(Updating) - 1
      BY <1>1, <2>1, FS_RemoveElement
    <2>3. \A n \in Nodes : zk'[n].ver = zk[n].ver + 1
      BY <1>5, SetWrites
    <2>4. \A n \in Nodes : zk'[n].ver + (Cardinality(Updating) - 1) <= updates
      BY <1>1, <1>2, <2>3
    <2>5. updates' = updates
      BY <2>1
    <2>6. QED
      BY <2>2, <2>4, <2>5 DEF Counted
  <1>6. ASSUME \A c \in Clients, change \in Changes : ~BeginUpdate(c, change), \A c \in Clients : Set(c) => zk' = zk
        PROVE  Updating' \subseteq Updating /\ updates' >= updates /\ \A n \in Nodes : zk'[n].ver <= zk[n].ver
    <2>1. Updating' \subseteq Updating
      <3>1. CASE UNCHANGED nodesVars
        BY <3>1 DEF nodesVars, Updating
      <3>2. ASSUME NEW c \in Clients, ClientNext(c) PROVE Updating' \subseteq Updating
        <4>1. \A d \in Clients \ {c} : pc'[d] = pc[d]
          BY <3>2, OneActs
        <4>2. pc'[c] \in {"get", "set"} => pc[c] \in {"get", "set"}
          BY <1>6, <3>2, PcAfter
        <4>3. QED
          BY <4>1, <4>2 DEF Updating
      <3>3. QED
        BY <3>1, <3>2 DEF nodesNext
    <2>2. updates' = updates
      BY <1>6 DEF nodesVars, boundVars, nodesNext, ClientNext, Get, Set, BeginDelete, BeginClean, IsValid, Find,
             ReadVersion, Delete, Return, BeginStart, Create, BreakOff
    <2>3. ASSUME NEW n \in Nodes PROVE zk'[n].ver <= zk[n].ver
      <3>1. CASE zk' = zk
        BY <1>2, <3>1
      <3>2. ASSUME NEW c \in Clients, Delete(c), zk' # zk PROVE zk'[n].ver <= zk[n].ver
        BY <1>2, <3>2, DeleteWrites DEF Absent
      <3>3. ASSUME NEW c \in Clients, Create(c), zk' # zk PROVE zk'[n].ver <= zk[n].ver
        BY <1>2, <3>3, CreateWrites
      <3>4. QED
        BY <1>6, <3>1, <3>2, <3>3, Writers
    <2>4. QED
      BY <1>1, <2>1, <2>2, <2>3
  <1>7. QED
    BY <1>3, <1>4, <1>5, <1>6

\* What was read in the current life of a node is an older version of it, or as it is.
LEMMA AsReadStep ==
    ASSUME NodesTypeOK, Places, Starters, Counted, Lives, AsRead, [nodesNext]_nodesVars
    PROVE  AsRead'
  <1> SUFFICES ASSUME NEW d \in Clients, NEW n \in Nodes, rd'[d][n].life = zk'[n].life
               PROVE  rd'[d][n].ver <= zk'[n].ver /\ (rd'[d][n].ver = zk'[n].ver => rd'[d][n] = zk'[n])
    BY DEF AsRead
  <1>1. /\ zk[n].ver \in Nat /\ rd[d][n].ver \in Nat /\ lives \in Nat
        /\ zk[n].life \in Nat /\ rd[d][n].life \in Nat /\ rd[d][n].life <= lives
        /\ (zk[n].life = 0 => zk[n] = Absent) /\ (rd[d][n].life = 0 => rd[d][n] = Absent)
        /\ Absent.life = 0 /\ Absent.ver = 0
        /\ rd[d][n].life = zk[n].life => rd[d][n].ver <= zk[n].ver /\ (rd[d][n].ver = zk[n].ver => rd[d][n] = zk[n])
    BY RecordTypes DEF NodesTypeOK, NodeRecords, Lives, AsRead, Absent
  <1>2. CASE zk' = zk
    BY <1>1, <1>2, HeldAfter
  <1>3. ASSUME NEW c \in Clients, Set(c), zk' # zk
        PROVE  rd'[d][n].ver <= zk'[n].ver /\ (rd'[d][n].ver = zk'[n].ver => rd'[d][n] = zk'[n])
    BY <1>1, <1>3, WriterForgets, SetWrites
  <1>4. ASSUME NEW c \in Clients, Delete(c), zk' # zk
        PROVE  rd'[d][n].ver <= zk'[n].ver /\ (rd'[d][n].ver = zk'[n].ver => rd'[d][n] = zk'[n])
    BY <1>1, <1>4, WriterForgets, DeleteWrites
  <1>5. ASSUME NEW c \in Clients, Create(c), zk' # zk
        PROVE  rd'[d][n].ver <= zk'[n].ver /\ (rd'[d][n].ver = zk'[n].ver => rd'[d][n] = zk'[n])
    <2>1. zk'[n].life = lives + 1
      BY <1>5, CreateWrites
    <2>2. QED
      BY <1>1, <1>5, <2>1, WriterForgets
  <1>6. QED
    BY <1>2, <1>3, <1>4, <1>5, Writers
-----------------------------------------------------------------------------

\* A node that is not there does not come back in the same life.
LEMMA NoReturn ==
    ASSUME NodesTypeOK, Places, Starters, Counted, [nodesNext]_nodesVars, lives' = lives
    PROVE  \A n \in Nodes : Exists(zk'[n]) => Exists(zk[n])
  <1>1. lives \in Nat
    BY DEF NodesTypeOK
  <1>2. ASSUME NEW c \in Clients, Set(c), zk' # zk PROVE \A n \in Nodes : Exists(zk'[n]) => Exists(zk[n])
    BY <1>2, SetWrites DEF Exists
  <1>3. ASSUME NEW c \in Clients, Delete(c), zk' # zk PROVE \A n \in Nodes : Exists(zk'[n]) => Exists(zk[n])
    BY <1>3, DeleteWrites DEF Exists, Absent
  <1>4. ASSUME NEW c \in Clients, Create(c) PROVE zk' = zk
    BY <1>1, <1>4, CreateWrites
  <1>5. QED
    BY <1>2, <1>3, <1>4, Writers

\* No client has begun its operation in a life that only begins with this step.
LEMMA SinceOld ==
    ASSUME NodesTypeOK, Places, Starters, Counted, Lives, [nodesNext]_nodesVars, NEW d \in Clients, since'[d] = lives', lives' # 0
    PROVE  lives' = lives
  <1>1. since \in [Clients -> 0 .. LifeLimit] /\ lives \in Nat /\ since[d] <= lives /\ since[d] \in Nat
    BY DEF NodesTypeOK, Lives
  <1>2. since'[d] \in {since[d], 0, lives}
    BY <1>1, ClientSteps
  <1>3. lives' \in {lives, lives + 1}
    BY LivesStep
  <1>4. QED
    BY <1>1, <1>2, <1>3

\* What DeleteState has asked for and not found stays away.
LEMMA FoundStep ==
    ASSUME NodesTypeOK, Places, Starters, Counted, Lives, Found, [nodesNext]_nodesVars
    PROVE  Found'
  <1> SUFFICES ASSUME NEW d \in Clients, pc'[d] \in Deleting, since'[d] = lives', NEW n \in Asked(d)', Exists(zk'[n])
               PROVE  n \in del'[d]
    BY DEF Found
  <1>1. n \in Nodes /\ n \in {"hs", "cs", "ss"}
    BY Orders DEF Asked
  <1>2. lives' = lives
    BY SinceOld, LivesStep DEF NodesTypeOK
  <1>3. Exists(zk[n])
    BY <1>1, <1>2, NoReturn
  <1>4. CASE UNCHANGED nodesVars
    BY <1>4 DEF nodesVars, Found, Asked
  <1>5. ASSUME NEW c \in Clients, ClientNext(c) PROVE n \in del'[d]
    <2>1. CASE c # d
      BY <1>2, <1>3, <1>5, <2>1, OneActs DEF Found, Asked
    <2>2. CASE c = d
      <3>1. ASSUME BeginDelete(d) \/ BeginStart(d) PROVE FALSE
        BY <3>1, BeginSets DEF Asked, Places, PlacesOf
      <3>2. ASSUME Goto(d, "exists") PROVE FALSE
        BY <3>2, GotoSets DEF Asked
      <3>3. ASSUME Find(d) PROVE n \in del'[d]
        <4>1. pc[d] = "exists" /\ since[d] = lives
          BY <1>2, <3>3, FindSets
        <4>2. n \in Asked(d) => n \in del[d]
          BY <1>3, <4>1 DEF Found, Deleting
        <4>3. n \in Asked(d) \/ n = DeleteOrder[step[d]]
          BY <3>3, FindAsks
        <4>4. QED
          BY <1>3, <3>3, <4>2, <4>3, FindSets
      <3>4. ASSUME pc[d] = "version", Moves(d), del' = del, since' = since PROVE n \in del'[d]
        BY <1>1, <1>2, <1>3, <3>4 DEF Found, Asked, Deleting
      <3>5. QED
        BY <1>5, <2>2, <3>1, <3>2, <3>3, <3>4, PcAfter
    <2>3. QED
      BY <2>1, <2>2
  <1>6. QED
    BY <1>4, <1>5 DEF nodesNext

\* A DeleteState that returns has left nothing of the life it began in.
LEMMA CompleteStep ==
    ASSUME NodesTypeOK, Places, Starters, Counted, Lives, Found, DeleteIsComplete, [nodesNext]_nodesVars
    PROVE  DeleteIsComplete'
  <1> SUFFICES ASSUME NEW d \in Clients, pc'[d] = "deleted", since'[d] = lives', NEW n \in Nodes, Exists(zk'[n]) PROVE FALSE
    BY DEF DeleteIsComplete
  <1>1. lives' = lives
    BY SinceOld, LivesStep DEF NodesTypeOK
  <1>2. Exists(zk[n])
    BY <1>1, NoReturn
  <1>3. CASE UNCHANGED nodesVars
    BY <1>2, <1>3 DEF nodesVars, DeleteIsComplete
  <1>4. ASSUME NEW c \in Clients, ClientNext(c) PROVE FALSE
    <2>1. CASE c # d
      BY <1>1, <1>2, <1>4, <2>1, OneActs DEF DeleteIsComplete
    <2>2. CASE c = d
      <3>1. Delete(d)
        BY <1>4, <2>2, PcAfter
      <3>2. pc[d] = "multi" /\ zk' = [m \in Nodes |-> IF m \in del[d] THEN Absent ELSE zk[m]] /\ Goto(d, "deleted")
        <4>1. ~DeleteFails(d) /\ ~Goto(d, "create")
          BY GotoSets DEF DeleteFails
        <4>2. QED
          BY <3>1, <4>1 DEF Delete
      <3>3. since'[d] = since[d]
        BY <3>2, GotoSets
      <3>4. n \in del[d]
        BY <1>1, <1>2, <3>2, <3>3 DEF Found, Asked, Deleting
      <3>5. QED
        BY <3>2, <3>4 DEF Exists, Absent
    <2>3. QED
      BY <2>1, <2>2
  <1>5. QED
    BY <1>3, <1>4 DEF nodesNext

\* What a client's operation is after a step.
LEMMA KindAfter ==
    ASSUME NodesTypeOK, NEW c \in Clients, ClientNext(c)
    PROVE  /\ nodeOp'[c].kind = "start" => nodeOp[c].kind = "start" \/ BeginStart(c)
           /\ nodeOp'[c].kind \in {"none", "start", nodeOp[c].kind} \/ Listed
           /\ BeginStart(c) => nodeOp'[c].kind = "start" /\ pc'[c] = "exists"
           /\ Create(c) => nodeOp'[c].kind = "none" /\ pc'[c] = "idle"
  <1>1. nodeOp \in [Clients -> [kind : Operations, num : 0 .. UpdateLimit]] 
        /\ pc \in [Clients -> {"idle", "get", "set", "valid", "exists", "version", "multi", "deleted", "create"}]
    BY DEF NodesTypeOK
  <1>2. CASE nodeOp' = nodeOp /\ ~Create(c) /\ ~BeginStart(c)
    BY <1>2
  <1>3. CASE Goto(c, "idle") /\ ~BeginStart(c)
    BY <1>3, GotoSets DEF NoOperation
  <1>4. ASSUME Get(c) \/ Set(c) \/ IsValid(c) \/ Find(c) \/ ReadVersion(c) \/ Delete(c) \/ Return(c) \/ Create(c) \/ BreakOff(c)
        PROVE  (nodeOp' = nodeOp \/ Goto(c, "idle")) /\ ~BeginStart(c) /\ (Create(c) => Goto(c, "idle"))
    BY <1>4 DEF Get, Set, IsValid, Find, ReadVersion, Delete, Return, Create, BreakOff, BeginStart, DeleteFails, Goto
  <1>5. ASSUME (\E k \in Changes : BeginUpdate(c, k)) \/ BeginDelete(c) \/ BeginClean(c)
        PROVE  Listed /\ ~Create(c) /\ ~BeginStart(c) /\ nodeOp'[c].kind # "start"
    <2>1. Listed /\ ~Create(c) /\ pc'[c] # pc[c]
      BY <1>1, <1>5 DEF BeginUpdate, BeginDelete, BeginClean, Create
    <2>2. nodeOp'[c].kind # "start"
      BY <1>5, BeginSets DEF Changes
    <2>3. QED
      BY <2>1, <2>2, BeginSets
  <1>6. CASE BeginStart(c)
    BY <1>6, BeginSets DEF Create
  <1>7. QED
    BY <1>2, <1>3, <1>4, <1>5, <1>6 DEF ClientNext

\* One client starts the state at a time.
LEMMA StartersStep ==
    ASSUME NodesTypeOK, Places, Lives, Counted, Starters, [nodesNext]_nodesVars
    PROVE  Starters'
  <1>1. CASE UNCHANGED nodesVars
    BY <1>1 DEF nodesVars, Starters
  <1>2. ASSUME NEW c \in Clients, ClientNext(c) PROVE Starters'
    <2>1. \A d \in Clients \ {c} : pc'[d] = pc[d] /\ nodeOp'[d] = nodeOp[d]
      BY <1>2, OneActs
    <2>2. \A d, e \in Clients : nodeOp'[d].kind = "start" /\ nodeOp'[e].kind = "start" => d = e
      BY <1>2, <2>1, KindAfter DEF Starters, BeginStart
    <2>3. ASSUME NEW d \in Clients, nodeOp'[d].kind = "start" PROVE lives' < LifeLimit
      <3>1. CASE lives' = lives
        BY <1>2, <2>1, <2>3, <3>1, KindAfter DEF Starters, BeginStart
      <3>2. CASE lives' # lives
        <4>1. Create(c)
          <5>1. ASSUME ~Create(c) PROVE lives' = lives
            BY <1>2, <5>1 DEF ClientNext, BeginUpdate, Get, Set, BeginDelete, BeginClean, IsValid, Find, ReadVersion, Delete,
                              Return, BeginStart, BreakOff
          <5>2. QED
            BY <3>2, <5>1
        <4>2. nodeOp[c].kind = "start" /\ nodeOp'[c].kind = "none"
          BY <1>2, <4>1, KindAfter DEF Create, Places, PlacesOf
        <4>3. QED
          BY <2>1, <2>3, <4>2 DEF Starters
      <3>3. QED
        BY <3>1, <3>2
    <2>4. ASSUME lives' = 0, NEW d \in Clients
          PROVE  /\ pc'[d] \in {"idle", "create", "exists", "version", "multi"} /\ nodeOp'[d].kind \in {"none", "start"}
                 /\ pc'[d] \in Deleting => nodeOp'[d].kind = "start"
      <3>1. lives = 0
        BY <1>2, <2>4, LivesStep DEF NodesTypeOK, nodesNext
      <3>2. ~Listed
        <4>1. \A n \in Nodes : zk[n].life \in Nat /\ zk[n].life <= 0
          BY <3>1, RecordTypes DEF Lives, NodeRecords
        <4>2. QED
          BY <4>1, Orders DEF Listed, Exists
      <3>3. CASE d # c
        BY <2>1, <3>1, <3>3 DEF Starters
      <3>4. CASE d = c
        <4>1. /\ pc[c] \in {"idle", "create", "exists", "version", "multi"} /\ nodeOp[c].kind \in {"none", "start"}
              /\ pc[c] \in Deleting => nodeOp[c].kind = "start"
          BY <3>1 DEF Starters
        <4>2. nodeOp'[c].kind \in {"none", "start"}
          BY <1>2, <3>2, <4>1, KindAfter
        <4>3. pc'[c] \notin {"get", "set", "valid", "deleted"}
          <5>1. ~BeginClean(c) /\ ~BeginDelete(c) /\ \A k \in Changes : ~BeginUpdate(c, k)
            BY <3>2 DEF BeginClean, BeginDelete, BeginUpdate
          <5>2. ~IsValid(c)
            BY <4>1 DEF IsValid
          <5>3. pc'[c] # "deleted"
            <6>1. ASSUME Delete(c) PROVE pc'[c] # "deleted"
              <7>1. nodeOp[c].kind = "start"
                BY <4>1, <6>1 DEF Delete, Deleting
              <7>2. Goto(c, "create")
                BY <6>1, <7>1 DEF Delete, DeleteFails
              <7>3. QED
                BY <7>2, GotoSets
            <6>2. QED
              BY <1>2, <6>1, PcAfter
          <5>4. QED
            BY <1>2, <4>1, <5>1, <5>2, <5>3, PcAfter
        <4>4. ASSUME pc'[c] \in Deleting PROVE nodeOp'[c].kind = "start"
          <5>1. BeginStart(c) \/ (pc[c] \in Deleting /\ nodeOp' = nodeOp)
            <6>1. ~BeginDelete(c)
              BY <3>2 DEF BeginDelete
            <6>2. pc[c] # "valid"
              BY <4>1
            <6>3. Find(c) => pc[c] \in Deleting /\ nodeOp' = nodeOp
              BY FindSets DEF Deleting
            <6>4. QED
              BY <1>2, <4>4, <6>1, <6>2, <6>3, PcAfter DEF Deleting
          <5>2. QED
            BY <1>2, <4>1, <5>1, KindAfter
        <4>5. pc'[c] \in {"idle", "get", "set", "valid", "exists", "version", "multi", "deleted", "create"}
          BY <1>2, PcTypes DEF nodesNext, ClientPlaces
        <4>6. QED
          BY <3>4, <4>2, <4>3, <4>4, <4>5
      <3>5. QED
        BY <3>3, <3>4
    <2>5. QED
      BY <2>2, <2>3, <2>4 DEF Starters
  <1>3. QED
    BY <1>1, <1>2 DEF nodesNext

\* In its first life the state is created, is deleted as a whole, and is gone.
LEMMA FirstLifeStep ==
    ASSUME NodesTypeOK, Places, Lives, Counted, Starters, FirstLife, [nodesNext]_nodesVars
    PROVE  FirstLife'
  <1> SUFFICES ASSUME lives' <= 1
               PROVE  Congruent' /\ (Exists(zk'["hs"]) => \A d \in Clients : Whole(d)')
    BY DEF FirstLife
  <1> USE DEF Whole
  <1>1. lives \in Nat /\ lives <= 1 /\ lives' \in {lives, lives + 1}
    BY LivesStep DEF NodesTypeOK
  <1>2. Congruent /\ (Exists(zk["hs"]) => \A d \in Clients : Whole(d))
    BY <1>1 DEF FirstLife
  <1>3. CASE UNCHANGED nodesVars
    BY <1>2, <1>3 DEF nodesVars, Congruent, Asked
  <1>4. ASSUME NEW c \in Clients, ClientNext(c)
        PROVE  Congruent' /\ (Exists(zk'["hs"]) => \A d \in Clients : Whole(d)')
    <2>1. \A d \in Clients \ {c} : Whole(d) => Whole(d)'
      BY <1>4, OneActs DEF Asked
    <2>2. CASE zk' = zk
      <3>1. Congruent'
        BY <1>2, <2>2 DEF Congruent
      <3>2. ASSUME Exists(zk["hs"]) PROVE Whole(c)'
        <4>1. \A n \in Nodes : Exists(zk[n])
          BY <1>2, <3>2, Orders DEF Congruent
        <4>2. Whole(c) /\ ~BeginStart(c)
          BY <1>2, <3>2, <4>1, Orders DEF BeginStart
        <4>3. nodeOp'[c].kind # "start"
          BY <1>4, <4>2, KindAfter
        <4>4. ASSUME pc'[c] \in Deleting PROVE del'[c] = Asked(c)'
          <5>1. CASE BeginDelete(c)
            BY <5>1, BeginSets DEF Places, PlacesOf, Asked
          <5>2. CASE Find(c)
            <6>1. Exists(zk[DeleteOrder[step[c]]]) /\ pc[c] = "exists"
              BY <4>1, <5>2, Orders, FindSets DEF NodesTypeOK
            <6>2. QED
              BY <4>2, <5>2, <6>1, FindSets, FindAsks DEF Deleting
          <5>3. CASE pc[c] = "version" /\ Moves(c) /\ del' = del
            BY <4>2, <5>3 DEF Moves, Asked, Deleting
          <5>4. QED
            BY <1>4, <4>1, <4>2, <4>4, <5>1, <5>2, <5>3, PcAfter
        <4>5. QED
          BY <4>3, <4>4
      <3>3. QED
        BY <1>2, <2>1, <2>2, <3>1, <3>2
    <2>3. CASE zk' # zk /\ Set(c)
      <3>1. \A n \in Nodes : Exists(zk[n]) /\ Exists(zk'[n])
        BY <2>3, SetWrites DEF Exists
      <3>2. Whole(c)'
        BY <2>3, GotoSets DEF Set, Deleting, NoOperation
      <3>3. QED
        BY <1>2, <2>1, <3>1, <3>2, Orders DEF Congruent
    <2>4. CASE zk' # zk /\ Delete(c)
      <3>1. PICK n \in del[c] : Exists(zk[n])
        <4>1. del[c] = {} => zk' = zk
          BY <2>4, DeleteWrites DEF NodesTypeOK
        <4>2. QED
          BY <2>4, <4>1, DeleteWrites
      <3>2. Exists(zk["hs"]) /\ n \in Nodes
        BY <1>2, <3>1, Orders DEF Congruent, NodesTypeOK
      <3>3. del[c] = Nodes
        BY <1>2, <2>4, <3>2, DeleteWrites DEF Asked, Deleting
      <3>4. \A m \in Nodes : ~Exists(zk'[m])
        BY <2>4, <3>3, DeleteWrites DEF Exists, Absent
      <3>5. QED
        BY <3>4, Orders DEF Congruent
    <2>5. CASE zk' # zk /\ Create(c)
      <3>1. lives = 0 /\ lives' = 1 /\ \A n \in Nodes : Exists(zk'[n])
        BY <1>1, <2>5, CreateWrites DEF Exists
      <3>2. nodeOp[c].kind = "start"
        BY <2>5, CreateWrites DEF Places, PlacesOf
      <3>3. Whole(c)'
        BY <1>4, <2>5, KindAfter DEF Deleting
      <3>4. ASSUME NEW d \in Clients \ {c} PROVE Whole(d)
        BY <3>1, <3>2 DEF Starters
      <3>5. QED
        BY <2>1, <3>1, <3>3, <3>4 DEF Congruent
    <2>6. ASSUME zk' # zk PROVE Set(c) \/ Delete(c) \/ Create(c)
      BY <1>4, <2>6 DEF ClientNext, BeginUpdate, Get, BeginDelete, BeginClean, IsValid, Find, ReadVersion, Return, BeginStart,
                        BreakOff
    <2>7. QED
      BY <2>2, <2>3, <2>4, <2>5, <2>6
  <1>5. QED
    BY <1>3, <1>4 DEF nodesNext
-----------------------------------------------------------------------------

\* Before the state is created nothing is there and nobody is at work.
LEMMA NodesInit == nodesInit => NodesInv
  <1> SUFFICES ASSUME nodesInit PROVE NodesInv
    OBVIOUS
  <1>1. Absent \in NodeRecords /\ Absent.life = 0 /\ ~Exists(Absent)
    BY DEF NodeRecords, Absent, Exists
  <1>2. NodesTypeOK
    BY <1>1, Orders DEF nodesInit, NodesTypeOK, NoOperation, Operations
  <1>3. Updating = {} /\ Absent.ver = 0
    BY DEF nodesInit, Updating, Absent
  <1>4. Counted
    BY <1>3, FS_EmptySet DEF nodesInit, Counted
  <1>5. Places /\ Found /\ DeleteIsComplete
    BY DEF nodesInit, Places, PlacesOf, Found, DeleteIsComplete, NoOperation, Deleting
  <1>6. Lives /\ AsRead
    BY <1>1, <1>3 DEF nodesInit, Lives, AsRead, NoOperation
  <1>7. Starters
    BY DEF nodesInit, Starters, NoOperation, Deleting
  <1>8. FirstLife
    BY <1>1, Orders DEF nodesInit, FirstLife, Congruent
  <1>9. QED
    BY <1>2, <1>4, <1>5, <1>6, <1>7, <1>8 DEF NodesInv

\* Every step keeps the invariant.
LEMMA NodesStep == NodesInv /\ [nodesNext]_nodesVars => NodesInv'
  BY TypeStep, PlacesStep, LivesStep, CountedStep, AsReadStep, FoundStep, CompleteStep, StartersStep, FirstLifeStep DEF NodesInv

\* The nodes of a state keep to their types and stay congruent in the first life, and
\* a DeleteState that returns has left none (UpdateState, DeleteState, CleanHostStates).
THEOREM NodesAreSound == nodesSpec => []NodesSound
  <1>1. NodesInv => NodesSound
    BY DEF NodesInv, NodesSound, FirstLife, CongruentInFirstLife
  <1>2. QED
    BY <1>1, NodesInit, NodesStep, PTL DEF nodesSpec

\* When the transaction of an UpdateState goes through, each node of the current
\* life is as UpdateState has read it.
THEOREM UpdatesAreNotLost == nodesSpec => NoLostUpdate
  <1>1. ASSUME NodesInv, [nodesNext]_nodesVars, NEW d \in Clients, pc[d] = "set", pc'[d] = "idle", zk' # zk,
               NEW n \in Nodes, rd[d][n].life = zk[n].life
        PROVE  rd[d][n] = zk[n]
    <2>1. PICK c \in Clients : ClientNext(c) /\ (Set(c) \/ Delete(c) \/ Create(c))
      BY <1>1, Writers DEF ClientNext
    <2>2. c = d
      BY <1>1, <2>1, OneActs DEF NodesInv
    <2>3. Set(d)
      BY <1>1, <2>1, <2>2 DEF Delete, Create
    <2>4. QED
      BY <1>1, <2>3, SetWrites DEF NodesInv, AsRead
  <1>2. NodesInv /\ [nodesNext]_nodesVars =>
          [\A c \in Clients : (pc[c] = "set" /\ pc'[c] = "idle" /\ zk' # zk)
             => \A n \in Nodes : rd[c][n].life = zk[n].life => rd[c][n] = zk[n]]_nodesVars
    BY <1>1
  <1>3. QED
    BY <1>2, NodesInit, NodesStep, PTL DEF nodesSpec, NoLostUpdate

-----------------------------------------------------------------------------
(* The controller of a container                                            *)

\* While the controller shuts its service down nothing is left that could start it: it is past
\* the places where it begins to, the restart timer is cleared and Autorestart is off.  The goroutine
\* that fetches the endpoints can take Run back to its beginning only while Run waits for it.
KillingInv ==
    /\ ctl = [at |-> ctl.at, how |-> ctl.how, start |-> ctl.start, deadman |-> ctl.deadman,
              killing |-> ctl.killing, autorestart |-> ctl.autorestart, pidFile |-> ctl.pidFile]
    /\ fetch \in {"answered", "sending"} => ctl.at \in {"imports", "giveup", "ended"}
    /\ ctl.killing => ctl.at \in {"loop", "close", "ended"} /\ ~ctl.start /\ ~ctl.autorestart

\* A new controller.
LEMMA KillingInvInit == ccInit => KillingInv
BY DEF ccInit, KillingInv

\* The end of the process keeps the invariant.
LEMMA EndedKeepsKilling ==
    ASSUME KillingInv, NEW how, Ended(how), fetch' = fetch \/ fetch' = "left"
    PROVE  KillingInv'
BY DEF KillingInv, Ended

\* Every step of the controller keeps the invariant.
LEMMA KillingInvNext == KillingInv /\ [ccNext]_ccVars => KillingInv'
<1> SUFFICES ASSUME KillingInv, [ccNext]_ccVars PROVE KillingInv'
  OBVIOUS
<1>1. CASE UNCHANGED ccVars
  BY <1>1 DEF ccVars, KillingInv
<1>2. CASE Signalled
  <2>1. CASE ctl.at = "new"
    BY <1>2, <2>1, EndedKeepsKilling DEF Signalled
  <2>2. CASE ctl.at # "new"
    BY <1>2, <2>2 DEF Signalled, KillingInv
  <2> QED
    BY <2>1, <2>2
<1>3. CASE CcGone("rpc") \/ CcGone("storage") \/ FetchAnswered \/ FetchLooks \/ PrereqsPass \/ ProcessRuns \/ ServiceExits
  BY <1>3 DEF CcGone, FetchAnswered, FetchLooks, PrereqsPass, ProcessRuns, ServiceExits, Alive, KillingInv
<1>4. ASSUME NEW a \in BOOLEAN, NEW p \in BOOLEAN, NewController(a, p) PROVE KillingInv'
  <2>1. CASE Ended("error")
    BY <1>4, <2>1, EndedKeepsKilling DEF NewController
  <2>2. CASE ctl' = [ctl EXCEPT !.at = "imports", !.autorestart = a, !.pidFile = p]
    BY <1>4, <2>2 DEF NewController, KillingInv
  <2> QED
    BY <1>4, <2>1, <2>2 DEF NewController
<1>5. CASE FetchSends
  <2>1. CASE ctl.at = "giveup"
    BY <1>5, <2>1, EndedKeepsKilling DEF FetchSends
  <2>2. CASE ctl.at # "giveup"
    <3>1. /\ ctl' = [ctl EXCEPT !.at = "prepare"] /\ fetch' = "left"
          /\ fetch = "sending" /\ ctl.at # "ended"
      BY <1>5, <2>2 DEF FetchSends, Alive
    <3> QED
      BY <3>1, <2>2 DEF KillingInv
  <2> QED
    BY <2>1, <2>2
<1>6. CASE ImportsGiveUp \/ LoopBegins
  BY <1>6 DEF ImportsGiveUp, LoopBegins, KillingInv
<1>7. CASE ImportsFail \/ PrereqsFatal \/ ClosesAndReports
  BY <1>7, EndedKeepsKilling DEF ImportsFail, PrereqsFatal, ClosesAndReports
<1>8. CASE TakesSignal \/ TakesGone
  <2>1. InLoop /\ ShutsDown
    BY <1>8 DEF TakesSignal, TakesGone
  <2>2. CASE Ended("panic")
    BY <1>8, <2>2, EndedKeepsKilling DEF TakesSignal, TakesGone
  <2>3. CASE shutdownService
    BY <1>8, <2>1, <2>3 DEF TakesSignal, TakesGone, shutdownService, InLoop, KillingInv
  <2> QED
    BY <2>1, <2>2, <2>3 DEF ShutsDown
<1>9. CASE TakesPrereqs \/ TakesExit \/ StartFires \/ DeadmanFires
  BY <1>9 DEF TakesPrereqs, TakesExit, StartFires, DeadmanFires, InLoop, KillingInv
<1>10. CASE CheckReports
  <2>1. CASE Ended("health")
    BY <1>10, <2>1, EndedKeepsKilling DEF CheckReports
  <2>2. CASE UNCHANGED ctl
    BY <1>10, <2>2 DEF CheckReports, KillingInv
  <2> QED
    BY <1>10, <2>1, <2>2 DEF CheckReports
<1>11. CASE CheckCancelled \/ \E r \in {"ok", "failed", "killcode", "timeout"} : CheckRuns(r)
  BY <1>11 DEF CheckCancelled, CheckRuns, KillingInv
<1> QED
  BY <1>1, <1>2, <1>3, <1>4, <1>5, <1>6, <1>7, <1>8, <1>9, <1>10, <1>11
  DEF ccNext, Fetch, RunStep, Loop

\* The timer of the loop is all that starts a service.
LEMMA OnlyTimerStarts ==
    ASSUME KillingInv, [ccNext]_ccVars
    PROVE  [ctl.killing => ~(proc = "none" /\ proc' = "forked")]_ccVars
<1> SUFFICES ASSUME ccNext, ctl.killing, proc = "none", proc' = "forked" PROVE FALSE
  BY DEF ccVars
<1>1. ~ StartFires
  BY DEF StartFires, KillingInv
<1>2. proc' = proc \/ proc' \in {"none", "up", "exited"}
  BY <1>1 DEF ccNext, Fetch, RunStep, Loop, Signalled, CcGone, FetchAnswered, FetchLooks, FetchSends, ImportsGiveUp,
    ImportsFail, LoopBegins, TakesSignal, TakesGone, TakesPrereqs, TakesExit, ClosesAndReports, DeadmanFires,
    NewController, PrereqsPass, PrereqsFatal, ProcessRuns, ServiceExits, CheckRuns, CheckReports, CheckCancelled
<1> QED
  BY <1>2

\* NoStartAfterShutdown of the run "nodes": however the restart timer, the prerequisites and the
\* signals interleave, and however often the service ends by itself, a controller that shuts its
\* service down never starts it again.
THEOREM NothingStartsAfterShutdown == ccSpec => NoStartAfterShutdown
<1>1. KillingInv /\ [ccNext]_ccVars => [ctl.killing => ~(proc = "none" /\ proc' = "forked")]_ccVars
  BY OnlyTimerStarts
<1> QED
  BY KillingInvInit, KillingInvNext, <1>1, PTL DEF ccSpec, NoStartAfterShutdown
=============================================================================
