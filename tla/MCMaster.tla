------------------------------ MODULE MCMaster ------------------------------
(*****************************************************************************)
(* Safety of the components of the master, each on a small instance.         *)
(* The parts share no state here, so a behaviour is about one of them: part  *)
(* says which, and the variables of the others keep their initial values.    *)
(* The state spaces add up instead of multiplying.                           *)
(*****************************************************************************)
EXTENDS ServiceStateManager, TenantLocks, ServiceTree, RollingRestart,
        Snapshots, PoolsAndHosts, IPAssignment, FrontEnds, RpcAccess,
        Leadership, DaemonStart, NfsExports

VARIABLE part   \* the part that this behaviour is about

MCParentOf == [s \in TreeServices |-> IF s = "t" THEN "nobody" ELSE "t"]

MCStartLevel == [s \in Services |-> 1]
MCShutdownLevel == [s \in Services |-> 0]
MCOrders == {[ds |-> ds, em |-> FALSE] : ds \in {"Run", "Stop", "Restart", "Pause"}}
              \cup {[ds |-> "Stop", em |-> TRUE]}
MCPortOf == [t |-> 0, a |-> 1, b |-> 1]
MCWalkOf == [t |-> <<"a", "b", "t">>, a |-> <<"a">>, b |-> <<"b">>]

Parts == {"batches", "locks", "tree", "restart", "snapshots", "pools",
          "ips", "front ends", "tokens", "rpc", "public ports",
          "virtual hosts", "access", "leads", "starts", "exports"}

Init ==
    /\ part \in Parts
    /\ ssmInit
    /\ lockInit
    /\ treeInit
    /\ rrInit
    /\ snapInit
    /\ poolInit
    /\ ipInit
    /\ feInit
    /\ tkInit
    /\ rpInit
    /\ peInit
    /\ vhInit
    /\ acInit
    /\ ldInit
    /\ dmnInit
    /\ nfsInit
    /\ part # "access" => who = "agent"
    /\ part # "starts" => storedVersion = "old"

StandStill ==
    /\ UNCHANGED part
    /\ part # "batches" => UNCHANGED ssmVars
    /\ part # "locks" => UNCHANGED lockVars
    /\ part # "tree" => UNCHANGED treeVars
    /\ part # "restart" => UNCHANGED rrVars
    /\ part # "snapshots" => UNCHANGED snapVars
    /\ part # "pools" => UNCHANGED poolVars
    /\ part # "ips" => UNCHANGED ipVars
    /\ part # "front ends" => UNCHANGED feVars
    /\ part # "tokens" => UNCHANGED tkVars
    /\ part # "rpc" => UNCHANGED rpVars
    /\ part # "public ports" => UNCHANGED peVars
    /\ part # "virtual hosts" => UNCHANGED vhVars
    /\ part # "access" => UNCHANGED acVars
    /\ part # "leads" => UNCHANGED ldVars
    /\ part # "starts" => UNCHANGED dmnVars
    /\ part # "exports" => UNCHANGED nfsVars

Next ==
    /\ \/ part = "batches" /\ ssmNext
       \/ part = "locks" /\ lockNext
       \/ part = "tree" /\ treeNext
       \/ part = "restart" /\ rrNext
       \/ part = "snapshots" /\ snapNext
       \/ part = "pools" /\ poolNext
       \/ part = "ips" /\ ipNext
       \/ part = "front ends" /\ feNext
       \/ part = "tokens" /\ tkNext
       \/ part = "rpc" /\ rpNext
       \/ part = "public ports" /\ peNext
       \/ part = "virtual hosts" /\ vhNext
       \/ part = "access" /\ acNext
       \/ part = "leads" /\ ldNext
       \/ part = "starts" /\ dmnNext
       \/ part = "exports" /\ nfsNext
    /\ StandStill

vars == <<part, ssmVars, lockVars, treeVars, rrVars, snapVars, poolVars, ipVars, feVars, tkVars, rpVars, peVars, vhVars, acVars, ldVars, dmnVars, nfsVars>>

Spec ==
    /\ Init /\ [][Next]_vars

=============================================================================
