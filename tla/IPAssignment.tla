---------------------------- MODULE IPAssignment ----------------------------
(***************************************************************************)
(* Assignment of the addresses of a pool to the endpoints of services      *)
(* (facade/service.go: AssignIPs, SetIPs, RemoveIPs, IpVisitorFn,          *)
(* getAutoAssignment, getManualAssignment, restoreIPs;                     *)
(* facade/addressassignment.go) and the removal of an address from the     *)
(* pool (facade/pool.go).  No lock is held: the checks for an endpoint and *)
(* for an address and port are reads before the write.                     *)
(***************************************************************************)
EXTENDS Naturals, FiniteSets, Sequences

CONSTANTS
    IpServices,       \* services with at most one endpoint that takes an address
    PortOf,           \* service -> the port of that endpoint, 0 without one
    WalkOf,           \* service -> the services that a walk from it visits, in order
    PoolIps,          \* the addresses that the pool may have
    IpClients,        \* callers
    MaxIpOps,         \* bound on calls
    MaxIpFailures     \* bound on failing reads and writes of the store

\* A walk visits the service that it starts from.
ASSUME WalkAssumption ==
    /\ PortOf \in [IpServices -> Nat]
    /\ WalkOf \in [IpServices -> Seq(IpServices)]
    /\ \A s \in IpServices : \E i \in 1 .. Len(WalkOf[s]) : WalkOf[s][i] = s

VARIABLES
    inPool,     \* the addresses of the pool
    ipAssigned,   \* the assignments
    caller,     \* what each caller does
    overlap,    \* history: a call began while another was running
    ranOut,     \* history: a call returned an error
    ipLeft

ipVars == <<inPool, ipAssigned, caller, overlap, ranOut, ipLeft>>

NoIp == "no address"
NoCall == [at |-> "none", walk |-> <<>>, ports |-> {}, ip |-> NoIp, auto |-> TRUE, found |-> {}, choice |-> NoIp, then |-> {}]
SpendIp(what) == ipLeft[what] > 0 /\ ipLeft' = [ipLeft EXCEPT ![what] = @ - 1]
IpGoes(c, at) == caller' = [caller EXCEPT ![c].at = at]
Current(c) == Head(caller[c].walk)
PortsOf(s) == {PortOf[s]} \ {0}
Taken(ip, port) == \E a \in ipAssigned : a.ip = ip /\ a.port = port
Overlapping(c) == overlap' = (overlap \/ \E d \in IpClients \ {c} : caller[d].at # "none")

\* The call returns with an error; RemoveVirtualIP and RemoveHost go on with the next
\* service they have found.
IpError(c) ==
    /\ caller' = [caller EXCEPT ![c] = [NoCall EXCEPT !.at = IF caller[c].then = {} THEN "none" ELSE "then", !.then = caller[c].then]]
    /\ ranOut' = TRUE
-----------------------------------------------------------------------------
AssignIPs(c, s, auto, ip) ==
    /\ caller[c].at = "none" /\ SpendIp("ops") /\ Overlapping(c)
    /\ caller' = [caller EXCEPT ![c] = [NoCall EXCEPT !.at = "read", !.walk = WalkOf[s], !.ports = PortsOf(s), !.auto = auto, !.ip = ip]]
    /\ UNCHANGED <<inPool, ipAssigned, ranOut>>

RemoveAssignments(as) == ipAssigned' = ipAssigned \ as
RemoveIPs(c, s) ==
    /\ caller[c].at = "none" /\ SpendIp("ops") /\ Overlapping(c)
    /\ RemoveAssignments({a \in ipAssigned : a.svc = s})
    /\ UNCHANGED <<inPool, caller, ranOut>>

\* RemoveVirtualIP, and RemoveHost for the addresses of the host: the services that have the
\* address are looked up, the address goes, then each of them is assigned one of the others.
RemoveAddress(c, ip) ==
    /\ caller[c].at = "none" /\ SpendIp("ops") /\ Overlapping(c) /\ ip \in inPool
    /\ caller' = [caller EXCEPT ![c] = [NoCall EXCEPT !.at = "drop", !.ip = ip, !.then = {a.svc : a \in {b \in ipAssigned : b.ip = ip}}]]
    /\ UNCHANGED <<inPool, ipAssigned, ranOut>>

DropAddress(c) ==
    /\ caller[c].at = "drop" /\ inPool' = inPool \ {caller[c].ip}
    /\ caller' = [caller EXCEPT ![c].at = IF caller[c].then = {} THEN "none" ELSE "then", ![c].ip = NoIp]
    /\ UNCHANGED <<ipAssigned, overlap, ranOut, ipLeft>>

AssignAnother(c) ==
    /\ caller[c].at = "then"
    /\ \E s \in caller[c].then :
        caller' = [caller EXCEPT ![c] = [NoCall EXCEPT !.at = "read", !.walk = WalkOf[s], !.ports = PortsOf(s), !.then = caller[c].then \ {s}]]
    /\ UNCHANGED <<inPool, ipAssigned, overlap, ranOut, ipLeft>>

AddAddress(ip) ==
    /\ ip \notin inPool /\ SpendIp("ops")
    /\ inPool' = inPool \cup {ip}
    /\ UNCHANGED <<ipAssigned, caller, overlap, ranOut>>
-----------------------------------------------------------------------------
(* IpVisitorFn, for one service of the walk.  The set of ports comes from   *)
(* the service at the root, and each service takes its own out of it.       *)
Visit(c) ==
    /\ caller[c].at = "read"
    /\ \/ /\ caller[c].walk = <<>> /\ UNCHANGED <<ranOut, ipLeft>>
          /\ caller' = [caller EXCEPT ![c] = [NoCall EXCEPT !.at = IF caller[c].then = {} THEN "none" ELSE "then", !.then = caller[c].then]]
       \/ /\ caller[c].walk # <<>> /\ UNCHANGED <<ranOut, ipLeft>>
          /\ caller' = [caller EXCEPT ![c].at = "choose", ![c].found = {a \in ipAssigned : a.svc = Current(c)}]
       \/ caller[c].walk # <<>> /\ SpendIp("failures") /\ IpError(c)
    /\ UNCHANGED <<inPool, ipAssigned, overlap>>

\* getManualAssignment for what is left of the ports, getAutoAssignment for all of them.
getManualAssignment(ip, ports) == ip \in inPool /\ \A p \in ports : ~Taken(ip, p)
getAutoAssignment(ports) == {ip \in inPool : \A p \in ports : ~Taken(ip, p)}
Kept(c) == {a.ip : a \in caller[c].found}

ChooseIp(c) ==
    LET k == caller[c]
        mine == IF k.auto THEN {a.port : a \in k.found} ELSE {a.port : a \in {b \in k.found : b.ip = k.ip}}
        left == k.ports \ mine
        stay == {ip \in (IF k.auto THEN Kept(c) ELSE {k.ip}) : (k.auto => Cardinality(Kept(c)) = 1) /\ getManualAssignment(ip, left)}
        options == IF stay # {} \/ ~k.auto THEN stay ELSE getAutoAssignment(k.ports)
    IN
    /\ k.at = "choose"
    /\ \/ /\ options # {} /\ UNCHANGED ranOut
          /\ \E ip \in options : caller' = [caller EXCEPT ![c].at = "clear", ![c].choice = ip, ![c].ports = left]
       \/ options = {} /\ IpError(c)
    /\ UNCHANGED <<inPool, ipAssigned, overlap, ipLeft>>

\* The assignments to other addresses go; then the endpoint gets the new one, unless it has it.
RemoveOthers(c) ==
    LET k == caller[c] IN
    /\ k.at = "clear"
    /\ RemoveAssignments({a \in k.found : a.ip # k.choice})
    /\ IF PortOf[Current(c)] # 0 /\ k.choice \notin Kept(c) THEN IpGoes(c, "check")
       ELSE caller' = [caller EXCEPT ![c].at = "read", ![c].walk = Tail(@)]
    /\ UNCHANGED <<inPool, overlap, ranOut, ipLeft>>

\* assign: no assignment for the endpoint, none for the address and port, then the write.
AssignUnchecked(c) ==
    /\ caller[c].at = "check" /\ IpGoes(c, "put")
    /\ UNCHANGED <<inPool, ipAssigned, overlap, ranOut, ipLeft>>

AssignCheck(c) ==
    /\ caller[c].at = "check"
    /\ IF (\E a \in ipAssigned : a.svc = Current(c)) \/ Taken(caller[c].choice, PortOf[Current(c)])
       THEN IpError(c) ELSE IpGoes(c, "put") /\ UNCHANGED ranOut
    /\ UNCHANGED <<inPool, ipAssigned, overlap, ipLeft>>

AssignPut(c) ==
    /\ caller[c].at = "put"
    /\ \/ /\ ipAssigned' = ipAssigned \cup {[svc |-> Current(c), ip |-> caller[c].choice, port |-> PortOf[Current(c)], by |-> c]}
          /\ caller' = [caller EXCEPT ![c].at = "read", ![c].walk = Tail(@)] /\ UNCHANGED <<ranOut, ipLeft>>
       \/ SpendIp("failures") /\ IpError(c) /\ UNCHANGED ipAssigned
    /\ UNCHANGED <<inPool, overlap>>
-----------------------------------------------------------------------------
ipInit ==
    /\ inPool = PoolIps /\ ipAssigned = {} /\ caller = [c \in IpClients |-> NoCall]
    /\ overlap = FALSE /\ ranOut = FALSE
    /\ ipLeft = [ops |-> MaxIpOps, failures |-> MaxIpFailures]

IpStep(c) == DropAddress(c) \/ AssignAnother(c) \/ Visit(c) \/ ChooseIp(c) \/ RemoveOthers(c) \/ AssignCheck(c) \/ AssignPut(c)
ipNext ==
    \/ \E c \in IpClients :
        \/ IpStep(c)
        \/ \E s \in IpServices : AssignIPs(c, s, TRUE, NoIp) \/ RemoveIPs(c, s) \/ \E ip \in PoolIps : AssignIPs(c, s, FALSE, ip)
        \/ \E ip \in PoolIps : RemoveAddress(c, ip)
    \/ \E ip \in PoolIps : AddAddress(ip)
ipSpec == ipInit /\ [][ipNext]_ipVars
-----------------------------------------------------------------------------
\* No two endpoints share an address and port and no endpoint has two, whatever sequence of
\* assignments, moves and removals of addresses; only calls that overlap can get there.
AssignedOnce ==
    \A a, b \in ipAssigned : a # b /\ (a.svc = b.svc \/ (a.ip = b.ip /\ a.port = b.port)) => overlap

\* When all calls have returned, an endpoint that still has an address which the pool has
\* lost is one for which a call failed or which was assigned during the removal.
AddressesInPool ==
    (\A c \in IpClients : caller[c].at = "none") => overlap \/ ranOut \/ \A a \in ipAssigned : a.ip \in inPool

\* What the address assignments keep to (Facade.AssignIPs and RestoreIPs).
AddressesSound == AssignedOnce /\ AddressesInPool

=============================================================================
