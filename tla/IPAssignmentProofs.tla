-------------------------- MODULE IPAssignmentProofs --------------------------
(***************************************************************************)
(* For every set of services, callers and addresses: the assignments are   *)
(* what AddressesSound says.                                               *)
(*                                                                         *)
(* Nothing is locked, so all of it is about calls that do not overlap      *)
(* (CallsSound).  Such a call knows all assignments of the service it is   *)
(* at, and writes an address and port that nobody has (CallOK).  A service *)
(* with an address that the pool has lost is still to be visited (Owed):   *)
(* it is on the list of the removal or on the walk (Pending).              *)
(*                                                                         *)
(* The virtual ips of agents and the imports of containers are what        *)
(* AddressesTracked says: a binding is always known to somebody (VipInv);  *)
(* as long as the watch on the exports has not fired, the list on its way  *)
(* to the proxies is true (ListIsTrue, LatestIsTrue).                      *)
(***************************************************************************)
EXTENDS IPAssignment, ContainerEndpoints, SequenceTheorems, FiniteSetTheorems, TLAPS

IpsOrNone == PoolIps \cup {NoIp}
Assignments == [svc : IpServices, ip : IpsOrNone, port : Nat, by : IpClients]
CallTypes == [at : {"none", "drop", "then", "read", "choose", "clear", "check", "put"}, walk : Seq(IpServices),
              ports : SUBSET Nat, ip : IpsOrNone, auto : BOOLEAN, found : SUBSET Assignments, choice : IpsOrNone, then : SUBSET IpServices]

\* Every variable of the calls has its type, and a call that is at a service has one.
IpTypeOK ==
    /\ inPool \subseteq PoolIps /\ ipAssigned \subseteq Assignments
    /\ caller \in [IpClients -> CallTypes]
    /\ \A c \in IpClients : /\ caller[c].at \in {"choose", "clear", "check", "put"} => caller[c].walk # <<>>
                            /\ caller[c].at = "none" => caller[c].then = {}

\* The services that are still on a walk.
OnWalk(w) == {w[i] : i \in 1 .. Len(w)}

Busy(c) == caller[c].at # "none"

\* One call at a time.
Alone == \A c, d \in IpClients : Busy(c) /\ Busy(d) => c = d

\* No endpoint has two addresses, and no two endpoints share an address and port.
OneEach == \A a, b \in ipAssigned : a.svc = b.svc \/ (a.ip = b.ip /\ a.port = b.port) => a = b

\* A call knows the assignments of the service that it is at, its choice is in the pool,
\* what it writes nobody has, and a removal knows the services that have the address.
CallOK(k, as, pool) ==
    /\ k.at \in {"choose", "clear"} => k.found = {a \in as : a.svc = Head(k.walk)}
    /\ k.at \in {"clear", "check", "put"} => k.choice \in pool
    /\ k.at = "put" => \A a \in as : a.svc # Head(k.walk) /\ ~(a.ip = k.choice /\ a.port = PortOf[Head(k.walk)])
    /\ k.at = "drop" => \A a \in as : a.ip = k.ip => a.svc \in k.then

\* A service with an address that the pool has lost is still to be visited.
Pending(k) ==
    k.then \cup (IF k.at \in {"read", "choose", "clear"} THEN OnWalk(k.walk)
                 ELSE IF k.at \in {"check", "put"} THEN OnWalk(Tail(k.walk)) ELSE {})
Owed == ranOut \/ \A a \in ipAssigned : a.ip \in inPool \/ \E c \in IpClients : a.svc \in Pending(caller[c])

\* What holds of the calls as long as they do not overlap.
CallsSound == Alone /\ OneEach /\ (\A c \in IpClients : CallOK(caller[c], ipAssigned, inPool)) /\ Owed

IpInv == IpTypeOK /\ (overlap \/ CallsSound)
-----------------------------------------------------------------------------

\* What is on a walk is its head or on the rest; every service is on the walk from it.
LEMMA Walks ==
    /\ \A w \in Seq(IpServices) : w # <<>> => /\ Tail(w) \in Seq(IpServices) /\ Head(w) \in IpServices
                                            /\ OnWalk(w) \subseteq {Head(w)} \cup OnWalk(Tail(w))
    /\ OnWalk(<<>>) = {}
    /\ \A s \in IpServices : WalkOf[s] \in Seq(IpServices) /\ s \in OnWalk(WalkOf[s])
  <1>1. ASSUME NEW w \in Seq(IpServices), w # <<>>
        PROVE  Tail(w) \in Seq(IpServices) /\ Head(w) \in IpServices /\ OnWalk(w) \subseteq {Head(w)} \cup OnWalk(Tail(w))
    <2>1. Tail(w) \in Seq(IpServices) /\ Head(w) \in IpServices /\ Head(w) = w[1] /\ Len(w) \in Nat /\ Len(w) # 0
          /\ Len(Tail(w)) = Len(w) - 1 /\ \A i \in 1 .. Len(Tail(w)) : Tail(w)[i] = w[i + 1]
      BY <1>1, HeadTailProperties, EmptySeq, LenProperties
    <2>2. ASSUME NEW i \in 1 .. Len(w), i # 1 PROVE w[i] \in OnWalk(Tail(w))
      <3>1. i - 1 \in 1 .. Len(Tail(w)) /\ Tail(w)[i - 1] = w[(i - 1) + 1] /\ (i - 1) + 1 = i
        BY <2>1, <2>2
      <3>2. QED
        BY <3>1 DEF OnWalk
    <2>3. QED
      BY <2>1, <2>2 DEF OnWalk
  <1>2. OnWalk(<<>>) = {}
    BY DEF OnWalk
  <1>3. QED
    BY <1>1, <1>2, WalkAssumption DEF OnWalk

\* A call begins, and none is under way.
LEMMA Begins ==
    ASSUME NEW c \in IpClients, Overlapping(c), ~overlap'
    PROVE  ~overlap /\ \A d \in IpClients \ {c} : ~Busy(d)
  BY DEF Overlapping, Busy

\* The record of a call that is over, and the shapes in which a call goes on.
Over(c) == [NoCall EXCEPT !.at = IF caller[c].then = {} THEN "none" ELSE "then", !.then = caller[c].then]
Finds(k, as) == [k EXCEPT !.at = "choose", !.found = as]
Chooses(k, ip, ports) == [k EXCEPT !.at = "clear", !.choice = ip, !.ports = ports]
GoesTo(k, at) == [k EXCEPT !.at = at]
NextOf(k) == [k EXCEPT !.at = "read", !.walk = Tail(k.walk)]
Walking(s, auto, ip) == [NoCall EXCEPT !.at = "read", !.walk = WalkOf[s], !.ports = PortsOf(s), !.auto = auto, !.ip = ip]
WalkingOn(s, then) == [NoCall EXCEPT !.at = "read", !.walk = WalkOf[s], !.ports = PortsOf(s), !.then = then]
Drops(ip, then) == [NoCall EXCEPT !.at = "drop", !.ip = ip, !.then = then]

\* All of them are records of calls.
LEMMA Shapes ==
    /\ NoCall \in CallTypes
    /\ \A k \in CallTypes, as \in SUBSET Assignments : Finds(k, as) \in CallTypes
    /\ \A k \in CallTypes, ip \in IpsOrNone, ports \in SUBSET Nat : Chooses(k, ip, ports) \in CallTypes
    /\ \A k \in CallTypes, at \in {"check", "put"} : GoesTo(k, at) \in CallTypes
    /\ \A k \in CallTypes : k.walk # <<>> => NextOf(k) \in CallTypes
    /\ \A s \in IpServices, auto \in BOOLEAN, ip \in IpsOrNone : Walking(s, auto, ip) \in CallTypes
    /\ \A s \in IpServices, then \in SUBSET IpServices : WalkingOn(s, then) \in CallTypes
    /\ \A ip \in IpsOrNone, then \in SUBSET IpServices : Drops(ip, then) \in CallTypes
  <1>1. NoCall \in CallTypes
    BY DEF NoCall, CallTypes, IpsOrNone
  <1>2. \A k \in CallTypes, as \in SUBSET Assignments : Finds(k, as) \in CallTypes
    BY DEF Finds, CallTypes
  <1>3. \A k \in CallTypes, ip \in IpsOrNone, ports \in SUBSET Nat : Chooses(k, ip, ports) \in CallTypes
    BY DEF Chooses, CallTypes
  <1>4. \A k \in CallTypes, at \in {"check", "put"} : GoesTo(k, at) \in CallTypes
    BY DEF GoesTo, CallTypes
  <1>5. \A k \in CallTypes : k.walk # <<>> => NextOf(k) \in CallTypes
    <2>1. ASSUME NEW k \in CallTypes, k.walk # <<>> PROVE NextOf(k) \in CallTypes
      <3>1. Tail(k.walk) \in Seq(IpServices)
        BY <2>1, Walks DEF CallTypes
      <3>2. QED
        BY <3>1 DEF NextOf, CallTypes
    <2>2. QED
      BY <2>1
  <1>6. ASSUME NEW s \in IpServices PROVE WalkOf[s] \in Seq(IpServices) /\ PortsOf(s) \in SUBSET Nat
    BY WalkAssumption DEF PortsOf
  <1>7. ASSUME NEW s \in IpServices, NEW auto \in BOOLEAN, NEW ip \in IpsOrNone PROVE Walking(s, auto, ip) \in CallTypes
    BY <1>1, <1>6 DEF Walking, CallTypes
  <1>8. ASSUME NEW s \in IpServices, NEW then \in SUBSET IpServices PROVE WalkingOn(s, then) \in CallTypes
    BY <1>1, <1>6 DEF WalkingOn, CallTypes
  <1>9. ASSUME NEW ip \in IpsOrNone, NEW then \in SUBSET IpServices PROVE Drops(ip, then) \in CallTypes
    BY <1>1 DEF Drops, CallTypes
  <1>10. QED
    BY <1>1, <1>2, <1>3, <1>4, <1>5, <1>7, <1>8, <1>9

\* A call that is over has only what is left of a removal.
LEMMA Overs ==
    ASSUME IpTypeOK, NEW c \in IpClients
    PROVE  /\ caller[c] \in CallTypes /\ Over(c) \in CallTypes /\ Over(c).at \in {"none", "then"}
           /\ Over(c).then = caller[c].then /\ (Over(c).at = "none" => caller[c].then = {})
  <1>1. NoCall \in CallTypes /\ caller[c] \in CallTypes
    BY Shapes DEF IpTypeOK
  <1>2. QED
    BY <1>1 DEF CallTypes, Over

\* What a step makes of the record of its call.
Becomes(c, k) == k \in CallTypes /\ caller' = [caller EXCEPT ![c] = k]

\* IpVisitorFn reads the assignments of a service.
LEMMA Visiting ==
    ASSUME IpTypeOK, NEW c \in IpClients, Visit(c)
    PROVE  /\ caller[c].at = "read" /\ UNCHANGED <<inPool, ipAssigned, overlap>>
           /\ \/ Becomes(c, Over(c)) /\ (ranOut' \/ (ranOut' = ranOut /\ caller[c].walk = <<>>))
              \/ /\ ranOut' = ranOut /\ caller[c].walk # <<>>
                 /\ Becomes(c, Finds(caller[c], {a \in ipAssigned : a.svc = Current(c)}))
  <1>1. {a \in ipAssigned : a.svc = Current(c)} \in SUBSET Assignments /\ caller \in [IpClients -> CallTypes]
    BY DEF IpTypeOK
  <1>2. Finds(caller[c], {a \in ipAssigned : a.svc = Current(c)}) \in CallTypes /\ Over(c) \in CallTypes
    BY <1>1, Overs, Shapes
  <1>3. IpError(c) => Becomes(c, Over(c)) /\ ranOut'
    BY <1>2 DEF IpError, Over, Becomes
  <1>4. QED
    BY <1>1, <1>2, <1>3 DEF Visit, Over, Becomes, Finds

\* getManualAssignment or getAutoAssignment finds an address, or none.
LEMMA Choosing ==
    ASSUME IpTypeOK, NEW c \in IpClients, ChooseIp(c)
    PROVE  /\ caller[c].at = "choose" /\ UNCHANGED <<inPool, ipAssigned, overlap>>
           /\ \/ Becomes(c, Over(c)) /\ ranOut'
              \/ \E ip \in inPool, ports \in SUBSET Nat : Becomes(c, Chooses(caller[c], ip, ports)) /\ ranOut' = ranOut
  <1> DEFINE k == caller[c]
             mine == IF k.auto THEN {a.port : a \in k.found} ELSE {a.port : a \in {b \in k.found : b.ip = k.ip}}
             left == k.ports \ mine
             stay == {ip \in (IF k.auto THEN Kept(c) ELSE {k.ip}) : (k.auto => Cardinality(Kept(c)) = 1) /\ getManualAssignment(ip, left)}
             options == IF stay # {} \/ ~k.auto THEN stay ELSE getAutoAssignment(k.ports)
  <1>1. left \in SUBSET Nat
    BY Overs DEF CallTypes
  <1>2. options \subseteq inPool
    BY DEF getManualAssignment, getAutoAssignment
  <1>3. k.at = "choose" /\ UNCHANGED <<inPool, ipAssigned, overlap>>
        /\ (\/ ranOut' = ranOut /\ \E ip \in options : caller' = [caller EXCEPT ![c].at = "clear", ![c].choice = ip, ![c].ports = left]
            \/ IpError(c))
    BY DEF ChooseIp
  <1>4. Over(c) \in CallTypes /\ caller[c] \in CallTypes /\ caller \in [IpClients -> CallTypes] /\ inPool \subseteq IpsOrNone
    BY Overs DEF IpTypeOK, IpsOrNone
  <1> HIDE DEF left, options
  <1>5. ASSUME NEW ip \in options, caller' = [caller EXCEPT ![c].at = "clear", ![c].choice = ip, ![c].ports = left]
        PROVE  Becomes(c, Chooses(caller[c], ip, left))
    <2>1. Chooses(caller[c], ip, left) \in CallTypes
      BY <1>1, <1>2, <1>4, Shapes
    <2>2. QED
      BY <1>4, <1>5, <2>1 DEF Becomes, Chooses
  <1>6. IpError(c) => Becomes(c, Over(c)) /\ ranOut'
    BY <1>4 DEF IpError, Over, Becomes
  <1>7. QED
    BY <1>1, <1>2, <1>3, <1>5, <1>6

\* IpVisitorFn removes the assignments to other addresses.
LEMMA Clearing ==
    ASSUME IpTypeOK, NEW c \in IpClients, RemoveOthers(c)
    PROVE  /\ caller[c].at = "clear" /\ UNCHANGED <<inPool, overlap, ranOut>>
           /\ ipAssigned' = ipAssigned \ {a \in caller[c].found : a.ip # caller[c].choice}
           /\ \/ Becomes(c, GoesTo(caller[c], "check"))
              \/ Becomes(c, NextOf(caller[c]))
  <1>1. caller[c] \in CallTypes /\ caller \in [IpClients -> CallTypes] /\ (caller[c].at = "clear" => caller[c].walk # <<>>)
    BY DEF IpTypeOK
  <1>2. GoesTo(caller[c], "check") \in CallTypes /\ (caller[c].at = "clear" => NextOf(caller[c]) \in CallTypes)
    BY <1>1, Shapes
  <1>3. QED
    BY <1>1, <1>2 DEF RemoveOthers, RemoveAssignments, IpGoes, Becomes, GoesTo, NextOf

\* assign asks for the endpoint, and for the address and port.
LEMMA Checking ==
    ASSUME IpTypeOK, NEW c \in IpClients, AssignCheck(c)
    PROVE  /\ caller[c].at = "check" /\ UNCHANGED <<inPool, ipAssigned, overlap>>
           /\ \/ Becomes(c, Over(c)) /\ ranOut'
              \/ /\ Becomes(c, GoesTo(caller[c], "put")) /\ ranOut' = ranOut
                 /\ \A a \in ipAssigned : a.svc # Current(c) /\ ~(a.ip = caller[c].choice /\ a.port = PortOf[Current(c)])
  <1>1. caller[c] \in CallTypes /\ caller \in [IpClients -> CallTypes]
    BY DEF IpTypeOK
  <1>2. GoesTo(caller[c], "put") \in CallTypes /\ Over(c) \in CallTypes
    BY <1>1, Shapes, Overs
  <1>3. IpError(c) => Becomes(c, Over(c)) /\ ranOut'
    BY <1>2 DEF IpError, Over, Becomes
  <1>4. QED
    BY <1>1, <1>2, <1>3 DEF AssignCheck, Taken, IpGoes, Becomes, GoesTo

\* assign writes.
LEMMA Putting ==
    ASSUME IpTypeOK, NEW c \in IpClients, AssignPut(c)
    PROVE  /\ caller[c].at = "put" /\ UNCHANGED <<inPool, overlap>>
           /\ \/ Becomes(c, Over(c)) /\ ranOut' /\ ipAssigned' = ipAssigned
              \/ /\ Becomes(c, NextOf(caller[c])) /\ ranOut' = ranOut
                 /\ ipAssigned' = ipAssigned \cup
                      {[svc |-> Current(c), ip |-> caller[c].choice, port |-> PortOf[Current(c)], by |-> c]}
  <1>1. caller[c] \in CallTypes /\ caller \in [IpClients -> CallTypes] /\ (caller[c].at = "put" => caller[c].walk # <<>>)
    BY DEF IpTypeOK
  <1>2. (caller[c].at = "put" => NextOf(caller[c]) \in CallTypes) /\ Over(c) \in CallTypes
    BY <1>1, Shapes, Overs
  <1>3. IpError(c) => Becomes(c, Over(c)) /\ ranOut'
    BY <1>2 DEF IpError, Over, Becomes
  <1>4. QED
    BY <1>1, <1>2, <1>3 DEF AssignPut, Becomes, NextOf

\* The address goes, and its services are assigned another, one after the other.
LEMMA Removals ==
    ASSUME IpTypeOK, NEW c \in IpClients
    PROVE  /\ DropAddress(c) => /\ caller[c].at = "drop" /\ inPool' = inPool \ {caller[c].ip} /\ UNCHANGED <<ipAssigned, overlap, ranOut>>
                               /\ \E k \in CallTypes : /\ Becomes(c, k) /\ k.at \in {"none", "then"} /\ k.then = caller[c].then
                                                       /\ k.at = "none" => caller[c].then = {}
           /\ AssignAnother(c) => /\ caller[c].at = "then" /\ UNCHANGED <<inPool, ipAssigned, overlap, ranOut>>
                                 /\ \E s \in caller[c].then : Becomes(c, WalkingOn(s, caller[c].then \ {s}))
  <1>1. caller[c] \in CallTypes /\ caller \in [IpClients -> CallTypes] /\ caller[c].then \subseteq IpServices
    BY DEF IpTypeOK, CallTypes
  <1>2. ASSUME DropAddress(c)
        PROVE  /\ caller[c].at = "drop" /\ inPool' = inPool \ {caller[c].ip} /\ UNCHANGED <<ipAssigned, overlap, ranOut>>
               /\ \E k \in CallTypes : /\ Becomes(c, k) /\ k.at \in {"none", "then"} /\ k.then = caller[c].then
                                       /\ k.at = "none" => caller[c].then = {}
    <2> DEFINE k == [caller[c] EXCEPT !.at = IF caller[c].then = {} THEN "none" ELSE "then", !.ip = NoIp]
    <2>1. caller' = [caller EXCEPT ![c] = k] /\ caller[c].at = "drop" /\ inPool' = inPool \ {caller[c].ip} /\ UNCHANGED <<ipAssigned, overlap, ranOut>>
      BY <1>1, <1>2 DEF DropAddress
    <2>2. k \in CallTypes /\ k.at \in {"none", "then"} /\ k.then = caller[c].then /\ (k.at = "none" => caller[c].then = {})
      BY <1>1 DEF CallTypes, IpsOrNone
    <2>3. QED
      BY <2>1, <2>2 DEF Becomes
  <1>3. ASSUME AssignAnother(c)
        PROVE  /\ caller[c].at = "then" /\ UNCHANGED <<inPool, ipAssigned, overlap, ranOut>>
               /\ \E s \in caller[c].then : Becomes(c, WalkingOn(s, caller[c].then \ {s}))
    <2>1. ASSUME NEW s \in caller[c].then PROVE WalkingOn(s, caller[c].then \ {s}) \in CallTypes
      <3>1. s \in IpServices /\ caller[c].then \ {s} \in SUBSET IpServices
        BY <1>1
      <3>2. QED
        BY <3>1, Shapes
    <2>2. QED
      BY <1>3, <2>1 DEF AssignAnother, Becomes, WalkingOn
  <1>4. QED
    BY <1>2, <1>3

\* A call begins.
LEMMA Beginning ==
    ASSUME IpTypeOK, NEW c \in IpClients
    PROVE  /\ \A s \in IpServices, auto \in BOOLEAN, ip \in IpsOrNone : AssignIPs(c, s, auto, ip) =>
                 /\ caller[c].at = "none" /\ Overlapping(c) /\ UNCHANGED <<inPool, ipAssigned, ranOut>>
                 /\ Becomes(c, Walking(s, auto, ip))
           /\ \A s \in IpServices : RemoveIPs(c, s) =>
                 /\ caller[c].at = "none" /\ Overlapping(c) /\ UNCHANGED <<inPool, caller, ranOut>>
                 /\ ipAssigned' \subseteq ipAssigned
           /\ \A ip \in PoolIps : RemoveAddress(c, ip) =>
                 /\ caller[c].at = "none" /\ Overlapping(c) /\ UNCHANGED <<inPool, ipAssigned, ranOut>>
                 /\ Becomes(c, Drops(ip, {a.svc : a \in {b \in ipAssigned : b.ip = ip}}))
  <1>1. ASSUME NEW s \in IpServices, NEW auto \in BOOLEAN, NEW ip \in IpsOrNone, AssignIPs(c, s, auto, ip)
        PROVE  /\ caller[c].at = "none" /\ Overlapping(c) /\ UNCHANGED <<inPool, ipAssigned, ranOut>>
               /\ Becomes(c, Walking(s, auto, ip))
    BY <1>1, Shapes DEF AssignIPs, Becomes, Walking
  <1>2. ASSUME NEW ip \in PoolIps PROVE {a.svc : a \in {b \in ipAssigned : b.ip = ip}} \in SUBSET IpServices /\ ip \in IpsOrNone
    BY DEF IpTypeOK, Assignments, IpsOrNone
  <1>3. ASSUME NEW ip \in PoolIps PROVE Drops(ip, {a.svc : a \in {b \in ipAssigned : b.ip = ip}}) \in CallTypes
    BY <1>2, Shapes
  <1>4. ASSUME NEW ip \in PoolIps, RemoveAddress(c, ip)
        PROVE  /\ caller[c].at = "none" /\ Overlapping(c) /\ UNCHANGED <<inPool, ipAssigned, ranOut>>
               /\ Becomes(c, Drops(ip, {a.svc : a \in {b \in ipAssigned : b.ip = ip}}))
    BY <1>3, <1>4 DEF RemoveAddress, Becomes, Drops
  <1>5. ASSUME NEW s \in IpServices, RemoveIPs(c, s)
        PROVE  /\ caller[c].at = "none" /\ Overlapping(c) /\ UNCHANGED <<inPool, caller, ranOut>>
               /\ ipAssigned' \subseteq ipAssigned
    BY <1>5 DEF RemoveIPs, RemoveAssignments
  <1>6. QED
    BY <1>1, <1>4, <1>5
-----------------------------------------------------------------------------

\* What each shape of a record changes, and what it keeps.
LEMMA Fields ==
    ASSUME NEW k \in CallTypes
    PROVE  /\ \A as \in SUBSET Assignments :
                Finds(k, as).at = "choose" /\ Finds(k, as).found = as /\ Finds(k, as).walk = k.walk /\ Finds(k, as).then = k.then
           /\ \A ip \in IpsOrNone, ports \in SUBSET Nat :
                /\ Chooses(k, ip, ports).at = "clear" /\ Chooses(k, ip, ports).choice = ip
                /\ Chooses(k, ip, ports).walk = k.walk /\ Chooses(k, ip, ports).then = k.then /\ Chooses(k, ip, ports).found = k.found
           /\ \A at \in {"check", "put"} :
                /\ GoesTo(k, at).at = at /\ GoesTo(k, at).walk = k.walk /\ GoesTo(k, at).then = k.then
                /\ GoesTo(k, at).choice = k.choice
           /\ NextOf(k).at = "read" /\ NextOf(k).walk = Tail(k.walk) /\ NextOf(k).then = k.then
  BY DEF CallTypes, Finds, Chooses, GoesTo, NextOf

\* What a record has at the beginning of a call.
LEMMA FirstFields ==
    /\ NoCall.at = "none" /\ NoCall.then = {}
    /\ \A s, auto, ip : Walking(s, auto, ip).at = "read" /\ Walking(s, auto, ip).walk = WalkOf[s] /\ Walking(s, auto, ip).then = {}
    /\ \A s, then : WalkingOn(s, then).at = "read" /\ WalkingOn(s, then).walk = WalkOf[s] /\ WalkingOn(s, then).then = then
    /\ \A ip, then : Drops(ip, then).at = "drop" /\ Drops(ip, then).ip = ip /\ Drops(ip, then).then = then
  BY DEF NoCall, Walking, WalkingOn, Drops

\* Only the call that acts changes its record.
LEMMA OneChanges ==
    ASSUME IpTypeOK, NEW c \in IpClients, NEW k, Becomes(c, k)
    PROVE  k \in CallTypes /\ caller'[c] = k /\ (\A d \in IpClients \ {c} : caller'[d] = caller[d]) /\ caller' \in [IpClients -> CallTypes]
  BY DEF Becomes, IpTypeOK

\* The variables beside the calls keep their types, whatever address comes.
LEMMA TypeKept ==
    ASSUME IpTypeOK, NEW c \in IpClients, NEW k, Becomes(c, k), inPool' \subseteq PoolIps, ipAssigned' \subseteq Assignments,
           k.at \in {"choose", "clear", "check", "put"} => k.walk # <<>>, k.at = "none" => k.then = {}
    PROVE  IpTypeOK'
  BY OneChanges DEF IpTypeOK

\* While one call works alone, what holds of it is all there is to show.
LEMMA OneCall ==
    ASSUME IpTypeOK, NEW c \in IpClients, NEW k, Becomes(c, k), \A d \in IpClients \ {c} : ~Busy(d), OneEach',
           CallOK(k, ipAssigned', inPool'),
           ranOut' \/ \A a \in ipAssigned' : a.ip \in inPool' \/ a.svc \in Pending(k)
    PROVE  CallsSound'
  <1>1. caller'[c] = k /\ \A d \in IpClients \ {c} : caller'[d].at = "none"
    BY OneChanges DEF Busy
  <1>2. Alone'
    BY <1>1 DEF Alone, Busy
  <1>3. ASSUME NEW d \in IpClients PROVE CallOK(caller'[d], ipAssigned', inPool')
    <2>1. CASE d = c
      BY <1>1, <2>1
    <2>2. CASE d # c
      BY <1>1, <2>2 DEF CallOK
    <2>3. QED
      BY <2>1, <2>2
  <1>4. Owed'
    BY <1>1 DEF Owed
  <1>5. QED
    BY <1>2, <1>3, <1>4 DEF CallsSound

\* A call that is under way is alone, and what is owed it still has to visit.
LEMMA Working ==
    ASSUME IpTypeOK, CallsSound, NEW c \in IpClients, Busy(c)
    PROVE  /\ \A d \in IpClients \ {c} : ~Busy(d)
           /\ ranOut \/ \A a \in ipAssigned : a.ip \in inPool \/ a.svc \in Pending(caller[c])
           /\ OneEach /\ CallOK(caller[c], ipAssigned, inPool)
  <1>1. \A d \in IpClients \ {c} : caller[d].at = "none" /\ caller[d].then = {}
    BY DEF CallsSound, Alone, Busy, IpTypeOK
  <1>2. \A d \in IpClients \ {c} : Pending(caller[d]) = {}
    BY <1>1 DEF Pending
  <1>3. \A d \in IpClients \ {c} : ~Busy(d)
    BY <1>1 DEF Busy
  <1>4. QED
    BY <1>2, <1>3 DEF CallsSound, Owed

\* What is to be shown of a step of a call that is under way.
LEMMA Keeps ==
    ASSUME IpInv, NEW c \in IpClients, Busy(c), NEW k, Becomes(c, k), overlap' = overlap,
           inPool' \subseteq PoolIps, ipAssigned' \subseteq Assignments,
           k.at \in {"choose", "clear", "check", "put"} => k.walk # <<>>, k.at = "none" => k.then = {},
           OneEach /\ CallOK(caller[c], ipAssigned, inPool) => OneEach' /\ CallOK(k, ipAssigned', inPool'),
           OneEach /\ CallOK(caller[c], ipAssigned, inPool)
             /\ (ranOut \/ \A a \in ipAssigned : a.ip \in inPool \/ a.svc \in Pending(caller[c]))
               => ranOut' \/ \A a \in ipAssigned' : a.ip \in inPool' \/ a.svc \in Pending(k)
    PROVE  IpInv'
  <1>1. IpTypeOK /\ IpTypeOK'
    BY TypeKept DEF IpInv
  <1>2. CallsSound => CallsSound'
    BY <1>1, Working, OneCall
  <1>3. QED
    BY <1>1, <1>2 DEF IpInv

\* IpVisitorFn reads the assignments of a service.
LEMMA VisitKeeps ==
    ASSUME IpInv, NEW c \in IpClients, Visit(c)
    PROVE  IpInv'
  <1>1. IpTypeOK /\ caller[c].at = "read" /\ UNCHANGED <<inPool, ipAssigned, overlap>> /\ (OneEach => OneEach')
    BY Visiting DEF IpInv, OneEach
  <1>2. Busy(c) /\ inPool' \subseteq PoolIps /\ ipAssigned' \subseteq Assignments /\ caller[c] \in CallTypes
    BY <1>1 DEF IpTypeOK, Busy
  <1>3. CASE Becomes(c, Over(c)) /\ (ranOut' \/ (ranOut' = ranOut /\ caller[c].walk = <<>>))
    <2>1. Over(c).at \in {"none", "then"} /\ Over(c).then = caller[c].then /\ (Over(c).at = "none" => caller[c].then = {})
      BY <1>1, Overs
    <2>2. CallOK(Over(c), ipAssigned', inPool')
      BY <2>1 DEF CallOK
    <2>3. caller[c].walk = <<>> => Pending(caller[c]) = Pending(Over(c))
      BY <1>1, <2>1, Walks DEF Pending
    <2>4. QED
      BY <1>1, <1>2, <1>3, <2>1, <2>2, <2>3, Keeps
  <1>4. CASE ranOut' = ranOut /\ caller[c].walk # <<>> /\ Becomes(c, Finds(caller[c], {a \in ipAssigned : a.svc = Current(c)}))
    <2> DEFINE mine == {a \in ipAssigned : a.svc = Current(c)}
               k == Finds(caller[c], mine)
    <2>1. mine \in SUBSET Assignments
      BY <1>1 DEF IpTypeOK
    <2>2. k.at = "choose" /\ k.found = mine /\ k.walk = caller[c].walk /\ k.then = caller[c].then
      BY <1>2, <2>1, Fields
    <2>3. CallOK(k, ipAssigned', inPool')
      BY <1>1, <2>2 DEF CallOK, Current
    <2>4. Pending(k) = Pending(caller[c])
      BY <1>1, <2>2 DEF Pending
    <2> HIDE DEF k
    <2>5. Becomes(c, k)
      BY <1>4 DEF k
    <2>6. QED
      BY <1>1, <1>2, <1>4, <2>2, <2>3, <2>4, <2>5, Keeps
  <1>5. QED
    BY <1>1, <1>3, <1>4, Visiting

\* The choice of an address.
LEMMA ChooseKeeps ==
    ASSUME IpInv, NEW c \in IpClients, ChooseIp(c)
    PROVE  IpInv'
  <1>1. /\ IpTypeOK /\ caller[c].at = "choose" /\ UNCHANGED <<inPool, ipAssigned, overlap>> /\ (OneEach => OneEach')
        /\ caller[c] \in CallTypes
    BY Choosing, Overs DEF IpInv, OneEach
  <1>2. Busy(c) /\ inPool' \subseteq PoolIps /\ ipAssigned' \subseteq Assignments /\ caller[c].walk # <<>>
    BY <1>1 DEF IpTypeOK, Busy
  <1>3. CASE Becomes(c, Over(c)) /\ ranOut'
    <2>1. Over(c).at \in {"none", "then"} /\ Over(c).then = caller[c].then /\ (Over(c).at = "none" => caller[c].then = {})
      BY <1>1, Overs
    <2>2. CallOK(Over(c), ipAssigned', inPool')
      BY <2>1 DEF CallOK
    <2>3. QED
      BY <1>1, <1>2, <1>3, <2>1, <2>2, Keeps
  <1>4. ASSUME NEW ip \in inPool, NEW ports \in SUBSET Nat, Becomes(c, Chooses(caller[c], ip, ports)), ranOut' = ranOut PROVE IpInv'
    <2> DEFINE k == Chooses(caller[c], ip, ports)
    <2>1. ip \in IpsOrNone
      BY <1>1 DEF IpTypeOK, IpsOrNone
    <2>2. /\ k.at = "clear" /\ k.choice = ip /\ k.found = caller[c].found /\ k.walk = caller[c].walk /\ k.then = caller[c].then
      BY <1>1, <2>1, Fields
    <2>3. CallOK(caller[c], ipAssigned, inPool) => CallOK(k, ipAssigned', inPool')
      BY <1>1, <2>2 DEF CallOK
    <2>4. Pending(k) = Pending(caller[c])
      BY <1>1, <2>2 DEF Pending
    <2>5. Becomes(c, k)
      BY <1>4
    <2> HIDE DEF k
    <2>6. QED
      BY <1>1, <1>2, <1>4, <2>2, <2>3, <2>4, <2>5, Keeps
  <1>5. QED
    BY <1>1, <1>3, <1>4, Choosing

\* The assignments to other addresses go: those that are left have the choice.
LEMMA ClearKeeps ==
    ASSUME IpInv, NEW c \in IpClients, RemoveOthers(c)
    PROVE  IpInv'
  <1> DEFINE walk == caller[c].walk
  <1>1. /\ IpTypeOK /\ caller[c].at = "clear" /\ UNCHANGED <<inPool, overlap, ranOut>>
        /\ ipAssigned' = ipAssigned \ {a \in caller[c].found : a.ip # caller[c].choice}
        /\ caller[c] \in CallTypes /\ walk # <<>> /\ walk \in Seq(IpServices)
    BY Clearing DEF IpInv, IpTypeOK, CallTypes
  <1>2. Busy(c) /\ inPool' \subseteq PoolIps /\ ipAssigned' \subseteq Assignments /\ (OneEach => OneEach')
    BY <1>1 DEF IpTypeOK, Busy, OneEach
  <1>3. Pending(caller[c]) = caller[c].then \cup OnWalk(walk) /\ OnWalk(walk) \subseteq {Head(walk)} \cup OnWalk(Tail(walk))
    BY <1>1, Walks DEF Pending
  <1>4. ASSUME CallOK(caller[c], ipAssigned, inPool), ranOut \/ \A a \in ipAssigned : a.ip \in inPool \/ a.svc \in Pending(caller[c])
        PROVE  ranOut' \/ \A a \in ipAssigned' : a.ip \in inPool' \/ a.svc \in caller[c].then \cup OnWalk(Tail(walk))
    <2>1. \A a \in ipAssigned' : a \in ipAssigned /\ (a.svc = Head(walk) => a.ip \in inPool)
      BY <1>1, <1>4 DEF CallOK
    <2>2. QED
      BY <1>1, <1>3, <1>4, <2>1
  <1>5. CASE Becomes(c, NextOf(caller[c]))
    <2> DEFINE k == NextOf(caller[c])
    <2>1. k.at = "read" /\ k.walk = Tail(walk) /\ k.then = caller[c].then
      BY <1>1, Fields
    <2>2. CallOK(k, ipAssigned', inPool') /\ Pending(k) = caller[c].then \cup OnWalk(Tail(walk))
      BY <2>1 DEF CallOK, Pending
    <2>3. Becomes(c, k)
      BY <1>5
    <2> HIDE DEF k, walk
    <2>4. QED
      BY <1>1, <1>2, <1>4, <2>1, <2>2, <2>3, Keeps
  <1>6. CASE Becomes(c, GoesTo(caller[c], "check"))
    <2> DEFINE k == GoesTo(caller[c], "check")
    <2>1. k.at = "check" /\ k.walk = walk /\ k.then = caller[c].then /\ k.choice = caller[c].choice
      BY <1>1, Fields
    <2>2. CallOK(caller[c], ipAssigned, inPool) => CallOK(k, ipAssigned', inPool')
      BY <1>1, <2>1 DEF CallOK
    <2>3. Pending(k) = caller[c].then \cup OnWalk(Tail(walk))
      BY <2>1 DEF Pending
    <2>4. Becomes(c, k)
      BY <1>6
    <2> HIDE DEF k
    <2>5. QED
      BY <1>1, <1>2, <1>4, <2>1, <2>2, <2>3, <2>4, Keeps
  <1>7. QED
    BY <1>1, <1>5, <1>6, Clearing

\* assign asks, and what it has asked for is free.
LEMMA CheckKeeps ==
    ASSUME IpInv, NEW c \in IpClients, AssignCheck(c)
    PROVE  IpInv'
  <1>1. /\ IpTypeOK /\ caller[c].at = "check" /\ UNCHANGED <<inPool, ipAssigned, overlap>> /\ (OneEach => OneEach')
        /\ caller[c] \in CallTypes
    BY Checking, Overs DEF IpInv, OneEach
  <1>2. Busy(c) /\ inPool' \subseteq PoolIps /\ ipAssigned' \subseteq Assignments /\ caller[c].walk # <<>>
    BY <1>1 DEF IpTypeOK, Busy
  <1>3. CASE Becomes(c, Over(c)) /\ ranOut'
    <2>1. Over(c).at \in {"none", "then"} /\ Over(c).then = caller[c].then /\ (Over(c).at = "none" => caller[c].then = {})
      BY <1>1, Overs
    <2>2. CallOK(Over(c), ipAssigned', inPool')
      BY <2>1 DEF CallOK
    <2>3. QED
      BY <1>1, <1>2, <1>3, <2>1, <2>2, Keeps
  <1>4. ASSUME Becomes(c, GoesTo(caller[c], "put")), ranOut' = ranOut,
               \A a \in ipAssigned : a.svc # Current(c) /\ ~(a.ip = caller[c].choice /\ a.port = PortOf[Current(c)])
        PROVE  IpInv'
    <2> DEFINE k == GoesTo(caller[c], "put")
    <2>1. k.at = "put" /\ k.walk = caller[c].walk /\ k.then = caller[c].then /\ k.choice = caller[c].choice
      BY <1>1, Fields
    <2>2. CallOK(caller[c], ipAssigned, inPool) => CallOK(k, ipAssigned', inPool')
      BY <1>1, <1>4, <2>1 DEF CallOK, Current
    <2>3. Pending(k) = Pending(caller[c])
      BY <1>1, <2>1 DEF Pending
    <2>4. Becomes(c, k)
      BY <1>4
    <2> HIDE DEF k
    <2>5. QED
      BY <1>1, <1>2, <1>4, <2>1, <2>2, <2>3, <2>4, Keeps
  <1>5. QED
    BY <1>1, <1>3, <1>4, Checking

\* assign writes what is free.
LEMMA PutKeeps ==
    ASSUME IpInv, NEW c \in IpClients, AssignPut(c)
    PROVE  IpInv'
  <1>1. IpTypeOK /\ caller[c].at = "put" /\ UNCHANGED <<inPool, overlap>> /\ caller[c] \in CallTypes
    BY Putting, Overs DEF IpInv
  <1>2. Busy(c) /\ inPool' \subseteq PoolIps /\ ipAssigned \subseteq Assignments /\ caller[c].walk # <<>> /\ caller[c].walk \in Seq(IpServices)
    BY <1>1 DEF IpTypeOK, Busy, CallTypes
  <1>3. CASE Becomes(c, Over(c)) /\ ranOut' /\ ipAssigned' = ipAssigned
    <2>1. Over(c).at \in {"none", "then"} /\ Over(c).then = caller[c].then /\ (Over(c).at = "none" => caller[c].then = {})
      BY <1>1, Overs
    <2>2. CallOK(Over(c), ipAssigned', inPool')
      BY <2>1 DEF CallOK
    <2>3. OneEach => OneEach'
      BY <1>3 DEF OneEach
    <2>4. QED
      BY <1>1, <1>2, <1>3, <2>1, <2>2, <2>3, Keeps
  <1>4. ASSUME Becomes(c, NextOf(caller[c])), ranOut' = ranOut,
               ipAssigned' = ipAssigned \cup {[svc |-> Current(c), ip |-> caller[c].choice, port |-> PortOf[Current(c)], by |-> c]}
        PROVE  IpInv'
    <2> DEFINE k == NextOf(caller[c])
               new == [svc |-> Current(c), ip |-> caller[c].choice, port |-> PortOf[Current(c)], by |-> c]
    <2>1. k.at = "read" /\ k.walk = Tail(caller[c].walk) /\ k.then = caller[c].then
      BY <1>1, Fields
    <2>2. new \in Assignments
      <3>1. Current(c) \in IpServices /\ PortOf[Current(c)] \in Nat
        BY <1>2, Walks, WalkAssumption DEF Current
      <3>2. caller[c].choice \in IpsOrNone
        BY <1>1 DEF CallTypes
      <3>3. QED
        BY <3>1, <3>2 DEF Assignments
    <2>3. ipAssigned' \subseteq Assignments
      BY <1>2, <1>4, <2>2
    <2>4. ASSUME OneEach, CallOK(caller[c], ipAssigned, inPool) PROVE OneEach' /\ new.ip \in inPool
      <3>1. \A a \in ipAssigned : a.svc # new.svc /\ ~(a.ip = new.ip /\ a.port = new.port)
        BY <1>1, <2>4 DEF CallOK, Current
      <3>2. new.ip \in inPool
        BY <1>1, <2>4 DEF CallOK
      <3> HIDE DEF new
      <3>3. QED
        BY <1>4, <2>4, <3>1, <3>2 DEF OneEach, new
    <2>5. CallOK(k, ipAssigned', inPool')
      BY <2>1 DEF CallOK
    <2>6. Pending(k) = Pending(caller[c])
      BY <1>1, <2>1 DEF Pending
    <2>7. Becomes(c, k) /\ ipAssigned' = ipAssigned \cup {new}
      BY <1>4
    <2> HIDE DEF k, new
    <2>8. QED
      BY <1>1, <1>2, <1>4, <2>1, <2>3, <2>4, <2>5, <2>6, <2>7, Keeps
  <1>5. QED
    BY <1>1, <1>3, <1>4, Putting

\* The address goes, and its services are assigned another.
LEMMA RemovalKeeps ==
    ASSUME IpInv, NEW c \in IpClients, DropAddress(c) \/ AssignAnother(c)
    PROVE  IpInv'
  <1>1. IpTypeOK /\ Busy(c) /\ caller[c] \in CallTypes /\ UNCHANGED <<ipAssigned, overlap, ranOut>> /\ (OneEach => OneEach')
    BY Removals, Overs DEF IpInv, Busy, OneEach
  <1>2. ipAssigned' \subseteq Assignments /\ inPool \subseteq PoolIps
    BY <1>1 DEF IpTypeOK
  <1>3. ASSUME DropAddress(c) PROVE IpInv'
    <2>1. PICK k \in CallTypes : /\ Becomes(c, k) /\ k.at \in {"none", "then"} /\ k.then = caller[c].then
                                 /\ k.at = "none" => caller[c].then = {}
      BY <1>1, <1>3, Removals
    <2>2. caller[c].at = "drop" /\ inPool' = inPool \ {caller[c].ip}
      BY <1>1, <1>3, Removals
    <2>3. CallOK(k, ipAssigned', inPool')
      BY <2>1 DEF CallOK
    <2>4. Pending(caller[c]) = caller[c].then /\ Pending(k) = caller[c].then
      BY <2>1, <2>2 DEF Pending
    <2>5. CallOK(caller[c], ipAssigned, inPool) => \A a \in ipAssigned : a.ip = caller[c].ip => a.svc \in caller[c].then
      BY <2>2 DEF CallOK
    <2>6. QED
      BY <1>1, <1>2, <2>1, <2>2, <2>3, <2>4, <2>5, Keeps
  <1>4. ASSUME AssignAnother(c) PROVE IpInv'
    <2>1. PICK s \in caller[c].then : Becomes(c, WalkingOn(s, caller[c].then \ {s}))
      BY <1>1, <1>4, Removals
    <2> DEFINE k == WalkingOn(s, caller[c].then \ {s})
    <2>2. caller[c].at = "then" /\ inPool' = inPool /\ s \in IpServices
      BY <1>1, <1>4, Removals DEF CallTypes
    <2>3. k.at = "read" /\ k.walk = WalkOf[s] /\ k.then = caller[c].then \ {s}
      BY FirstFields
    <2>4. CallOK(k, ipAssigned', inPool')
      BY <2>3 DEF CallOK
    <2>5. Pending(caller[c]) \subseteq Pending(k)
      BY <2>2, <2>3, Walks DEF Pending
    <2>6. Becomes(c, k)
      BY <2>1
    <2> HIDE DEF k
    <2>7. QED
      BY <1>1, <1>2, <2>2, <2>3, <2>4, <2>5, <2>6, Keeps
  <1>5. QED
    BY <1>3, <1>4

\* A call begins: if none is under way, every assignment is to an address of the pool.
LEMMA BeginKeeps ==
    ASSUME IpInv, NEW c \in IpClients, NEW k, caller[c].at = "none", Overlapping(c), Becomes(c, k),
           UNCHANGED <<inPool, ipAssigned, ranOut>>, k.at \in {"read", "drop"}, CallOK(k, ipAssigned, inPool)
    PROVE  IpInv'
  <1>1. IpTypeOK /\ IpTypeOK'
    BY TypeKept DEF IpInv, IpTypeOK
  <1>2. ASSUME ~overlap' PROVE CallsSound'
    <2>1. ~overlap /\ \A d \in IpClients : ~Busy(d)
      BY <1>2, Begins DEF Busy
    <2>2. CallsSound /\ \A d \in IpClients : Pending(caller[d]) = {}
      BY <1>1, <2>1 DEF IpInv, IpTypeOK, Pending, Busy
    <2>3. ranOut \/ \A a \in ipAssigned : a.ip \in inPool
      BY <2>2 DEF CallsSound, Owed
    <2>4. OneEach'
      BY <2>2 DEF CallsSound, OneEach
    <2>5. QED
      BY <1>1, <2>1, <2>3, <2>4, OneCall
  <1>3. QED
    BY <1>1, <1>2 DEF IpInv

\* RemoveIPs alone, and a new address of the pool, leave every call as it is.
LEMMA RestKeeps ==
    ASSUME IpInv, UNCHANGED <<caller, ranOut>>,
           \/ /\ UNCHANGED inPool /\ ipAssigned' \subseteq ipAssigned
              /\ \E c \in IpClients : Overlapping(c) /\ caller[c].at = "none"
           \/ UNCHANGED <<ipAssigned, overlap>> /\ \E ip \in PoolIps : inPool' = inPool \cup {ip}
    PROVE  IpInv'
  <1>1. IpTypeOK /\ IpTypeOK'
    BY DEF IpInv, IpTypeOK
  <1>2. ASSUME ~overlap' PROVE CallsSound'
    <2>1. CallsSound /\ inPool \subseteq inPool' /\ ipAssigned' \subseteq ipAssigned
      BY <1>2, Begins DEF IpInv
    <2>2. ipAssigned' = ipAssigned \/ \A c \in IpClients : ~Busy(c)
      BY <1>2, Begins DEF Busy
    <2>3. ASSUME NEW c \in IpClients PROVE CallOK(caller[c], ipAssigned', inPool')
      <3>1. CallOK(caller[c], ipAssigned, inPool)
        BY <2>1 DEF CallsSound
      <3>2. QED
        BY <2>1, <2>2, <3>1 DEF CallOK, Busy
    <2>4. Alone' /\ OneEach' /\ Owed'
      BY <2>1 DEF CallsSound, Alone, Busy, OneEach, Owed
    <2>5. QED
      BY <2>3, <2>4 DEF CallsSound
  <1>3. QED
    BY <1>1, <1>2 DEF IpInv
-----------------------------------------------------------------------------

\* At first nothing is assigned and nobody calls.
LEMMA IpStart == ipInit => IpInv
  <1> SUFFICES ASSUME ipInit PROVE IpInv
    OBVIOUS
  <1>1. NoCall \in CallTypes /\ NoCall.at = "none" /\ NoCall.then = {}
    BY Shapes, FirstFields
  <1>2. IpTypeOK
    BY <1>1 DEF ipInit, IpTypeOK
  <1>3. CallsSound
    BY <1>1 DEF ipInit, CallsSound, Alone, Busy, OneEach, CallOK, Owed
  <1>4. QED
    BY <1>2, <1>3 DEF IpInv

\* Every step keeps the invariant.
LEMMA IpNextKeeps == IpInv /\ [ipNext]_ipVars => IpInv'
  <1> SUFFICES ASSUME IpInv, [ipNext]_ipVars PROVE IpInv'
    OBVIOUS
  <1>1. CASE UNCHANGED ipVars
    BY <1>1 DEF ipVars, IpInv, IpTypeOK, CallsSound, Alone, Busy, OneEach, Owed
  <1>2. ASSUME NEW c \in IpClients, IpStep(c) PROVE IpInv'
    BY <1>2, VisitKeeps, ChooseKeeps, ClearKeeps, CheckKeeps, PutKeeps, RemovalKeeps DEF IpStep
  <1>3. ASSUME NEW c \in IpClients, NEW s \in IpServices, NEW auto \in BOOLEAN, NEW ip \in IpsOrNone, AssignIPs(c, s, auto, ip)
        PROVE  IpInv'
    <2>1. caller[c].at = "none" /\ Overlapping(c) /\ UNCHANGED <<inPool, ipAssigned, ranOut>> /\ Becomes(c, Walking(s, auto, ip))
      BY <1>3, Beginning DEF IpInv
    <2>2. Walking(s, auto, ip).at = "read" /\ CallOK(Walking(s, auto, ip), ipAssigned, inPool)
      BY FirstFields DEF CallOK
    <2>3. QED
      BY <2>1, <2>2, BeginKeeps
  <1>4. ASSUME NEW c \in IpClients, NEW ip \in PoolIps, RemoveAddress(c, ip) PROVE IpInv'
    <2> DEFINE k == Drops(ip, {a.svc : a \in {b \in ipAssigned : b.ip = ip}})
    <2>1. caller[c].at = "none" /\ Overlapping(c) /\ UNCHANGED <<inPool, ipAssigned, ranOut>> /\ Becomes(c, k)
      BY <1>4, Beginning DEF IpInv
    <2>2. k.at = "drop" /\ CallOK(k, ipAssigned, inPool)
      BY FirstFields DEF CallOK
    <2>3. QED
      BY <2>1, <2>2, BeginKeeps
  <1>5. ASSUME NEW c \in IpClients, NEW s \in IpServices, RemoveIPs(c, s) PROVE IpInv'
    BY <1>5, Beginning, RestKeeps DEF IpInv
  <1>6. ASSUME NEW ip \in PoolIps, AddAddress(ip) PROVE IpInv'
    BY <1>6, RestKeeps DEF AddAddress
  <1>7. TRUE \in BOOLEAN /\ FALSE \in BOOLEAN /\ NoIp \in IpsOrNone /\ PoolIps \subseteq IpsOrNone
    BY DEF IpsOrNone
  <1>8. QED
    BY <1>1, <1>2, <1>3, <1>4, <1>5, <1>6, <1>7 DEF ipNext

\* No two endpoints share an address and port, no endpoint has two, and what is assigned
\* is in the pool when all calls have returned (AssignIPs, RemoveIPs, RemoveVirtualIP):
\* unless calls overlap, and for the last, unless one has failed.
THEOREM AddressesAreSound == ipSpec => []AddressesSound
  <1>1. IpInv => AddressesSound
    <2> SUFFICES ASSUME IpInv PROVE AddressesSound
      OBVIOUS
    <2>1. AssignedOnce
      BY DEF IpInv, CallsSound, OneEach, AssignedOnce
    <2>2. (\A c \in IpClients : caller[c].at = "none") => \A c \in IpClients : Pending(caller[c]) = {}
      BY DEF IpInv, IpTypeOK, Pending
    <2>3. AddressesInPool
      BY <2>2 DEF IpInv, CallsSound, Owed, AddressesInPool
    <2>4. QED
      BY <2>1, <2>3 DEF AddressesSound
  <1>2. QED
    BY <1>1, IpStart, IpNextKeeps, PTL DEF ipSpec

-----------------------------------------------------------------------------
(* Virtual ips (zzk/service/poollistener.go, hostiplistener.go).            *)

\* Every variable of the agents has its type, and a binding that the agent has made is known to
\* a thread, to the passive map, or lost to "ip a del", also while its host is away.
VipInv ==
    /\ thread \in [Pairs -> {"none", "watch", "post", "bound", "wait"}] /\ bound \subseteq Pairs
    /\ \A p \in bound : thread[p] # "none" \/ p \in passive \/ p \in lost

\* Every step of the leader, the agents, and what fails.
LEMMA VipStep == VipInv /\ [vipNext]_vipVars => VipInv'
  <1> SUFFICES ASSUME VipInv, [vipNext]_vipVars PROVE VipInv'
    OBVIOUS
  <1> USE DEF VipInv
  <1>1. ASSUME NEW i \in Ips, Assign(i) \/ Unassign(i) \/ EditPool(i) PROVE VipInv'
    BY <1>1 DEF Assign, Unassign, EditPool
  <1>2. ASSUME ReadPool \/ ReadAssignments \/ WakeSync \/ NewVipLeader PROVE VipInv'
    BY <1>2 DEF ReadPool, ReadAssignments, WakeSync, NewVipLeader
  <1>3. ASSUME NEW h \in VipHosts, UnassignAll(h) \/ LoseSession(h) PROVE VipInv'
    BY <1>3 DEF UnassignAll, LoseSession
  <1>4. ASSUME NEW h \in VipHosts, AgentExits(h) PROVE VipInv'
    BY <1>4 DEF AgentExits, Unbind
  <1>5. ASSUME NEW h \in VipHosts, NEW restarted \in BOOLEAN, Reconnect(h, restarted) PROVE VipInv'
    BY <1>5 DEF Reconnect
  <1>6. ASSUME NEW p \in Pairs, Spawn(p) \/ PostFinds(p) \/ ThreadWakes(p) \/ BarExpires(p) PROVE VipInv'
    BY <1>6 DEF Spawn, PostFinds, ThreadWakes, BarExpires
  <1>7. ASSUME NEW p \in Pairs, Post(p) \/ ThreadSeesRemoval(p) PROVE VipInv'
    BY <1>7 DEF Post, ThreadSeesRemoval, ReleaseVip, Unbind
  <1>8. ASSUME NEW p \in Pairs, ThreadBinds(p) PROVE VipInv'
    BY <1>8 DEF ThreadBinds, Bind, Unbind
  <1>9. ASSUME NEW p \in Pairs, ThreadReports(p) PROVE VipInv'
    BY <1>9 DEF ThreadReports
  <1>10. CASE UNCHANGED vipVars
    BY <1>10 DEF vipVars
  <1>11. QED
    BY <1>1, <1>2, <1>3, <1>4, <1>5, <1>6, <1>7, <1>8, <1>9, <1>10 DEF vipNext, vipLeader, vipAgent

\* The initial states.
LEMMA VipInit == vipInit => VipInv
  BY DEF vipInit, VipInv

-----------------------------------------------------------------------------
(* The imports of a container (container/endpoint.go, container/proxy.go).  *)

\* The nodes of exports, what follows them, and the proxies.
ExportNodes == [id : Nat, inst : ExInstances]
Trackers == [pc : {"waits", "down", "look", "reads", "sends", "rests"}, watch : {"none", "armed", "fired"},
             names : SUBSET ExportNodes, known : SUBSET ExportNodes, list : SUBSET ExportNodes]
Proxies == [open : BOOLEAN, queue : Seq(SUBSET ExportNodes), addrs : SUBSET ExportNodes]

\* Every variable of the imports has its type.
CeTyped ==
    /\ ceBind \in {"import", "import_all"} /\ ceOwn \subseteq {BasePort + 1} /\ exMade \in Nat
    /\ exNodes \subseteq ExportNodes /\ tracker \in Trackers
    /\ ceUpdates \in [busy : BOOLEAN, todo : SUBSET ExportNodes]
    /\ proxies \in [CePorts -> Proxies] /\ vifs \in [CePorts -> Nat]
    /\ ceFailed = [n |-> ceFailed.n, ports |-> ceFailed.ports]

\* The tracker is there with a watch that has not fired: nothing has changed since it looked.
Armed(pc) == tracker.pc = pc /\ tracker.watch = "armed"

\* The list that the proxy of a port is about to have, or has.
Latest(p) == IF proxies[p].queue = <<>> THEN proxies[p].addrs ELSE proxies[p].queue[Len(proxies[p].queue)]

\* The exports behind a port.
Here(p) == {n \in exNodes : GetPortNumber(n) = p}

\* As long as the watch has not fired, the list on its way is that of the exports.
ListIsTrue ==
    /\ Armed("reads") => tracker.names = exNodes
    /\ Armed("sends") => tracker.list = exNodes
    /\ Armed("rests") /\ ceUpdates.busy => ceUpdates.todo \subseteq exNodes /\ (ceBind = "import" => ceUpdates.todo = exNodes)
    /\ tracker.pc \in {"reads", "sends", "rests"} => tracker.watch # "none"
    /\ ~ceUpdates.busy => ceUpdates.todo = {}

\* And what has been handed over is with the proxies, or still in the hands of AddImport.
LatestIsTrue ==
    Armed("rests") /\ ceFailed.ports = {} =>
        \A p \in CePorts \ ceOwn :
            \/ ceBind = "import" /\ (p = BasePort /\ ~ceUpdates.busy => Latest(p) = exNodes)
            \/ /\ ceBind = "import_all"
               /\ Here(p) # {} => \/ \E n \in ceUpdates.todo : GetPortNumber(n) = p
                                  \/ Latest(p) \subseteq Here(p) /\ Latest(p) # {}

\* A new interface has an address above those of all others.
VifsApart == IsFiniteSet(Interfaces) /\ \A p \in Interfaces : vifs[p] < nextIP

CeInv == CeTyped /\ ListIsTrue /\ LatestIsTrue /\ VifsApart /\ PortsKept

\* The port of an export.
LEMMA PortOfNode ==
    ASSUME NEW n \in ExportNodes, CeAssumption
    PROVE  GetPortNumber(n) \in CePorts
  BY DEF GetPortNumber, CePorts, ExportNodes, BasePort

\* The nodes of the exports change: a watch fires.
LEMMA NodesChange ==
    ASSUME CeInv, NEW ns \in SUBSET ExportNodes, SetNodes(ns), exMade' \in Nat, UnchangedImport
    PROVE  CeInv'
  <1>1. exNodes' = ns /\ UNCHANGED <<ceBind, ceOwn, ceUpdates, proxies, vifs, ceFailed>>
    BY DEF SetNodes, UnchangedImport
  <1>2. VifsApart' /\ PortsKept'
    BY <1>1 DEF CeInv, VifsApart, PortsKept, Interfaces, nextIP
  <1>3. CASE ns = exNodes
    <2>1. UNCHANGED <<exNodes, tracker>>
      BY <1>1, <1>3 DEF SetNodes
    <2>2. CeTyped' /\ ListIsTrue' /\ LatestIsTrue'
      BY <1>1, <2>1 DEF CeInv, CeTyped, ListIsTrue, LatestIsTrue, Armed, Latest, Here, GetPortNumber
    <2>3. QED
      BY <1>2, <2>2 DEF CeInv
  <1>4. CASE ns # exNodes
    <2>1. tracker' \in Trackers /\ tracker'.watch # "armed" /\ tracker'.pc = tracker.pc /\ (tracker.watch # "none" => tracker'.watch # "none")
      BY <1>4 DEF CeInv, CeTyped, SetNodes, Fires, Trackers
    <2>2. CeTyped'
      BY <1>1, <2>1 DEF CeInv, CeTyped
    <2>3. ListIsTrue' /\ LatestIsTrue'
      BY <1>1, <2>1 DEF CeInv, ListIsTrue, LatestIsTrue, Armed
    <2>4. QED
      BY <1>2, <2>2, <2>3 DEF CeInv
  <1>5. QED
    BY <1>3, <1>4

\* Another instance starts, registers, ends, or loses its session.
LEMMA ExporterKeeps ==
    ASSUME CeInv, NEW i \in ExInstances, InstanceRuns(i) \/ InstanceEnds(i) \/ AddExport(i) \/ SessionLost(i)
    PROVE  CeInv'
  <1>1. SetNodes(exNodes) /\ UNCHANGED exMade /\ UnchangedImport => CeInv'
    BY NodesChange DEF CeInv, CeTyped
  <1>2. CASE InstanceRuns(i) \/ SessionLost(i)
    BY <1>1, <1>2 DEF InstanceRuns, SessionLost, SetNodes
  <1>3. CASE InstanceEnds(i)
    <2>1. exNodes \ {exporters[i].node} \in SUBSET ExportNodes /\ exMade \in Nat
      BY DEF CeInv, CeTyped
    <2>2. QED
      BY <1>1, <1>3, <2>1, NodesChange DEF InstanceEnds, SetNodes
  <1>4. CASE AddExport(i)
    <2>1. exNodes \cup {[id |-> exMade + 1, inst |-> i]} \in SUBSET ExportNodes /\ exMade + 1 \in Nat
      BY DEF CeInv, CeTyped, ExportNodes
    <2>2. QED
      BY <1>4, <2>1, NodesChange DEF AddExport
  <1>5. QED
    BY <1>2, <1>3, <1>4

\* The node of a lost session goes.
LEMMA SessionExpiresKeeps ==
    ASSUME CeInv, SessionExpires
    PROVE  CeInv'
  <1>1. PICK n \in Orphans : SetNodes(exNodes \ {n})
    BY DEF SessionExpires
  <1>2. exNodes \ {n} \in SUBSET ExportNodes /\ exMade' \in Nat /\ UnchangedImport
    BY DEF CeInv, CeTyped, SessionExpires
  <1>3. QED
    BY <1>1, <1>2, NodesChange

\* TrackExports looks, reads, starts anew or ends.
LEMMA TrackerKeeps ==
    ASSUME CeInv, RunImportListener \/ AddImport \/ Look \/ GetExports \/ TrackEvent \/ TrackingEnds
    PROVE  CeInv'
  <1>1. UNCHANGED <<ceBind, ceOwn, exNodes, exMade, ceUpdates, proxies, vifs, ceFailed>>
    BY DEF RunImportListener, AddImport, Look, GetExports, TrackEvent, TrackingEnds, UnchangedExport,
       UnchangedProxies
  <1>2. VifsApart' /\ PortsKept'
    BY <1>1 DEF CeInv, VifsApart, PortsKept, Interfaces, nextIP
  <1>3. tracker' \in Trackers /\ tracker'.pc # "rests" /\ ListIsTrue'
    <2>1. CASE RunImportListener
      BY <1>1, <2>1 DEF CeInv, CeTyped, Trackers, ListIsTrue, Armed, RunImportListener
    <2>2. CASE AddImport
      BY <1>1, <2>2 DEF CeInv, CeTyped, Trackers, ListIsTrue, Armed, AddImport
    <2>3. CASE Look
      BY <1>1, <2>3 DEF CeInv, CeTyped, Trackers, ListIsTrue, Armed, Look
    <2>4. CASE GetExports
      BY <1>1, <2>4 DEF CeInv, CeTyped, Trackers, ListIsTrue, Armed, GetExports
    <2>5. CASE TrackEvent
      BY <1>1, <2>5 DEF CeInv, CeTyped, Trackers, ListIsTrue, Armed, TrackEvent
    <2>6. CASE TrackingEnds
      BY <1>1, <2>6 DEF CeInv, CeTyped, Trackers, ListIsTrue, Armed, TrackingEnds
    <2>7. QED
      BY <2>1, <2>2, <2>3, <2>4, <2>5, <2>6
  <1>4. CeTyped' /\ LatestIsTrue'
    BY <1>1, <1>3 DEF CeInv, CeTyped, LatestIsTrue, Armed
  <1>5. QED
    BY <1>2, <1>3, <1>4 DEF CeInv

\* TrackExports hands its list over.
LEMMA SendExportsKeeps ==
    ASSUME CeInv, CeAssumption, SendExports
    PROVE  CeInv'
  <1>1. UNCHANGED <<ceBind, ceOwn, exNodes, exMade, proxies, vifs, ceFailed>>
    BY DEF SendExports, UnchangedExport
  <1>2. VifsApart' /\ PortsKept'
    BY <1>1 DEF CeInv, VifsApart, PortsKept, Interfaces, nextIP
  <1>3. /\ tracker' \in Trackers /\ tracker'.pc = "rests" /\ tracker'.watch = tracker.watch
        /\ ceUpdates' = [busy |-> TRUE, todo |-> tracker.list] /\ tracker.list \subseteq ExportNodes
        /\ tracker.pc = "sends"
    BY DEF CeInv, CeTyped, Trackers, SendExports
  <1>4. CeTyped'
    BY <1>1, <1>3 DEF CeInv, CeTyped
  <1>5. ListIsTrue'
    BY <1>1, <1>3 DEF CeInv, ListIsTrue, Armed
  <1>6. LatestIsTrue'
    <2>1. SUFFICES ASSUME tracker.watch = "armed", NEW p \in CePorts, Here(p) # {} PROVE \E n \in tracker.list : GetPortNumber(n) = p
      BY <1>1, <1>3 DEF CeInv, CeTyped, LatestIsTrue, Armed, Here, GetPortNumber
    <2>2. QED
      BY <1>3, <2>1 DEF CeInv, ListIsTrue, Armed, Here
  <1>7. QED
    BY <1>2, <1>4, <1>5, <1>6 DEF CeInv

\* A list goes to the proxy of a port.
LEMMA ListGoes ==
    ASSUME CeInv, NEW p \in CePorts, NEW list \in SUBSET ExportNodes, SetNewAddresses(p, list)
    PROVE  /\ proxies' \in [CePorts -> Proxies] /\ proxies'[p].open /\ Latest(p)' = list
           /\ \A q \in CePorts \ {p} : proxies'[q] = proxies[q]
  <1> DEFINE r == [open |-> TRUE, queue |-> Append(proxies[p].queue, list), addrs |-> proxies[p].addrs]
  <1>1. proxies[p].queue \in Seq(SUBSET ExportNodes) /\ proxies[p].addrs \in SUBSET ExportNodes
    BY DEF CeInv, CeTyped, Proxies
  <1>2. /\ Append(proxies[p].queue, list) \in Seq(SUBSET ExportNodes) /\ Append(proxies[p].queue, list) # <<>>
        /\ Append(proxies[p].queue, list)[Len(Append(proxies[p].queue, list))] = list
    BY <1>1
  <1>3. r \in Proxies
    BY <1>1, <1>2 DEF Proxies
  <1>4. proxies' = [proxies EXCEPT ![p] = r]
    BY DEF SetNewAddresses
  <1>5. r.open /\ r.queue = Append(proxies[p].queue, list)
    OBVIOUS
  <1> HIDE DEF r
  <1>6. proxies' \in [CePorts -> Proxies] /\ proxies'[p] = r /\ \A q \in CePorts \ {p} : proxies'[q] = proxies[q]
    BY <1>3, <1>4 DEF CeInv, CeTyped
  <1>7. QED
    BY <1>2, <1>5, <1>6 DEF Latest

\* A new proxy gets an interface, another list leaves the interfaces alone.
LEMMA ProxySet ==
    ASSUME CeInv, NEW p \in CePorts, p \notin ceOwn, NEW list \in SUBSET ExportNodes, SetProxy(p, list), UNCHANGED ceOwn
    PROVE  /\ vifs' \in [CePorts -> Nat] /\ ceFailed' = [n |-> ceFailed'.n, ports |-> ceFailed.ports]
           /\ VifsApart' /\ PortsKept'
  <1>1. /\ proxies' \in [CePorts -> Proxies] /\ proxies'[p].open
        /\ \A q \in CePorts \ {p} : proxies'[q] = proxies[q]
    BY ListGoes DEF SetProxy
  <1>2. ceOwn \in SUBSET {BasePort + 1} /\ vifs \in [CePorts -> Nat] /\ ceFailed = [n |-> ceFailed.n, ports |-> ceFailed.ports]
    BY DEF CeInv, CeTyped
  <1>3. CASE UNCHANGED vifs
    <2>1. ceFailed' = [n |-> ceFailed'.n, ports |-> ceFailed.ports]
      BY <1>2 DEF SetProxy, RegisterVirtualAddress
    <2>2. Interfaces' = Interfaces /\ nextIP' = nextIP
      BY <1>3 DEF Interfaces, nextIP
    <2>3. VifsApart' /\ PortsKept'
      BY <1>1, <1>3, <2>2 DEF CeInv, VifsApart, PortsKept, Interfaces
    <2>4. QED
      BY <1>2, <1>3, <2>1, <2>3
  <1>4. CASE ~proxies[p].open /\ vifs' = [vifs EXCEPT ![p] = nextIP] /\ UNCHANGED ceFailed
    <2>1. IsFiniteSet(Interfaces) /\ p \notin Interfaces
      BY <1>4 DEF CeInv, VifsApart, PortsKept
    <2>2. Cardinality(Interfaces) \in Nat /\ nextIP \in Nat /\ nextIP # 0 /\ nextIP = Cardinality(Interfaces) + 2
      BY <2>1, FS_CardinalityType DEF nextIP
    <2>3. vifs' \in [CePorts -> Nat] /\ vifs'[p] = nextIP /\ \A q \in CePorts \ {p} : vifs'[q] = vifs[q]
      BY <1>2, <1>4, <2>2
    <2>4. Interfaces' = Interfaces \cup {p}
      BY <2>2, <2>3 DEF Interfaces
    <2>5. IsFiniteSet(Interfaces') /\ Cardinality(Interfaces') = Cardinality(Interfaces) + 1
      BY <2>1, <2>4, FS_AddElement
    <2>6. nextIP' = nextIP + 1
      BY <2>2, <2>5 DEF nextIP
    <2>7. \A q \in Interfaces : vifs'[q] = vifs[q] /\ vifs[q] \in Nat /\ vifs[q] < nextIP
      BY <1>2, <2>1, <2>3 DEF CeInv, VifsApart, Interfaces
    <2>8. VifsApart'
      BY <2>2, <2>3, <2>4, <2>5, <2>6, <2>7 DEF VifsApart
    <2>9. PortsKept'
      <3>1. \A q \in ceOwn \cap CePorts : ~proxies'[q].open
        BY <1>1 DEF CeInv, PortsKept
      <3>2. \A q \in Interfaces' : proxies'[q].open
        BY <1>1, <2>4 DEF CeInv, PortsKept, Interfaces
      <3>3. \A q, s \in Interfaces' : q # s => vifs'[q] # vifs'[s]
        <4>1. \A q \in Interfaces : vifs'[q] # vifs'[p]
          BY <2>2, <2>3, <2>7
        <4>2. \A q, s \in Interfaces : q # s => vifs'[q] # vifs'[s]
          BY <2>7 DEF CeInv, PortsKept
        <4>3. QED
          BY <2>4, <4>1, <4>2
      <3>4. QED
        BY <3>1, <3>2, <3>3 DEF PortsKept
    <2>10. QED
      BY <1>2, <1>4, <2>3, <2>8, <2>9
  <1>5. QED
    BY <1>3, <1>4 DEF SetProxy, RegisterVirtualAddress

\* AddImport puts all exports behind one port.
LEMMA UpdateImportKeeps ==
    ASSUME CeInv, CeAssumption, UpdateImport
    PROVE  CeInv'
  <1>1. /\ UNCHANGED <<ceBind, ceOwn, exNodes, exMade, tracker>> /\ ceBind = "import" /\ ceUpdates.busy
        /\ ceUpdates' = [busy |-> FALSE, todo |-> {}] /\ BasePort \in CePorts /\ BasePort \notin ceOwn
        /\ ceUpdates.todo \subseteq ExportNodes
    BY DEF UpdateImport, UnchangedExport, CePorts, CeInv, CeTyped, BasePort
  <1>2. ListIsTrue'
    BY <1>1 DEF CeInv, ListIsTrue, Armed
  <1>3. CASE SetProxy(BasePort, ceUpdates.todo)
    <2>1. proxies' \in [CePorts -> Proxies] /\ Latest(BasePort)' = ceUpdates.todo
      BY <1>1, <1>3, ListGoes DEF SetProxy
    <2>2. vifs' \in [CePorts -> Nat] /\ ceFailed' = [n |-> ceFailed'.n, ports |-> ceFailed.ports] /\ VifsApart' /\ PortsKept'
      BY <1>1, <1>3, ProxySet
    <2>3. CeTyped'
      BY <1>1, <2>1, <2>2 DEF CeInv, CeTyped
    <2>4. LatestIsTrue'
      BY <1>1, <2>1 DEF CeInv, LatestIsTrue, ListIsTrue, Armed
    <2>5. QED
      BY <1>2, <2>2, <2>3, <2>4 DEF CeInv
  <1>4. CASE ListenFails(BasePort)
    <2>1. /\ UNCHANGED <<proxies, vifs>> /\ ceFailed' = [n |-> ceFailed'.n, ports |-> ceFailed'.ports] /\ ceFailed'.ports # {}
      BY <1>4 DEF ListenFails
    <2>2. CeTyped'
      BY <1>1, <2>1 DEF CeInv, CeTyped
    <2>3. VifsApart' /\ PortsKept' /\ LatestIsTrue'
      BY <1>1, <2>1 DEF CeInv, VifsApart, PortsKept, Interfaces, nextIP, LatestIsTrue
    <2>4. QED
      BY <1>2, <2>2, <2>3 DEF CeInv
  <1>5. QED
    BY <1>1, <1>3, <1>4 DEF UpdateImport

\* AddImport puts one export behind its port.
LEMMA UpdateImportAllKeeps ==
    ASSUME CeInv, CeAssumption, UpdateImportAll
    PROVE  CeInv'
  <1>1. /\ UNCHANGED <<ceBind, ceOwn, exNodes, exMade, tracker>> /\ ceBind = "import_all" /\ ceUpdates.busy
        /\ ceUpdates.todo \subseteq ExportNodes
    BY DEF UpdateImportAll, UnchangedExport, CeInv, CeTyped
  <1>2. PICK n \in ceUpdates.todo, p \in CePorts :
            /\ p = GetPortNumber(n)
            /\ \/ /\ \/ p \in ceOwn /\ UNCHANGED <<proxies, vifs, ceFailed>>
                     \/ p \notin ceOwn /\ SetProxy(p, {n})
                  /\ ceUpdates' = [ceUpdates EXCEPT !.todo = @ \ {n}]
               \/ p \notin ceOwn /\ ListenFails(p) /\ ceUpdates' = [busy |-> FALSE, todo |-> {}]
    BY <1>1, PortOfNode DEF UpdateImportAll
  <1>3. n \in ExportNodes
    BY <1>1
  <1>4. CASE ListenFails(p) /\ ceUpdates' = [busy |-> FALSE, todo |-> {}]
    <2>1. /\ UNCHANGED <<proxies, vifs>> /\ ceFailed' = [n |-> ceFailed'.n, ports |-> ceFailed'.ports] /\ ceFailed'.ports # {}
      BY <1>4 DEF ListenFails
    <2>2. CeTyped' /\ ListIsTrue'
      BY <1>1, <1>4, <2>1 DEF CeInv, CeTyped, ListIsTrue, Armed
    <2>3. VifsApart' /\ PortsKept' /\ LatestIsTrue'
      BY <1>1, <2>1 DEF CeInv, VifsApart, PortsKept, Interfaces, nextIP, LatestIsTrue
    <2>4. QED
      BY <2>2, <2>3 DEF CeInv
  <1>5. ASSUME ceUpdates' = [ceUpdates EXCEPT !.todo = @ \ {n}]
        PROVE  ceUpdates' = [busy |-> TRUE, todo |-> ceUpdates.todo \ {n}] /\ ListIsTrue'
    <2>1. ceUpdates' = [busy |-> TRUE, todo |-> ceUpdates.todo \ {n}]
      BY <1>1, <1>5 DEF CeInv, CeTyped
    <2>2. QED
      BY <1>1, <2>1 DEF CeInv, ListIsTrue, Armed
  <1>6. CASE ceUpdates' = [ceUpdates EXCEPT !.todo = @ \ {n}] /\ p \in ceOwn /\ UNCHANGED <<proxies, vifs, ceFailed>>
    <2>1. CeTyped' /\ VifsApart' /\ PortsKept'
      BY <1>1, <1>5, <1>6 DEF CeInv, CeTyped, VifsApart, PortsKept, Interfaces, nextIP
    <2>2. \A q \in CePorts : Latest(q)' = Latest(q) /\ Here(q)' = Here(q)
      BY <1>1, <1>6 DEF Latest, Here, GetPortNumber
    <2>3. LatestIsTrue'
      BY <1>1, <1>2, <1>5, <1>6, <2>2 DEF CeInv, LatestIsTrue, Armed, GetPortNumber
    <2>4. QED
      BY <1>5, <1>6, <2>1, <2>3 DEF CeInv
  <1>7. CASE ceUpdates' = [ceUpdates EXCEPT !.todo = @ \ {n}] /\ p \notin ceOwn /\ SetProxy(p, {n})
    <2>1. {n} \in SUBSET ExportNodes
      BY <1>3
    <2>2. proxies' \in [CePorts -> Proxies] /\ Latest(p)' = {n} /\ \A q \in CePorts \ {p} : proxies'[q] = proxies[q]
      BY <1>3, <1>7, <2>1, ListGoes DEF SetProxy
    <2>3. vifs' \in [CePorts -> Nat] /\ ceFailed' = [n |-> ceFailed'.n, ports |-> ceFailed.ports] /\ VifsApart' /\ PortsKept'
      BY <1>1, <1>3, <1>7, <2>1, ProxySet
    <2>4. CeTyped'
      BY <1>1, <1>5, <1>7, <2>2, <2>3 DEF CeInv, CeTyped
    <2>5. \A q \in CePorts : Here(q)' = Here(q) /\ (q # p => Latest(q)' = Latest(q))
      BY <1>1, <2>2 DEF Latest, Here, GetPortNumber
    <2>6. Armed("rests") => n \in Here(p)
      BY <1>1, <1>2 DEF CeInv, ListIsTrue, Here
    <2>7. GetPortNumber(n) = p /\ ceFailed'.ports = ceFailed.ports
      BY <1>2, <2>3
    <2>8. LatestIsTrue'
      BY <1>1, <1>5, <1>7, <2>2, <2>5, <2>6, <2>7 DEF CeInv, LatestIsTrue, Armed, GetPortNumber
    <2>9. QED
      BY <1>5, <1>7, <2>3, <2>4, <2>8 DEF CeInv
  <1>8. QED
    BY <1>2, <1>4, <1>6, <1>7

\* AddImport is done with a list.
LEMMA UpdateDoneKeeps ==
    ASSUME CeInv, UpdateDone
    PROVE  CeInv'
  <1>1. /\ UNCHANGED <<ceBind, ceOwn, exNodes, exMade, tracker, proxies, vifs, ceFailed>> /\ ceBind = "import_all"
        /\ ceUpdates' = [busy |-> FALSE, todo |-> {}] /\ ceUpdates.todo = {}
    BY DEF UpdateDone, UnchangedExport, CeInv, CeTyped
  <1>2. CeTyped' /\ VifsApart' /\ PortsKept' /\ ListIsTrue'
    BY <1>1 DEF CeInv, CeTyped, VifsApart, PortsKept, Interfaces, nextIP, ListIsTrue, Armed
  <1>3. LatestIsTrue'
    BY <1>1 DEF CeInv, LatestIsTrue, Armed, Latest, Here, GetPortNumber
  <1>4. QED
    BY <1>2, <1>3 DEF CeInv

\* A proxy takes the next list.
LEMMA TakeAddressesKeeps ==
    ASSUME CeInv, NEW p \in CePorts, TakeAddresses(p)
    PROVE  CeInv'
  <1> DEFINE q == proxies[p].queue
             r == [open |-> proxies[p].open, queue |-> Tail(q), addrs |-> Head(q)]
  <1>1. /\ UNCHANGED <<ceBind, ceOwn, exNodes, exMade, exLost, tracker, ceUpdates, vifs, ceFailed>>
        /\ q \in Seq(SUBSET ExportNodes) /\ q # <<>> /\ proxies[p].open \in BOOLEAN
    BY DEF TakeAddresses, UnchangedExport, CeInv, CeTyped, Proxies
  <1>2. Tail(q) \in Seq(SUBSET ExportNodes) /\ Head(q) \in SUBSET ExportNodes
    BY <1>1
  <1>3. r \in Proxies
    BY <1>1, <1>2 DEF Proxies
  <1>4. proxies' = [proxies EXCEPT ![p] = r]
    BY DEF TakeAddresses
  <1>5. r.open = proxies[p].open /\ (IF r.queue = <<>> THEN r.addrs ELSE r.queue[Len(r.queue)]) = q[Len(q)]
    <2>1. Len(Tail(q)) = Len(q) - 1 /\ Len(q) \in Nat \ {0} /\ \A i \in 1 .. Len(Tail(q)) : Tail(q)[i] = q[i + 1]
      BY <1>1, HeadTailProperties, EmptySeq
    <2>2. Head(q) = q[1]
      BY <1>1
    <2>3. r.open = proxies[p].open /\ r.queue = Tail(q) /\ r.addrs = Head(q)
      OBVIOUS
    <2>4. CASE Tail(q) = <<>>
      <3>1. Len(Tail(q)) = 0
        BY <2>4, EmptySeq
      <3>2. Len(q) = 1
        BY <2>1, <3>1
      <3>3. QED
        BY <2>2, <2>3, <2>4, <3>2
    <2>5. CASE Tail(q) # <<>>
      <3>1. Len(Tail(q)) \in Nat \ {0}
        BY <1>2, <2>5, EmptySeq
      <3>2. Tail(q)[Len(Tail(q))] = q[Len(q)]
        <4>1. PICK k \in Nat \ {0}, l \in Nat \ {0} : k = Len(Tail(q)) /\ l = Len(q)
          BY <2>1, <3>1
        <4>2. k = l - 1 /\ k \in Nat \ {0} /\ l \in Nat \ {0}
          BY <2>1, <4>1
        <4>3. k \in 1 .. k /\ k + 1 = l
          BY <4>2
        <4>4. \A i \in 1 .. k : Tail(q)[i] = q[i + 1]
          BY <2>1, <4>1, Zenon
        <4>5. Tail(q)[k] = q[k + 1]
          BY <4>3, <4>4, Zenon
        <4>6. QED
          BY <4>1, <4>3, <4>5, Zenon
      <3>3. QED
        BY <2>3, <2>5, <3>2
    <2>6. QED
      BY <2>4, <2>5
  <1>6. Latest(p) = q[Len(q)]
    BY <1>1 DEF Latest
  <1> HIDE DEF r
  <1>7. proxies' \in [CePorts -> Proxies] /\ proxies'[p] = r /\ \A s \in CePorts \ {p} : proxies'[s] = proxies[s]
    BY <1>3, <1>4 DEF CeInv, CeTyped
  <1>8. \A s \in CePorts : Latest(s)' = Latest(s) /\ proxies'[s].open = proxies[s].open /\ Here(s)' = Here(s)
    BY <1>1, <1>5, <1>6, <1>7 DEF Latest, Here, GetPortNumber
  <1>9. CeTyped' /\ ListIsTrue' /\ VifsApart'
    BY <1>1, <1>7 DEF CeInv, CeTyped, ListIsTrue, Armed, VifsApart, Interfaces, nextIP
  <1>10. PortsKept'
    <2>1. \A s \in ceOwn \cap CePorts : ~proxies'[s].open
      BY <1>1, <1>7, <1>5 DEF CeInv, PortsKept
    <2>2. QED
      BY <1>1, <1>8, <2>1 DEF CeInv, PortsKept, Interfaces
  <1>11. LatestIsTrue'
    BY <1>1, <1>8 DEF CeInv, LatestIsTrue, Armed, GetPortNumber
  <1>12. QED
    BY <1>9, <1>10, <1>11 DEF CeInv

\* The initial states.
LEMMA CeInit == ceInit => CeInv
  <1> SUFFICES ASSUME ceInit PROVE CeInv
    OBVIOUS
  <1>1. NoProxy \in Proxies /\ ~NoProxy.open
    BY DEF NoProxy, Proxies
  <1>2. CeTyped /\ ListIsTrue /\ LatestIsTrue
    BY <1>1 DEF ceInit, CeTyped, ListIsTrue, LatestIsTrue, Armed, Trackers, BasePort
  <1>3. Interfaces = {}
    BY DEF ceInit, Interfaces
  <1>4. VifsApart
    BY <1>3, FS_EmptySet DEF VifsApart
  <1>5. PortsKept
    BY <1>1, <1>3 DEF ceInit, PortsKept, CePorts
  <1>6. QED
    BY <1>2, <1>4, <1>5 DEF CeInv

\* Every step.
LEMMA CeStep == CeInv /\ [ceNext]_ceVars => CeInv'
  <1> SUFFICES ASSUME CeInv, [ceNext]_ceVars PROVE CeInv'
    OBVIOUS
  <1>1. CASE UNCHANGED ceVars
    BY <1>1 DEF ceVars, CeInv, CeTyped, ListIsTrue, LatestIsTrue, Armed, Latest, Here, GetPortNumber,
       VifsApart, PortsKept, Interfaces, nextIP
  <1>2. ASSUME NEW i \in ExInstances, InstanceRuns(i) \/ InstanceEnds(i) \/ AddExport(i) \/ SessionLost(i) PROVE CeInv'
    BY <1>2, ExporterKeeps
  <1>3. CASE TrackStep \/ TrackingEnds
    BY <1>3, TrackerKeeps, SendExportsKeeps, CeAssumption DEF TrackStep
  <1>4. CASE UpdateStep \/ ProxyStep
    BY <1>4, UpdateImportKeeps, UpdateImportAllKeeps, UpdateDoneKeeps, TakeAddressesKeeps, CeAssumption DEF
       UpdateStep, ProxyStep
  <1>5. CASE SessionExpires
    BY <1>5, SessionExpiresKeeps
  <1>6. QED
    BY <1>1, <1>2, <1>3, <1>4, <1>5 DEF ceNext

\* When there is nothing left to do, what has been handed over is what the proxies have.
LEMMA CeHolds == CeInv => ImportsSound
  <1> SUFFICES ASSUME CeInv, Settled, ceFailed.ports = {} PROVE ProxiesFollowExports
    BY DEF CeInv, ImportsSound, ProxiesFollowExports
  <1>1. Armed("rests") /\ ~ceUpdates.busy /\ ceUpdates.todo = {} /\ \A p \in CePorts : Latest(p) = proxies[p].addrs
    BY DEF Settled, CeInv, CeTyped, Trackers, ListIsTrue, Armed, Latest
  <1>2. QED
    BY <1>1 DEF CeInv, CeTyped, LatestIsTrue, ProxiesFollowExports, Here, CePorts

-----------------------------------------------------------------------------
\* Whatever fails, dies or changes hands in between, a virtual ip that the agent has bound is
\* known to a thread or the passive map (HostIPListener), unless "ip a del" has failed; and when
\* a container has taken in what is exported, its proxies lead to what is exported and nowhere
\* else, on ports and addresses of their own (ContainerEndpoints.AddImport).
THEOREM AddressesStayTracked ==
    vipSpec /\ ceSpec => []AddressesTracked
  <1>1. vipSpec => []BindingTracked
    <2>1. VipInv => BindingTracked
      BY DEF VipInv, BindingTracked
    <2>2. QED
      BY <2>1, VipInit, VipStep, PTL DEF vipSpec
  <1>2. ceSpec => []ImportsSound
    BY CeInit, CeStep, CeHolds, PTL DEF ceSpec
  <1>3. BindingTracked /\ ImportsSound => AddressesTracked
    BY DEF AddressesTracked
  <1>4. QED
    BY <1>1, <1>2, <1>3, PTL
=============================================================================
