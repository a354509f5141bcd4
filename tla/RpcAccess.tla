------------------------------- MODULE RpcAccess -------------------------------
(***************************************************************************)
(* Who may call what.  A request travels with a header: a token and a      *)
(* signature, or the remark that the method needs none (auth/rpc.go,       *)
(* auth/header.go).  The codec of the server (rpc/rpcutils/authcodec.go)   *)
(* looks at the header before the method is called.  One process makes     *)
(* calls, one after the other, on a connection of its pool; what is left   *)
(* on the connection after one call is there for the next.  AccessSound    *)
(* puts together what holds of this, of the pool of connections, of the    *)
(* tokens of the hosts, and of what is open to the world.                  *)
(***************************************************************************)
EXTENDS RpcMethods, RpcPool, HostTokens, PublicEndpoints, VHostProxies

CONSTANTS MaxAcCalls,   \* how many calls are made
          MaxTokenMoves \* how many times the token of the process changes

ASSUME AcAssumption == MaxAcCalls \in Nat /\ MaxTokenMoves \in Nat

VARIABLES who,       \* the process: an agent, a container, the command line of a delegate or of the master
          acToken,   \* its token: none, or one without or with access for admins
          acWire,    \* what is on the connection towards the server
          acAnswer,  \* what the server has answered
          acOpen,    \* the connection that the pool holds is open
          acCall,    \* the call that is made: the method, and how it stands
          acMade, acMoves
acVars == <<who, acToken, acWire, acAnswer, acOpen, acCall, acMade, acMoves>>

RpcProcesses == {"agent", "container", "delegate", "master"}
CallsOf(p) == CASE p = "agent" -> AgentCalls [] p = "container" -> ContainerCalls [] OTHER -> OtherCalls
NoRpc == [m |-> <<"none", "none">>, pc |-> "idle", as |-> "nobody", result |-> "none"]

acInit ==
    /\ who \in RpcProcesses /\ acToken = "none"
    /\ acWire = <<>> /\ acAnswer = "none" /\ acOpen = FALSE
    /\ acCall = NoRpc /\ acMade = 0 /\ acMoves = 0

-----------------------------------------------------------------------------
\* rpc/rpcutils/authcodec.go: the lists.
NonAuthenticatingCalls ==
    {<<"Master", "AuthenticateHost">>, <<"Agent", "BuildHost">>, <<"ControlCenterAgent", "Ping">>, <<"Master", "AddHostPrivate">>}
NonAdminRequiredCalls ==
    Named("Master", {"GetHost", "GetHosts", "GetEvaluatedService", "GetSystemUser", "ReportHealthStatus",
                     "ReportInstanceDead", "UpdateHost"})
    \cup Named("ControlCenterAgent", {"GetEvaluatedService", "GetHostID", "GetZkInfo", "GetISvcEndpoints",
                                      "ReportHealthStatus", "ReportInstanceDead", "SendLogMessage", "AddHostPrivate"})
requiresAuthentication(m) == m \notin NonAuthenticatingCalls
requiresAdmin(m) == m \notin NonAdminRequiredCalls

\* MasterToken: only a process with the private key of the master can make one.
HasMasterKey == who = "master"
\* auth/rpc.go, WriteHeader: the token of the delegate comes first, whatever it allows.
Signs == IF acToken # "none" THEN acToken ELSE IF HasMasterKey THEN "admin" ELSE "nobody"

-----------------------------------------------------------------------------
\* reconnectingClient.Call takes a connection of the pool; a closed one has been replaced.
BeginCall ==
    /\ acCall.pc = "idle" /\ acMade < MaxAcCalls
    /\ \E m \in CallsOf(who) : acCall' = [m |-> m, pc |-> "writes", as |-> "nobody", result |-> "none"]
    /\ acOpen' = TRUE /\ acMade' = acMade + 1
    /\ UNCHANGED <<who, acToken, acWire, acAnswer, acMoves>>

\* auth/header.go, WriteTo: the token, the time and the request are signed together.
Frame(part, auth, ident) == [part |-> part, m |-> acCall.m, auth |-> auth, ident |-> ident]

\* WriteRequest, WriteHeader: without a token and without a key, the magic number and the flag
\* are on the wire already when the call fails.
WriteRequest ==
    /\ acCall.pc = "writes"
    /\ LET needsAuth == requiresAuthentication(acCall.m)
       IN \/ /\ needsAuth => Signs # "nobody"
             /\ acWire' = Append(acWire, Frame("whole", needsAuth, IF needsAuth THEN Signs ELSE "nobody"))
             /\ acCall' = [acCall EXCEPT !.pc = "waits", !.as = Signs]
          \/ /\ needsAuth /\ Signs = "nobody"
             /\ acWire' = Append(acWire, Frame("stub", TRUE, "nobody"))
             /\ acCall' = [acCall EXCEPT !.pc = "fails", !.result = "no token"]
    /\ UNCHANGED <<who, acToken, acAnswer, acOpen, acMade, acMoves>>

\* A header that is older than the clocks may differ, or whose token has expired meanwhile.
HeaderExpires ==
    /\ acWire # <<>> /\ Head(acWire).part = "whole" /\ Head(acWire).auth /\ Head(acWire).ident # "expired"
    /\ acWire' = <<[Head(acWire) EXCEPT !.ident = "expired"]>> \o Tail(acWire)
    /\ UNCHANGED <<who, acToken, acAnswer, acOpen, acCall, acMade, acMoves>>

Knows(m) == m[2] \in MethodsOf(m[1])

\* What the header says of a request: ReadHeader, readAuthHeaderV1 and ReadRequestHeader.  A bad
\* header costs the call and not the connection, because its payload is read all the same.
lastError(r) ==
    IF r.auth /\ r.ident = "expired" THEN "not authenticated"
    ELSE IF requiresAuthentication(r.m) /\ requiresAdmin(r.m) /\ r.ident # "admin" THEN "no admin"
    ELSE "none"

\* The server reads the next request.  net/rpc looks for the method before it reads the body,
\* and the body is where the codec gives its error.  After a stub there is no authentication
\* header: the server waits for one, and what comes next ends the connection.
ReadRequest ==
    /\ acOpen /\ acWire # <<>> /\ acAnswer = "none"
    /\ Head(acWire).part = "whole" \/ Len(acWire) > 1
    /\ LET r == Head(acWire)
       IN \E done \in {"served", "failed"} :
            acAnswer' = IF r.part = "stub" THEN "broken"
                        ELSE IF ~Knows(r.m) THEN "no method"
                        ELSE IF lastError(r) # "none" THEN lastError(r)
                        ELSE done
    /\ acWire' = Tail(acWire)
    /\ UNCHANGED <<who, acToken, acOpen, acCall, acMade, acMoves>>

-----------------------------------------------------------------------------
\* The client's codec reads the answer to the call.
ReadResponse ==
    acCall.pc = "waits" /\ acAnswer # "none" /\ acCall' = [acCall EXCEPT !.pc = "ended", !.result = acAnswer]

\* reconnectingClient.Call: the answer; after an error the connection is closed and replaced.
CallEnds ==
    /\ \/ ReadResponse
       \/ acCall.pc = "fails" /\ acCall' = [acCall EXCEPT !.pc = "ended"]
    /\ acAnswer' = "none"
    /\ IF acCall'.result = "served" THEN UNCHANGED <<acWire, acOpen>> ELSE acWire' = <<>> /\ acOpen' = FALSE
    /\ UNCHANGED <<who, acToken, acMade, acMoves>>

\* The time of the call is over; the connection is closed with whatever is under way.
CallTimesOut ==
    /\ acCall.pc = "waits"
    /\ acCall' = [acCall EXCEPT !.pc = "ended", !.result = "timed out"]
    /\ acAnswer' = "none" /\ acWire' = <<>> /\ acOpen' = FALSE
    /\ UNCHANGED <<who, acToken, acMade, acMoves>>

\* rpc/rpcutils/local.go: the master calls itself without a connection, a header or a check.
LocalCall ==
    /\ who = "master" /\ acCall.pc = "idle" /\ acMade < MaxAcCalls
    /\ \E m \in CallsOf(who), done \in {"served", "failed", "timed out"} :
         acCall' = [m |-> m, pc |-> "ended", as |-> "nobody", result |-> IF Knows(m) THEN done ELSE "no method"]
    /\ acMade' = acMade + 1
    /\ UNCHANGED <<who, acToken, acWire, acAnswer, acOpen, acMoves>>

NextCall ==
    /\ acCall.pc = "ended" /\ acMade < MaxAcCalls /\ acCall' = NoRpc
    /\ UNCHANGED <<who, acToken, acWire, acAnswer, acOpen, acMade, acMoves>>

\* auth/token.go: a token arrives, is replaced by one of another pool, or expires.
TokenMoves ==
    /\ acMoves < MaxTokenMoves /\ acMoves' = acMoves + 1
    /\ acToken' \in {"none", "plain", "admin"} \ {acToken}
    /\ UNCHANGED <<who, acWire, acAnswer, acOpen, acCall, acMade>>

acNext ==
    \/ BeginCall \/ WriteRequest \/ HeaderExpires \/ ReadRequest
    \/ CallEnds \/ CallTimesOut \/ LocalCall \/ NextCall \/ TokenMoves
acSpec == acInit /\ [][acNext]_acVars

-----------------------------------------------------------------------------
\* A call is never lost to what an earlier one left on the connection: a request that was not
\* written to its end is not followed by another (auth/rpc.go:97-110, rpcutils/client.go:142).
RpcInStep ==
    /\ acAnswer # "broken" /\ acCall.result # "broken"
    /\ acCall.pc = "writes" => acWire = <<>> /\ acAnswer = "none"

\* Calls whose method no server has: nobody makes them.
LeftOver == {<<"ControlCenter", "GetServiceEndpoints">>, <<"ControlCenter", "AsyncSnapshot">>}

\* What the agents and the containers ask for is open to them: only the agent's look at a
\* service before it pauses or resumes a container needs an admin (node/container.go:497).  The
\* master's own key is never refused, unless a token that allows less comes before it.  A call
\* of a client has a method in a server.
ServedAsAllowed ==
    /\ acCall.result = "no method" => acCall.m \in LeftOver
    /\ who \in {"agent", "container"} /\ acCall.result = "no admin" => acCall.m = <<"Master", "GetService">>
    /\ acCall.result = "no admin" => acCall.as = "plain"

\* What holds of who may call what.
CallsAllowed == RpcInStep /\ ServedAsAllowed

\* Who may call the master, how a call travels, and what is open to the world (src/auth,
\* src/rpc/rpcutils, src/web).
AccessSound == RecordIsCurrent /\ ConnectionsSound /\ EndpointsSound /\ NobodyServedDisabled /\ CallsAllowed
=============================================================================
