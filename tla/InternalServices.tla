-------------------------- MODULE InternalServices --------------------------
(***************************************************************************)
(* The internal services (isvcs): a manager that starts them in groups and *)
(* stops them, and for each service a goroutine that starts its container, *)
(* checks its health, starts it anew when it exits and gives up when it    *)
(* flaps.  Containers are found by their name; the handler of the event    *)
(* that a container died removes whatever container then has the name.     *)
(* IService.Restart is not called by anything and is left out.             *)
(***************************************************************************)
EXTENDS Naturals, FiniteSets

CONSTANTS
    IServices,
    StartGroup,        \* service -> the group it is started in
    Recovers,          \* the services that have a Recover function
    Flapping,          \* FLAPPING_THRESHOLD
    MaxContainers,     \* bound on containers that are made for a service
    MaxManagerOps,     \* bound on requests to the manager
    MaxIsvcFailures,   \* bound on containers that exit, do not start or are not healthy
    MaxDaemonRestarts

VARIABLES
    mgr,        \* the request of the manager: the operation and the services that have yet to answer
    svc,        \* service -> what its goroutine does, the container whose exit it waits for, ...
    ctr,        \* service -> the container of that name
    die,        \* service -> containers with a handler for their death: registered, fired
    notified,   \* service -> containers whose notify channel has a value or is closed
    made,       \* service -> containers made so far
    isvcLeft

isvcVars == <<mgr, svc, ctr, die, notified, made, isvcLeft>>
SpendIsvc(what) == isvcLeft[what] > 0 /\ isvcLeft' = [isvcLeft EXCEPT ![what] = @ - 1]
ManagerIdle == [op |-> "none", rest |-> {}, now |-> {}]
NoCtr == [id |-> 0, up |-> FALSE]
\* The loop of a service as NewIService starts it.
NewIService == [pc |-> "idle", for |-> "none", again |-> FALSE, new |-> 0, exited |-> 0, collecting |-> FALSE, flaps |-> 0]
SvcAt(s, pc) == svc' = [svc EXCEPT ![s].pc = pc]
Answered(s) == mgr' = [mgr EXCEPT !.now = @ \ {s}]
IsRunning(s) == svc[s].exited # 0
\* IService.stop, or docker: the container of that name is down, and the handler that was
\* registered for its death is called.
CtrStops(s) ==
    /\ ctr' = [ctr EXCEPT ![s].up = FALSE]
    /\ die' = [die EXCEPT ![s].fired = @ \cup (die[s].registered \cap {ctr[s].id})]
-----------------------------------------------------------------------------
(* Manager.loop: one request at a time; Start goes through the groups in     *)
(* order, Stop asks all running services at once.                           *)
\* IServiceDefinition: when the service is started, and whether it can recover.
Definition(s) == [group |-> StartGroup[s], recovers |-> s \in Recovers]
Lowest(S) == {s \in S : \A t \in S : Definition(s).group <= Definition(t).group}

ManagerRequest(op) ==
    /\ mgr = ManagerIdle /\ SpendIsvc("ops")
    /\ mgr' = IF op = "start" THEN [op |-> op, rest |-> IServices, now |-> {}]
              ELSE [op |-> op, rest |-> {}, now |-> {s \in IServices : IsRunning(s)}]
    /\ UNCHANGED <<svc, ctr, die, notified, made>>

startServiceGroup ==
    /\ mgr.op = "start" /\ mgr.now = {} /\ mgr.rest # {}
    /\ mgr' = [mgr EXCEPT !.rest = @ \ Lowest(mgr.rest), !.now = {s \in Lowest(mgr.rest) : ~IsRunning(s)}]
    /\ UNCHANGED <<svc, ctr, die, notified, made, isvcLeft>>

ManagerAnswers ==
    /\ mgr.op # "none" /\ mgr.now = {} /\ mgr.rest = {} /\ mgr' = ManagerIdle
    /\ UNCHANGED <<svc, ctr, die, notified, made, isvcLeft>>
-----------------------------------------------------------------------------
(* IService.run takes a request.                                            *)
TakeStart(s) ==
    /\ mgr.op = "start" /\ s \in mgr.now /\ svc[s].pc = "idle"
    /\ IF IsRunning(s) THEN Answered(s) /\ UNCHANGED svc
       ELSE svc' = [svc EXCEPT ![s] = [@ EXCEPT !.pc = "attach", !.for = "request", !.again = Definition(s).recovers]] /\ UNCHANGED mgr
    /\ UNCHANGED <<ctr, die, notified, made, isvcLeft>>

\* Stop halts the collectors, but not the custom statistics, stops the container and waits
\* for its exit; an error of docker is the answer.
TakeStop(s) ==
    /\ mgr.op = "stop" /\ s \in mgr.now /\ svc[s].pc = "idle"
    /\ \/ ~IsRunning(s) /\ Answered(s) /\ UNCHANGED <<svc, ctr, die, isvcLeft>>
       \/ /\ IsRunning(s) /\ svc' = [svc EXCEPT ![s] = [@ EXCEPT !.pc = "stopping", !.collecting = FALSE]]
          /\ CtrStops(s)
          /\ UNCHANGED <<mgr, isvcLeft>>
       \/ /\ IsRunning(s) /\ SpendIsvc("failures") /\ svc' = [svc EXCEPT ![s].collecting = FALSE]
          /\ Answered(s) /\ UNCHANGED <<ctr, die>>
    /\ UNCHANGED <<notified, made>>

StopEnds(s) ==
    /\ svc[s].pc = "stopping" /\ svc[s].exited \in notified[s]
    /\ svc' = [svc EXCEPT ![s] = [@ EXCEPT !.pc = "idle", !.exited = 0]] /\ Answered(s)
    /\ UNCHANGED <<ctr, die, notified, made, isvcLeft>>
-----------------------------------------------------------------------------
(* IService.start.                                                          *)
\* create: a new container under the name of the service, not yet started.
create(s) == ctr' = [ctr EXCEPT ![s] = [id |-> made[s] + 1, up |-> FALSE]]
\* attach: a container that runs is taken over, one that does not is removed first.
Attach(s) ==
    /\ svc[s].pc = "attach"
    /\ \/ /\ ctr[s].id # 0 /\ ctr[s].up /\ SvcAt(s, "begin") /\ UNCHANGED <<ctr, made>>
       \/ /\ ctr[s].id # 0 /\ ~ctr[s].up /\ ctr' = [ctr EXCEPT ![s] = NoCtr] /\ UNCHANGED <<svc, made>>
       \/ /\ ctr[s].id = 0 /\ made[s] < MaxContainers /\ made' = [made EXCEPT ![s] = @ + 1]
          /\ create(s) /\ SvcAt(s, "begin")
    /\ UNCHANGED <<mgr, die, notified, isvcLeft>>

\* No more containers may be made: the bound stands for an error of docker.
AttachFails(s) ==
    /\ svc[s].pc = "attach" /\ ctr[s].id = 0 /\ made[s] = MaxContainers /\ SvcAt(s, "failed")
    /\ UNCHANGED <<mgr, ctr, die, notified, made, isvcLeft>>

\* The handler is registered and the container is started.
BeginManagerOp(s) ==
    /\ svc[s].pc = "begin"
    /\ \/ /\ ctr[s].id # 0 /\ ctr' = [ctr EXCEPT ![s].up = TRUE]
          /\ die' = [die EXCEPT ![s].registered = @ \cup {ctr[s].id}]
          /\ svc' = [svc EXCEPT ![s] = [@ EXCEPT !.pc = "checking", !.new = ctr[s].id]] /\ UNCHANGED isvcLeft
       \/ ctr[s].id = 0 /\ SvcAt(s, "failed") /\ UNCHANGED <<ctr, die, isvcLeft>>
       \/ SpendIsvc("failures") /\ SvcAt(s, "failed") /\ UNCHANGED <<ctr, die>>
    /\ UNCHANGED <<mgr, notified, made>>

\* The startup check passes: the collectors are started unless they run.
StartupPasses(s) ==
    /\ svc[s].pc = "checking" /\ ctr[s] = [id |-> svc[s].new, up |-> TRUE]
    /\ svc' = [svc EXCEPT ![s] = [@ EXCEPT !.pc = "idle", !.exited = svc[s].new, !.collecting = TRUE]]
    /\ IF svc[s].for = "request" THEN Answered(s) ELSE UNCHANGED mgr
    /\ UNCHANGED <<ctr, die, notified, made, isvcLeft>>

\* It does not pass in time: the container of that name is stopped, and not waited for.
StartupFails(s) ==
    /\ svc[s].pc = "checking"
    /\ IF ctr[s].up THEN SpendIsvc("failures") ELSE UNCHANGED isvcLeft
    /\ SvcAt(s, "failed") /\ CtrStops(s)
    /\ UNCHANGED <<mgr, notified, made>>

StartupExits(s) ==
    /\ svc[s].pc = "checking" /\ svc[s].new \in notified[s] /\ SvcAt(s, "failed")
    /\ UNCHANGED <<mgr, ctr, die, notified, made, isvcLeft>>

\* A requested start is tried once more after Recover; one that follows an exit is given
\* up: the collectors are halted and the container is stopped.
StartFailed(s) ==
    /\ svc[s].pc = "failed"
    /\ \/ /\ svc[s].for = "request" /\ svc[s].again
          /\ svc' = [svc EXCEPT ![s] = [@ EXCEPT !.pc = "attach", !.again = FALSE]] /\ UNCHANGED <<mgr, ctr, die>>
       \/ /\ svc[s].for = "request" /\ ~svc[s].again
          /\ svc' = [svc EXCEPT ![s] = [@ EXCEPT !.pc = "idle", !.exited = 0]] /\ Answered(s) /\ UNCHANGED <<ctr, die>>
       \/ /\ svc[s].for = "exit"
          /\ svc' = [svc EXCEPT ![s] = [@ EXCEPT !.pc = "idle", !.exited = 0, !.collecting = FALSE]]
          /\ CtrStops(s) /\ UNCHANGED mgr
    /\ UNCHANGED <<notified, made, isvcLeft>>

\* The container is gone: start it anew, or stop when it flaps.
TakeExit(s) ==
    /\ svc[s].pc = "idle" /\ IsRunning(s) /\ svc[s].exited \in notified[s]
    /\ \E quick \in BOOLEAN :
         LET flaps == IF quick THEN svc[s].flaps + 1 ELSE 0 IN
         IF flaps >= Flapping
         THEN /\ svc' = [svc EXCEPT ![s] = [@ EXCEPT !.flaps = flaps, !.exited = 0, !.collecting = FALSE]]
              /\ CtrStops(s)
         ELSE /\ svc' = [svc EXCEPT ![s] = [@ EXCEPT !.flaps = flaps, !.pc = "attach", !.for = "exit", !.again = FALSE]]
              /\ UNCHANGED <<ctr, die>>
    /\ UNCHANGED <<mgr, notified, made, isvcLeft>>
-----------------------------------------------------------------------------
(* Docker, and IService.remove as the handler of the death of a container.    *)
ContainerExits(s) ==
    /\ ctr[s].up /\ SpendIsvc("failures") /\ CtrStops(s)
    /\ UNCHANGED <<mgr, svc, notified, made>>

remove(s, id) ==
    /\ id \in die[s].fired
    /\ ctr' = [ctr EXCEPT ![s] = NoCtr]
    /\ die' = [die EXCEPT ![s] = [registered |-> @.registered \ {id},
                                  fired |-> (@.fired \ {id}) \cup (@.registered \cap ({ctr[s].id} \ {id}))]]
    /\ notified' = [notified EXCEPT ![s] = @ \cup {id}]
    /\ UNCHANGED <<mgr, svc, made, isvcLeft>>

\* The daemon restarts; the containers stay.
DaemonRestarts ==
    /\ SpendIsvc("restarts") /\ mgr' = ManagerIdle
    /\ svc' = [s \in IServices |-> NewIService]
    /\ die' = [s \in IServices |-> [registered |-> {}, fired |-> {}]]
    /\ notified' = [s \in IServices |-> {}]
    /\ UNCHANGED <<ctr, made>>
-----------------------------------------------------------------------------
isvcInit ==
    /\ mgr = ManagerIdle
    /\ svc = [s \in IServices |-> NewIService]
    /\ ctr = [s \in IServices |-> NoCtr]
    /\ die = [s \in IServices |-> [registered |-> {}, fired |-> {}]]
    /\ notified = [s \in IServices |-> {}] /\ made = [s \in IServices |-> 0]
    /\ isvcLeft = [ops |-> MaxManagerOps, failures |-> MaxIsvcFailures, restarts |-> MaxDaemonRestarts]

ServiceLoop(s) ==
    \/ TakeStart(s) \/ TakeStop(s) \/ StopEnds(s) \/ Attach(s) \/ AttachFails(s) \/ BeginManagerOp(s)
    \/ StartupPasses(s) \/ StartupFails(s) \/ StartupExits(s) \/ StartFailed(s) \/ TakeExit(s)
Handler(s) == \E id \in die[s].fired : remove(s, id)

isvcNext ==
    \/ \E op \in {"start", "stop"} : ManagerRequest(op)
    \/ startServiceGroup \/ ManagerAnswers \/ DaemonRestarts
    \/ \E s \in IServices : ServiceLoop(s) \/ Handler(s) \/ ContainerExits(s)

isvcFairness ==
    /\ WF_isvcVars(startServiceGroup \/ ManagerAnswers)
    /\ \A s \in IServices : WF_isvcVars(ServiceLoop(s)) /\ SF_isvcVars(TakeStart(s) \/ TakeStop(s)) /\ WF_isvcVars(Handler(s))
isvcSpec == isvcInit /\ [][isvcNext]_isvcVars /\ isvcFairness
-----------------------------------------------------------------------------
\* Every request to the manager is answered, although the handler of a container that died
\* may remove the next one in its place and the one who waits for that is told nothing but
\* the close of its channel.
ManagerAnswersAll == []<>(mgr = ManagerIdle)

\* A service that the manager holds for stopped has no container that runs: a start that has
\* failed, a service that flaps and a stop all end with the container down.  A container that
\* an earlier daemon has left and that was not asked for yet is the exception.
StoppedMeansDown ==
    \A s \in IServices : svc[s].pc = "idle" /\ ~IsRunning(s) /\ ctr[s].up => ctr[s].id \notin die[s].registered
=============================================================================
