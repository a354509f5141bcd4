---------------------------- MODULE RollingRestart ----------------------------
(***************************************************************************)
(* The rolling restart of a service (facade/service.go, rollingRestart):   *)
(* one instance after the other is told to restart, and the next is taken  *)
(* when the new container runs and its health checks pass in the cache of  *)
(* the master (health/cache.go), or when the time for it is over.          *)
(***************************************************************************)
EXTENDS Naturals, FiniteSets

CONSTANTS
    RestartInstances,           \* the number of instances
    MaxRestartFailures,  \* bound on failing calls and states that disappear
    MaxKills             \* bound on containers that die without a report to the master

ASSUME RestartAssumption == RestartInstances \in Nat

VARIABLES
    instanceState,      \* instance -> its state node: container, status, desired state, existence
    cached,     \* instance -> the container whose check passed last, 0 when there is none
    healthy,    \* instance -> its container has passed its checks
    rr,         \* the restart: where it is, the instance, the containers before, the timer
    unreported, \* history: instances whose old container died without a report
    rrExcuse,   \* history: a call for the marks failed, or a state disappeared
    rrLeft

rrVars == <<instanceState, cached, healthy, rr, unreported, rrExcuse, rrLeft>>
InstanceIds == 0 .. RestartInstances - 1
SpendRR(what) == rrLeft[what] > 0 /\ rrLeft' = [rrLeft EXCEPT ![what] = @ - 1]
RestartAt(pc) == rr' = [rr EXCEPT !.pc = pc]
-----------------------------------------------------------------------------
(* Agents and containers.                                                   *)
ContainerStops(i) ==
    /\ instanceState[i].exists /\ instanceState[i].want = "restart" /\ instanceState[i].status # "down"
    /\ instanceState' = [instanceState EXCEPT ![i].status = "down"]
    /\ healthy' = [healthy EXCEPT ![i] = FALSE]
    /\ \/ cached' = [cached EXCEPT ![i] = 0] /\ UNCHANGED <<unreported, rrLeft>>
       \/ SpendRR("kills") /\ unreported' = unreported \cup {i} /\ UNCHANGED cached
    /\ UNCHANGED <<rr, rrExcuse>>

ContainerStarts(i) ==
    /\ instanceState[i].exists /\ instanceState[i].status = "down"
    /\ instanceState' = [instanceState EXCEPT ![i].status = "running", ![i].want = "run", ![i].container = @ + 1]
    /\ UNCHANGED <<cached, healthy, rr, unreported, rrExcuse, rrLeft>>

CheckPasses(i) ==
    /\ instanceState[i].exists /\ instanceState[i].status \notin {"down"} /\ ~healthy[i]
    /\ healthy' = [healthy EXCEPT ![i] = TRUE] /\ cached' = [cached EXCEPT ![i] = instanceState[i].container]
    /\ UNCHANGED <<instanceState, rr, unreported, rrExcuse, rrLeft>>

\* An entry of the cache expires; the next check of a healthy container renews it.
EntryExpires(i) ==
    /\ cached[i] # 0 /\ cached[i] # instanceState[i].container
    /\ cached' = [cached EXCEPT ![i] = 0]
    /\ UNCHANGED <<instanceState, healthy, rr, unreported, rrExcuse, rrLeft>>

StateDisappears(i) ==
    /\ instanceState[i].exists /\ SpendRR("failures")
    /\ instanceState' = [instanceState EXCEPT ![i].exists = FALSE] /\ rrExcuse' = TRUE
    /\ UNCHANGED <<cached, healthy, rr, unreported>>
-----------------------------------------------------------------------------
(* The restart.                                                             *)
\* All instances are marked; a call that fails ends the restart, and the marks made so far stay.
MarkPending ==
    /\ rr.pc = "mark"
    /\ \/ /\ rr.i < RestartInstances /\ instanceState[rr.i].exists
          /\ instanceState' = [instanceState EXCEPT ![rr.i].status = "pending"] /\ rr' = [rr EXCEPT !.i = @ + 1]
          /\ UNCHANGED <<rrExcuse, rrLeft>>
       \/ rr.i < RestartInstances /\ (IF instanceState[rr.i].exists THEN SpendRR("failures") ELSE UNCHANGED rrLeft) /\ RestartAt("done") /\ rrExcuse' = TRUE /\ UNCHANGED instanceState
       \/ rr.i = RestartInstances /\ rr' = [rr EXCEPT !.pc = "top", !.i = 0] /\ UNCHANGED <<instanceState, rrExcuse, rrLeft>>
    /\ UNCHANGED <<cached, healthy, unreported>>

\* cancelled by the state manager, or the next instance with a fresh timer.
NextInstance ==
    /\ rr.pc = "top"
    /\ IF rr.cancelled THEN RestartAt("unmark")
       ELSE IF rr.i = RestartInstances THEN rr' = [rr EXCEPT !.pc = "unmark", !.running = (rr.punctual = RestartInstances)]
       ELSE rr' = [rr EXCEPT !.pc = "look", !.over = FALSE]
    /\ UNCHANGED <<instanceState, cached, healthy, unreported, rrExcuse, rrLeft>>

RememberContainer ==
    /\ rr.pc = "look"
    /\ IF instanceState[rr.i].exists THEN rr' = [rr EXCEPT !.pc = "restart", !.old = instanceState[rr.i].container] ELSE RestartAt("unmark")
    /\ UNCHANGED <<instanceState, cached, healthy, unreported, rrExcuse, rrLeft>>

RestartInstance ==
    /\ rr.pc = "restart"
    /\ \/ /\ instanceState[rr.i].exists
          /\ instanceState' = [instanceState EXCEPT ![rr.i].want = "restart"]
          /\ rr' = [rr EXCEPT !.pc = "wait", !.next = @ + 1] /\ UNCHANGED rrLeft
       \/ (IF instanceState[rr.i].exists THEN SpendRR("failures") ELSE UNCHANGED rrLeft) /\ RestartAt("unmark") /\ UNCHANGED instanceState
    /\ UNCHANGED <<cached, healthy, unreported, rrExcuse>>

\* The wait for the new container, and then for its health; the last one need not be healthy.
\* MonitorState: what the watches on the nodes of the instance have told last.
MonitorState == instanceState[rr.i]
anyContainer == ~MonitorState.exists \/ MonitorState.status \in {"running", "pending"}
checkContainer == ~MonitorState.exists \/ (MonitorState.container # rr.old /\ MonitorState.status = "running")
WaitInstance ==
    /\ rr.pc = "wait" /\ (rr.over \/ checkContainer)
    /\ RestartAt("ready")
    /\ UNCHANGED <<instanceState, cached, healthy, unreported, rrExcuse, rrLeft>>

getInstanceHealth == cached[rr.i] # 0

Ready ==
    /\ rr.pc = "ready" /\ (rr.over \/ rr.i = RestartInstances - 1 \/ getInstanceHealth)
    /\ rr' = [rr EXCEPT !.pc = "top", !.i = @ + 1, !.punctual = IF rr.over THEN @ ELSE @ + 1, !.late = @ \/ rr.over]
    /\ UNCHANGED <<instanceState, cached, healthy, unreported, rrExcuse, rrLeft>>

\* The timer of the instance, and a later request for the service.
TimerFires ==
    /\ rr.pc \in {"look", "restart", "wait", "ready"} /\ ~rr.over
    /\ rr' = [rr EXCEPT !.over = TRUE]
    /\ UNCHANGED <<instanceState, cached, healthy, unreported, rrExcuse, rrLeft>>

Cancelled ==
    /\ rr.pc \notin {"unmark", "done"} /\ ~rr.cancelled /\ SpendRR("failures")
    /\ rr' = [rr EXCEPT !.cancelled = TRUE, !.over = (rr.pc \in {"look", "restart", "wait", "ready"})]
    /\ UNCHANGED <<instanceState, cached, healthy, unreported, rrExcuse>>

\* Deferred: the marks of the instances that were not restarted are taken back.
Unmark ==
    /\ rr.pc = "unmark"
    /\ IF rr.next = RestartInstances THEN RestartAt("done") /\ UNCHANGED <<instanceState, rrExcuse, rrLeft>>
       ELSE /\ rr' = [rr EXCEPT !.next = @ + 1]
            /\ \/ instanceState' = [instanceState EXCEPT ![rr.next].status = IF instanceState[rr.next].exists THEN "running" ELSE @] /\ UNCHANGED <<rrExcuse, rrLeft>>
               \/ SpendRR("failures") /\ rrExcuse' = TRUE /\ UNCHANGED instanceState
    /\ UNCHANGED <<cached, healthy, unreported>>
-----------------------------------------------------------------------------
rrInit ==
    /\ instanceState = [i \in InstanceIds |-> [container |-> 1, status |-> "running", want |-> "run", exists |-> TRUE]]
    /\ cached = [i \in InstanceIds |-> 1] /\ healthy = [i \in InstanceIds |-> TRUE]
    /\ rr = [pc |-> "mark", i |-> 0, next |-> 0, old |-> 0, over |-> FALSE, cancelled |-> FALSE, punctual |-> 0, late |-> FALSE, running |-> FALSE]
    /\ unreported = {} /\ rrExcuse = FALSE
    /\ rrLeft = [failures |-> MaxRestartFailures, kills |-> MaxKills]

RestartStep ==
    MarkPending \/ NextInstance \/ RememberContainer \/ RestartInstance \/ WaitInstance \/ Ready \/ TimerFires \/ Unmark
AgentStep(i) == ContainerStops(i) \/ ContainerStarts(i) \/ CheckPasses(i)
rrNext == RestartStep \/ Cancelled \/ \E i \in InstanceIds : AgentStep(i) \/ EntryExpires(i) \/ StateDisappears(i)
rrFairness == WF_rrVars(RestartStep) /\ \A i \in InstanceIds : WF_rrVars(AgentStep(i))
rrSpec == rrInit /\ [][rrNext]_rrVars /\ rrFairness
-----------------------------------------------------------------------------
Away(i) == instanceState[i].exists /\ (instanceState[i].want = "restart" \/ ~healthy[i])
TimedOut == rr.late \/ rr.over

\* A restart takes one instance away at a time: the next one is told to restart only when
\* the one before is back and has passed its health checks, unless its time was over, its
\* state was gone, or its old container died without a report and left a passed check behind.
OneAtATime ==
    \A i, j \in InstanceIds : i < j /\ Away(i) /\ Away(j) /\ instanceState[j].want = "restart" => TimedOut \/ rrExcuse \/ i \in unreported

\* The service is called running again only when every instance has a new container.
RunningMeansRestarted ==
    rr.running => \A i \in InstanceIds : rrExcuse \/ instanceState[i].container = 2

\* After the end no instance is left marked for a restart that will not come, unless the
\* call that makes or takes back the mark has failed.
NoMarkLeft == rr.pc = "done" => rrExcuse \/ \A i \in InstanceIds : instanceState[i].status # "pending" \/ instanceState[i].want = "restart"

\* What a rolling restart keeps to at every moment (Facade.rollingRestart).
RestartSound == OneAtATime /\ RunningMeansRestarted /\ NoMarkLeft

=============================================================================
