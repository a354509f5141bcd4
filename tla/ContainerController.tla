------------------------- MODULE ContainerController -------------------------
(***************************************************************************)
(* The controller that runs in every container (container/controller.go):  *)
(* it fetches the endpoints of the control center, waits for the           *)
(* prerequisites, starts the service as a subprocess                       *)
(* (commons/subprocess), restarts it, watches the agent, the storage and   *)
(* the health checks (health/check.go), and shuts the service down when it *)
(* is told to.                                                             *)
(***************************************************************************)
EXTENDS Naturals, FiniteSets

CONSTANTS
    MaxExits,        \* bound on exits of the service that it makes by itself
    KillCountLimit   \* counted failures of a health check after which the container is killed

VARIABLES
    ctl,      \* where Run is, and its select: open channels, the two timers, Autorestart, PIDFile
    fetch,    \* the goroutine of handleControlCenterImports
    prereqs,  \* the goroutine of checkPrereqs
    proc,     \* the service process and its commandExit channel
    signals,  \* sigc has a signal
    deadChan, \* closed channels: rpcDead, storageDead
    ccCheck,    \* the health check: what it does and its KillCounter
    ccStatus,   \* what the master has in its cache for the instance
    closers,  \* the two goroutines that wait on c.closing
    told,     \* history: the controller was asked to stop
    ccLeft

ccVars == <<ctl, fetch, prereqs, proc, signals, deadChan, ccCheck, ccStatus, closers, told, ccLeft>>

Alive == ctl.at # "ended"
Ended(how) == ctl' = [ctl EXCEPT !.at = "ended", !.how = how]
InLoop == ctl.at = "loop"
Closers == {"keys", "endpoints"}
-----------------------------------------------------------------------------
(* Outside: signals, the agent, the storage.                                *)
\* Before Run has called signal.Notify a signal just ends the process.
Signalled ==
    /\ Alive /\ ~signals /\ ~told /\ told' = TRUE
    /\ IF ctl.at = "new" THEN Ended("signal") /\ UNCHANGED signals ELSE signals' = TRUE /\ UNCHANGED ctl
    /\ UNCHANGED <<fetch, prereqs, proc, deadChan, ccCheck, ccStatus, closers, ccLeft>>

\* Three pings fail one after the other; a mount is stale.
CcGone(what) ==
    /\ Alive /\ ctl.at # "new" /\ what \notin deadChan
    /\ deadChan' = deadChan \cup {what} /\ told' = TRUE
    /\ UNCHANGED <<ctl, fetch, prereqs, proc, signals, ccCheck, ccStatus, closers, ccLeft>>

\* NewController; an error of it ends the process.
NewController(autorestart, pidFile) ==
    /\ ctl.at = "new"
    /\ \/ ctl' = [ctl EXCEPT !.at = "imports", !.autorestart = autorestart, !.pidFile = pidFile]
       \/ Ended("error")
    /\ UNCHANGED <<fetch, prereqs, proc, signals, deadChan, ccCheck, ccStatus, closers, told, ccLeft>>
-----------------------------------------------------------------------------
(* handleControlCenterImports: one goroutine asks the agent, Run waits.      *)
\* The answer; the goroutine has left the loop in which it listens for the timeout.
FetchAnswered ==
    /\ Alive /\ ctl.at \in {"imports", "giveup"} /\ fetch = "asking" /\ fetch' = "answered"
    /\ UNCHANGED <<ctl, prereqs, proc, signals, deadChan, ccCheck, ccStatus, closers, told, ccLeft>>

\* It looks at the channel and sends, or leaves when the channel is closed.
FetchLooks ==
    /\ Alive /\ fetch = "answered" /\ fetch' = IF ctl.at = "giveup" THEN "left" ELSE "sending"
    /\ UNCHANGED <<ctl, prereqs, proc, signals, deadChan, ccCheck, ccStatus, closers, told, ccLeft>>

\* A send on the channel that was closed in between is a panic.
FetchSends ==
    /\ Alive /\ fetch = "sending" /\ fetch' = "left"
    /\ IF ctl.at = "giveup" THEN Ended("panic") ELSE ctl' = [ctl EXCEPT !.at = "prepare"]
    /\ UNCHANGED <<prereqs, proc, signals, deadChan, ccCheck, ccStatus, closers, told, ccLeft>>

\* One minute is over, or the agent is gone: epchan is closed.
ImportsGiveUp ==
    /\ ctl.at = "imports" /\ ctl' = [ctl EXCEPT !.at = "giveup"]
    /\ UNCHANGED <<fetch, prereqs, proc, signals, deadChan, ccCheck, ccStatus, closers, told, ccLeft>>

\* timeout <- struct{}{}: only the loop of the goroutine receives it.
ImportsFail ==
    /\ ctl.at = "giveup" /\ fetch = "asking" /\ fetch' = "left" /\ Ended("error")
    /\ UNCHANGED <<prereqs, proc, signals, deadChan, ccCheck, ccStatus, closers, told, ccLeft>>

LoopBegins ==
    /\ ctl.at = "prepare" /\ ctl' = [ctl EXCEPT !.at = "loop"]
    /\ prereqs' = "checking" /\ ccCheck' = [ccCheck EXCEPT !.does = "waits"]
    /\ UNCHANGED <<fetch, proc, signals, deadChan, ccStatus, closers, told, ccLeft>>

\* checkPrereqs: all scripts pass, or the agent is gone and glog.Fatalf ends the process.
PrereqsPass ==
    /\ Alive /\ prereqs = "checking" /\ prereqs' = "passed"
    /\ UNCHANGED <<ctl, fetch, proc, signals, deadChan, ccCheck, ccStatus, closers, told, ccLeft>>

PrereqsFatal ==
    /\ Alive /\ prereqs = "checking" /\ "rpc" \in deadChan /\ Ended("fatal")
    /\ UNCHANGED <<fetch, prereqs, proc, signals, deadChan, ccCheck, ccStatus, closers, told, ccLeft>>
-----------------------------------------------------------------------------
(* subprocess.Instance.                                                     *)
ProcessRuns ==
    /\ Alive /\ proc = "forked" /\ proc' = "up"
    /\ UNCHANGED <<ctl, fetch, prereqs, signals, deadChan, ccCheck, ccStatus, closers, told, ccLeft>>

\* By itself, or because of the signal it was sent; it need not.
ServiceExits ==
    /\ Alive /\ proc = "up" /\ proc' = "exited"
    /\ \/ ctl.killing /\ UNCHANGED ccLeft
       \/ ~ctl.killing /\ ccLeft > 0 /\ ccLeft' = ccLeft - 1
    /\ UNCHANGED <<ctl, fetch, prereqs, signals, deadChan, ccCheck, ccStatus, closers, told>>

\* Notify: the loop of the instance signals a command that may not have a process yet.
NotifyPanics == proc = "forked"
-----------------------------------------------------------------------------
(* The select of Run.                                                       *)
\* shutdownService: with a PIDFile, or a service, a signal is sent, everything but the exit
\* of the service and the deadman timer is cleared and the health checks are ended; without
\* them there is nothing to wait for.
shutdownServiceUntimed ==
    IF ctl.pidFile \/ proc \in {"forked", "up"}
    THEN /\ ctl' = [ctl EXCEPT !.killing = TRUE, !.autorestart = FALSE, !.start = FALSE]
         /\ ccCheck' = [ccCheck EXCEPT !.cancel = TRUE]
    ELSE ctl' = [ctl EXCEPT !.at = "close", !.autorestart = FALSE] /\ UNCHANGED ccCheck

shutdownServiceKeepsStart ==
    IF ctl.pidFile \/ proc \in {"forked", "up"}
    THEN /\ ctl' = [ctl EXCEPT !.killing = TRUE, !.deadman = TRUE, !.autorestart = FALSE]
         /\ ccCheck' = [ccCheck EXCEPT !.cancel = TRUE]
    ELSE ctl' = [ctl EXCEPT !.at = "close", !.autorestart = FALSE] /\ UNCHANGED ccCheck

shutdownService ==
    IF ctl.pidFile \/ proc \in {"forked", "up"}
    THEN /\ ctl' = [ctl EXCEPT !.killing = TRUE, !.deadman = TRUE, !.autorestart = FALSE, !.start = FALSE]
         /\ ccCheck' = [ccCheck EXCEPT !.cancel = TRUE]
    ELSE ctl' = [ctl EXCEPT !.at = "close", !.autorestart = FALSE] /\ UNCHANGED ccCheck

\* The shutdown of a service whose process is not there yet may be the end of the controller.
ShutsDown ==
    \/ shutdownService
    \/ NotifyPanics /\ ~ctl.pidFile /\ Ended("panic") /\ UNCHANGED ccCheck

TakesSignal ==
    /\ InLoop /\ ~ctl.killing /\ signals /\ signals' = FALSE /\ ShutsDown
    /\ UNCHANGED <<fetch, prereqs, proc, deadChan, ccStatus, closers, told, ccLeft>>

TakesGone ==
    /\ InLoop /\ ~ctl.killing /\ deadChan # {} /\ ShutsDown
    /\ UNCHANGED <<fetch, prereqs, proc, signals, deadChan, ccStatus, closers, told, ccLeft>>

\* exitAfter: SIGKILL, and out.
DeadmanFires ==
    /\ InLoop /\ ctl.deadman
    /\ proc' = IF proc = "none" \/ ctl.pidFile THEN proc ELSE "exited"
    /\ ctl' = [ctl EXCEPT !.at = "close"]
    /\ UNCHANGED <<fetch, prereqs, signals, deadChan, ccCheck, ccStatus, closers, told, ccLeft>>

TakesPrereqs ==
    /\ InLoop /\ ~ctl.killing /\ prereqs = "passed" /\ prereqs' = "taken"
    /\ ctl' = [ctl EXCEPT !.start = TRUE]
    /\ UNCHANGED <<fetch, proc, signals, deadChan, ccCheck, ccStatus, closers, told, ccLeft>>

TakesExit ==
    /\ InLoop /\ proc = "exited" /\ proc' = "none"
    /\ ctl' = IF ctl.autorestart THEN [ctl EXCEPT !.start = TRUE] ELSE [ctl EXCEPT !.at = "close"]
    /\ UNCHANGED <<fetch, prereqs, signals, deadChan, ccCheck, ccStatus, closers, told, ccLeft>>

StartFires ==
    /\ InLoop /\ ctl.start /\ ctl' = [ctl EXCEPT !.start = FALSE]
    /\ proc' = "forked"
    /\ UNCHANGED <<fetch, prereqs, signals, deadChan, ccCheck, ccStatus, closers, told, ccLeft>>

\* After the loop: Close reaches one of the two goroutines that wait for it, the master
\* forgets the health of the instance, healthExit is closed and the process ends.
ClosesAndReports ==
    /\ ctl.at = "close"
    /\ \E w \in Closers : closers' = closers \cup {w}
    /\ \/ ccStatus' = "none"
       \/ UNCHANGED ccStatus
    /\ Ended("run")
    /\ UNCHANGED <<fetch, prereqs, proc, signals, deadChan, ccCheck, told, ccLeft>>
-----------------------------------------------------------------------------
(* HealthCheck.Ping: run the script, count the failures, report.             *)
CheckRuns(result) ==
    /\ Alive /\ ccCheck.does = "waits" /\ ~ccCheck.cancel
    /\ ccCheck' = [ccCheck EXCEPT !.does = "reports", !.result = result,
                              !.count = CASE result = "killcode" -> IF @ < KillCountLimit THEN @ + 1 ELSE @
                                          [] result = "timeout" -> @
                                          [] OTHER -> 0]
    /\ UNCHANGED <<ctl, fetch, prereqs, proc, signals, deadChan, ccStatus, closers, told, ccLeft>>

\* The report; with the KillFlag the controller exits from here.
CheckReports ==
    /\ Alive /\ ccCheck.does = "reports"
    /\ \/ ccStatus' = IF ccCheck.result = "ok" THEN "ok" ELSE "failed"
       \/ "rpc" \in deadChan /\ UNCHANGED ccStatus
    /\ ccCheck' = [ccCheck EXCEPT !.does = "waits"]
    /\ IF ccCheck.count >= KillCountLimit THEN Ended("health") ELSE UNCHANGED ctl
    /\ UNCHANGED <<fetch, prereqs, proc, signals, deadChan, closers, told, ccLeft>>

CheckCancelled ==
    /\ Alive /\ ccCheck.does = "waits" /\ ccCheck.cancel /\ ccCheck' = [ccCheck EXCEPT !.does = "none"]
    /\ UNCHANGED <<ctl, fetch, prereqs, proc, signals, deadChan, ccStatus, closers, told, ccLeft>>
-----------------------------------------------------------------------------
ccInit ==
    /\ ctl = [at |-> "new", how |-> "none", start |-> FALSE, deadman |-> FALSE, killing |-> FALSE,
              autorestart |-> FALSE, pidFile |-> FALSE]
    /\ fetch = "asking" /\ prereqs = "none" /\ proc = "none" /\ signals = FALSE /\ deadChan = {}
    /\ ccCheck = [does |-> "none", result |-> "none", count |-> 0, cancel |-> FALSE]
    /\ ccStatus = "none" /\ closers = {} /\ told = FALSE /\ ccLeft = MaxExits

Loop == TakesSignal \/ TakesGone \/ TakesPrereqs \/ TakesExit \/ StartFires
Fetch == FetchAnswered \/ FetchLooks \/ FetchSends
RunStep == ImportsGiveUp \/ ImportsFail \/ LoopBegins \/ Loop \/ ClosesAndReports

ccNext ==
    \/ Signalled \/ CcGone("rpc") \/ CcGone("storage") \/ Fetch \/ RunStep \/ DeadmanFires
    \/ \E a, p \in BOOLEAN : NewController(a, p)
    \/ PrereqsPass \/ PrereqsFatal \/ ProcessRuns \/ ServiceExits
    \/ \E r \in {"ok", "failed", "killcode", "timeout"} : CheckRuns(r)
    \/ CheckReports \/ CheckCancelled

\* Run, its timers, its goroutines and the process loop go on; neither the service nor the
\* prerequisites nor the agent need ever do anything.
ccFairness ==
    /\ WF_ccVars(RunStep) /\ WF_ccVars(FetchLooks \/ FetchSends) /\ WF_ccVars(DeadmanFires)
    /\ SF_ccVars(TakesSignal \/ TakesGone) /\ WF_ccVars(ProcessRuns) /\ WF_ccVars(CheckReports)
ccSpec == ccInit /\ [][ccNext]_ccVars /\ ccFairness
-----------------------------------------------------------------------------
\* Run is in the send that nobody will receive.
Stuck == ctl.at = "giveup" /\ fetch = "left"

\* A controller that is asked to stop ends, even when its service ignores every signal or
\* is between two starts; only the send to the goroutine that fetches the endpoints can hold
\* it for ever.
ToldEnds == []<>(told => ctl.at \in {"ended", "new"} \/ Stuck)

\* The service is never started after the controller has begun to shut it down, however the
\* restart timer, the prerequisites and the signals interleave.
NoStartAfterShutdown == [][ctl.killing => ~(proc = "none" /\ proc' = "forked")]_ccVars

=============================================================================
