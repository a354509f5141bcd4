------------------------------- MODULE FrontEnds -------------------------------
(***************************************************************************)
(* A front end at work: one command of the command line or one request of  *)
(* the web server carries out its plan.  The master may fail a call, and   *)
(* the answer to a call may be lost after the call has taken effect.       *)
(***************************************************************************)
EXTENDS CommandLine, WebHandlers

CONSTANTS MaxArgs,        \* how many arguments a command is given at most
          MaxFeFailures   \* how many calls may fail or lose their answer

ASSUME FeAssumption == MaxArgs \in Nat /\ MaxFeFailures \in Nat

VARIABLE fe
feVars == <<fe>>

FePlans == CliCommands \cup WebRequests

\* Calls that make the master replace the key of a host: only the answer holds the new one.
\* The others hand the key on: to the host, to a file or to the browser.
IssuesKey == {"AddHost", "AddHostPrivate", "ResetHostKey"}
KeepsKey == {"RegisterRemoteHost", "WriteDelegateKey", "RegisterHostKeys", "WriteJson"}

\* The answer itself is not a call: whether it arrives is known to who asked.
CanFail(c) == c.m # "WriteJson"

\* The call at index k of a step or a later one of the step hands the new key on, and is reached
\* unless a failure is shown before.
Hands(s, k) ==
    \E l \in k .. Len(s.calls) :
       s.calls[l].m \in KeepsKey /\ (s.on # "ignore" \/ \A h \in k .. l : ~CanFail(s.calls[h]))

\* The steps of a plan look no service up after the first change.
LooksUpFirst(steps) ==
    \A i, j \in DOMAIN steps : \A k \in DOMAIN steps[i].calls, l \in DOMAIN steps[j].calls :
       steps[i].calls[k].tells /\ steps[j].calls[l].m = "ResolveServicePath" =>
           j < i \/ (j = i /\ l <= k /\ ~steps[i].each)

\* A new key is handed on by the rest of its step or by a step that is always taken.
HandsOn(steps) ==
    \A i \in DOMAIN steps : \A k \in DOMAIN steps[i].calls :
       steps[i].calls[k].m \in IssuesKey =>
           /\ steps[i].on # "ignore"
           /\ \/ Hands(steps[i], k + 1)
              \/ \E j \in DOMAIN steps : j > i /\ Hands(steps[j], 1) /\ ~steps[j].each /\ steps[j].when # "failed"

\* What the tables of plans are like.
PlanSteps ==
    [calls : Seq([m : STRING, tells : BOOLEAN]) \ {<<>>}, on : {"stop", "fail", "note", "ignore", "undo"},
     each : BOOLEAN, when : {"always", "failed", "well"}]
ASSUME PlansAssumption ==
    \A p \in FePlans :
       /\ p.steps \in Seq(PlanSteps)
       /\ LooksUpFirst(p.steps) /\ HandsOn(p.steps)

feInit ==
    fe = [plan |-> <<>>, n |-> 0, step |-> 0, arg |-> 1, call |-> 1, state |-> "idle", failed |-> FALSE,
          changed |-> FALSE, missed |-> FALSE, said |-> FALSE, code |-> 0, key |-> "none", failures |-> 0]

StepNow == fe.plan[fe.step]
CallNow == StepNow.calls[fe.call]
Steps(s) == IF s.each THEN fe.n ELSE 1

\* The next step with something to do, given whether the one before has failed.
Follows(f, failed) ==
    LET i == f.step
        next == {j \in i + 1 .. Len(f.plan) :
                   /\ Steps(f.plan[j]) > 0
                   /\ f.plan[j].when = "failed" => failed /\ j = i + 1
                   /\ f.plan[j].when = "well" => f.code = 0}
    IN IF next = {} THEN 0 ELSE CHOOSE j \in next : \A k \in next : j <= k

\* The step is over for this argument: the next argument, the next step, or the end.
GoOn(f, failed) ==
    LET more == f.arg < Steps(StepNow)
        j == Follows(f, failed)
    IN IF more THEN [f EXCEPT !.arg = @ + 1, !.call = 1]
       ELSE IF j = 0 THEN [f EXCEPT !.state = "ended"]
       ELSE [f EXCEPT !.step = j, !.arg = 1, !.call = 1]

feBegin ==
    /\ fe.state = "idle"
    /\ \E p \in FePlans, n \in 0 .. MaxArgs :
         fe' = IF n < p.min THEN [fe EXCEPT !.state = "ended", !.n = n, !.said = TRUE]
               ELSE IF \A i \in 1 .. Len(p.steps) : p.steps[i].each /\ n = 0 THEN [fe EXCEPT !.state = "ended", !.n = n]
               ELSE [fe EXCEPT !.state = "runs", !.plan = p.steps, !.n = n,
                               !.step = CHOOSE i \in 1 .. Len(p.steps) :
                                          /\ p.steps[i].each => n > 0
                                          /\ \A k \in 1 .. i - 1 : p.steps[k].each /\ n = 0]

TookEffect(f) ==
    [f EXCEPT !.changed = @ \/ CallNow.tells,
              !.key = IF CallNow.m \in KeepsKey /\ @ = "issued" THEN "kept" ELSE @]

feCallOk ==
    /\ fe.state = "runs"
    /\ LET done == [TookEffect(fe) EXCEPT !.key = IF CallNow.m \in IssuesKey THEN "issued" ELSE @]
       IN fe' = IF fe.call < Len(StepNow.calls) THEN [done EXCEPT !.call = @ + 1] ELSE GoOn(done, FALSE)

\* A mistake: only the failure of the last argument is shown.
ShowsTheLast(f) == StepNow.on # "ignore" /\ f.arg >= Steps(StepNow)
\* Each failure is shown where it happens, except the ones that do not matter to the function.
Shows(f) == StepNow.on # "ignore"

\* What the command does with a failed call.
React(f) ==
    LET told == [f EXCEPT !.missed = @ \/ (CallNow.tells /\ StepNow.on # "ignore"), !.said = @ \/ Shows(f),
                          !.failures = @ + 1]
    IN CASE StepNow.on = "stop" -> [told EXCEPT !.state = "ended"]
         [] StepNow.on = "fail" -> [told EXCEPT !.state = "ended", !.code = 1]
         [] StepNow.on = "undo" -> GoOn([told EXCEPT !.code = 1], TRUE)
         [] OTHER -> GoOn(told, TRUE)

feCallFails ==
    /\ fe.state = "runs" /\ fe.failures < MaxFeFailures /\ CanFail(CallNow)
    /\ fe' = React(fe)

\* The call has been carried out, but its answer, the new key with it, does not arrive.
feAnswerLost ==
    /\ fe.state = "runs" /\ fe.failures < MaxFeFailures /\ CanFail(CallNow) /\ CallNow.tells
    /\ fe' = React([TookEffect(fe) EXCEPT !.key = IF CallNow.m \in IssuesKey THEN "issued" ELSE @])

feNext == feBegin \/ feCallOk \/ feCallFails \/ feAnswerLost
feSpec == feInit /\ [][feNext]_feVars

-----------------------------------------------------------------------------
\* What is still ahead of the command: the rest of this step and the later steps.
CallsAhead ==
    {StepNow.calls[k].m : k \in fe.call .. Len(StepNow.calls)}
      \cup (IF fe.arg < Steps(StepNow) THEN {StepNow.calls[k].m : k \in 1 .. Len(StepNow.calls)} ELSE {})
      \cup UNION {{fe.plan[i].calls[k].m : k \in 1 .. Len(fe.plan[i].calls)} : i \in fe.step + 1 .. Len(fe.plan)}

\* Every service that a command names is looked up before the first change is made, so that a
\* keyword that means none or several services stops the command while nothing has happened.
ResolvedFirst == fe.state = "runs" /\ fe.changed => "ResolveServicePath" \notin CallsAhead

\* A change that failed, or whose answer was lost, is shown, unless the code has decided that
\* it does not matter; and a command never ends with an error code and nothing said.
FailureIsReported == fe.state = "ended" /\ (fe.missed \/ fe.code # 0) => fe.said

\* A new key makes the old one useless: when the command ends and nobody has the new key,
\* the user has been told that something went wrong.
KeyLossIsTold == fe.state = "ended" /\ fe.key = "issued" => fe.said

\* What holds of a front end.
FrontEndsSound == ResolvedFirst /\ FailureIsReported /\ KeyLossIsTold
=============================================================================
