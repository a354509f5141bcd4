------------------------------- MODULE CallPlans -------------------------------
(***************************************************************************)
(* How the front ends are written down.  A command of the command line     *)
(* (cli/cmd) and a handler of the web server (web) are sequential: they    *)
(* call the master and look at the answer.  Such a function is given here  *)
(* as a plan: what it calls, in which order, once or for each argument,    *)
(* and what it does when a call fails.  FrontEnds carries plans out.       *)
(***************************************************************************)
EXTENDS Naturals, Sequences

\* A call that only reads, and one that changes something.
Asks(m) == [m |-> m, tells |-> FALSE]
Tells(m) == [m |-> m, tells |-> TRUE]

\* What a failed call leads to.
\*   stop    the failure is shown and the function returns, with exit code 0
\*   fail    the failure is shown and the function ends with an error code
\*   note    the failure is shown and the function goes on
\*   ignore  the function goes on and says nothing
\*   undo    the failure is shown; the function goes on, to clean up, and ends with an error code

\* A step: calls that are made one after the other until one fails.
Once(calls, on) == [calls |-> calls, on |-> on, each |-> FALSE, when |-> "always"]
\* The same for each argument of the command.
ForAll(calls, on) == [Once(calls, on) EXCEPT !.each = TRUE]
\* A step that is only taken when the one before has failed.
Otherwise(calls, on) == [Once(calls, on) EXCEPT !.when = "failed"]

\* A step that is only taken when no error code is set.
Finally(calls, on) == [Once(calls, on) EXCEPT !.when = "well"]

\* The ways a function can go, by its flags; each needs at least min arguments.
Plan(min, steps) == {[min |-> min, steps |-> steps]}
=============================================================================
