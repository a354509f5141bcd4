------------------------ MODULE ServiceStateManager ------------------------
(***************************************************************************)
(* The batch service state manager of the master                           *)
(* (scheduler/servicestatemanager/servicestatemanager.go) for one tenant,  *)
(* with the facade calls it makes (facade/service.go).  A request to       *)
(* start, stop, restart or pause a set of services becomes a batch; the    *)
(* batch is reconciled with the two queues of the tenant (one for starts   *)
(* and restarts, one for stops and pauses), split by level and merged into *)
(* its queue.  One loop per queue takes the batches one by one, schedules  *)
(* them and waits for them; a service asked for twice is expedited in a    *)
(* goroutine of its own.                                                   *)
(*                                                                         *)
(* A CancellableService is an entry [id, n]: the service and the number of *)
(* the request that made it.  Its channel is closed when the entry is in   *)
(* "closed".                                                               *)
(***************************************************************************)
EXTENDS Integers, FiniteSets, Sequences

CONSTANTS
    Services,
    StartLevel,     \* [Services -> Nat]
    ShutdownLevel,  \* [Services -> Nat], EmergencyShutdownLevel
    Orders,         \* the [ds, em] pairs that callers ask for
    MaxRequests,    \* bound on the number of calls of ScheduleServices
    MaxFailures     \* bound on failed writes to the store or the coordinator

LevelWidth == 16    \* the levels are unsigned: 0 - 1 is the largest of them

ASSUME LevelsAssumption ==
    \A s \in Services : StartLevel[s] \in 0 .. LevelWidth - 1
                     /\ ShutdownLevel[s] \in 0 .. LevelWidth - 1

\* Only EmergencyStopService asks for an emergency, and it asks for a stop.
ASSUME OrdersAssumption ==
    /\ Orders \subseteq [ds : {"Run", "Stop", "Restart", "Pause"}, em : BOOLEAN]
    /\ \A order \in Orders : order.em => order.ds = "Stop"

ASSUME RequestsAssumption == MaxRequests \in Nat

VARIABLES
    batchQueue,      \* BatchQueue of each queue
    current,    \* CurrentBatch of each queue
    worker,     \* the queue loops, and the goroutine of each request
    closed,     \* the entries whose channel is closed
    entered,    \* history: the entries that were ever put in a queue
    requests,   \* the number of calls so far
    asked,      \* the call in progress: its services with the state they were read in
    shown,      \* CurrentState of each service in the store
    marked,     \* history: the last state that was not written by a wait thread
    waits,      \* currentStateWaits: the thread that follows each service
    stored,     \* DesiredState of each service in the store
    flagged,    \* EmergencyShutdown of each service in the store
    placed,     \* the desired state in the coordinator
    resync,     \* services that a goroutine is to pass to SyncCurrentStates
    failures

ssmVars == <<batchQueue, current, worker, closed, entered, requests, asked, shown, marked, waits,
             stored, flagged, placed, resync, failures>>

QueueNames == {"Run", "Stop"}
QueueLoop(q) == <<q, 0>>
Goroutine(n) == <<"fast", n>>
Workers == {QueueLoop(q) : q \in QueueNames} \cup {Goroutine(n) : n \in 1 .. MaxRequests}
NoBatch == [svcs |-> {}, ds |-> "Stop", em |-> FALSE]
NoWait  == [ds |-> "none", em |-> FALSE, phase |-> "none"]
Resting == [pc |-> "gone", batch |-> NoBatch, open |-> {}, snap |-> <<>>, bad |-> {}]

Ids(entries) == {e.id : e \in entries}
IsQueue(w) == w[2] = 0

Pending(ds, em)    == <<"pending", ds, em /\ ds = "Stop">>
Transition(ds, em) == <<"moving",  ds, em /\ ds = "Stop">>
Final(ds, em)      == <<"final", IF ds = "Restart" THEN "Run" ELSE ds, em /\ ds = "Stop">>

DesiredCancelsPending(old, new) ==
    \/ old \in {"Run", "Restart"} /\ new = "Run"
    \/ old \in {"Stop", "Pause"} /\ new = "Stop"

DesiredStateIsRedundant(ds, em, state) ==
    \/ state \in {Pending(ds, em), Transition(ds, em)}
    \/ ds # "Restart" /\ state = Final(ds, em)
-----------------------------------------------------------------------------
(* Levels.  ByStartLevel, ByReverseStartLevel and ByEmergencyShutdown sort  *)
(* by level - 1, so that level 0 counts as the highest.                     *)
Rank(level) == (level + LevelWidth - 1) % LevelWidth

OrderKey(s, ds, em) ==
    CASE ds = "Stop" /\ em ->
           Rank(ShutdownLevel[s]) * LevelWidth
             + (IF ShutdownLevel[s] = 0 THEN LevelWidth - 1 - Rank(StartLevel[s]) ELSE 0)
      [] ds \in {"Run", "Restart"} -> Rank(StartLevel[s])
      [] OTHER -> LevelWidth - 1 - Rank(StartLevel[s])

\* The numbers of a finite set, the smallest first.
Ascending(S) ==
    [i \in 1 .. Cardinality(S) |-> CHOOSE x \in S : Cardinality({y \in S : y < x}) = i - 1]

\* Sorts the services of some batches and regroups them, one batch per level.
MergeBatches(batches, ds, em) ==
    LET all  == UNION {batches[i].svcs : i \in DOMAIN batches}
        keys == Ascending({OrderKey(e.id, ds, em) : e \in all})
    IN  [i \in DOMAIN keys |->
           [svcs |-> {e \in all : OrderKey(e.id, ds, em) = keys[i]}, ds |-> ds, em |-> em]]

Alike(b, c) == b.ds = c.ds /\ b.em = c.em

\* Merges an emergency with the batches like it at the front of the queue.
mergeEmergencyBatch(q, b) ==
    LET n == CHOOSE k \in 0 .. Len(q) : /\ \A i \in 1 .. k : Alike(b, q[i])
                                        /\ k = Len(q) \/ ~ Alike(b, q[k + 1])
    IN  MergeBatches(Append(SubSeq(q, 1, n), b), b.ds, b.em) \o SubSeq(q, n + 1, Len(q))

\* Merges any other batch with the ones like it at the end of the queue.
mergeBatch(q, b) ==
    LET n == CHOOSE k \in 0 .. Len(q) : /\ \A i \in k + 1 .. Len(q) : Alike(b, q[i])
                                        /\ k = 0 \/ ~ Alike(b, q[k])
    IN  SubSeq(q, 1, n) \o MergeBatches(Append(SubSeq(q, n + 1, Len(q)), b), b.ds, b.em)
-----------------------------------------------------------------------------
(* What becomes of a service of a new batch nb that an older batch b holds  *)
(* too (the branches of ServiceStateChangeBatch.reconcile).                 *)
Verdict(b, nb) ==
    IF b.em /\ (~ nb.em \/ b.ds = nb.ds \/ b.ds = "Stop") THEN "drop new"
    ELSE IF nb.em THEN "replace"
    ELSE IF b.ds = nb.ds THEN "expedite"
    ELSE IF DesiredCancelsPending(b.ds, nb.ds) THEN "cancel" ELSE "replace"

\* The outcome of a reconciliation: what is left of the new batch, the older
\* batches, the older entries taken out of them (moved to an expedited batch or
\* closed) and the services that are to be synchronised again.
reconcile(acc, b) ==
    LET shared  == Ids(acc.new.svcs) \cap Ids(b.svcs)
        v       == Verdict(b, acc.new)
        old     == {e \in b.svcs : e.id \in shared}
        newer   == {e \in acc.new.svcs : e.id \in shared}
        left    == IF v = "drop new" THEN b.svcs ELSE b.svcs \ old
    IN  [new   |-> [acc.new EXCEPT !.svcs =
                      IF v = "replace" THEN @ ELSE @ \ newer],
         kept  |-> IF left = {} THEN acc.kept ELSE Append(acc.kept, [b EXCEPT !.svcs = left]),
         fast  |-> acc.fast \cup (IF v = "expedite" THEN old ELSE {}),
         shut  |-> acc.shut \cup (IF v \in {"replace", "cancel"} THEN old ELSE {})
                            \cup (IF v \in {"drop new", "expedite"} THEN newer ELSE {}),
         again |-> acc.again \cup (IF v = "cancel" THEN shared ELSE {})]

\* With the batches of a queue, from its front.
reconcileWithBatchQueue(acc, q) ==
    LET after[i \in 0 .. Len(q)] ==
          IF i = 0 THEN [acc EXCEPT !.kept = <<>>] ELSE reconcile(after[i - 1], q[i])
    IN  after[Len(q)]

\* The batch in progress is only cancelled, never changed.
reconcileWithPendingBatch(acc, b) ==
    LET shared  == Ids(acc.new.svcs) \cap Ids(b.svcs)
        replace == Verdict(b, acc.new) \in {"replace", "cancel"}
    IN  IF replace
        THEN [acc EXCEPT !.shut = @ \cup {e \in b.svcs : e.id \in shared}]
        ELSE [acc EXCEPT !.new.svcs = {e \in @ : e.id \notin shared},
                         !.shut = @ \cup {e \in acc.new.svcs : e.id \in shared}]

\* Drops the services that were already on their way when the caller read them.
reconcileWithCurrentState(acc, seen) ==
    LET done == {e \in acc.new.svcs :
                   DesiredStateIsRedundant(acc.new.ds, acc.new.em, seen[e.id])}
    IN  [acc EXCEPT !.new.svcs = @ \ done, !.shut = @ \cup done,
                    !.again = @ \cup Ids(done)]
-----------------------------------------------------------------------------
(* The state shown for a service.  A thread that follows the service sets   *)
(* the final state; whoever sets another state cancels the thread first and *)
(* waits until it has returned.                                             *)
CancelWaitsWithoutDone(ids) ==
    [s \in Services |-> IF s \in ids /\ waits[s].phase # "write" THEN NoWait ELSE waits[s]]
CancelWaits(ids) == [s \in Services |-> IF s \in ids THEN NoWait ELSE waits[s]]

updateServiceCurrentState(state, ids) ==
    /\ waits' = CancelWaits(ids)
    /\ shown' = [s \in Services |-> IF s \in ids THEN state ELSE shown[s]]
    /\ marked' = [s \in Services |-> IF s \in ids THEN state ELSE marked[s]]

\* goal[s] is the [ds, em] that the thread of s is to wait for.
startCurrentStateWait(goal) ==
    LET fresh == {s \in DOMAIN goal : waits[s].ds # goal[s].ds}
        state(s) == Transition(goal[s].ds, goal[s].em)
    IN  /\ waits' = [s \in Services |-> IF s \in fresh
                       THEN [ds |-> goal[s].ds, em |-> goal[s].em, phase |-> "wait"]
                       ELSE waits[s]]
        /\ shown' = [s \in Services |-> IF s \in fresh THEN state(s) ELSE shown[s]]
        /\ marked' = [s \in Services |-> IF s \in fresh THEN state(s) ELSE marked[s]]

\* WaitSingleService returns for a thread that has not been cancelled.
ServiceReached(s) ==
    /\ waits[s].phase = "wait"
    /\ waits' = [waits EXCEPT ![s].phase = "write"]
    /\ UNCHANGED <<batchQueue, current, worker, closed, entered, requests, asked, shown, marked,
                   stored, flagged, placed, resync, failures>>

\* The thread sets the final state and stays registered.
SetFinalState(s) ==
    /\ waits[s].phase = "write"
    /\ shown' = [shown EXCEPT ![s] = Final(waits[s].ds, waits[s].em)]
    /\ waits' = [waits EXCEPT ![s].phase = "done"]
    /\ UNCHANGED <<batchQueue, current, worker, closed, entered, requests, asked, marked,
                   stored, flagged, placed, resync, failures>>

\* The state of a queued service is known; for another one a thread is started.
SyncCurrentStates(s) ==
    LET batches(q) == {batchQueue[q][i] : i \in DOMAIN batchQueue[q]}
        known(q) == IF s \in Ids(current[q].svcs) THEN {Transition(current[q].ds, current[q].em)}
                    ELSE {Pending(b.ds, b.em) : b \in {c \in batches(q) : s \in Ids(c.svcs)}}
        states == UNION {known(q) : q \in QueueNames}
    IN  \/ \E state \in states : updateServiceCurrentState(state, {s})
        \/ states = {} /\ startCurrentStateWait(
                             [t \in {s} |-> [ds |-> stored[t], em |-> flagged[t]]])

Resync(s) ==
    /\ s \in resync
    /\ SyncCurrentStates(s)
    /\ resync' = resync \ {s}
    /\ UNCHANGED <<batchQueue, current, worker, closed, entered, requests, asked, stored, flagged,
                   placed, failures>>
-----------------------------------------------------------------------------
\* A caller reads the services it is going to schedule, with their states
\* (Facade.scheduleServiceParents); a start or a plain stop is refused when a
\* service carries the emergency flag.
Ask(svcs, order) ==
    /\ asked = <<>>
    /\ requests < MaxRequests
    /\ order.em \/ \A s \in svcs : ~ flagged[s]
    /\ asked' = <<[svcs |-> svcs, order |-> order, seen |-> shown]>>
    /\ requests' = requests + 1
    /\ UNCHANGED <<batchQueue, current, worker, closed, entered, shown, marked, waits, stored,
                   flagged, placed, resync, failures>>

QueueOf(ds) == IF ds \in {"Run", "Restart"} THEN "Run" ELSE "Stop"

\* The whole of ScheduleServices happens under the locks of both queues.  They
\* are reconciled in the order in which Go walks the map of queues.  A loop that
\* is waiting for a change is woken; one that is not there yet is not.
ScheduleServices(first) ==
    /\ asked # <<>>
    /\ LET a      == asked[1]
           second == CHOOSE q \in QueueNames : q # first
           new    == [svcs |-> {[id |-> s, n |-> requests] : s \in a.svcs},
                      ds |-> a.order.ds, em |-> a.order.em]
           acc0   == [new |-> new, kept |-> <<>>, fast |-> {}, shut |-> {}, again |-> {}]
           acc1   == reconcileWithBatchQueue(acc0, batchQueue[first])
           acc2   == reconcileWithPendingBatch(acc1, current[first])
           acc3   == reconcileWithBatchQueue(acc2, batchQueue[second])
           acc4   == reconcileWithPendingBatch(acc3, current[second])
           acc    == reconcileWithCurrentState(acc4, a.seen)
           home   == QueueOf(acc.new.ds)
           rest   == [batchQueue EXCEPT ![first] = acc1.kept, ![second] = acc3.kept]
       IN  /\ closed' = closed \cup acc.shut
           /\ entered' = entered \cup acc.new.svcs
           /\ resync' = resync \cup acc.again
           /\ batchQueue' = IF acc.new.svcs = {} THEN rest
                       ELSE IF acc.new.em
                       THEN [rest EXCEPT ![home] = mergeEmergencyBatch(@, acc.new)]
                       ELSE [rest EXCEPT ![home] = mergeBatch(@, acc.new)]
           /\ worker' = [w \in Workers |->
                 CASE w = Goroutine(requests) /\ acc.fast # {} ->
                        [Resting EXCEPT !.pc = "update",
                                        !.batch = [acc.new EXCEPT !.svcs = acc.fast]]
                   [] w = QueueLoop(home) /\ acc.new.svcs # {} /\ worker[w].pc = "idle" ->
                        [worker[w] EXCEPT !.pc = "top"]
                   [] OTHER -> worker[w]]
           /\ IF acc.new.svcs = {} THEN UNCHANGED <<shown, marked, waits>>
              ELSE updateServiceCurrentState(Pending(acc.new.ds, acc.new.em), Ids(acc.new.svcs))
    /\ asked' = <<>>
    /\ UNCHANGED <<current, requests, stored, flagged, placed, failures>>
-----------------------------------------------------------------------------
(* The steps of a queue loop, and of the goroutine of an expedited batch.   *)
SsmGoto(w, pc) == worker' = [worker EXCEPT ![w].pc = pc]

\* getNextBatch: the batch in progress becomes the next one, or none.
getNextBatch(q) ==
    /\ worker[QueueLoop(q)].pc = "top"
    /\ IF batchQueue[q] = <<>>
       THEN /\ current' = [current EXCEPT ![q] = NoBatch]
            /\ worker' = [worker EXCEPT ![QueueLoop(q)].pc = "empty", ![QueueLoop(q)].bad = {}]
            /\ UNCHANGED batchQueue
       ELSE /\ current' = [current EXCEPT ![q] = Head(batchQueue[q])]
            /\ batchQueue' = [batchQueue EXCEPT ![q] = Tail(@)]
            /\ worker' = [worker EXCEPT ![QueueLoop(q)].pc = "update", ![QueueLoop(q)].bad = {},
                                        ![QueueLoop(q)].batch = Head(batchQueue[q])]
    /\ resync' = resync \cup worker[QueueLoop(q)].bad
    /\ UNCHANGED <<closed, entered, requests, asked, shown, marked, waits, stored, flagged,
                   placed, failures>>

\* The loop has found its queue empty and reaches the select on Changed.
WaitForChange(q) ==
    /\ worker[QueueLoop(q)].pc = "empty"
    /\ SsmGoto(QueueLoop(q), "idle")
    /\ UNCHANGED <<batchQueue, current, closed, entered, requests, asked, shown, marked, waits, stored,
                   flagged, placed, resync, failures>>

\* updateBatch reads the services again; processBatch leaves out the cancelled
\* ones, raises the emergency flag and shows the others in transition.
UpdateBatch(w) ==
    /\ worker[w].pc = "update"
    /\ LET b    == worker[w].batch
           open == b.svcs \ closed
       IN  /\ worker' = [worker EXCEPT ![w].pc = "store", ![w].open = open,
                           ![w].snap = [s \in Services |->
                              [ds |-> stored[s],
                               em |-> flagged[s] \/ (b.em /\ b.ds = "Stop" /\ s \in Ids(open))]]]
           /\ flagged' = [s \in Services |->
                            flagged[s] \/ (b.em /\ b.ds = "Stop" /\ s \in Ids(open))]
           /\ updateServiceCurrentState(Transition(b.ds, b.em), Ids(open))
    /\ UNCHANGED <<batchQueue, current, closed, entered, requests, asked, stored, placed, resync, failures>>

\* ScheduleServiceBatch, first part: every service that passes the validation and
\* is not cancelled has its desired state stored.  A stopped service is started
\* instead of restarted; a rolling restart leaves the desired state alone.
StoreDesired(w) ==
    /\ worker[w].pc = "store"
    /\ LET b     == worker[w].batch
           snap(e) == worker[w].snap[e.id]
           todo  == {e \in worker[w].open : snap(e).ds # b.ds}
           bad   == {e \in todo : snap(e).em /\ ~ (b.ds = "Stop" /\ b.em)}
           goal(e) == IF b.ds = "Restart"
                      THEN IF snap(e).ds = "Stop" THEN "Run" ELSE snap(e).ds
                      ELSE b.ds
       IN  \E lost \in SUBSET (todo \ (bad \cup closed)) :
             /\ failures + Cardinality(lost) <= MaxFailures
             /\ failures' = failures + Cardinality(lost)
             /\ LET good == todo \ (bad \cup lost \cup closed) IN
                /\ stored' = [s \in Services |->
                     IF s \in Ids(good) THEN goal(CHOOSE e \in good : e.id = s) ELSE stored[s]]
                /\ worker' = [worker EXCEPT ![w].pc = "place", ![w].bad = Ids(bad \cup lost),
                     ![w].snap = [s \in Ids(good) |->
                        [ds |-> goal(CHOOSE e \in good : e.id = s), em |-> FALSE]]]
    /\ UNCHANGED <<batchQueue, current, closed, entered, requests, asked, shown, marked, waits,
                   flagged, placed, resync>>

\* Second part: what was stored is written to the coordinator as it was then.
\* The services that did not fail are followed, the cancelled ones included.
PlaceBatch(w) ==
    /\ worker[w].pc = "place"
    /\ LET b == worker[w].batch
           followed == Ids(b.svcs) \ worker[w].bad
       IN  \/ /\ placed' = [s \in Services |-> IF s \in DOMAIN worker[w].snap
                               THEN worker[w].snap[s].ds ELSE placed[s]]
              /\ startCurrentStateWait([s \in followed |-> [ds |-> b.ds, em |-> b.em]])
              /\ closed' = closed \cup {e \in b.svcs : e.id \in worker[w].bad}
              /\ SsmGoto(w, "wait")
              /\ UNCHANGED failures
           \/ /\ failures < MaxFailures
              /\ failures' = failures + 1
              /\ worker' = [worker EXCEPT ![w].pc = "wait", ![w].bad = Ids(worker[w].open)]
              /\ closed' = closed \cup worker[w].open
              /\ UNCHANGED <<placed, shown, marked, waits>>
    /\ UNCHANGED <<batchQueue, current, entered, requests, asked, stored, flagged, resync>>

-----------------------------------------------------------------------------
Stopped == Final("Stop", FALSE)

\* The services of the batch have got there, are cancelled or the wait has timed
\* out: all of them are cancelled.  The goroutine of an expedited batch does not wait.
EndWait(w) ==
    /\ worker[w].pc = "wait"
    /\ closed' = closed \cup worker[w].batch.svcs
    /\ worker' = [worker EXCEPT ![w] =
                    IF IsQueue(w) THEN [Resting EXCEPT !.pc = "top", !.bad = worker[w].bad]
                    ELSE Resting]
    /\ resync' = IF IsQueue(w) THEN resync ELSE resync \cup worker[w].bad
    /\ UNCHANGED <<batchQueue, current, entered, requests, asked, shown, marked, waits, stored, flagged,
                   placed, failures>>

ssmInit ==
    /\ batchQueue = [q \in QueueNames |-> <<>>]
    /\ current = [q \in QueueNames |-> NoBatch]
    /\ worker = [w \in Workers |-> IF IsQueue(w) THEN [Resting EXCEPT !.pc = "top"] ELSE Resting]
    /\ closed = {} /\ entered = {} /\ requests = 0 /\ asked = <<>>
    /\ shown = [s \in Services |-> Stopped] /\ marked = shown
    /\ waits = [s \in Services |-> NoWait]
    /\ stored = [s \in Services |-> "Stop"] /\ placed = stored
    /\ flagged = [s \in Services |-> FALSE]
    /\ resync = {} /\ failures = 0

ssmWork(w) == UpdateBatch(w) \/ StoreDesired(w) \/ PlaceBatch(w) \/ EndWait(w)
ssmLoop(q) == getNextBatch(q) \/ WaitForChange(q)
ssmThread(s) == ServiceReached(s) \/ SetFinalState(s) \/ Resync(s)

ssmNext ==
    \/ \E svcs \in (SUBSET Services) \ {{}}, order \in Orders : Ask(svcs, order)
    \/ \E q \in QueueNames : ScheduleServices(q) \/ ssmLoop(q)
    \/ \E w \in Workers : ssmWork(w)
    \/ \E s \in Services : ssmThread(s)

ssmSpec == ssmInit /\ [][ssmNext]_ssmVars
-----------------------------------------------------------------------------
QueuedBatches == UNION {{batchQueue[q][i] : i \in DOMAIN batchQueue[q]} : q \in QueueNames}

\* However requests overlap, a service waits in at most one batch of the two
\* queues: a start and a stop of the same service are never both pending.
QueuedOnce ==
    \A q, r \in QueueNames : \A i \in DOMAIN batchQueue[q], j \in DOMAIN batchQueue[r] :
      Ids(batchQueue[q][i].svcs) \cap Ids(batchQueue[r][j].svcs) # {} => q = r /\ i = j

\* No caller of WaitScheduled is forgotten: an entry that was queued is still
\* queued, being worked on by a loop or a goroutine, or its channel is closed.
NoForgottenWaiter ==
    LET queued == UNION {b.svcs : b \in QueuedBatches}
        worked == UNION {worker[w].batch.svcs : w \in Workers}
    IN  entered \subseteq closed \cup queued \cup worked

\* Emergencies are ahead of everything else in their queue, and the batches of
\* one request stay in the order of their levels.
EmergencyFirst ==
    \A q \in QueueNames : \A i, j \in DOMAIN batchQueue[q] :
      i < j => \/ ~ batchQueue[q][j].em
               \/ /\ batchQueue[q][i].em
                  /\ \A d \in batchQueue[q][i].svcs, e \in batchQueue[q][j].svcs :
                       OrderKey(d.id, "Stop", TRUE) < OrderKey(e.id, "Stop", TRUE)

\* A state shown as final is the end of the last transition that was shown:
\* a thread that followed an older request never overwrites a newer state.
NoStaleFinal ==
    \A s \in Services : shown[s] # marked[s] => shown[s] = Final(marked[s][2], marked[s][3])

\* What the queues of the service state manager keep to, taken together: a service is
\* queued once, no caller is forgotten, emergencies go first and the state that is shown
\* last is the one that was asked for last.
BatchesSound == QueuedOnce /\ NoForgottenWaiter /\ EmergencyFirst /\ NoStaleFinal

=============================================================================
