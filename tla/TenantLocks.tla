----------------------------- MODULE TenantLocks ----------------------------
(***************************************************************************)
(* The locks and channels of the service state manager                     *)
(* (scheduler/servicestatemanager/servicestatemanager.go), without the     *)
(* content of the batches.  RemoveTenant and Shutdown hold the manager's   *)
(* lock while they hand a cancel to each of the two queue loops of the     *)
(* tenant; the loops, WaitScheduled and SyncCurrentStates read-lock it;    *)
(* ScheduleServices and AddTenant write-lock it for a moment.              *)
(*                                                                         *)
(* The lock is a sync.RWMutex: a writer first announces itself, which      *)
(* blocks new readers, and then waits for the readers to leave.  The       *)
(* cancel channel is unbuffered and shared by the two loops.               *)
(***************************************************************************)
EXTENDS Naturals, FiniteSets

CONSTANTS
    MaxLockFailures,  \* bound on batches with a service that cannot be scheduled
    MaxSchedules,     \* bound on calls of ScheduleServices
    MaxRemovals,      \* bound on calls of RemoveTenant
    WithWaiter        \* whether somebody calls WaitScheduled

VARIABLES
    manager,    \* the shutdown channel: "running" or "closed"
    tenant,     \* TenantQueues has the tenant
    writer,     \* who holds the lock for writing, or has announced itself
    writing,    \* the writer holds it
    readers,    \* who holds it for reading, and how often
    lockPc,         \* where each process is
    backlog,    \* batches in each queue
    failed,     \* the last batch of the loop had failures
    left        \* what the bounds leave of failures, schedules and removals

lockVars == <<manager, tenant, writer, writing, readers, lockPc, backlog, failed, left>>

Loops == {"run", "stop"}
Others == {"remover", "scheduler", "waiter"}
Processes == Loops \cup Others

CanRead == writer = "none"
Announce(p) == writer = "none" /\ writer' = p /\ UNCHANGED writing
Acquire(p) == writer = p /\ ~ writing /\ (\A r \in Processes : readers[r] = 0) /\ writing' = TRUE
                /\ UNCHANGED writer
ReleaseRead(p) == writer = p /\ writing /\ writer' = "none" /\ writing' = FALSE
LockGoes(p, from, to) == lockPc[p] = from /\ lockPc' = [lockPc EXCEPT ![p] = to]
NoLock == UNCHANGED <<writer, writing>>
-----------------------------------------------------------------------------
(* A queue loop: look for a cancel, take the next batch, synchronise what  *)
(* failed before, process the batch; rest on Changed when there is none.    *)
CheckCancel(q) ==
    /\ lockPc["remover"] \notin {"send1", "send2"}
    /\ LockGoes(q, "top", "next")
    /\ NoLock /\ UNCHANGED <<manager, tenant, readers, backlog, failed, left>>

NextBatch(q) ==
    /\ lockPc[q] = "next"
    /\ lockPc' = [lockPc EXCEPT ![q] = IF failed[q] THEN "resync"
                               ELSE IF backlog[q] > 0 THEN "work" ELSE "rest"]
    /\ NoLock /\ UNCHANGED <<manager, tenant, readers, backlog, failed, left>>

SyncFailed(q) ==
    /\ CanRead
    /\ LockGoes(q, "resync", IF backlog[q] > 0 THEN "work" ELSE "rest")
    /\ failed' = [failed EXCEPT ![q] = FALSE]
    /\ NoLock /\ UNCHANGED <<manager, tenant, readers, backlog, left>>

ProcessBatch(q) ==
    /\ LockGoes(q, "work", "top")
    /\ backlog' = [backlog EXCEPT ![q] = @ - 1]
    /\ \/ UNCHANGED <<failed, left>>
       \/ /\ left.failures > 0
          /\ failed' = [failed EXCEPT ![q] = TRUE]
          /\ left' = [left EXCEPT !.failures = @ - 1]
    /\ NoLock /\ UNCHANGED <<manager, tenant, readers>>
-----------------------------------------------------------------------------
(* ScheduleServices, which a caller repeats after AddTenant when the tenant *)
(* is unknown (scheduleServices in facade/service.go).                      *)
ScheduleBegin ==
    /\ left.schedules > 0
    /\ left' = [left EXCEPT !.schedules = @ - 1]
    /\ LockGoes("scheduler", "off", "lock") /\ Announce("scheduler")
    /\ UNCHANGED <<manager, tenant, readers, backlog, failed>>

ScheduleLocked ==
    /\ LockGoes("scheduler", "lock", "in") /\ Acquire("scheduler")
    /\ UNCHANGED <<manager, tenant, readers, backlog, failed, left>>

\* The batch is put in its queue and a loop that rests is woken.
ScheduleBatch(q) ==
    /\ tenant
    /\ lockPc["scheduler"] = "in"
    /\ backlog' = [backlog EXCEPT ![q] = @ + 1]
    /\ lockPc' = [lockPc EXCEPT !["scheduler"] = "off", ![q] = IF @ = "rest" THEN "top" ELSE @]
    /\ ReleaseRead("scheduler")
    /\ UNCHANGED <<manager, tenant, readers, failed, left>>

\* AddTenant starts two loops for an unknown tenant, unless the manager is closed.
AddTenant ==
    /\ ~ tenant
    /\ lockPc["scheduler"] = "in"
    /\ IF manager = "running"
       THEN /\ tenant' = TRUE
            /\ lockPc' = [p \in Processes |-> IF p \in Loops THEN "top"
                                          ELSE IF p = "scheduler" THEN "off" ELSE lockPc[p]]
            /\ backlog' = [q \in Loops |-> 0]
            /\ failed' = [q \in Loops |-> FALSE]
       ELSE /\ lockPc' = [lockPc EXCEPT !["scheduler"] = "off"]
            /\ UNCHANGED <<tenant, backlog, failed>>
    /\ ReleaseRead("scheduler")
    /\ UNCHANGED <<manager, readers, left>>
-----------------------------------------------------------------------------
(* RemoveTenant, and Shutdown, which also closes the manager.               *)
RemoveBegin ==
    /\ left.removals > 0
    /\ left' = [left EXCEPT !.removals = @ - 1]
    /\ LockGoes("remover", "off", "lock") /\ Announce("remover")
    /\ UNCHANGED <<manager, tenant, readers, backlog, failed>>

RemoveLocked(shut) ==
    /\ LockGoes("remover", "lock", IF tenant THEN "send2" ELSE "unlock") /\ Acquire("remover")
    /\ manager' = IF shut THEN "closed" ELSE manager
    /\ UNCHANGED <<tenant, readers, backlog, failed, left>>

\* A loop receives the cancel at the top, or while it rests, and returns; then
\* the batches of one of the queues, not always of the same, are cancelled.
HandCancel(q) ==
    /\ lockPc["remover"] \in {"send1", "send2"}
    /\ lockPc[q] \in {"top", "rest"}
    /\ lockPc' = [lockPc EXCEPT ![q] = "gone",
                        !["remover"] = IF @ = "send2" THEN "send1" ELSE "delete"]
    /\ NoLock /\ UNCHANGED <<manager, tenant, readers, backlog, failed, left>>

RemoveEnd ==
    /\ lockPc["remover"] \in {"delete", "unlock"}
    /\ tenant' = IF lockPc["remover"] = "delete" THEN FALSE ELSE tenant
    /\ lockPc' = [lockPc EXCEPT !["remover"] = "off"]
    /\ ReleaseRead("remover")
    /\ UNCHANGED <<manager, readers, backlog, failed, left>>

\* Start makes a manager that was shut down take tenants again.
StartManager ==
    /\ manager = "closed" /\ CanRead
    /\ manager' = "running"
    /\ NoLock /\ UNCHANGED <<tenant, readers, lockPc, backlog, failed, left>>
-----------------------------------------------------------------------------
(* WaitScheduled read-locks the manager and, in findService, does so again. *)
WaitLock ==
    /\ WithWaiter /\ CanRead
    /\ LockGoes("waiter", "off", "locked")
    /\ readers' = [readers EXCEPT !["waiter"] = 1]
    /\ NoLock /\ UNCHANGED <<manager, tenant, backlog, failed, left>>

FindService ==
    /\ CanRead
    /\ LockGoes("waiter", "locked", "found")
    /\ NoLock /\ UNCHANGED <<manager, tenant, readers, backlog, failed, left>>

WaitUnlock ==
    /\ LockGoes("waiter", "found", "off")
    /\ readers' = [readers EXCEPT !["waiter"] = 0]
    /\ NoLock /\ UNCHANGED <<manager, tenant, backlog, failed, left>>
-----------------------------------------------------------------------------
lockInit ==
    /\ manager = "running" /\ tenant = TRUE
    /\ writer = "none" /\ writing = FALSE
    /\ readers = [p \in Processes |-> 0]
    /\ lockPc = [p \in Processes |-> IF p \in Loops THEN "top" ELSE "off"]
    /\ backlog = [q \in Loops |-> 0] /\ failed = [q \in Loops |-> FALSE]
    /\ left = [failures |-> MaxLockFailures, schedules |-> MaxSchedules, removals |-> MaxRemovals]

lockLoop(q) == CheckCancel(q) \/ NextBatch(q) \/ SyncFailed(q) \/ ProcessBatch(q)
lockScheduler == ScheduleLocked \/ AddTenant \/ \E q \in Loops : ScheduleBatch(q)
lockRemover == (\E shut \in BOOLEAN : RemoveLocked(shut)) \/ RemoveEnd
                 \/ \E q \in Loops : HandCancel(q)

lockNext ==
    \/ \E q \in Loops : lockLoop(q)
    \/ ScheduleBegin \/ lockScheduler
    \/ RemoveBegin \/ lockRemover
    \/ StartManager
    \/ WaitLock \/ FindService \/ WaitUnlock

\* Goroutines run on; nobody has to call anything.
lockFairness ==
    /\ \A q \in Loops : WF_lockVars(lockLoop(q))
    /\ WF_lockVars(lockScheduler) /\ WF_lockVars(lockRemover)
    /\ WF_lockVars(FindService) /\ WF_lockVars(WaitUnlock)

lockSpec == lockInit /\ [][lockNext]_lockVars /\ lockFairness
-----------------------------------------------------------------------------
\* Loops run exactly as long as the tenant is known: a removal that returned has
\* ended both, so a tenant that is added again never has two loops per queue.
LoopsWithTenant ==
    lockPc["remover"] \notin {"send1", "send2", "delete"} =>
      \A q \in Loops : (lockPc[q] # "gone") <=> tenant

\* A removal that never ends is blocked by a reader that needs the lock again: a
\* loop that has failures to synchronise, or WaitScheduled inside findService.
RemovalEndsOrReaderBlocked ==
    []<>(\/ lockPc["remover"] = "off"
         \/ \E q \in Loops : lockPc[q] = "resync"
         \/ lockPc["waiter"] = "locked")
=============================================================================
