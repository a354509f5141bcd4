----------------------------- MODULE VirtualIPs -----------------------------
(***************************************************************************)
(* Virtual ips of one resource pool.  The pool listener of the leader      *)
(* (zzk/service/poollistener.go, synchronizer.go, assignment.go) gives     *)
(* each ip of the pool to a registered host by creating a node under the   *)
(* pool and one under the host in one transaction (hostip.go).  The host   *)
(* ip listener of the agent (hostiplistener.go, run by zzk.Listen2) has a  *)
(* thread for each node, which binds the ip to an interface                *)
(* (node/virtualip.go).  The host registry of the leader takes the ips     *)
(* from a host that is gone for long (hostunassign.go).                    *)
(*                                                                         *)
(* An assignment is a pair <<h, i>>, like the name of its nodes.           *)
(***************************************************************************)
EXTENDS Naturals, FiniteSets

CONSTANTS
    VipHosts,
    Ips,
    MaxVipChanges,    \* bound on edits of the pool
    MaxVipOutages,    \* bound on lost sessions, agent restarts and leader changes
    MaxVipFailures    \* bound on failed calls

VARIABLES
    wanted,     \* VirtualIPs of the pool node
    assigned,   \* the assignments that have their two nodes
    up,         \* hosts that are registered, with a listener that is connected
    bound,      \* the ips bound to an interface of a host
    thread,     \* the thread of each assignment in the agent of its host
    passive,    \* the passive map of each agent: bound, without a thread
    barred,     \* timeouts of the assignment handler
    sync,       \* the pool listener
    lost,       \* history: bindings that "ip a del" failed to remove
    vipLeft     \* what the bounds leave

vipVars == <<wanted, assigned, up, bound, thread, passive, barred, sync, lost, vipLeft>>

Pairs == VipHosts \X Ips
Reading == [pc |-> "pool", pool |-> {}, todo |-> {}, drop |-> {}, retry |-> FALSE, dirty |-> FALSE]
Noticed(new) == IF new = assigned THEN sync ELSE [sync EXCEPT !.dirty = TRUE]
VipSpend(what) == vipLeft[what] > 0 /\ vipLeft' = [vipLeft EXCEPT ![what] = @ - 1]
-----------------------------------------------------------------------------
(* The nodes.  Both are created, and both are deleted, in one transaction.  *)
CreateIP(h, i) == assigned' = assigned \cup {<<h, i>>}
DeleteIP(pairs) == assigned' = assigned \ pairs

\* An operator adds an ip to the pool or removes one.
EditPool(i) ==
    /\ VipSpend("changes")
    /\ wanted' = IF i \in wanted THEN wanted \ {i} ELSE wanted \cup {i}
    /\ sync' = [sync EXCEPT !.dirty = TRUE]
    /\ UNCHANGED <<assigned, up, bound, thread, passive, barred, lost>>
-----------------------------------------------------------------------------
(* The pool listener: read the pool, read the assignments, work off the     *)
(* difference, then wait for a change or, after an error, for the timer.    *)
\* The synchronizer: what the pool wants and nobody has is to be assigned, what is assigned
\* and no longer wanted is to be taken away.
Synchronize(seen) == [sync EXCEPT !.pc = "work", !.todo = sync.pool \ seen, !.drop = seen \ sync.pool]
\* ip addr add and ip addr del on the interface of the host.
Bind(p) == bound' = bound \cup {p}
Unbind(ps) == bound' = bound \ ps

ReadPool ==
    /\ sync.pc = "pool"
    /\ sync' = [Reading EXCEPT !.pc = "ips", !.pool = wanted]
    /\ UNCHANGED <<wanted, assigned, up, bound, thread, passive, barred, lost, vipLeft>>

ReadAssignments ==
    /\ sync.pc = "ips"
    /\ sync' = Synchronize({p[2] : p \in assigned})
    /\ UNCHANGED <<wanted, assigned, up, bound, thread, passive, barred, lost, vipLeft>>

Holder(i) == {h \in VipHosts : <<h, i>> \in assigned}
Candidates(i) == {h \in up : <<h, i>> \notin barred}

\* Assign one ip.  It fails when the ip has a host by now, when every registered
\* host is excluded, or when the transaction fails; the listener tries again later.
Assign(i) ==
    /\ sync.pc = "work" /\ i \in sync.todo
    /\ \/ /\ Holder(i) # {} \/ Candidates(i) = {}
          /\ sync' = [sync EXCEPT !.todo = @ \ {i}, !.retry = TRUE]
          /\ UNCHANGED <<assigned, barred, vipLeft>>
       \/ /\ Holder(i) = {}
          /\ \E h \in Candidates(i) :
               /\ barred' = barred \cup {<<h, i>>}
               /\ \/ /\ CreateIP(h, i)
                     /\ sync' = [sync EXCEPT !.todo = @ \ {i}, !.dirty = TRUE]
                     /\ UNCHANGED vipLeft
                  \/ /\ VipSpend("failures")
                     /\ sync' = [sync EXCEPT !.todo = @ \ {i}, !.retry = TRUE]
                     /\ UNCHANGED assigned
    /\ UNCHANGED <<wanted, up, bound, thread, passive, lost>>

\* Unassign an ip that the pool no longer has.
Unassign(i) ==
    /\ sync.pc = "work" /\ sync.todo = {} /\ i \in sync.drop
    /\ \/ /\ DeleteIP({<<h, i>> : h \in Holder(i)})
          /\ sync' = [sync EXCEPT !.drop = @ \ {i}, !.dirty = TRUE, !.retry = @ \/ Holder(i) = {}]
          /\ UNCHANGED vipLeft
       \/ /\ VipSpend("failures")
          /\ sync' = [sync EXCEPT !.drop = @ \ {i}, !.retry = TRUE]
          /\ UNCHANGED assigned
    /\ UNCHANGED <<wanted, up, bound, thread, passive, barred, lost>>

\* The watches fire, or the timer that an error has set.
WakeSync ==
    /\ sync.pc = "work" /\ sync.todo = {} /\ sync.drop = {}
    /\ sync.dirty \/ sync.retry
    /\ sync' = Reading
    /\ UNCHANGED <<wanted, assigned, up, bound, thread, passive, barred, lost, vipLeft>>

\* Ten seconds after an assignment the host may be chosen again.
BarExpires(p) ==
    /\ p \in barred
    /\ barred' = barred \ {p}
    /\ UNCHANGED <<wanted, assigned, up, bound, thread, passive, sync, lost, vipLeft>>

\* A new leader has a handler without timeouts and starts from the top.
NewVipLeader ==
    /\ VipSpend("outages")
    /\ sync' = Reading /\ barred' = {}
    /\ UNCHANGED <<wanted, assigned, up, bound, thread, passive, lost>>

\* The registry of the leader finds the host gone, and another one online.
UnassignAll(h) ==
    /\ h \notin up /\ up # {}
    /\ \E i \in Ips : <<h, i>> \in assigned
    /\ DeleteIP({h} \X Ips)
    /\ sync' = [sync EXCEPT !.dirty = TRUE]
    /\ UNCHANGED <<wanted, up, bound, thread, passive, barred, lost, vipLeft>>
-----------------------------------------------------------------------------
(* The agent.  Listen2 starts a thread for each node of the host that has   *)
(* none, and calls Post for the others.                                     *)
Spawn(p) ==
    /\ p[1] \in up /\ p \in assigned /\ thread[p] = "none"
    /\ thread' = [thread EXCEPT ![p] = "watch"]
    /\ UNCHANGED <<wanted, assigned, up, bound, passive, barred, sync, lost, vipLeft>>

\* release: the binding is removed, then the nodes; either may fail.
ReleaseVip(p) ==
    \/ /\ Unbind({p}) /\ UNCHANGED lost
       /\ \/ DeleteIP({p}) /\ sync' = Noticed(assigned \ {p}) /\ UNCHANGED vipLeft
          \/ VipSpend("failures") /\ UNCHANGED <<assigned, sync>>
    \/ /\ p \in bound /\ VipSpend("failures")
       /\ lost' = lost \cup {p} /\ UNCHANGED bound
       /\ DeleteIP({p}) /\ sync' = Noticed(assigned \ {p})

\* Post: a passive binding that has no node when the listener reads them is
\* released, whatever has been assigned since.  loadThread looks in the passive
\* map under the address and not the id of the node, so an entry stays there
\* while a thread has the ip.
PostFinds(p) ==
    /\ p[1] \in up /\ p \in passive /\ thread[p] = "none" /\ p \notin assigned
    /\ thread' = [thread EXCEPT ![p] = "post"]
    /\ UNCHANGED <<wanted, assigned, up, bound, passive, barred, sync, lost, vipLeft>>

Post(p) ==
    /\ thread[p] = "post" /\ p[1] \in up
    /\ passive' = passive \ {p} /\ thread' = [thread EXCEPT ![p] = "none"]
    /\ ReleaseVip(p)
    /\ UNCHANGED <<wanted, up, barred>>

\* The nodes are gone: release the ip and return.
ThreadSeesRemoval(p) ==
    /\ thread[p] = "watch" /\ p[1] \in up /\ p \notin assigned
    /\ thread' = [thread EXCEPT ![p] = "none"]
    /\ ReleaseVip(p)
    /\ UNCHANGED <<wanted, up, passive, barred>>

\* BindIP; an ip that cannot be bound is released and given back.
ThreadBinds(p) ==
    /\ thread[p] = "watch" /\ p[1] \in up /\ p \in assigned
    /\ \/ /\ thread' = [thread EXCEPT ![p] = "bound"]
          /\ Bind(p) /\ lost' = lost \ {p}
          /\ UNCHANGED <<assigned, sync, vipLeft>>
       \/ /\ VipSpend("failures")
          /\ thread' = [thread EXCEPT ![p] = "none"]
          /\ Unbind({p}) /\ DeleteIP({p}) /\ sync' = Noticed(assigned \ {p})
          /\ UNCHANGED lost
    /\ UNCHANGED <<wanted, up, passive, barred>>

ThreadReportsOnly(p) ==
    /\ thread[p] = "bound" /\ p[1] \in up
    /\ \/ p \in assigned /\ thread' = [thread EXCEPT ![p] = "wait"] /\ UNCHANGED vipLeft
       \/ /\ \/ p \notin assigned /\ UNCHANGED vipLeft
             \/ VipSpend("failures")
          /\ thread' = [thread EXCEPT ![p] = "none"]
    /\ UNCHANGED <<wanted, assigned, up, bound, barred, sync, lost, passive>>

\* UpdateIP marks the ip as bound; when it fails the thread detaches, and is
\* started again as long as the nodes are there.
ThreadReports(p) ==
    /\ thread[p] = "bound" /\ p[1] \in up
    /\ \/ p \in assigned /\ thread' = [thread EXCEPT ![p] = "wait"] /\ UNCHANGED <<passive, vipLeft>>
       \/ /\ \/ p \notin assigned /\ UNCHANGED vipLeft
             \/ VipSpend("failures")
          /\ thread' = [thread EXCEPT ![p] = "none"] /\ passive' = passive \cup {p}
    /\ UNCHANGED <<wanted, assigned, up, bound, barred, sync, lost>>

ThreadWakes(p) ==
    /\ thread[p] = "wait" /\ p[1] \in up /\ p \notin assigned
    /\ thread' = [thread EXCEPT ![p] = "watch"]
    /\ UNCHANGED <<wanted, assigned, up, bound, passive, barred, sync, lost, vipLeft>>

\* The session is lost: the threads detach, the ips stay bound.
LoseSession(h) ==
    /\ h \in up /\ VipSpend("outages")
    /\ up' = up \ {h}
    /\ thread' = [p \in Pairs |-> IF p[1] = h THEN "none" ELSE thread[p]]
    /\ passive' = passive \cup {p \in Pairs : p[1] = h /\ thread[p] # "none"}
    /\ UNCHANGED <<wanted, assigned, bound, barred, sync, lost>>

\* The agent shuts down: its threads detach and Exited releases all that is passive.
AgentExits(h) ==
    /\ h \in up /\ VipSpend("outages")
    /\ up' = up \ {h}
    /\ thread' = [p \in Pairs |-> IF p[1] = h THEN "none" ELSE thread[p]]
    /\ passive' = {p \in passive : p[1] # h}
    /\ LET mine == {p \in Pairs : p[1] = h /\ (p \in passive \/ thread[p] # "none")} IN
       /\ Unbind(mine)
       /\ DeleteIP(mine) /\ sync' = Noticed(assigned \ mine)
    /\ UNCHANGED <<wanted, barred, lost>>

\* The listener connects again; after a restart of the agent its passive map is
\* made from the ips it finds bound.
Reconnect(h, restarted) ==
    /\ h \notin up
    /\ up' = up \cup {h}
    /\ passive' = IF restarted
                  THEN {p \in passive : p[1] # h} \cup {p \in bound : p[1] = h}
                  ELSE passive
    /\ lost' = IF restarted THEN {p \in lost : p[1] # h} ELSE lost
    /\ UNCHANGED <<wanted, assigned, bound, thread, barred, sync, vipLeft>>
-----------------------------------------------------------------------------
vipInit ==
    /\ wanted = {} /\ assigned = {} /\ up = VipHosts /\ bound = {}
    /\ thread = [p \in Pairs |-> "none"] /\ passive = {} /\ barred = {}
    /\ sync = Reading /\ lost = {}
    /\ vipLeft = [changes |-> MaxVipChanges, outages |-> MaxVipOutages, failures |-> MaxVipFailures]

vipLeader == ReadPool \/ ReadAssignments \/ WakeSync
               \/ \E i \in Ips : Assign(i) \/ Unassign(i)
vipAgent(p) == Spawn(p) \/ PostFinds(p) \/ Post(p) \/ ThreadSeesRemoval(p) \/ ThreadBinds(p)
                 \/ ThreadReports(p) \/ ThreadWakes(p)

vipNext ==
    \/ vipLeader
    \/ NewVipLeader
    \/ \E i \in Ips : EditPool(i)
    \/ \E h \in VipHosts : UnassignAll(h) \/ LoseSession(h) \/ AgentExits(h)
    \/ \E h \in VipHosts, restarted \in BOOLEAN : Reconnect(h, restarted)
    \/ \E p \in Pairs : BarExpires(p) \/ vipAgent(p)

\* The listeners and their threads run on, the exclusion ends, the registry looks
\* after hosts that are gone, and a host comes back.
vipFairness ==
    /\ WF_vipVars(vipLeader)
    /\ \A p \in Pairs : WF_vipVars(BarExpires(p)) /\ WF_vipVars(vipAgent(p))
    /\ \A h \in VipHosts : WF_vipVars(UnassignAll(h)) /\ WF_vipVars(Reconnect(h, FALSE))

vipSpec == vipInit /\ [][vipNext]_vipVars /\ vipFairness
-----------------------------------------------------------------------------
\* Whatever fails in between, a binding that the agent has made is never
\* forgotten: a thread or the passive map has it (or "ip a del" has failed).
BindingTracked ==
    \A p \in bound : p[1] \in up => thread[p] # "none" \/ p \in passive \/ p \in lost

\* Every ip of the pool comes to be bound on the host that it is assigned to, once
\* the pool is left alone.
IpsGetBound ==
    \A i \in Ips : <>[](i \in wanted) =>
      <>[](\E h \in up : <<h, i>> \in assigned /\ <<h, i>> \in bound)

\* An ip that the pool has given up, or given to another host, is released.
OrphansReleased ==
    \A p \in Pairs : []<>(p \in bound /\ p[1] \in up => p \in assigned \/ p \in lost)
=============================================================================
