------------------------------ MODULE VolumeSpec ------------------------------
(***************************************************************************)
(* What a volume driver promises (volume/volume.go, interfaces Driver and  *)
(* Volume): the state of a volume and of its snapshots, whatever the       *)
(* driver keeps them in.  A step that a crash or an error interrupts       *)
(* either has not happened or, for a rollback and for the label of a new   *)
(* snapshot, leaves that one thing torn; a whole snapshot never changes.   *)
(***************************************************************************)
CONSTANTS
    Labels,     \* the names of snapshots
    Contents,   \* what a volume may hold
    Fresh       \* the content of a volume that was just created

VARIABLES
    live,       \* the content of the volume, Absent or Torn
    snaps       \* label -> content, Absent or Torn

Absent == "absent"
Torn == "torn"
volVars == <<live, snaps>>
Seen(c) == IF c = Torn THEN Contents \cup {Torn} ELSE {c}
-----------------------------------------------------------------------------
Create == live = Absent /\ live' = Fresh /\ UNCHANGED snaps
Remove == live # Absent /\ live' = Absent /\ snaps' = [l \in Labels |-> Absent]
Write == live # Absent /\ live' \in (IF live = Torn THEN {Torn} ELSE Contents) /\ UNCHANGED snaps

Snapshot(l) ==
    /\ live # Absent /\ snaps[l] = Absent
    /\ \E c \in Seen(live) \cup {Torn} : snaps' = [snaps EXCEPT ![l] = c]
    /\ UNCHANGED live
Import(l) ==
    /\ snaps[l] = Absent
    /\ \E c \in Contents \cup {Torn} : snaps' = [snaps EXCEPT ![l] = c]
    /\ UNCHANGED live
RemoveSnapshot(l) == snaps[l] # Absent /\ snaps' = [snaps EXCEPT ![l] = Absent] /\ UNCHANGED live
Rollback(l) == snaps[l] # Absent /\ live' \in Seen(snaps[l]) /\ UNCHANGED snaps

\* An interrupted rollback; the torn volume may come back as one of the two states.
RollbackInterrupted(l) == snaps[l] # Absent /\ live' = Torn /\ UNCHANGED snaps
Settle == live = Torn /\ live' \in Contents \cup {Torn} /\ UNCHANGED snaps
-----------------------------------------------------------------------------
Init == live = Absent /\ snaps = [l \in Labels |-> Absent]
Next ==
    \/ Create \/ Remove \/ Write \/ Settle
    \/ \E l \in Labels : Snapshot(l) \/ Import(l) \/ RemoveSnapshot(l) \/ Rollback(l) \/ RollbackInterrupted(l)
Spec == Init /\ [][Next]_volVars
=============================================================================
