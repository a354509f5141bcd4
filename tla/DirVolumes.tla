------------------------------ MODULE DirVolumes ------------------------------
(***************************************************************************)
(* The rsync and btrfs drivers (volume/rsync/rsync.go,                     *)
(* volume/btrfs/btrfs.go): a volume and each snapshot is a directory or a  *)
(* subvolume.  rsync copies file by file, so a copy that is cut short is   *)
(* half made; btrfs makes and deletes subvolumes in one step, but a        *)
(* rollback is a deletion and then a new subvolume.  The rsync driver also *)
(* keeps a directory with .SNAPSHOTINFO for every snapshot, a btrfs        *)
(* snapshot carries its own.                                               *)
(***************************************************************************)
EXTENDS ThinVolumes     \* the third driver, for VolumesImplemented

CONSTANTS
    SnapLabels,     \* the names of snapshots
    Data, Empty,    \* what a volume may hold, and a new one
    MaxDirOps,      \* bound on operations
    MaxDirFaults    \* bound on failures and crashes

\* What a directory holds is none of the words that stand for one which is not whole.
ASSUME DirAssumption == Empty \in Data /\ Data \cap {"absent", "torn", "half"} = {}

VARIABLES
    driver,     \* "rsync" or "btrfs"
    vol,        \* the directory of the volume: its content, "half" or "absent"
    volMeta,    \* rsync: the directory of the volume in the metadata directory
    dest,       \* label -> the directory of the snapshot
    hasInfo,    \* label -> it has a .SNAPSHOTINFO
    dirOp,      \* the running operation
    spoiled,    \* history: an interrupted rollback has spoiled the volume
    dirLeft

dirVars == <<driver, vol, volMeta, dest, hasInfo, dirOp, spoiled, dirLeft>>
Free == [pc |-> "idle", l |-> "none", d |-> "none"]
Step(pc) == dirOp' = [dirOp EXCEPT !.pc = pc]
BeginDirOp(pc, l) ==
    /\ dirOp.pc = "idle" /\ dirLeft.ops > 0
    /\ dirLeft' = [dirLeft EXCEPT !.ops = @ - 1]
    /\ dirOp' = [pc |-> pc, l |-> l, d |-> "none"]
Done == dirOp' = Free
Made(l) == dest[l] # "absent"
\* rsync lists what has both directories; btrfs lists the snapshots of the file system.
getSnapshotList == {l \in SnapLabels : Made(l) /\ (driver = "btrfs" \/ hasInfo[l])}
\* The subvolume of a snapshot has the .SNAPSHOTINFO that was in the volume.
isInvalid(l) == driver = "rsync" /\ ~hasInfo[l]
-----------------------------------------------------------------------------
CreateDirs ==
    /\ driver = "rsync" /\ ~volMeta /\ BeginDirOp("mkdir", "none") /\ volMeta' = TRUE
    /\ UNCHANGED <<driver, vol, dest, hasInfo, spoiled>>
CreateSubvolume ==
    /\ driver = "btrfs" /\ vol = "absent" /\ BeginDirOp("idle", "none") /\ vol' = Empty
    /\ UNCHANGED <<driver, volMeta, dest, hasInfo, spoiled>>
MakesPath ==
    /\ dirOp.pc = "mkdir" /\ vol' = (IF vol = "absent" THEN Empty ELSE vol) /\ Done
    /\ UNCHANGED <<driver, volMeta, dest, hasInfo, spoiled, dirLeft>>

\* The services write to what is mounted into their containers.
Writes(c) ==
    /\ dirOp.pc = "idle" /\ vol \in Data
    /\ vol' = c
    /\ UNCHANGED <<driver, volMeta, dest, hasInfo, dirOp, spoiled, dirLeft>>

\* Remove: the snapshots one after the other, the metadata of the volume, the volume.
RemoveVolume ==
    /\ BeginDirOp("rmsnaps", "none") /\ vol # "absent"
    /\ UNCHANGED <<driver, vol, volMeta, dest, hasInfo, spoiled>>
RemovesSnap(l) ==
    /\ dirOp.pc = "rmsnaps" /\ l \in getSnapshotList
    /\ dest' = [dest EXCEPT ![l] = "absent"] /\ hasInfo' = [hasInfo EXCEPT ![l] = FALSE]
    /\ UNCHANGED <<driver, vol, volMeta, dirOp, spoiled, dirLeft>>
RemovesMeta ==
    /\ dirOp.pc = "rmsnaps" /\ getSnapshotList = {} /\ Step("rmvol") /\ volMeta' = FALSE
    /\ UNCHANGED <<driver, vol, dest, hasInfo, spoiled, dirLeft>>
RemovesPath ==
    /\ dirOp.pc = "rmvol" /\ Done /\ vol' = "absent" /\ spoiled' = FALSE
    /\ UNCHANGED <<driver, volMeta, dest, hasInfo, dirLeft>>
-----------------------------------------------------------------------------
(* Snapshot.  rsync refuses a label whose directory exists, writes the      *)
(* information and then copies; exit code 24 (files vanished) counts as     *)
(* success after three attempts, so a volume in use may be copied in half.  *)
WritesInfo ==
    /\ dirOp.pc = "info" /\ hasInfo' = [hasInfo EXCEPT ![dirOp.l] = TRUE] /\ Step("copy")
    /\ UNCHANGED <<driver, vol, volMeta, dest, spoiled, dirLeft>>
\* The copy is seen half made only when something stops it (CopyStops).
RsyncCopies ==
    /\ dirOp.pc = "copy" /\ Done
    /\ dest' = [dest EXCEPT ![dirOp.l] = vol]
    /\ UNCHANGED <<driver, vol, volMeta, hasInfo, spoiled, dirLeft>>
\* writeSnapshotInfo into the volume, then one command.
BtrfsSnapshots ==
    /\ dirOp.pc = "subvol" /\ Done
    /\ dest' = [dest EXCEPT ![dirOp.l] = vol] /\ hasInfo' = [hasInfo EXCEPT ![dirOp.l] = TRUE]
    /\ UNCHANGED <<driver, vol, volMeta, spoiled, dirLeft>>
TakeSnapshot(l) ==
    /\ vol \notin {"absent"} /\ ~Made(l) /\ BeginDirOp(IF driver = "rsync" THEN "info" ELSE "subvol", l)
    /\ UNCHANGED <<driver, vol, volMeta, dest, hasInfo, spoiled>>

\* rsync removes the information first; what is left is no longer listed.
RemoveSnap(l) ==
    /\ Made(l) /\ (driver = "btrfs" => l \in getSnapshotList) /\ BeginDirOp("unlist", l)
    /\ UNCHANGED <<driver, vol, volMeta, dest, hasInfo, spoiled>>
UnlistsSnap ==
    /\ dirOp.pc = "unlist" /\ driver = "rsync" /\ hasInfo' = [hasInfo EXCEPT ![dirOp.l] = FALSE] /\ Step("rmdir")
    /\ UNCHANGED <<driver, vol, volMeta, dest, spoiled, dirLeft>>
DeletesSnap ==
    /\ dirOp.pc = "rmdir" /\ dest' = [dest EXCEPT ![dirOp.l] = "absent"] /\ Done
    /\ UNCHANGED <<driver, vol, volMeta, hasInfo, spoiled, dirLeft>>
DeletesSubvolume ==
    /\ dirOp.pc = "unlist" /\ driver = "btrfs" /\ Done
    /\ dest' = [dest EXCEPT ![dirOp.l] = "absent"] /\ hasInfo' = [hasInfo EXCEPT ![dirOp.l] = FALSE]
    /\ UNCHANGED <<driver, vol, volMeta, spoiled, dirLeft>>
-----------------------------------------------------------------------------
(* Rollback.                                                                *)
RollbackTo(l) ==
    /\ Made(l) /\ ~isInvalid(l) /\ BeginDirOp(IF driver = "rsync" THEN "sync" ELSE "delete", l)
    /\ UNCHANGED <<driver, vol, volMeta, dest, hasInfo, spoiled>>
RsyncRestores ==
    /\ dirOp.pc = "sync" /\ vol' = dest[dirOp.l] /\ spoiled' = FALSE /\ Done
    /\ UNCHANGED <<driver, volMeta, dest, hasInfo, dirLeft>>
BtrfsDeletes ==
    /\ dirOp.pc = "delete" /\ Step("restore") /\ vol' = "absent"
    /\ UNCHANGED <<driver, volMeta, dest, hasInfo, spoiled, dirLeft>>
BtrfsRestores ==
    /\ dirOp.pc = "restore" /\ vol' = dest[dirOp.l] /\ spoiled' = FALSE /\ Done
    /\ UNCHANGED <<driver, volMeta, dest, hasInfo, dirLeft>>
-----------------------------------------------------------------------------
(* Export is a stream; Import makes a snapshot of one.  rsync unpacks into  *)
(* place, btrfs receives beside the volume and then makes the snapshot.     *)
ImportStream(l) ==
    /\ ~Made(l) /\ BeginDirOp(IF driver = "rsync" THEN "unpackinfo" ELSE "receive", l)
    /\ UNCHANGED <<driver, vol, volMeta, dest, hasInfo, spoiled>>
UnpacksInfo ==
    /\ dirOp.pc = "unpackinfo" /\ hasInfo' = [hasInfo EXCEPT ![dirOp.l] = TRUE] /\ Step("unpack")
    /\ UNCHANGED <<driver, vol, volMeta, dest, spoiled, dirLeft>>
Unpacks(c) ==
    /\ dirOp.pc = "unpack" /\ Done
    /\ dest' = [dest EXCEPT ![dirOp.l] = c]
    /\ UNCHANGED <<driver, vol, volMeta, hasInfo, spoiled, dirLeft>>
BtrfsReceives(c) ==
    /\ dirOp.pc = "receive" /\ Done
    /\ dest' = [dest EXCEPT ![dirOp.l] = c] /\ hasInfo' = [hasInfo EXCEPT ![dirOp.l] = TRUE]
    /\ UNCHANGED <<driver, vol, volMeta, spoiled, dirLeft>>
-----------------------------------------------------------------------------
(* Faults.                                                                  *)
\* An rsync or an unpacking that fails, times out or is cut off by a crash in the middle.
CopyStops ==
    /\ dirOp.pc \in {"copy", "unpack", "sync"} /\ dirLeft.faults > 0
    /\ dirLeft' = [dirLeft EXCEPT !.faults = @ - 1]
    /\ IF dirOp.pc = "sync" THEN vol' = "half" /\ spoiled' = TRUE /\ UNCHANGED dest
       ELSE dest' = [dest EXCEPT ![dirOp.l] = "half"] /\ UNCHANGED <<vol, spoiled>>
    /\ Done /\ UNCHANGED <<driver, volMeta, hasInfo>>
\* A failed command or a crash between two steps.
StepFails ==
    /\ dirOp.pc # "idle" /\ dirLeft.faults > 0
    /\ dirLeft' = [dirLeft EXCEPT !.faults = @ - 1]
    /\ spoiled' = (spoiled \/ dirOp.pc = "restore")
    /\ Done /\ UNCHANGED <<driver, vol, volMeta, dest, hasInfo>>
-----------------------------------------------------------------------------
dirInit ==
    /\ driver \in {"rsync", "btrfs"}
    /\ vol = "absent" /\ volMeta = FALSE
    /\ dest = [l \in SnapLabels |-> "absent"] /\ hasInfo = [l \in SnapLabels |-> FALSE]
    /\ dirOp = Free /\ spoiled = FALSE
    /\ dirLeft = [ops |-> MaxDirOps, faults |-> MaxDirFaults]

dirNext ==
    \/ CreateDirs \/ CreateSubvolume \/ MakesPath \/ RemoveVolume \/ RemovesMeta \/ RemovesPath
    \/ WritesInfo \/ RsyncCopies \/ BtrfsSnapshots \/ UnlistsSnap \/ DeletesSnap \/ DeletesSubvolume
    \/ RsyncRestores \/ BtrfsDeletes \/ BtrfsRestores \/ UnpacksInfo \/ CopyStops \/ StepFails
    \/ \E c \in Data : Writes(c) \/ Unpacks(c) \/ BtrfsReceives(c)
    \/ \E l \in SnapLabels : RemovesSnap(l) \/ TakeSnapshot(l) \/ RemoveSnap(l) \/ RollbackTo(l) \/ ImportStream(l)
dirSpec == dirInit /\ [][dirNext]_dirVars
-----------------------------------------------------------------------------
AsWhole(c) == IF c = "half" THEN "torn" ELSE c
DirLive ==
    IF dirOp.pc = "restore" \/ spoiled THEN "torn" ELSE AsWhole(vol)
DirSnaps == [l \in SnapLabels |-> IF l \in getSnapshotList THEN AsWhole(dest[l]) ELSE "absent"]

\* The directories of both drivers behave as the volume interface says: a listed snapshot
\* that is whole keeps its content until it is removed, and only the volume that is rolled
\* back and the label that is being made can be left torn.
DirAbstract == INSTANCE VolumeSpec WITH
    Labels <- SnapLabels, Contents <- Data, Fresh <- Empty, live <- DirLive, snaps <- DirSnaps
ImplementsVolumeInDirs == DirAbstract!Spec

\* The drivers on thin devices and on directories do what a volume promises.
VolumesImplemented == ImplementsVolume /\ ImplementsVolumeInDirs
=============================================================================
