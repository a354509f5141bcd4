------------------------------ MODULE ThinVolumes ------------------------------
(***************************************************************************)
(* The devicemapper driver (volume/devicemapper/devicemapper.go and        *)
(* metadata.go): a volume and each of its snapshots is a thin device, and  *)
(* metadata.json says which.  An operation is several steps, and after any *)
(* of them it may fail or the daemon or the machine may stop.  Device      *)
(* names are UUIDs: a name is never used again.  The mutex of a volume     *)
(* belongs to one Get and so orders nothing; the operations are taken one  *)
(* at a time, as the DFS lock of the facade makes them (Snapshots.tla).    *)
(***************************************************************************)
EXTENDS Naturals, FiniteSets

CONSTANTS
    Labels, Contents, Fresh,
    Tags,
    MaxDevices,      \* bound on the devices that are made
    MaxThinFaults    \* bound on failures and crashes

\* What a volume holds is none of the words that stand for a volume which is not there.
ASSUME ThinAssumption ==
    /\ Fresh \in Contents /\ Contents \cap {"absent", "torn", "gone"} = {}
    /\ MaxDevices \in Nat /\ MaxThinFaults \in Nat

VARIABLES
    deviceContent,    \* device -> what it holds, or Gone
    thinMade,       \* how many devices were made
    md,         \* metadata.json: does it exist, the current device, label -> device
    info,       \* label -> its .SNAPSHOTINFO (with the tags), or NoInfo
    mounted,    \* the device on the mount point of the volume
    thin,       \* the running operation
    removing,   \* history: the removal of the volume has deleted its device
    thinFaults      \* how many faults may still happen

thinVars == <<deviceContent, thinMade, md, info, mounted, thin, removing, thinFaults>>
NoDev == 0
VolumeGone == "gone"
NoInfo == {}
Untagged == {"info"}
ThinIdle == [pc |-> "idle", l |-> "none", dev |-> NoDev]
DeviceExists(d) == d # NoDev /\ deviceContent[d] # VolumeGone
deviceHash == md.current
getVolume == md.dir /\ deviceHash # NoDev
\* The volume of a request comes from Get, which mounts it if it is not mounted.
Gettable == getVolume /\ (mounted # NoDev \/ DeviceExists(deviceHash))
snapshotExists(l) == md.snaps[l] # NoDev
isInvalidSnapshot(l) == info[l] = NoInfo
GetSnapshotWithTag(t) == {l \in Labels : snapshotExists(l) /\ ~isInvalidSnapshot(l) /\ t \in info[l]}
ThinAt(pc) == thin' = [thin EXCEPT !.pc = pc]
ThinSpend == thinFaults > 0 /\ thinFaults' = thinFaults - 1
-----------------------------------------------------------------------------
(* metadata.json and the device set.                                        *)
addDevice(c) == thinMade < MaxDevices /\ thinMade' = thinMade + 1 /\ deviceContent' = [deviceContent EXCEPT ![thinMade + 1] = c]
deleteDevice(d) == deviceContent' = [deviceContent EXCEPT ![d] = VolumeGone]
NewMetadata == [dir |-> FALSE, current |-> NoDev, snaps |-> [l \in Labels |-> NoDev]]
\* .SNAPSHOTINFO of a snapshot: its tags.
writeSnapshotInfo(l, tags) == info' = [info EXCEPT ![l] = tags]
unmount == mounted' = NoDev
SetCurrentDevice(d) == md' = [md EXCEPT !.current = d]
AddSnapshot(l, d) == md' = [md EXCEPT !.snaps[l] = d]

\* The next access mounts the volume.
GetVolume ==
    /\ thin.pc = "idle" /\ getVolume /\ mounted = NoDev /\ DeviceExists(deviceHash)
    /\ mounted' = deviceHash
    /\ UNCHANGED <<deviceContent, thinMade, md, info, thin, removing, thinFaults>>

Write(c) ==
    /\ thin.pc = "idle" /\ mounted # NoDev /\ DeviceExists(mounted)
    /\ deviceContent' = [deviceContent EXCEPT ![mounted] = c]
    /\ UNCHANGED <<thinMade, md, info, mounted, thin, removing, thinFaults>>
ReleaseVolume ==
    /\ thin.pc = "idle" /\ getVolume /\ mounted = deviceHash
    /\ unmount
    /\ UNCHANGED <<deviceContent, thinMade, md, info, thin, removing, thinFaults>>
-----------------------------------------------------------------------------
(* Create and Remove.                                                       *)
CreateAdds ==
    /\ thin.pc = "idle" /\ ~md.dir /\ mounted = NoDev
    /\ addDevice(Fresh) /\ thin' = [pc |-> "created", l |-> "none", dev |-> thinMade + 1]
    /\ UNCHANGED <<md, info, mounted, removing, thinFaults>>
CreateSaves ==
    /\ thin.pc = "created" /\ md' = [md EXCEPT !.dir = TRUE] /\ ThinAt("saved")
    /\ UNCHANGED <<deviceContent, thinMade, info, mounted, removing, thinFaults>>
CreateSets ==
    /\ thin.pc = "saved" /\ SetCurrentDevice(thin.dev) /\ ThinAt("set")
    /\ UNCHANGED <<deviceContent, thinMade, info, mounted, removing, thinFaults>>
CreateMounts ==
    /\ thin.pc = "set" /\ mounted' = thin.dev /\ thin' = ThinIdle
    /\ UNCHANGED <<deviceContent, thinMade, md, info, removing, thinFaults>>

\* A volume without a current device is taken away without its snapshots.
RemoveBegins ==
    /\ thin.pc = "idle" /\ md.dir
    /\ ThinAt(IF getVolume THEN "remove" ELSE "removedir")
    /\ UNCHANGED <<deviceContent, thinMade, md, info, mounted, removing, thinFaults>>
\* The removal of a snapshot that fails is logged only.
RemoveOne(l) ==
    /\ thin.pc = "remove" /\ snapshotExists(l) /\ DeviceExists(md.snaps[l])
    /\ deleteDevice(md.snaps[l]) /\ AddSnapshot(l, NoDev) /\ info' = [info EXCEPT ![l] = NoInfo]
    /\ UNCHANGED <<thinMade, mounted, thin, removing, thinFaults>>
RemoveReleases ==
    /\ thin.pc = "remove"
    /\ (IF \E l \in Labels : DeviceExists(md.snaps[l]) THEN ThinSpend ELSE UNCHANGED thinFaults)
    /\ unmount /\ ThinAt("removedevice")
    /\ UNCHANGED <<deviceContent, thinMade, md, info, removing>>
RemoveDeletes ==
    /\ thin.pc = "removedevice"
    /\ IF DeviceExists(deviceHash) THEN deleteDevice(deviceHash) ELSE UNCHANGED deviceContent
    /\ ThinAt("removedir") /\ removing' = TRUE
    /\ UNCHANGED <<thinMade, md, info, mounted, thinFaults>>
RemoveUnlists ==
    /\ thin.pc = "removedir"
    /\ md' = NewMetadata
    /\ thin' = ThinIdle /\ removing' = FALSE
    /\ UNCHANGED <<deviceContent, thinMade, info, mounted, thinFaults>>
-----------------------------------------------------------------------------
(* Snapshot, RemoveSnapshot and the tags.                                   *)
SnapshotAdds(l) ==
    /\ thin.pc = "idle" /\ Gettable /\ ~snapshotExists(l) /\ DeviceExists(deviceHash)
    /\ addDevice(deviceContent[deviceHash]) /\ thin' = [pc |-> "snapped", l |-> l, dev |-> thinMade + 1]
    /\ UNCHANGED <<md, info, mounted, removing, thinFaults>>
SnapshotWritesInfo ==
    /\ thin.pc = "snapped" /\ writeSnapshotInfo(thin.l, Untagged) /\ ThinAt("informed")
    /\ UNCHANGED <<deviceContent, thinMade, md, mounted, removing, thinFaults>>
SnapshotLists ==
    /\ thin.pc = "informed" /\ AddSnapshot(thin.l, thin.dev) /\ thin' = ThinIdle
    /\ UNCHANGED <<deviceContent, thinMade, info, mounted, removing, thinFaults>>

\* A snapshot whose device is gone cannot be removed: its deletion fails.
RemoveSnapshotDeletes(l) ==
    /\ thin.pc = "idle" /\ Gettable /\ snapshotExists(l) /\ DeviceExists(md.snaps[l])
    /\ deleteDevice(md.snaps[l]) /\ thin' = [pc |-> "unlist", l |-> l, dev |-> NoDev]
    /\ UNCHANGED <<thinMade, md, info, mounted, removing, thinFaults>>
RemoveSnapshotUnlists ==
    /\ thin.pc = "unlist" /\ AddSnapshot(thin.l, NoDev) /\ ThinAt("uninform")
    /\ UNCHANGED <<deviceContent, thinMade, info, mounted, removing, thinFaults>>
RemoveSnapshotInfo ==
    /\ thin.pc = "uninform" /\ info' = [info EXCEPT ![thin.l] = NoInfo] /\ thin' = ThinIdle
    /\ UNCHANGED <<deviceContent, thinMade, md, mounted, removing, thinFaults>>

TagThinSnapshot(l, t) ==
    /\ thin.pc = "idle" /\ Gettable /\ ~isInvalidSnapshot(l) /\ GetSnapshotWithTag(t) = {}
    /\ writeSnapshotInfo(l, info[l] \cup {t})
    /\ UNCHANGED <<deviceContent, thinMade, md, mounted, thin, removing, thinFaults>>
UntagSnapshot(t) ==
    /\ thin.pc = "idle" /\ Gettable
    /\ \E l \in GetSnapshotWithTag(t) : writeSnapshotInfo(l, info[l] \ {t})
    /\ UNCHANGED <<deviceContent, thinMade, md, mounted, thin, removing, thinFaults>>
-----------------------------------------------------------------------------
(* Rollback: the old device is deleted before the new one is the current    *)
(* one in metadata.json; an error of that deletion is logged only.          *)
RollbackCopies(l) ==
    /\ thin.pc = "idle" /\ Gettable
    /\ ~isInvalidSnapshot(l) /\ snapshotExists(l) /\ DeviceExists(md.snaps[l])
    /\ addDevice(deviceContent[md.snaps[l]]) /\ thin' = [pc |-> "copied", l |-> l, dev |-> thinMade + 1]
    /\ UNCHANGED <<md, info, mounted, removing, thinFaults>>
RollbackUnmounts ==
    /\ thin.pc = "copied" /\ unmount /\ ThinAt("unmounted")
    /\ UNCHANGED <<deviceContent, thinMade, md, info, removing, thinFaults>>
RollbackMounts ==
    /\ thin.pc = "unmounted" /\ mounted' = thin.dev /\ ThinAt("mounted")
    /\ UNCHANGED <<deviceContent, thinMade, md, info, removing, thinFaults>>
RollbackDeletesSource ==
    /\ thin.pc = "mounted" /\ deleteDevice(md.snaps[thin.l]) /\ ThinAt("deleted")
    /\ UNCHANGED <<thinMade, md, info, mounted, removing, thinFaults>>
RollbackDeletes ==
    /\ thin.pc = "mounted"
    /\ \/ DeviceExists(deviceHash) /\ deleteDevice(deviceHash) /\ UNCHANGED thinFaults
       \/ (IF DeviceExists(deviceHash) THEN ThinSpend ELSE UNCHANGED thinFaults) /\ UNCHANGED deviceContent
    /\ ThinAt("deleted")
    /\ UNCHANGED <<thinMade, md, info, mounted, removing>>
RollbackSets ==
    /\ thin.pc = "deleted" /\ SetCurrentDevice(thin.dev) /\ thin' = ThinIdle
    /\ UNCHANGED <<deviceContent, thinMade, info, mounted, removing, thinFaults>>
-----------------------------------------------------------------------------
(* Import: the snapshot is listed before its .SNAPSHOTINFO is in place.     *)
Import(l) ==
    /\ thin.pc = "idle" /\ Gettable /\ ~snapshotExists(l)
    /\ addDevice(Fresh) /\ thin' = [pc |-> "load", l |-> l, dev |-> thinMade + 1]
    /\ UNCHANGED <<md, info, mounted, removing, thinFaults>>
loadSnapshotImport(c) ==
    /\ thin.pc = "load" /\ deviceContent' = [deviceContent EXCEPT ![thin.dev] = c] /\ ThinAt("loaded")
    /\ UNCHANGED <<thinMade, md, info, mounted, removing, thinFaults>>
ImportLists ==
    /\ thin.pc = "loaded" /\ AddSnapshot(thin.l, thin.dev) /\ ThinAt("rename")
    /\ UNCHANGED <<deviceContent, thinMade, info, mounted, removing, thinFaults>>
ImportRenames ==
    /\ thin.pc = "rename" /\ writeSnapshotInfo(thin.l, Untagged) /\ thin' = ThinIdle
    /\ UNCHANGED <<deviceContent, thinMade, md, mounted, removing, thinFaults>>
-----------------------------------------------------------------------------
(* Faults.  A failed import deletes its device, whether or not it is listed.*)
OpFails ==
    /\ thin.pc \notin {"idle", "remove", "removedevice", "mounted", "cleandisk", "cleanlist"} /\ ThinSpend
    /\ IF thin.pc \in {"load", "loaded", "rename"} THEN deleteDevice(thin.dev) ELSE UNCHANGED deviceContent
    /\ thin' = ThinIdle
    /\ UNCHANGED <<thinMade, md, info, mounted, removing>>

\* A start of the daemon cleans up what is only in metadata.json or only on disk, unless
\* there is no volume or nothing at all on disk.
OnDisk == {l \in Labels : info[l] # NoInfo}
HalfListed == {l \in Labels : snapshotExists(l) /\ info[l] = NoInfo}
cleanUpSnapshots == IF getVolume /\ OnDisk # {} THEN "cleandisk" ELSE "idle"
CleansDisk ==
    /\ thin.pc = "cleandisk" /\ ThinAt("cleanlist")
    /\ info' = [l \in Labels |-> IF snapshotExists(l) THEN info[l] ELSE NoInfo]
    /\ UNCHANGED <<deviceContent, thinMade, md, mounted, removing, thinFaults>>
CleansList ==
    /\ thin.pc = "cleanlist"
    /\ IF HalfListed = {} THEN ThinAt("idle") /\ UNCHANGED <<deviceContent, md>>
       ELSE \E l \in HalfListed : AddSnapshot(l, NoDev) /\ deleteDevice(md.snaps[l]) /\ UNCHANGED thin
    /\ UNCHANGED <<thinMade, info, mounted, removing, thinFaults>>

Restart(reboot) ==
    /\ ThinSpend /\ thin' = [ThinIdle EXCEPT !.pc = cleanUpSnapshots]
    /\ mounted' = IF reboot THEN NoDev ELSE mounted
    /\ UNCHANGED <<deviceContent, thinMade, md, info, removing>>
-----------------------------------------------------------------------------
thinInit ==
    /\ deviceContent = [d \in 1 .. MaxDevices |-> VolumeGone] /\ thinMade = 0
    /\ md = NewMetadata
    /\ info = [l \in Labels |-> NoInfo] /\ mounted = NoDev /\ thin = ThinIdle
    /\ removing = FALSE /\ thinFaults = MaxThinFaults

thinNext ==
    \/ GetVolume \/ ReleaseVolume \/ CreateAdds \/ CreateSaves \/ CreateSets \/ CreateMounts
    \/ RemoveBegins \/ RemoveReleases \/ RemoveDeletes \/ RemoveUnlists
    \/ SnapshotWritesInfo \/ SnapshotLists \/ RemoveSnapshotUnlists \/ RemoveSnapshotInfo
    \/ RollbackUnmounts \/ RollbackMounts \/ RollbackDeletes \/ RollbackSets
    \/ ImportLists \/ ImportRenames \/ OpFails \/ CleansDisk \/ CleansList
    \/ \E c \in Contents : Write(c) \/ loadSnapshotImport(c)
    \/ \E l \in Labels : SnapshotAdds(l) \/ RemoveSnapshotDeletes(l) \/ RollbackCopies(l) \/ Import(l) \/ RemoveOne(l)
    \/ \E t \in Tags : UntagSnapshot(t) \/ \E l \in Labels : TagThinSnapshot(l, t)
    \/ \E reboot \in BOOLEAN : Restart(reboot)
thinSpec == thinInit /\ [][thinNext]_thinVars
-----------------------------------------------------------------------------
(* What the volume looks like from outside.  Until the old device is        *)
(* deleted a rollback can be taken back; a volume whose mounted device is   *)
(* not the current one, or whose current device is gone, is torn.           *)
Rolling == thin.pc \in {"mounted", "deleted"}
Visible ==
    IF ~getVolume \/ removing THEN "absent"
    ELSE IF Rolling THEN (IF DeviceExists(deviceHash) THEN deviceContent[deviceHash] ELSE deviceContent[thin.dev])
    ELSE IF DeviceExists(deviceHash) /\ mounted \in {NoDev, deviceHash} THEN deviceContent[deviceHash]
    ELSE "torn"
Restorable(l) == IF Visible # "absent" /\ DeviceExists(md.snaps[l]) THEN deviceContent[md.snaps[l]] ELSE "absent"
RestorableSnaps == [l \in Labels |-> Restorable(l)]

\* Whatever fails and whenever the daemon stops, the devices and metadata.json behave as the
\* volume interface says: a snapshot keeps its content until it is removed, a rollback
\* brings it back, and only an interrupted rollback leaves the volume itself torn.
Abstract == INSTANCE VolumeSpec WITH live <- Visible, snaps <- RestorableSnaps
ImplementsVolume == Abstract!Spec

=============================================================================
