------------------------------- MODULE DeviceSet -------------------------------
(***************************************************************************)
(* The thin devices of a pool (volume/devicemapper/devmapper/deviceset.go):*)
(* a device has a hash, by which the driver knows it, and a number, by     *)
(* which the pool knows it.  One file per device keeps the pair.  A device *)
(* is made and deleted in a transaction: its number is written to a file   *)
(* first and the transaction id of the pool is raised last, so that a      *)
(* start of the daemon can undo what a crash has cut off.                  *)
(***************************************************************************)
EXTENDS Naturals, FiniteSets

CONSTANTS
    Hashes,          \* the hashes of devices (UUIDs), with "base"
    MaxDeviceID,     \* the largest device number
    MaxDmFailures,   \* bound on calls and writes that fail
    MaxDmCrashes,    \* bound on crashes
    MaxTransactions  \* bound on transactions

ASSUME BaseAssumption == "base" \in Hashes /\ "none" \notin Hashes /\ MaxDeviceID \in Nat /\ MaxDmFailures \in Nat
                         /\ MaxDmCrashes \in Nat /\ MaxTransactions \in Nat

VARIABLES
    pool,       \* number -> the hash whose data it holds, or None
    poolTx,     \* the transaction id of the pool
    files,      \* hash -> the number in its metadata file, or NoID
    dmFlagged,    \* the hashes whose files say Deleted
    txFile,     \* the file of the transaction: id, hash, number
    dm,         \* the device set in memory
    dmOp,       \* the running operation
    savedNext,  \* NextDeviceID in the file of the device set
    baseReady,  \* the file of the base device says Initialized
    minted,     \* the hashes that were handed out
    held,       \* the hashes in the metadata of the driver: made, and not known to be deleted
    deletedAgain, \* history: a device was deleted whose file was gone
    dmLeft

dmVars == <<pool, poolTx, files, dmFlagged, txFile, dm, dmOp, savedNext, baseReady, minted, held, deletedAgain, dmLeft>>
IDs == 0 .. MaxDeviceID
NoID == MaxDeviceID + 1
NoDevice == "none"
NoTx == [open |-> 0, hash |-> NoDevice, id |-> NoID]
DmResting == [pc |-> "idle", kind |-> "none", h |-> NoDevice, id |-> NoID]
DmGoes(pc) == dmOp' = [dmOp EXCEPT !.pc = pc]
\* An operation on the base device that fails ends the start.
Gives == dmOp' = IF dmOp.h = "base" THEN [DmResting EXCEPT !.pc = "down"] ELSE DmResting
Rests == dmOp' = DmResting
Uses(what) == dmLeft[what] > 0 /\ dmLeft' = [dmLeft EXCEPT ![what] = @ - 1]

\* lookupDevice: the map of the device set, or else the file.
lookupDevice(h) == IF dm.devs[h] # NoID THEN dm.devs[h] ELSE files[h]
Known(h) == lookupDevice(h) # NoID
markDeviceIDUsed(m, id) == [m EXCEPT !.used = @ \cup {id}]
markDeviceIDFree(m, id) == [m EXCEPT !.used = @ \ {id}]
isDeviceIDFree(id) == id \notin dm.used
incNextDeviceID(n) == (n + 1) % (MaxDeviceID + 1)
\* getNextFreeDeviceID: the first free number after the last one, around the end.
getNextFreeDeviceID ==
    LET after == {k \in 1 .. MaxDeviceID + 1 : isDeviceIDFree(incNextDeviceID(dm.next + k - 1))}
    IN  IF after = {} THEN NoID
        ELSE incNextDeviceID(dm.next + (CHOOSE k \in after : \A j \in after : k <= j) - 1)
Takes(id) == [markDeviceIDUsed(dm, id) EXCEPT !.next = id]
-----------------------------------------------------------------------------
(* Making a device.                                                         *)
createRegisterDevice(h) ==
    LET id == getNextFreeDeviceID
    IN  /\ id # NoID /\ Uses("transactions")
        /\ dm' = Takes(id)
        /\ dmOp' = [pc |-> "open", kind |-> "add", h |-> h, id |-> id]

\* AddDevice: a snapshot of a known device that is not marked for deletion.
AddDevice(h, base) ==
    /\ dmOp.pc = "idle" /\ base \in held /\ Known(base) /\ base \notin dmFlagged /\ h \notin minted
    /\ createRegisterDevice(h) /\ minted' = minted \cup {h}
    /\ UNCHANGED <<pool, poolTx, files, dmFlagged, txFile, savedNext, baseReady, held, deletedAgain>>

\* At a start: the base device is made when there is none, and again when its file
\* system was not finished.
CreateBaseImage ==
    /\ dmOp.pc = "setup" /\ ~Known("base")
    /\ createRegisterDevice("base")
    /\ UNCHANGED <<pool, poolTx, files, dmFlagged, txFile, savedNext, baseReady, minted, held, deletedAgain>>
createFilesystem ==
    /\ dmOp.pc = "mkfs" /\ Rests
    /\ baseReady' = TRUE /\ savedNext' = dm.next /\ held' = held \cup {"base"}
    /\ UNCHANGED <<pool, poolTx, files, dmFlagged, txFile, dm, minted, dmLeft, deletedAgain>>
setupBaseImage ==
    /\ dmOp.pc = "setup" /\ Known("base")
    /\ IF baseReady THEN Rests /\ UNCHANGED dmLeft
       ELSE Uses("transactions") /\ dmOp' = [pc |-> "open", kind |-> "delete", h |-> "base", id |-> lookupDevice("base")]
    /\ UNCHANGED <<pool, poolTx, files, dmFlagged, txFile, dm, savedNext, baseReady, minted, held, deletedAgain>>

allocateTransactionID == dm.tx + 1
\* The file that says which transaction is open, the file of one device, and the next number.
saveTransactionMetaData(t) == txFile' = t
saveMetadata(h, id) == files' = [files EXCEPT ![h] = id]
saveDeviceSetMetaData == savedNext' = dm.next
openTransaction ==
    /\ dmOp.pc = "open"
    /\ \/ /\ dm' = [dm EXCEPT !.open = allocateTransactionID]
          /\ saveTransactionMetaData([open |-> allocateTransactionID, hash |-> dmOp.h, id |-> dmOp.id])
          /\ DmGoes(IF dmOp.kind = "add" THEN "make" ELSE "drop") /\ UNCHANGED dmLeft
       \/ /\ Uses("failures") /\ Gives /\ UNCHANGED txFile
          /\ dm' = [(IF dmOp.kind = "add" THEN markDeviceIDFree(dm, dmOp.id) ELSE dm)
                       EXCEPT !.open = allocateTransactionID]
    /\ UNCHANGED <<pool, poolTx, files, dmFlagged, savedNext, baseReady, minted, held, deletedAgain>>

\* A number that the pool has is passed over, and the next one is written to the file.
CreateSnapDevice ==
    /\ dmOp.pc = "make"
    /\ \/ /\ pool[dmOp.id] = NoDevice
          /\ pool' = [pool EXCEPT ![dmOp.id] = dmOp.h] /\ DmGoes("register")
          /\ UNCHANGED <<dm, txFile, dmLeft>>
       \/ /\ pool[dmOp.id] # NoDevice /\ UNCHANGED <<pool, dmLeft>>
          /\ IF getNextFreeDeviceID = NoID THEN Gives /\ UNCHANGED <<dm, txFile>>
             ELSE /\ dm' = Takes(getNextFreeDeviceID)
                  /\ saveTransactionMetaData([txFile EXCEPT !.id = getNextFreeDeviceID])
                  /\ dmOp' = [dmOp EXCEPT !.id = getNextFreeDeviceID]
       \/ Uses("failures") /\ dm' = markDeviceIDFree(dm, dmOp.id) /\ Gives /\ UNCHANGED <<pool, txFile>>
    /\ UNCHANGED <<poolTx, files, dmFlagged, savedNext, baseReady, minted, held, deletedAgain>>

registerDevice ==
    /\ dmOp.pc = "register"
    /\ \/ /\ saveMetadata(dmOp.h, dmOp.id) /\ dm' = [dm EXCEPT !.devs[dmOp.h] = dmOp.id]
          /\ DmGoes("close") /\ UNCHANGED <<pool, dmLeft>>
       \/ /\ Uses("failures") /\ pool' = [pool EXCEPT ![dmOp.id] = NoDevice]
          /\ dm' = markDeviceIDFree(dm, dmOp.id) /\ Gives /\ UNCHANGED files
    /\ UNCHANGED <<poolTx, dmFlagged, txFile, savedNext, baseReady, minted, held, deletedAgain>>

\* A transaction that cannot be closed takes a new device away again; after a deletion
\* the error is ignored.
closeTransaction ==
    /\ dmOp.pc = "close"
    /\ \/ /\ poolTx' = dm.open /\ dm' = [dm EXCEPT !.tx = dm.open] /\ UNCHANGED <<pool, files, dmLeft>>
          /\ IF dmOp.kind = "add" THEN DmGoes(IF dmOp.h = "base" THEN "mkfs" ELSE "answer") ELSE DmGoes("answer")
       \/ /\ Uses("failures") /\ UNCHANGED poolTx
          /\ IF dmOp.kind = "add"
             THEN /\ saveMetadata(dmOp.h, NoID) /\ pool' = [pool EXCEPT ![dmOp.id] = NoDevice]
                  /\ dm' = [markDeviceIDFree(dm, dmOp.id) EXCEPT !.devs[dmOp.h] = NoID] /\ Gives
             ELSE UNCHANGED <<pool, files, dm>> /\ DmGoes("answer")
    /\ UNCHANGED <<dmFlagged, txFile, savedNext, baseReady, minted, held, deletedAgain>>
\* The driver writes its metadata when the call has returned; it keeps a device that could
\* not be deleted, and the start of a daemon that cannot delete its base device ends.
Answers ==
    /\ dmOp.pc = "answer"
    /\ held' = (IF dmOp.kind = "add" THEN held \cup {dmOp.h} ELSE IF Known(dmOp.h) THEN held ELSE held \ {dmOp.h})
    /\ dmOp' = IF dmOp.h = "base" THEN [DmResting EXCEPT !.pc = IF Known("base") THEN "down" ELSE "setup"] ELSE DmResting
    /\ UNCHANGED <<pool, poolTx, files, dmFlagged, txFile, dm, savedNext, baseReady, minted, dmLeft, deletedAgain>>
-----------------------------------------------------------------------------
(* Mounting and deleting.                                                   *)
MountDevice(h) ==
    /\ dmOp.pc = "idle" /\ h \in held /\ Known(h) /\ h \notin dmFlagged /\ h # "base" /\ dm.mounts[h] < 2
    /\ dm' = [dm EXCEPT !.mounts[h] = @ + 1, !.devs[h] = lookupDevice(h)]
    /\ UNCHANGED <<pool, poolTx, files, dmFlagged, txFile, dmOp, savedNext, baseReady, minted, held, dmLeft, deletedAgain>>
UnmountDevice(h) ==
    /\ dmOp.pc = "idle" /\ dm.mounts[h] > 0
    /\ dm' = [dm EXCEPT !.mounts[h] = @ - 1]
    /\ UNCHANGED <<pool, poolTx, files, dmFlagged, txFile, dmOp, savedNext, baseReady, minted, held, dmLeft, deletedAgain>>
\* The driver drops the entry of a device that it has unmounted or resized.
invalidateDeviceInfo(h) ==
    /\ dmOp.pc = "idle" /\ h # "base" /\ dm.devs[h] # NoID
    /\ dm' = [dm EXCEPT !.devs[h] = NoID, !.mounts[h] = 0]
    /\ UNCHANGED <<pool, poolTx, files, dmFlagged, txFile, dmOp, savedNext, baseReady, minted, held, dmLeft, deletedAgain>>

DeleteDevice(h) ==
    /\ dmOp.pc = "idle" /\ h \in held /\ Known(h) /\ h # "base" /\ dm.mounts[h] = 0 /\ Uses("transactions")
    /\ dm' = [dm EXCEPT !.devs[h] = lookupDevice(h)]
    /\ dmOp' = [pc |-> "open", kind |-> "delete", h |-> h, id |-> lookupDevice(h)]
    /\ deletedAgain' = (deletedAgain \/ files[h] = NoID)
    /\ UNCHANGED <<pool, poolTx, files, dmFlagged, txFile, savedNext, baseReady, minted, held>>

markForDeferredDeletion(h) == dmFlagged' = dmFlagged \cup {h}
\* deleteTransaction: a busy device is marked for a deferred deletion, which the worker
\* repeats; any other error ends the deletion.  The transaction is closed in any case.
deleteTransaction ==
    /\ dmOp.pc = "drop"
    /\ \/ /\ pool[dmOp.id] # NoDevice /\ pool' = [pool EXCEPT ![dmOp.id] = NoDevice] /\ DmGoes("unregister")
          /\ UNCHANGED <<dmFlagged, dmLeft>>
       \/ pool[dmOp.id] = NoDevice /\ DmGoes("close") /\ UNCHANGED <<pool, dmFlagged, dmLeft>>
       \/ /\ Uses("failures") /\ DmGoes("close") /\ UNCHANGED pool
          /\ (markForDeferredDeletion(dmOp.h) \/ UNCHANGED dmFlagged)
    /\ UNCHANGED <<poolTx, files, txFile, dm, savedNext, baseReady, minted, held, deletedAgain>>

unregisterFreesFirst ==
    /\ dmOp.pc = "unregister" /\ DmGoes("close")
    /\ dm' = [markDeviceIDFree(dm, dmOp.id) EXCEPT !.devs[dmOp.h] = NoID]
    /\ \/ saveMetadata(dmOp.h, NoID) /\ dmFlagged' = dmFlagged \ {dmOp.h} /\ UNCHANGED dmLeft
       \/ Uses("failures") /\ UNCHANGED <<files, dmFlagged>>
    /\ UNCHANGED <<pool, poolTx, txFile, savedNext, baseReady, minted, held, deletedAgain>>
unregisterDevice ==
    /\ dmOp.pc = "unregister" /\ DmGoes("close")
    /\ \/ /\ saveMetadata(dmOp.h, NoID) /\ dmFlagged' = dmFlagged \ {dmOp.h}
          /\ dm' = [markDeviceIDFree(dm, dmOp.id) EXCEPT !.devs[dmOp.h] = NoID] /\ UNCHANGED dmLeft
       \/ Uses("failures") /\ dm' = [dm EXCEPT !.devs[dmOp.h] = NoID] /\ UNCHANGED <<files, dmFlagged>>
    /\ UNCHANGED <<pool, poolTx, txFile, savedNext, baseReady, minted, held, deletedAgain>>
-----------------------------------------------------------------------------
(* Stopping and starting.                                                   *)
Shutdown ==
    /\ dmOp.pc = "idle" /\ Uses("crashes")
    /\ saveDeviceSetMetaData /\ DmGoes("down")
    /\ UNCHANGED <<pool, poolTx, files, dmFlagged, txFile, dm, baseReady, minted, held, deletedAgain>>
Crash ==
    /\ dmOp.pc # "down" /\ Uses("crashes")
    /\ dmOp' = [DmResting EXCEPT !.pc = "down"]
    /\ UNCHANGED <<pool, poolTx, files, dmFlagged, txFile, dm, savedNext, baseReady, minted, held, deletedAgain>>

\* initMetaData: the files are loaded, their numbers are used, and a transaction that is
\* ahead of the pool is rolled back; the entry loaded for its hash stays in the map.
loaded ==
    [devs |-> files, mounts |-> [h \in Hashes |-> 0], used |-> {files[h] : h \in Hashes} \ {NoID},
     next |-> savedNext, tx |-> poolTx, open |-> txFile.open]
processPendingTransaction == txFile.open > poolTx
rollbackTransaction ==
    /\ pool' = [i \in IDs |-> IF i = txFile.id THEN NoDevice ELSE pool[i]]
    /\ files' = [files EXCEPT ![txFile.hash] = NoID] /\ dmFlagged' = dmFlagged \ {txFile.hash}
    /\ dm' = [markDeviceIDFree(loaded, txFile.id) EXCEPT !.open = poolTx]
    /\ txFile' = NoTx
initMetaData ==
    /\ dmOp.pc = "down" /\ dmOp' = [DmResting EXCEPT !.pc = "setup"]
    /\ IF processPendingTransaction
       THEN rollbackTransaction
       ELSE dm' = loaded /\ UNCHANGED <<pool, files, dmFlagged, txFile>>
    /\ baseReady' = (baseReady /\ files'["base"] # NoID)
    /\ UNCHANGED <<poolTx, savedNext, minted, held, dmLeft, deletedAgain>>
\* Another process has used the pool: the id is read again before a snapshot.
CheckTransactionID ==
    /\ dmOp.pc = "idle" /\ dm.open # txFile.open
    /\ dm' = [dm EXCEPT !.open = IF txFile = NoTx THEN dm.tx ELSE txFile.open, !.tx = IF txFile = NoTx THEN @ ELSE txFile.open]
    /\ UNCHANGED <<pool, poolTx, files, dmFlagged, txFile, dmOp, savedNext, baseReady, minted, held, dmLeft, deletedAgain>>
-----------------------------------------------------------------------------
dmInit ==
    /\ pool = [i \in IDs |-> NoDevice] /\ poolTx = 0
    /\ files = [h \in Hashes |-> NoID] /\ dmFlagged = {} /\ txFile = NoTx
    /\ dm = [devs |-> [h \in Hashes |-> NoID], mounts |-> [h \in Hashes |-> 0], used |-> {}, next |-> 0,
             tx |-> 0, open |-> 0]
    /\ dmOp = [DmResting EXCEPT !.pc = "setup"] /\ savedNext = 0
    /\ baseReady = FALSE /\ minted = {"base"} /\ held = {} /\ deletedAgain = FALSE
    /\ dmLeft = [failures |-> MaxDmFailures, crashes |-> MaxDmCrashes, transactions |-> MaxTransactions]

dmNext ==
    \/ CreateBaseImage \/ createFilesystem \/ setupBaseImage \/ Answers \/ openTransaction \/ CreateSnapDevice \/ registerDevice
    \/ closeTransaction \/ deleteTransaction \/ unregisterDevice
    \/ Shutdown \/ Crash \/ initMetaData \/ CheckTransactionID
    \/ \E h \in Hashes : MountDevice(h) \/ UnmountDevice(h) \/ invalidateDeviceInfo(h) \/ DeleteDevice(h)
    \/ \E h, base \in Hashes : AddDevice(h, base)
dmSpec == dmInit /\ [][dmNext]_dmVars
-----------------------------------------------------------------------------
\* No two devices share a number of the pool, so that a write to one never changes the
\* other, whatever fails and wherever a crash cuts a transaction off, until the driver
\* deletes a device again whose deletion a start has already undone: the entry that the
\* rollback leaves in the map names a number that another device may have by then.
NoSharedNumber ==
    deletedAgain \/ \A g, h \in Hashes : g # h /\ files[g] # NoID => files[g] # files[h]

=============================================================================
