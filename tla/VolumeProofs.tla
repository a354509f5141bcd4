------------------------------ MODULE VolumeProofs ------------------------------
(***************************************************************************)
(* Storage: the device set and the drivers of volumes, for every set of    *)
(* devices, labels and contents and every number of failures and crashes.  *)
(*                                                                         *)
(* No two devices of a pool share a number, until a device is deleted      *)
(* whose deletion a start has already undone.  A number is free only when  *)
(* no file names it (Kept).  The number of the running operation is nobody *)
(* else's (Owned), and so is that of the transaction file (Logged), which  *)
(* a start may free.                                                       *)
(*                                                                         *)
(* The drivers implement VolumeSpec.  Each action has a lemma that names   *)
(* the step of VolumeSpec it is, or says that it is not seen.  ThinInv     *)
(* keeps the devices of a volume, of its snapshots and of the running      *)
(* operation apart, and says what the operation has made sure of; DirInv   *)
(* says the latter of directories.                                         *)
(*                                                                         *)
(* Nothing writes to a volume while an operation reads or replaces it as a *)
(* whole.  QuietInv says why no instance comes back between the wait and   *)
(* the work: what shall run is locked, and nothing is left paused that     *)
(* shall run.  NfsInv says what an operation has made sure of before it    *)
(* replaces a device, so that no bind mount leads to the old one.          *)
(*                                                                         *)
(* Backups and restores of any number of tenants leave nothing half done.  *)
(* BkInv counts: the file has of each export what its goroutine has        *)
(* written (Copied), and each importer has had what was read of its stream *)
(* (Dealt), so that the one that sees the end of a whole archive has had   *)
(* all of it (Restored).                                                   *)
(***************************************************************************)
EXTENDS DeviceSet, DirVolumes, NfsExports, BackupStreams, SequenceTheorems, FiniteSetTheorems,
        TLAPS, WellFoundedInduction

-----------------------------------------------------------------------------
(* The device set (volume/devicemapper/devmapper/deviceset.go).             *)

PCs == {"idle", "setup", "open", "make", "register", "close", "answer", "mkfs", "drop", "unregister", "down"}
Numbers == IDs \cup {NoID}
DeviceSets == [devs : [Hashes -> Numbers], mounts : [Hashes -> Nat], used : SUBSET IDs, next : IDs, tx : Nat, open : Nat]
DeviceOps == [pc : PCs, kind : {"none", "add", "delete"}, h : Hashes \cup {NoDevice}, id : Numbers]
UnderWay == {"open", "make", "register", "close", "drop", "unregister"}

\* The state of the device set and of its files has its type.
DmTypeOK ==
    /\ dm \in DeviceSets /\ dmOp \in DeviceOps /\ files \in [Hashes -> Numbers] /\ savedNext \in IDs /\ poolTx \in Nat
    /\ txFile \in [open : Nat, hash : Hashes \cup {NoDevice}, id : Numbers] /\ baseReady \in BOOLEAN /\ "base" \in minted
    /\ dmLeft \in [{"failures", "crashes", "transactions"} -> Nat]
    /\ dmOp.pc \in UnderWay => dmOp.id \in IDs /\ dmOp.h \in Hashes /\ dmOp.kind # "none"
    /\ (dmOp.pc \in {"make", "register"} => dmOp.kind = "add") /\ (dmOp.pc \in {"drop", "unregister"} => dmOp.kind = "delete")

\* The number that a file names is used, and the map agrees with the file.
Kept(d) ==
    \A h \in Hashes : files[h] # NoID => files[h] \in d.used /\ d.devs[h] \in {NoID, files[h]}

\* The number of the running operation is no other device's.
Owned(o) ==
    /\ o.pc \in UnderWay => \A g \in Hashes : g # o.h => files[g] # o.id
    /\ o.pc \in {"open", "make", "register"} /\ o.kind = "add" => o.id \in dm.used /\ files[o.h] # o.id
    /\ o.pc = "close" /\ o.kind = "add" => files[o.h] = o.id

\* The transaction file names the running operation, and a number that is no other device's.
Logged(o, t) ==
    /\ o.pc \in UnderWay \ {"open"} => dm.open = t.open /\ t.hash = o.h /\ t.id = o.id
    /\ \A g \in Hashes : files[g] # NoID /\ files[g] = t.id => g = t.hash

\* The base device is there before any other, and it stays.
Based(o) ==
    /\ baseReady => files["base"] # NoID /\ (txFile.hash = "base" => txFile.open <= poolTx)
    /\ ~baseReady => \A h \in Hashes \ {"base"} : files[h] = NoID
    /\ o.pc = "idle" => baseReady
    /\ o.pc \in UnderWay \cup {"answer"} => (baseReady <=> o.h # "base")
    /\ o.pc = "mkfs" => ~baseReady /\ files["base"] # NoID /\ txFile.open <= poolTx

Apart == \A g, h \in Hashes : g # h /\ files[g] # NoID => files[g] # files[h]
NumbersOK == Apart /\ (dmOp.pc # "down" => Kept(dm)) /\ Owned(dmOp) /\ Logged(dmOp, txFile) /\ Based(dmOp)
DmInv == DmTypeOK /\ (deletedAgain \/ NumbersOK)

-----------------------------------------------------------------------------

\* A set of numbers that has an element has a least one.
LEMMA Least ==
    ASSUME NEW S \in SUBSET Nat, S # {}
    PROVE  \E k \in S : \A j \in S : k <= j
  <1>1. PICK k \in S : \A j \in S : ~ (<<j, k>> \in OpToRel(<, Nat))
    BY NatLessThanWellFounded, WFMin, Zenon
  <1>2. ASSUME NEW j \in S PROVE k <= j
    <2>1. ~ (<<j, k>> \in {ss \in Nat \X Nat : ss[1] < ss[2]})
      BY <1>1 DEF OpToRel
    <2>2. QED
      BY <2>1
  <1>3. QED
    BY <1>2

\* The number after one.
LEMMA NextNumber ==
    ASSUME NEW n \in Nat
    PROVE  incNextDeviceID(n) \in IDs
  BY BaseAssumption DEF incNextDeviceID, IDs

\* A free number is free.
LEMMA FreeNumber ==
    ASSUME dm \in DeviceSets, getNextFreeDeviceID # NoID
    PROVE  getNextFreeDeviceID \in IDs /\ getNextFreeDeviceID \notin dm.used
  <1> DEFINE after == {k \in 1 .. MaxDeviceID + 1 : isDeviceIDFree(incNextDeviceID(dm.next + k - 1))}
             k == CHOOSE i \in after : \A j \in after : i <= j
  <1>1. after # {} /\ getNextFreeDeviceID = incNextDeviceID(dm.next + k - 1)
    BY DEF getNextFreeDeviceID
  <1>2. after \in SUBSET Nat /\ MaxDeviceID \in Nat
    BY BaseAssumption
  <1>3. \E i \in after : \A j \in after : i <= j
    BY <1>1, <1>2, Least
  <1>4. k \in after
    BY <1>3
  <1>5. dm.next \in Nat /\ k \in Nat /\ k >= 1
    <2>1. dm.next \in IDs
      BY DEF DeviceSets
    <2>2. k \in 1 .. MaxDeviceID + 1
      BY <1>4
    <2> HIDE DEF k
    <2>3. QED
      BY <1>2, <2>1, <2>2 DEF IDs
  <1> HIDE DEF k
  <1>6. dm.next + k - 1 \in Nat
    BY <1>5
  <1>7. isDeviceIDFree(incNextDeviceID(dm.next + k - 1))
    BY <1>4
  <1>8. QED
    BY <1>1, <1>6, <1>7, NextNumber DEF isDeviceIDFree

\* A device set as its numbers and its files change.
LEMMA Changed ==
    ASSUME NEW d \in DeviceSets, NEW id \in IDs
    PROVE  /\ markDeviceIDUsed(d, id) \in DeviceSets /\ markDeviceIDFree(d, id) \in DeviceSets
           /\ markDeviceIDUsed(d, id).used = d.used \cup {id} /\ markDeviceIDFree(d, id).used = d.used \ {id}
           /\ markDeviceIDUsed(d, id).devs = d.devs /\ markDeviceIDFree(d, id).devs = d.devs
           /\ markDeviceIDUsed(d, id).open = d.open /\ markDeviceIDFree(d, id).open = d.open
           /\ markDeviceIDUsed(d, id).tx = d.tx /\ markDeviceIDFree(d, id).tx = d.tx
  BY DEF DeviceSets, markDeviceIDUsed, markDeviceIDFree

\* A device set with a number taken.
LEMMA Taken ==
    ASSUME dm \in DeviceSets, NEW id \in IDs
    PROVE  /\ Takes(id) \in DeviceSets /\ Takes(id).used = dm.used \cup {id} /\ Takes(id).devs = dm.devs
           /\ Takes(id).open = dm.open
  <1> DEFINE d == markDeviceIDUsed(dm, id)
  <1>1. d \in DeviceSets /\ d.used = dm.used \cup {id} /\ d.devs = dm.devs /\ d.open = dm.open
    BY Changed
  <1>2. Takes(id) = [d EXCEPT !.next = id]
    BY DEF Takes
  <1> HIDE DEF d
  <1>3. QED
    BY <1>1, <1>2 DEF DeviceSets

\* An operation takes a number: no file names it.
LEMMA CreateKeeps ==
    ASSUME DmInv, NEW h \in Hashes, createRegisterDevice(h), UNCHANGED <<files, txFile, savedNext, poolTx, baseReady, deletedAgain>>,
           "base" \in minted', deletedAgain \/ (baseReady <=> h # "base"), dmOp.pc # "down"
    PROVE  DmInv'
  <1> DEFINE id == getNextFreeDeviceID
  <1>1. dm \in DeviceSets /\ id \in IDs /\ id \notin dm.used
    BY FreeNumber DEF DmInv, DmTypeOK, createRegisterDevice
  <1>2. dm' \in DeviceSets /\ dm'.used = dm.used \cup {id} /\ dm'.devs = dm.devs /\ dm'.open = dm.open
    BY <1>1, Taken DEF createRegisterDevice
  <1>3. dmOp' = [pc |-> "open", kind |-> "add", h |-> h, id |-> id]
    BY DEF createRegisterDevice
  <1> HIDE DEF id
  <1>4. DmTypeOK'
    <2>1. dmOp' \in DeviceOps
      BY <1>1, <1>3 DEF DeviceOps, PCs, Numbers
    <2>2. dmLeft' \in [{"failures", "crashes", "transactions"} -> Nat]
      BY DEF DmInv, DmTypeOK, createRegisterDevice, Uses
    <2>3. dmOp'.id \in IDs /\ dmOp'.h \in Hashes /\ dmOp'.kind # "none" /\ dmOp'.pc = "open"
      BY <1>1, <1>3
    <2>4. QED
      BY <1>2, <2>1, <2>2, <2>3 DEF DmInv, DmTypeOK
  <1>5. ASSUME NumbersOK, ~deletedAgain PROVE NumbersOK'
    <2>1. \A g \in Hashes : files[g] # id
      BY <1>1, <1>5, BaseAssumption DEF NumbersOK, Kept, IDs, NoID
    <2>2. Kept(dm)'
      BY <1>2, <1>5 DEF NumbersOK, Kept
    <2>3. Owned(dmOp)'
      BY <1>1, <1>2, <1>3, <2>1 DEF Owned, UnderWay
    <2>4. Logged(dmOp, txFile)'
      BY <1>3, <1>5 DEF NumbersOK, Logged, UnderWay
    <2>5. Based(dmOp)'
      <3>1. dmOp'.pc = "open" /\ dmOp'.h = h
        BY <1>3
      <3>2. baseReady <=> h # "base"
        BY <1>5
      <3>3. QED
        BY <1>5, <3>1, <3>2 DEF NumbersOK, Based, UnderWay
    <2>6. QED
      BY <1>5, <2>2, <2>3, <2>4, <2>5 DEF NumbersOK, Apart
  <1>6. QED
    BY <1>4, <1>5 DEF DmInv

\* An operation that goes on, and one that gives up.
LEMMA GoesOn ==
    ASSUME dmOp \in DeviceOps, NEW pc \in PCs, DmGoes(pc)
    PROVE  dmOp' \in DeviceOps /\ dmOp'.pc = pc /\ dmOp'.kind = dmOp.kind /\ dmOp'.h = dmOp.h /\ dmOp'.id = dmOp.id
  BY DEF DeviceOps, DmGoes

\* An operation that gives up: the caller has its error, or a start that failed leaves the set down.
LEMMA GivesUp ==
    ASSUME Gives
    PROVE  dmOp' \in DeviceOps /\ dmOp'.pc \in {"idle", "down"} /\ (dmOp'.pc = "idle" => dmOp.h # "base")
  BY DEF DeviceOps, PCs, Numbers, Gives, DmResting

\* An operation that fails before its device has a file leaves the files, and its number,
\* when it has taken one, becomes free: no file names it.
LEMMA FailedKeeps ==
    ASSUME DmInv, Gives, dmOp.pc \in {"open", "make", "register"}, UNCHANGED <<files, txFile, savedNext, poolTx, baseReady, minted, deletedAgain>>,
           dm' \in DeviceSets, dm'.devs = dm.devs, dm'.used = dm.used \/ (dmOp.kind = "add" /\ dm'.used = dm.used \ {dmOp.id}),
           dmLeft' \in [{"failures", "crashes", "transactions"} -> Nat]
    PROVE  DmInv'
  <1>1. dmOp' \in DeviceOps /\ dmOp'.pc \in {"idle", "down"} /\ (dmOp'.pc = "idle" => dmOp.h # "base")
    BY GivesUp
  <1>2. DmTypeOK'
    BY <1>1 DEF DmInv, DmTypeOK, UnderWay
  <1>3. ASSUME NumbersOK PROVE NumbersOK'
    <2>1. dmOp.kind = "add" => \A g \in Hashes : files[g] # dmOp.id
      BY <1>3 DEF NumbersOK, Owned, UnderWay
    <2>2. Kept(dm)'
      BY <1>3, <2>1 DEF NumbersOK, Kept
    <2>3. Owned(dmOp)' /\ Logged(dmOp, txFile)'
      BY <1>1, <1>3 DEF NumbersOK, Owned, Logged, UnderWay
    <2>4. Based(dmOp)'
      BY <1>1, <1>3 DEF NumbersOK, Based, UnderWay
    <2>5. QED
      BY <1>3, <2>2, <2>3, <2>4 DEF NumbersOK, Apart
  <1>4. QED
    BY <1>2, <1>3 DEF DmInv

\* Counting a failure, a crash or a transaction.
LEMMA Counting ==
    ASSUME DmInv, NEW what \in {"failures", "crashes", "transactions"}, Uses(what)
    PROVE  dmLeft' \in [{"failures", "crashes", "transactions"} -> Nat]
  BY DEF DmInv, DmTypeOK, Uses

\* openTransaction writes the file of the transaction, or fails.
LEMMA OpenKeeps ==
    ASSUME DmInv, openTransaction
    PROVE  DmInv'
  <1>1. /\ dm \in DeviceSets /\ dmOp \in DeviceOps /\ dmOp.pc = "open" /\ allocateTransactionID \in Nat
        /\ dmOp.id \in IDs /\ dmOp.h \in Hashes /\ dmOp.kind # "none"
        /\ UNCHANGED <<files, savedNext, poolTx, baseReady, minted, deletedAgain>>
    BY DEF DmInv, DmTypeOK, openTransaction, DeviceSets, allocateTransactionID, UnderWay
  <1>2. ASSUME dm' = [dm EXCEPT !.open = allocateTransactionID],
               saveTransactionMetaData([open |-> allocateTransactionID, hash |-> dmOp.h, id |-> dmOp.id]),
               DmGoes(IF dmOp.kind = "add" THEN "make" ELSE "drop"), UNCHANGED dmLeft
        PROVE  DmInv'
    <2>1. dm' \in DeviceSets /\ dm'.used = dm.used /\ dm'.devs = dm.devs /\ dm'.open = allocateTransactionID
      BY <1>1, <1>2 DEF DeviceSets
    <2>2. /\ dmOp' \in DeviceOps /\ dmOp'.pc = (IF dmOp.kind = "add" THEN "make" ELSE "drop") /\ dmOp'.kind = dmOp.kind
          /\ dmOp'.h = dmOp.h /\ dmOp'.id = dmOp.id
      BY <1>1, <1>2, GoesOn DEF PCs
    <2>3. txFile' = [open |-> allocateTransactionID, hash |-> dmOp.h, id |-> dmOp.id]
      BY <1>2 DEF saveTransactionMetaData
    <2>4. DmTypeOK'
      BY <1>1, <1>2, <2>1, <2>2, <2>3 DEF DmInv, DmTypeOK, DeviceOps
    <2>5. ASSUME NumbersOK PROVE NumbersOK'
      <3>1. Kept(dm)'
        BY <1>1, <2>1, <2>5 DEF NumbersOK, Kept
      <3>2. Owned(dmOp)'
        <4>1. dmOp.kind # "add" => dmOp.kind = "delete"
          BY <1>1 DEF DeviceOps
        <4>2. QED
          BY <1>1, <2>1, <2>2, <2>5, <4>1 DEF NumbersOK, Owned, UnderWay
      <3>3. Logged(dmOp, txFile)'
        BY <1>1, <2>1, <2>2, <2>3, <2>5 DEF NumbersOK, Logged, Owned, UnderWay
      <3>4. Based(dmOp)'
        BY <1>1, <2>2, <2>3, <2>5 DEF NumbersOK, Based, UnderWay
      <3>5. QED
        BY <1>1, <2>5, <3>1, <3>2, <3>3, <3>4 DEF NumbersOK, Apart
    <2>6. QED
      BY <1>1, <2>4, <2>5 DEF DmInv
  <1>3. ASSUME Uses("failures"), Gives, UNCHANGED txFile,
               dm' = [(IF dmOp.kind = "add" THEN markDeviceIDFree(dm, dmOp.id) ELSE dm) EXCEPT !.open = allocateTransactionID]
        PROVE  DmInv'
    <2> DEFINE d == IF dmOp.kind = "add" THEN markDeviceIDFree(dm, dmOp.id) ELSE dm
    <2>1. d \in DeviceSets /\ d.devs = dm.devs /\ (d.used = dm.used \/ (dmOp.kind = "add" /\ d.used = dm.used \ {dmOp.id}))
      BY <1>1, Changed
    <2>2. dm' = [d EXCEPT !.open = allocateTransactionID]
      BY <1>3
    <2> HIDE DEF d
    <2>3. /\ dm' \in DeviceSets /\ dm'.devs = dm.devs
          /\ dm'.used = dm.used \/ (dmOp.kind = "add" /\ dm'.used = dm.used \ {dmOp.id})
      BY <1>1, <2>1, <2>2 DEF DeviceSets
    <2>4. QED
      BY <1>1, <1>3, <2>3, Counting, FailedKeeps
  <1>4. QED
    BY <1>2, <1>3 DEF openTransaction

\* CreateSnapDevice makes the device in the pool, takes another number, or fails.
LEMMA MakeKeeps ==
    ASSUME DmInv, CreateSnapDevice
    PROVE  DmInv'
  <1>1. /\ dm \in DeviceSets /\ dmOp \in DeviceOps /\ dmOp.pc = "make" /\ dmOp.id \in IDs /\ dmOp.h \in Hashes /\ dmOp.kind = "add"
        /\ UNCHANGED <<files, savedNext, poolTx, baseReady, minted, deletedAgain>>
    BY DEF DmInv, DmTypeOK, CreateSnapDevice, UnderWay
  <1>2. ASSUME DmGoes("register"), UNCHANGED <<dm, txFile, dmLeft>> PROVE DmInv'
    <2>1. dmOp' \in DeviceOps /\ dmOp'.pc = "register" /\ dmOp'.kind = dmOp.kind /\ dmOp'.h = dmOp.h /\ dmOp'.id = dmOp.id
      BY <1>1, <1>2, GoesOn DEF PCs
    <2>2. DmTypeOK'
      BY <1>1, <1>2, <2>1 DEF DmInv, DmTypeOK
    <2>3. ASSUME NumbersOK PROVE NumbersOK'
      <3>1. Owned(dmOp)' /\ Logged(dmOp, txFile)' /\ Kept(dm)'
        BY <1>1, <1>2, <2>1, <2>3 DEF NumbersOK, Owned, Logged, Kept, UnderWay
      <3>2. Based(dmOp)'
        BY <1>1, <1>2, <2>1, <2>3 DEF NumbersOK, Based, UnderWay
      <3>3. QED
        BY <1>1, <2>3, <3>1, <3>2 DEF NumbersOK, Apart
    <2>4. QED
      BY <1>1, <2>2, <2>3 DEF DmInv
  <1>3. ASSUME Gives, UNCHANGED <<dm, txFile, dmLeft>> PROVE DmInv'
    BY <1>1, <1>3, FailedKeeps DEF DmInv, DmTypeOK
  <1>4. ASSUME UNCHANGED dmLeft, getNextFreeDeviceID # NoID, dm' = Takes(getNextFreeDeviceID),
               saveTransactionMetaData([txFile EXCEPT !.id = getNextFreeDeviceID]), dmOp' = [dmOp EXCEPT !.id = getNextFreeDeviceID]
        PROVE  DmInv'
    <2> DEFINE id == getNextFreeDeviceID
    <2>1. id \in IDs /\ id \notin dm.used
      BY <1>1, <1>4, FreeNumber
    <2>2. dm' \in DeviceSets /\ dm'.used = dm.used \cup {id} /\ dm'.devs = dm.devs /\ dm'.open = dm.open
      BY <1>1, <1>4, <2>1, Taken
    <2>3. dmOp' = [dmOp EXCEPT !.id = id] /\ txFile' = [txFile EXCEPT !.id = id]
      BY <1>4 DEF saveTransactionMetaData
    <2> HIDE DEF id
    <2>4. dmOp' \in DeviceOps /\ dmOp'.pc = "make" /\ dmOp'.kind = dmOp.kind /\ dmOp'.h = dmOp.h /\ dmOp'.id = id
      BY <1>1, <2>1, <2>3 DEF DeviceOps, Numbers
    <2>5. /\ txFile' \in [open : Nat, hash : Hashes \cup {NoDevice}, id : Numbers]
          /\ txFile'.open = txFile.open /\ txFile'.hash = txFile.hash /\ txFile'.id = id
      BY <2>1, <2>3 DEF DmInv, DmTypeOK, Numbers
    <2>6. DmTypeOK'
      BY <1>1, <1>4, <2>1, <2>2, <2>4, <2>5 DEF DmInv, DmTypeOK
    <2>7. ASSUME NumbersOK PROVE NumbersOK'
      <3>1. \A g \in Hashes : files[g] # id
        BY <1>1, <2>1, <2>7, BaseAssumption DEF NumbersOK, Kept, IDs, NoID
      <3>2. Kept(dm)'
        BY <1>1, <2>2, <2>7 DEF NumbersOK, Kept
      <3>3. Owned(dmOp)' /\ Logged(dmOp, txFile)'
        BY <1>1, <2>2, <2>4, <2>5, <2>7, <3>1 DEF NumbersOK, Owned, Logged, UnderWay
      <3>4. Based(dmOp)'
        BY <1>1, <2>4, <2>5, <2>7 DEF NumbersOK, Based, UnderWay
      <3>5. QED
        BY <1>1, <2>7, <3>2, <3>3, <3>4 DEF NumbersOK, Apart
    <2>8. QED
      BY <1>1, <2>6, <2>7 DEF DmInv
  <1>5. ASSUME Uses("failures"), dm' = markDeviceIDFree(dm, dmOp.id), Gives, UNCHANGED txFile PROVE DmInv'
    <2>1. dm' \in DeviceSets /\ dm'.devs = dm.devs /\ dm'.used = dm.used \ {dmOp.id}
      BY <1>1, <1>5, Changed
    <2>2. QED
      BY <1>1, <1>5, <2>1, Counting, FailedKeeps
  <1>6. QED
    BY <1>2, <1>3, <1>4, <1>5 DEF CreateSnapDevice

\* registerDevice writes the file of the device, or fails.
LEMMA RegisterKeeps ==
    ASSUME DmInv, registerDevice
    PROVE  DmInv'
  <1>1. /\ dm \in DeviceSets /\ dmOp \in DeviceOps /\ dmOp.pc = "register" /\ dmOp.id \in IDs /\ dmOp.h \in Hashes /\ dmOp.kind = "add"
        /\ UNCHANGED <<txFile, savedNext, poolTx, baseReady, minted, deletedAgain>>
    BY DEF DmInv, DmTypeOK, registerDevice, UnderWay
  <1>2. ASSUME saveMetadata(dmOp.h, dmOp.id), dm' = [dm EXCEPT !.devs[dmOp.h] = dmOp.id], DmGoes("close"), UNCHANGED dmLeft
        PROVE  DmInv'
    <2> DEFINE h == dmOp.h
               id == dmOp.id
    <2>1. dmOp' \in DeviceOps /\ dmOp'.pc = "close" /\ dmOp'.kind = dmOp.kind /\ dmOp'.h = h /\ dmOp'.id = id
      BY <1>1, <1>2, GoesOn DEF PCs
    <2>2. /\ dm' \in DeviceSets /\ dm'.used = dm.used /\ dm'.open = dm.open /\ dm'.devs[h] = id
          /\ \A g \in Hashes \ {h} : dm'.devs[g] = dm.devs[g]
      BY <1>1, <1>2 DEF DeviceSets, Numbers
    <2>3. files' \in [Hashes -> Numbers] /\ files'[h] = id /\ \A g \in Hashes \ {h} : files'[g] = files[g]
      BY <1>1, <1>2 DEF DmInv, DmTypeOK, saveMetadata, Numbers
    <2>4. DmTypeOK'
      BY <1>1, <1>2, <2>1, <2>2, <2>3 DEF DmInv, DmTypeOK
    <2>5. ASSUME NumbersOK PROVE NumbersOK'
      <3>1. id \in dm.used /\ (\A g \in Hashes : g # h => files[g] # id) /\ id # NoID /\ txFile.id = id /\ txFile.hash = h
        <4>1. id \in dm.used /\ (\A g \in Hashes : g # h => files[g] # id)
          BY <1>1, <2>5 DEF NumbersOK, Owned, UnderWay
        <4>2. txFile.id = id /\ txFile.hash = h
          BY <1>1, <2>5 DEF NumbersOK, Logged, UnderWay
        <4>3. QED
          BY <1>1, <4>1, <4>2, BaseAssumption DEF IDs, NoID
      <3>2. Kept(dm)' /\ Apart'
        <4>1. Kept(dm) /\ Apart
          BY <1>1, <2>5 DEF NumbersOK
        <4>2. Apart'
          BY <2>3, <3>1, <4>1 DEF Apart
        <4>3. ASSUME NEW g \in Hashes, files'[g] # NoID PROVE files'[g] \in dm'.used /\ dm'.devs[g] \in {NoID, files'[g]}
          <5>1. CASE g = h
            BY <2>2, <2>3, <3>1, <5>1
          <5>2. CASE g # h
            BY <2>2, <2>3, <4>1, <4>3, <5>2 DEF Kept
          <5>3. QED
            BY <5>1, <5>2
        <4>4. QED
          BY <4>2, <4>3 DEF Kept
      <3>3. Owned(dmOp)' /\ Logged(dmOp, txFile)'
        BY <1>1, <2>1, <2>2, <2>3, <2>5, <3>1 DEF NumbersOK, Owned, Logged, UnderWay
      <3>4. Based(dmOp)'
        BY <1>1, <2>1, <2>3, <2>5, <3>1, BaseAssumption DEF NumbersOK, Based, UnderWay
      <3>5. QED
        BY <3>2, <3>3, <3>4 DEF NumbersOK
    <2>6. QED
      BY <1>1, <2>4, <2>5 DEF DmInv
  <1>3. ASSUME Uses("failures"), dm' = markDeviceIDFree(dm, dmOp.id), Gives, UNCHANGED files PROVE DmInv'
    <2>1. dm' \in DeviceSets /\ dm'.devs = dm.devs /\ dm'.used = dm.used \ {dmOp.id}
      BY <1>1, <1>3, Changed
    <2>2. QED
      BY <1>1, <1>3, <2>1, Counting, FailedKeeps
  <1>4. QED
    BY <1>2, <1>3 DEF registerDevice

\* closeTransaction raises the number of the pool; when it cannot, a new device goes again.
LEMMA CloseKeeps ==
    ASSUME DmInv, closeTransaction
    PROVE  DmInv'
  <1> DEFINE h == dmOp.h
             id == dmOp.id
  <1>1. /\ dm \in DeviceSets /\ dmOp \in DeviceOps /\ dmOp.pc = "close" /\ id \in IDs /\ h \in Hashes
        /\ UNCHANGED <<txFile, savedNext, baseReady, minted, deletedAgain>>
    BY DEF DmInv, DmTypeOK, closeTransaction, UnderWay
  <1>2. ASSUME NEW pc \in {"mkfs", "answer"}, DmGoes(pc), pc = "mkfs" => dmOp.kind = "add" /\ h = "base",
               poolTx' = dm.open, dm' = [dm EXCEPT !.tx = dm.open], UNCHANGED <<files, dmLeft>>
        PROVE  DmInv'
    <2>1. dmOp' \in DeviceOps /\ dmOp'.pc = pc /\ dmOp'.kind = dmOp.kind /\ dmOp'.h = h /\ dmOp'.id = id
      BY <1>1, <1>2, GoesOn DEF PCs
    <2>2. dm' \in DeviceSets /\ dm'.used = dm.used /\ dm'.open = dm.open /\ dm'.devs = dm.devs /\ dm.open \in Nat
      BY <1>1, <1>2 DEF DeviceSets
    <2>3. DmTypeOK'
      BY <1>1, <1>2, <2>1, <2>2 DEF DmInv, DmTypeOK, UnderWay
    <2>4. ASSUME NumbersOK PROVE NumbersOK'
      <3>1. poolTx' = txFile.open /\ txFile.open \in Nat
        BY <1>1, <1>2, <2>4 DEF NumbersOK, Logged, UnderWay, DmInv, DmTypeOK
      <3>2. Kept(dm)' /\ Owned(dmOp)' /\ Logged(dmOp, txFile)' /\ Apart'
        BY <1>1, <1>2, <2>1, <2>2, <2>4 DEF NumbersOK, Kept, Owned, Logged, UnderWay, Apart
      <3>3. pc = "mkfs" => files["base"] # NoID /\ ~baseReady
        BY <1>1, <1>2, <2>4, BaseAssumption DEF NumbersOK, Owned, Based, UnderWay, IDs, NoID
      <3>4. Based(dmOp)'
        BY <1>1, <1>2, <2>1, <2>4, <3>1, <3>3 DEF NumbersOK, Based, UnderWay
      <3>5. QED
        BY <3>2, <3>4 DEF NumbersOK
    <2>5. QED
      BY <1>1, <2>3, <2>4 DEF DmInv
  <1>3. ASSUME Uses("failures"), dmOp.kind = "add", UNCHANGED poolTx, saveMetadata(h, NoID), Gives,
               dm' = [markDeviceIDFree(dm, id) EXCEPT !.devs[h] = NoID]
        PROVE  DmInv'
    <2>1. dmOp' \in DeviceOps /\ dmOp'.pc \in {"idle", "down"} /\ (dmOp'.pc = "idle" => h # "base")
      BY GivesUp, <1>3
    <2>2. /\ dm' \in DeviceSets /\ dm'.used = dm.used \ {id} /\ dm'.devs[h] = NoID
          /\ \A g \in Hashes \ {h} : dm'.devs[g] = dm.devs[g]
      <3> DEFINE d == markDeviceIDFree(dm, id)
      <3>1. d \in DeviceSets /\ d.used = dm.used \ {id} /\ d.devs = dm.devs
        BY <1>1, Changed
      <3>2. dm' = [d EXCEPT !.devs[h] = NoID]
        BY <1>3
      <3> HIDE DEF d
      <3>3. QED
        BY <1>1, <3>1, <3>2 DEF DeviceSets, Numbers
    <2>3. files' \in [Hashes -> Numbers] /\ files'[h] = NoID /\ \A g \in Hashes \ {h} : files'[g] = files[g]
      BY <1>1, <1>3 DEF DmInv, DmTypeOK, saveMetadata, Numbers
    <2>4. DmTypeOK'
      BY <1>1, <1>3, <2>1, <2>2, <2>3, Counting DEF DmInv, DmTypeOK, UnderWay
    <2>5. ASSUME NumbersOK PROVE NumbersOK'
      <3>1. (\A g \in Hashes : g # h => files[g] # id) /\ Kept(dm) /\ Apart /\ (baseReady <=> h # "base")
        BY <1>1, <2>5 DEF NumbersOK, Owned, Based, UnderWay
      <3>2. Kept(dm)'
        BY <2>2, <2>3, <3>1 DEF Kept
      <3>3. Apart'
        BY <2>3, <3>1 DEF Apart
      <3>4. Owned(dmOp)' /\ Logged(dmOp, txFile)'
        BY <1>1, <2>1, <2>3, <2>5 DEF NumbersOK, Owned, Logged, UnderWay
      <3>5. Based(dmOp)'
        BY <1>1, <1>3, <2>1, <2>3, <2>5, <3>1, BaseAssumption DEF NumbersOK, Based, UnderWay
      <3>6. QED
        BY <3>2, <3>3, <3>4, <3>5 DEF NumbersOK
    <2>6. QED
      BY <1>1, <2>4, <2>5 DEF DmInv
  <1>4. ASSUME Uses("failures"), dmOp.kind # "add", UNCHANGED <<poolTx, files, dm>>, DmGoes("answer") PROVE DmInv'
    <2>1. dmOp' \in DeviceOps /\ dmOp'.pc = "answer" /\ dmOp'.kind = dmOp.kind /\ dmOp'.h = h /\ dmOp'.id = id
      BY <1>1, <1>4, GoesOn DEF PCs
    <2>2. DmTypeOK'
      BY <1>1, <1>4, <2>1, Counting DEF DmInv, DmTypeOK, UnderWay
    <2>3. ASSUME NumbersOK PROVE NumbersOK'
      <3>1. Kept(dm)' /\ Owned(dmOp)' /\ Logged(dmOp, txFile)' /\ Apart'
        BY <1>1, <1>4, <2>1, <2>3 DEF NumbersOK, Kept, Owned, Logged, UnderWay, Apart
      <3>2. Based(dmOp)'
        BY <1>1, <1>4, <2>1, <2>3 DEF NumbersOK, Based, UnderWay
      <3>3. QED
        BY <3>1, <3>2 DEF NumbersOK
    <2>4. QED
      BY <1>1, <2>2, <2>3 DEF DmInv
  <1>5. CASE poolTx' = dm.open /\ dm' = [dm EXCEPT !.tx = dm.open] /\ UNCHANGED <<pool, files, dmLeft>>
             /\ IF dmOp.kind = "add" THEN DmGoes(IF h = "base" THEN "mkfs" ELSE "answer") ELSE DmGoes("answer")
    <2>1. CASE dmOp.kind = "add" /\ h = "base"
      BY <1>2, <1>5, <2>1
    <2>2. CASE ~(dmOp.kind = "add" /\ h = "base")
      BY <1>2, <1>5, <2>2
    <2>3. QED
      BY <2>1, <2>2
  <1>6. QED
    BY <1>3, <1>4, <1>5 DEF closeTransaction

\* A step that leaves the files, the transaction and what is used and known.
LEMMA QuietKeeps ==
    ASSUME DmInv, UNCHANGED <<files, txFile, poolTx, deletedAgain>>, savedNext' \in IDs, "base" \in minted', baseReady' \in BOOLEAN,
           dm' \in DeviceSets, dm'.used = dm.used, dmOp.pc # "down",
           \A g \in Hashes : dm'.devs[g] \in {NoID, dm.devs[g], files[g]},
           dmOp' \in DeviceOps, dmOp'.pc \notin UnderWay \cup {"answer", "mkfs"},
           dmLeft' \in [{"failures", "crashes", "transactions"} -> Nat],
           NumbersOK => \/ baseReady' = baseReady /\ (dmOp'.pc = "idle" => baseReady)
                        \/ baseReady' /\ dmOp.pc = "mkfs"
    PROVE  DmInv'
  <1>1. DmTypeOK'
    BY DEF DmInv, DmTypeOK, UnderWay
  <1>2. ASSUME NumbersOK PROVE NumbersOK'
    <2>1. Kept(dm)' /\ Owned(dmOp)' /\ Logged(dmOp, txFile)' /\ Apart'
      BY <1>2 DEF NumbersOK, Kept, Owned, Logged, UnderWay, Apart
    <2>2. Based(dmOp)'
      BY <1>2 DEF NumbersOK, Based, UnderWay
    <2>3. QED
      BY <2>1, <2>2 DEF NumbersOK
  <1>3. QED
    BY <1>1, <1>2 DEF DmInv

\* An operation that rests, or leaves the daemon down or about to set up its base device.
LEMMA Resting ==
    ASSUME NEW pc \in {"idle", "setup", "down"}
    PROVE  /\ [DmResting EXCEPT !.pc = pc] \in DeviceOps /\ [DmResting EXCEPT !.pc = pc].pc = pc
           /\ DmResting \in DeviceOps /\ DmResting.pc = "idle"
  BY DEF DmResting, DeviceOps, PCs, Numbers

\* The number of a device that is known.
LEMMA KnownNumber ==
    ASSUME DmTypeOK, NEW h \in Hashes, Known(h)
    PROVE  lookupDevice(h) \in IDs
  BY DEF DmTypeOK, DeviceSets, Numbers, Known, lookupDevice

\* The start makes sure that there is a base device, and creates its file system.
LEMMA SetupKeeps ==
    ASSUME DmInv, CreateBaseImage \/ createFilesystem \/ setupBaseImage
    PROVE  DmInv'
  <1>1. "base" \in Hashes /\ dm \in DeviceSets /\ dmOp \in DeviceOps /\ DmTypeOK /\ savedNext \in IDs /\ dm.next \in IDs
        /\ "base" \in minted /\ baseReady \in BOOLEAN /\ dmLeft \in [{"failures", "crashes", "transactions"} -> Nat]
    BY BaseAssumption DEF DmInv, DmTypeOK, DeviceSets
  <1>2. ASSUME CreateBaseImage PROVE DmInv'
    <2>1. deletedAgain \/ ~baseReady
      BY <1>1, <1>2 DEF DmInv, NumbersOK, Based, CreateBaseImage, Known, lookupDevice
    <2>2. QED
      BY <1>1, <1>2, <2>1, CreateKeeps DEF CreateBaseImage
  <1>3. ASSUME createFilesystem PROVE DmInv'
    <2>1. dmOp' \in DeviceOps /\ dmOp'.pc = "idle"
      BY <1>3, Resting DEF createFilesystem, Rests
    <2>2. QED
      BY <1>1, <1>3, <2>1, QuietKeeps DEF createFilesystem, UnderWay
  <1>4. ASSUME dmOp.pc = "setup", baseReady, Rests, UNCHANGED dmLeft,
               UNCHANGED <<files, txFile, dm, savedNext, baseReady, minted, poolTx, deletedAgain>>
        PROVE  DmInv'
    <2>1. dmOp' \in DeviceOps /\ dmOp'.pc = "idle"
      BY <1>4, Resting DEF Rests
    <2>2. QED
      BY <1>1, <1>4, <2>1, QuietKeeps DEF UnderWay
  <1>5. ASSUME dmOp.pc = "setup", Known("base"), ~baseReady, Uses("transactions"),
               dmOp' = [pc |-> "open", kind |-> "delete", h |-> "base", id |-> lookupDevice("base")],
               UNCHANGED <<files, txFile, dm, savedNext, baseReady, minted, poolTx, deletedAgain>>
        PROVE  DmInv'
    <2> DEFINE id == lookupDevice("base")
    <2>1. id \in IDs /\ id # NoID
      BY <1>1, <1>5, KnownNumber DEF Known
    <2> HIDE DEF id
    <2>2. dmOp' \in DeviceOps /\ dmOp'.pc = "open" /\ dmOp'.kind = "delete" /\ dmOp'.h = "base" /\ dmOp'.id = id
      BY <1>1, <1>5, <2>1 DEF DeviceOps, PCs, Numbers, id
    <2>3. DmTypeOK'
      BY <1>1, <1>5, <2>1, <2>2, Counting DEF DmInv, DmTypeOK
    <2>4. ASSUME NumbersOK PROVE NumbersOK'
      <3>1. \A g \in Hashes : g # "base" => files[g] # id
        BY <1>5, <2>1, <2>4 DEF NumbersOK, Based
      <3>2. Kept(dm)' /\ Owned(dmOp)' /\ Logged(dmOp, txFile)' /\ Apart'
        BY <1>5, <2>2, <2>4, <3>1 DEF NumbersOK, Kept, Owned, Logged, UnderWay, Apart
      <3>3. Based(dmOp)'
        BY <1>5, <2>2, <2>4 DEF NumbersOK, Based, UnderWay
      <3>4. QED
        BY <3>2, <3>3 DEF NumbersOK
    <2>5. QED
      BY <1>5, <2>3, <2>4 DEF DmInv
  <1>6. QED
    BY <1>2, <1>3, <1>4, <1>5 DEF setupBaseImage

\* AddDevice takes a number for a new device.
LEMMA AddKeeps ==
    ASSUME DmInv, NEW h \in Hashes, NEW base \in Hashes, AddDevice(h, base)
    PROVE  DmInv'
  <1>1. h # "base" /\ dmOp.pc = "idle" /\ "base" \in minted'
    BY DEF DmInv, DmTypeOK, AddDevice
  <1>2. deletedAgain \/ baseReady
    BY <1>1 DEF DmInv, NumbersOK, Based
  <1>3. QED
    BY <1>1, <1>2, CreateKeeps DEF AddDevice

\* A device is mounted, unmounted or forgotten by the map.
LEMMA MountKeeps ==
    ASSUME DmInv, NEW h \in Hashes, MountDevice(h) \/ UnmountDevice(h) \/ invalidateDeviceInfo(h)
    PROVE  DmInv'
  <1>1. dm \in DeviceSets /\ dmOp \in DeviceOps /\ dmOp.pc = "idle" /\ UNCHANGED <<files, txFile, poolTx, dmOp, savedNext, baseReady, minted, deletedAgain, dmLeft>>
    BY DEF DmInv, DmTypeOK, MountDevice, UnmountDevice, invalidateDeviceInfo
  <1>2. lookupDevice(h) \in Numbers /\ lookupDevice(h) \in {dm.devs[h], files[h]}
    BY DEF DmInv, DmTypeOK, DeviceSets, lookupDevice
  <1> DEFINE Same == dm' \in DeviceSets /\ dm'.used = dm.used /\ \A g \in Hashes : dm'.devs[g] \in {NoID, dm.devs[g], files[g]}
  <1>3. Same
    <2>1. ASSUME MountDevice(h) PROVE Same
      <3>1. dm.mounts[h] + 1 \in Nat /\ dm' = [dm EXCEPT !.mounts[h] = @ + 1, !.devs[h] = lookupDevice(h)]
        BY <1>1, <2>1 DEF MountDevice, DeviceSets
      <3>2. QED
        BY <1>1, <1>2, <3>1 DEF DeviceSets
    <2>2. ASSUME UnmountDevice(h) PROVE Same
      BY <1>1, <2>2 DEF UnmountDevice, DeviceSets
    <2>3. ASSUME invalidateDeviceInfo(h) PROVE Same
      BY <1>1, <2>3 DEF invalidateDeviceInfo, DeviceSets, Numbers
    <2>4. QED
      BY <2>1, <2>2, <2>3
  <1>4. NumbersOK => baseReady
    BY <1>1 DEF NumbersOK, Based
  <1>5. QED
    BY <1>1, <1>3, <1>4, QuietKeeps DEF DmInv, DmTypeOK, UnderWay

\* The end of a call, a stop, a crash, and another process that has used the pool.
LEMMA EndKeeps ==
    ASSUME DmInv, Answers \/ Shutdown \/ Crash \/ CheckTransactionID
    PROVE  DmInv'
  <1>1. dm \in DeviceSets /\ dm.next \in IDs /\ dmOp \in DeviceOps /\ dmOp.pc # "down" /\ UNCHANGED <<files, txFile, poolTx, baseReady, minted, deletedAgain>>
        /\ savedNext \in IDs /\ "base" \in minted /\ baseReady \in BOOLEAN /\ dmLeft \in [{"failures", "crashes", "transactions"} -> Nat]
    BY DEF DmInv, DmTypeOK, DeviceSets, Answers, Shutdown, Crash, CheckTransactionID
  <1>2. ASSUME Answers PROVE DmInv'
    <2>1. dmOp' \in DeviceOps /\ dmOp'.pc \in {"idle", "setup", "down"} /\ (dmOp'.pc = "idle" => dmOp.h # "base")
      BY <1>2, Resting DEF Answers
    <2>2. NumbersOK => (dmOp'.pc = "idle" => baseReady)
      BY <1>2, <2>1 DEF NumbersOK, Based, Answers
    <2>3. QED
      BY <1>1, <1>2, <2>1, <2>2, QuietKeeps DEF Answers, UnderWay
  <1>3. ASSUME Shutdown PROVE DmInv'
    <2>1. dmOp' \in DeviceOps /\ dmOp'.pc = "down"
      BY <1>1, <1>3, GoesOn DEF Shutdown, PCs
    <2>2. dmLeft' \in [{"failures", "crashes", "transactions"} -> Nat]
      BY <1>3, Counting DEF Shutdown
    <2>3. QED
      BY <1>1, <1>3, <2>1, <2>2, QuietKeeps DEF Shutdown, saveDeviceSetMetaData, UnderWay
  <1>4. ASSUME Crash PROVE DmInv'
    <2>1. dmOp' \in DeviceOps /\ dmOp'.pc = "down"
      BY <1>4, Resting DEF Crash
    <2>2. dmLeft' \in [{"failures", "crashes", "transactions"} -> Nat]
      BY <1>4, Counting DEF Crash
    <2>3. QED
      BY <1>1, <1>4, <2>1, <2>2, QuietKeeps DEF Crash, UnderWay
  <1>5. ASSUME CheckTransactionID PROVE DmInv'
    <2>1. txFile.open \in Nat /\ dmOp.pc = "idle"
      BY <1>5 DEF DmInv, DmTypeOK, CheckTransactionID
    <2>2. dm' \in DeviceSets /\ dm'.used = dm.used /\ dm'.devs = dm.devs
      BY <1>1, <1>5, <2>1 DEF CheckTransactionID, DeviceSets
    <2>3. NumbersOK => baseReady
      BY <2>1 DEF NumbersOK, Based
    <2>4. QED
      BY <1>1, <1>5, <2>1, <2>2, <2>3, QuietKeeps DEF CheckTransactionID, UnderWay
  <1>6. QED
    BY <1>2, <1>3, <1>4, <1>5

\* A device is to be deleted: its number is its own, or its file is gone already.
LEMMA DeleteBegins ==
    ASSUME DmInv, NEW h \in Hashes, DeleteDevice(h)
    PROVE  DmInv'
  <1> DEFINE id == lookupDevice(h)
  <1>1. dm \in DeviceSets /\ dmOp.pc = "idle" /\ h # "base" /\ UNCHANGED <<files, txFile, poolTx, savedNext, baseReady, minted>>
        /\ dmLeft' \in [{"failures", "crashes", "transactions"} -> Nat] /\ DmTypeOK /\ files[h] \in Numbers
    BY Counting DEF DeleteDevice, DmInv, DmTypeOK
  <1>2. id \in IDs /\ id # NoID /\ id \in {dm.devs[h], files[h]} /\ (dm.devs[h] = NoID => id = files[h])
    BY <1>1, KnownNumber DEF DeleteDevice, Known, lookupDevice
  <1>3. dmOp' = [pc |-> "open", kind |-> "delete", h |-> h, id |-> id] /\ dm' = [dm EXCEPT !.devs[h] = id]
        /\ deletedAgain' = (deletedAgain \/ files[h] = NoID)
    BY DEF DeleteDevice
  <1> HIDE DEF id
  <1>4. dmOp' \in DeviceOps /\ dmOp'.pc = "open" /\ dmOp'.kind = "delete" /\ dmOp'.h = h /\ dmOp'.id = id
    BY <1>2, <1>3 DEF DeviceOps, PCs, Numbers
  <1>5. /\ dm' \in DeviceSets /\ dm'.used = dm.used /\ dm'.open = dm.open /\ dm'.devs[h] = id
        /\ \A g \in Hashes \ {h} : dm'.devs[g] = dm.devs[g]
    BY <1>1, <1>2, <1>3 DEF DeviceSets, Numbers
  <1>6. DmTypeOK'
    BY <1>1, <1>2, <1>4, <1>5 DEF DmTypeOK
  <1>7. ASSUME NumbersOK, files[h] # NoID PROVE NumbersOK'
    <2>1. Kept(dm) /\ Apart /\ baseReady
      BY <1>1, <1>7 DEF NumbersOK, Based
    <2>2. id = files[h]
      BY <1>2, <1>7, <2>1 DEF Kept
    <2>3. \A g \in Hashes : g # h => files[g] # id
      BY <1>7, <2>1, <2>2 DEF Apart
    <2>4. Kept(dm)'
      BY <1>1, <1>5, <2>1, <2>2 DEF Kept
    <2>5. Owned(dmOp)' /\ Logged(dmOp, txFile)' /\ Apart'
      BY <1>1, <1>4, <1>7, <2>1, <2>3 DEF NumbersOK, Owned, Logged, UnderWay, Apart
    <2>6. Based(dmOp)'
      BY <1>1, <1>4, <1>7, <2>1 DEF NumbersOK, Based, UnderWay
    <2>7. QED
      BY <2>4, <2>5, <2>6 DEF NumbersOK
  <1>8. QED
    BY <1>3, <1>6, <1>7 DEF DmInv

\* deleteTransaction only says how the deletion goes on.
LEMMA DropKeeps ==
    ASSUME DmInv, deleteTransaction
    PROVE  DmInv'
  <1>1. dmOp \in DeviceOps /\ dmOp.pc = "drop" /\ dmOp.kind = "delete" /\ dmLeft' \in [{"failures", "crashes", "transactions"} -> Nat]
        /\ UNCHANGED <<files, txFile, dm, poolTx, savedNext, baseReady, minted, deletedAgain>>
        /\ dmOp.id \in IDs /\ dmOp.h \in Hashes
    BY Counting DEF deleteTransaction, DmInv, DmTypeOK, UnderWay
  <1>2. ASSUME NEW pc \in {"unregister", "close"}, DmGoes(pc) PROVE DmInv'
    <2>1. dmOp' \in DeviceOps /\ dmOp'.pc = pc /\ dmOp'.kind = "delete" /\ dmOp'.h = dmOp.h /\ dmOp'.id = dmOp.id
      BY <1>1, <1>2, GoesOn DEF PCs
    <2>2. DmTypeOK'
      BY <1>1, <2>1 DEF DmInv, DmTypeOK
    <2>3. ASSUME NumbersOK PROVE NumbersOK'
      <3>1. Kept(dm)' /\ Owned(dmOp)' /\ Logged(dmOp, txFile)' /\ Apart'
        BY <1>1, <2>1, <2>3 DEF NumbersOK, Kept, Owned, Logged, UnderWay, Apart
      <3>2. Based(dmOp)'
        BY <1>1, <2>1, <2>3 DEF NumbersOK, Based, UnderWay
      <3>3. QED
        BY <3>1, <3>2 DEF NumbersOK
    <2>4. QED
      BY <1>1, <2>2, <2>3 DEF DmInv
  <1>3. QED
    BY <1>2 DEF deleteTransaction

\* unregisterDevice removes the file and frees the number, or only forgets the device.
LEMMA UnregisterKeeps ==
    ASSUME DmInv, unregisterDevice
    PROVE  DmInv'
  <1> DEFINE h == dmOp.h
             id == dmOp.id
  <1>1. dmOp \in DeviceOps /\ dmOp.pc = "unregister" /\ dmOp.kind = "delete" /\ id \in IDs /\ h \in Hashes /\ dm \in DeviceSets
        /\ UNCHANGED <<txFile, poolTx, savedNext, baseReady, minted, deletedAgain>> /\ DmGoes("close")
        /\ dmLeft' \in [{"failures", "crashes", "transactions"} -> Nat]
    BY Counting DEF unregisterDevice, DmInv, DmTypeOK, UnderWay
  <1>2. dmOp' \in DeviceOps /\ dmOp'.pc = "close" /\ dmOp'.kind = "delete" /\ dmOp'.h = h /\ dmOp'.id = id
    BY <1>1, GoesOn DEF PCs
  <1>3. ASSUME saveMetadata(h, NoID), dm' = [markDeviceIDFree(dm, id) EXCEPT !.devs[h] = NoID] PROVE DmInv'
    <2>1. /\ dm' \in DeviceSets /\ dm'.used = dm.used \ {id} /\ dm'.open = dm.open /\ dm'.devs[h] = NoID
          /\ \A g \in Hashes \ {h} : dm'.devs[g] = dm.devs[g]
      <3> DEFINE d == markDeviceIDFree(dm, id)
      <3>1. d \in DeviceSets /\ d.used = dm.used \ {id} /\ d.devs = dm.devs /\ d.open = dm.open
        BY <1>1, Changed
      <3>2. dm' = [d EXCEPT !.devs[h] = NoID]
        BY <1>3
      <3> HIDE DEF d
      <3>3. QED
        BY <1>1, <3>1, <3>2 DEF DeviceSets, Numbers
    <2>2. files' \in [Hashes -> Numbers] /\ files'[h] = NoID /\ \A g \in Hashes \ {h} : files'[g] = files[g]
      BY <1>1, <1>3 DEF DmInv, DmTypeOK, saveMetadata, Numbers
    <2>3. DmTypeOK'
      BY <1>1, <1>2, <2>1, <2>2 DEF DmInv, DmTypeOK
    <2>4. ASSUME NumbersOK PROVE NumbersOK'
      <3>1. (\A g \in Hashes : g # h => files[g] # id) /\ Kept(dm) /\ Apart /\ (baseReady <=> h # "base")
        BY <1>1, <2>4 DEF NumbersOK, Owned, Based, UnderWay
      <3>2. Kept(dm)'
        BY <2>1, <2>2, <3>1 DEF Kept
      <3>3. Apart'
        BY <2>2, <3>1 DEF Apart
      <3>4. Owned(dmOp)' /\ Logged(dmOp, txFile)'
        BY <1>1, <1>2, <2>1, <2>2, <2>4, BaseAssumption DEF NumbersOK, Owned, Logged, UnderWay, IDs, NoID
      <3>5. Based(dmOp)'
        BY <1>1, <1>2, <2>2, <2>4, <3>1, BaseAssumption DEF NumbersOK, Based, UnderWay
      <3>6. QED
        BY <3>2, <3>3, <3>4, <3>5 DEF NumbersOK
    <2>5. QED
      BY <1>1, <2>3, <2>4 DEF DmInv
  <1>4. ASSUME dm' = [dm EXCEPT !.devs[h] = NoID], UNCHANGED files PROVE DmInv'
    <2>1. dm' \in DeviceSets /\ dm'.used = dm.used /\ dm'.open = dm.open /\ \A g \in Hashes : dm'.devs[g] \in {NoID, dm.devs[g]}
      BY <1>1, <1>4 DEF DeviceSets, Numbers
    <2>2. DmTypeOK'
      BY <1>1, <1>2, <1>4, <2>1 DEF DmInv, DmTypeOK
    <2>3. ASSUME NumbersOK PROVE NumbersOK'
      <3>1. Kept(dm)' /\ Apart'
        BY <1>1, <1>4, <2>1, <2>3 DEF NumbersOK, Kept, Apart
      <3>2. Owned(dmOp)' /\ Logged(dmOp, txFile)'
        BY <1>1, <1>2, <1>4, <2>1, <2>3 DEF NumbersOK, Owned, Logged, UnderWay
      <3>3. Based(dmOp)'
        BY <1>1, <1>2, <1>4, <2>3 DEF NumbersOK, Based, UnderWay
      <3>4. QED
        BY <3>1, <3>2, <3>3 DEF NumbersOK
    <2>4. QED
      BY <1>1, <2>2, <2>3 DEF DmInv
  <1>5. QED
    BY <1>3, <1>4 DEF unregisterDevice

\* The device set as the files have it.
LEMMA Loaded ==
    ASSUME DmTypeOK
    PROVE  /\ loaded \in DeviceSets /\ loaded.devs = files /\ loaded.used = {files[h] : h \in Hashes} \ {NoID}
           /\ [markDeviceIDFree(loaded, txFile.id) EXCEPT !.open = poolTx] \in DeviceSets
           /\ [markDeviceIDFree(loaded, txFile.id) EXCEPT !.open = poolTx].devs = files
           /\ [markDeviceIDFree(loaded, txFile.id) EXCEPT !.open = poolTx].used = {files[h] : h \in Hashes} \ {NoID, txFile.id}
  <1> DEFINE numbers == {files[h] : h \in Hashes} \ {NoID}
  <1>1. numbers \subseteq IDs
    BY DEF DmTypeOK, Numbers
  <1> HIDE DEF numbers
  <1>2. loaded = [devs |-> files, mounts |-> [h \in Hashes |-> 0], used |-> numbers, next |-> savedNext, tx |-> poolTx, open |-> txFile.open]
    BY DEF loaded, numbers
  <1>3. [h \in Hashes |-> 0] \in [Hashes -> Nat] /\ txFile.open \in Nat
    BY DEF DmTypeOK
  <1>4. loaded \in DeviceSets /\ loaded.devs = files /\ loaded.used = numbers
    BY <1>1, <1>2, <1>3 DEF DmTypeOK, DeviceSets
  <1> DEFINE d == markDeviceIDFree(loaded, txFile.id)
  <1>5. d \in DeviceSets /\ d.devs = files /\ d.used = numbers \ {txFile.id}
    BY <1>4 DEF DeviceSets, markDeviceIDFree
  <1> HIDE DEF d
  <1>6. /\ [d EXCEPT !.open = poolTx] \in DeviceSets /\ [d EXCEPT !.open = poolTx].devs = files
        /\ [d EXCEPT !.open = poolTx].used = numbers \ {txFile.id}
    BY <1>5 DEF DmTypeOK, DeviceSets
  <1>7. QED
    BY <1>4, <1>6 DEF d, numbers

\* A start loads the files and undoes the transaction that a crash has cut off.
LEMMA StartKeeps ==
    ASSUME DmInv, initMetaData
    PROVE  DmInv'
  <1>1. DmTypeOK /\ "base" \in Hashes /\ dmOp.pc = "down" /\ UNCHANGED <<poolTx, savedNext, minted, deletedAgain, dmLeft>>
        /\ baseReady' = (baseReady /\ files'["base"] # NoID)
    BY BaseAssumption DEF DmInv, initMetaData
  <1>2. dmOp' \in DeviceOps /\ dmOp'.pc = "setup"
    BY Resting DEF initMetaData
  <1>3. ASSUME dm' = loaded, UNCHANGED <<files, txFile>> PROVE DmInv'
    <2>1. dm' \in DeviceSets /\ dm'.devs = files /\ dm'.used = {files[h] : h \in Hashes} \ {NoID}
      BY <1>1, <1>3, Loaded
    <2>2. DmTypeOK'
      BY <1>1, <1>2, <1>3, <2>1 DEF DmTypeOK, UnderWay
    <2>3. ASSUME NumbersOK PROVE NumbersOK'
      <3>1. Kept(dm)' /\ Apart'
        BY <1>3, <2>1, <2>3 DEF NumbersOK, Kept, Apart
      <3>2. Owned(dmOp)' /\ Logged(dmOp, txFile)'
        BY <1>2, <1>3, <2>3 DEF NumbersOK, Owned, Logged, UnderWay
      <3>3. Based(dmOp)'
        BY <1>1, <1>2, <1>3, <2>3 DEF NumbersOK, Based, UnderWay
      <3>4. QED
        BY <3>1, <3>2, <3>3 DEF NumbersOK
    <2>4. QED
      BY <1>1, <2>2, <2>3 DEF DmInv
  <1>4. ASSUME processPendingTransaction, rollbackTransaction PROVE DmInv'
    <2> DEFINE h == txFile.hash
    <2>1. dm' \in DeviceSets /\ dm'.devs = files /\ dm'.used = {files[g] : g \in Hashes} \ {NoID, txFile.id}
      <3>1. dm' = [markDeviceIDFree(loaded, txFile.id) EXCEPT !.open = poolTx]
        BY <1>4 DEF rollbackTransaction
      <3>2. QED
        BY <1>1, <3>1, Loaded
    <2>2. /\ files' \in [Hashes -> Numbers] /\ (\A g \in Hashes : g # h => files'[g] = files[g])
          /\ (\A g \in Hashes : g = h => files'[g] = NoID)
      BY <1>1, <1>4 DEF rollbackTransaction, DmTypeOK, Numbers
    <2>3. /\ txFile' = NoTx /\ txFile' \in [open : Nat, hash : Hashes \cup {NoDevice}, id : Numbers]
          /\ txFile'.hash = NoDevice /\ txFile'.id = NoID /\ ~(txFile.open <= poolTx)
      BY <1>1, <1>4 DEF rollbackTransaction, NoTx, Numbers, processPendingTransaction, DmTypeOK
    <2>4. DmTypeOK'
      BY <1>1, <1>2, <2>1, <2>2, <2>3 DEF DmTypeOK, UnderWay
    <2>5. ASSUME NumbersOK PROVE NumbersOK'
      <3>1. ASSUME NEW g \in Hashes, files'[g] # NoID PROVE files'[g] \in dm'.used /\ dm'.devs[g] = files'[g]
        <4>1. g # h /\ files'[g] = files[g]
          BY <2>2, <3>1
        <4>2. files[g] # txFile.id
          BY <2>5, <3>1, <4>1 DEF NumbersOK, Logged
        <4>3. QED
          BY <2>1, <3>1, <4>1, <4>2
      <3>2. Kept(dm)' /\ Apart'
        BY <2>2, <2>5, <3>1 DEF NumbersOK, Kept, Apart
      <3>3. Owned(dmOp)' /\ Logged(dmOp, txFile)'
        BY <1>2, <2>3 DEF Owned, Logged, UnderWay
      <3>4. baseReady => h # "base"
        BY <2>3, <2>5 DEF NumbersOK, Based
      <3>5. baseReady' <=> baseReady
        BY <1>1, <2>2, <2>5, <3>4 DEF NumbersOK, Based
      <3>6. Based(dmOp)'
        <4>1. baseReady' => files'["base"] # NoID
          BY <1>1
        <4>2. ~baseReady' => \A g \in Hashes \ {"base"} : files'[g] = NoID
          BY <2>2, <2>5, <3>5 DEF NumbersOK, Based
        <4>3. txFile'.hash # "base"
          BY <2>3 DEF NoDevice
        <4>4. QED
          BY <1>2, <4>1, <4>2, <4>3 DEF Based, UnderWay
      <3>7. QED
        BY <1>2, <3>2, <3>3, <3>6 DEF NumbersOK
    <2>6. QED
      BY <1>1, <2>4, <2>5 DEF DmInv
  <1>5. QED
    BY <1>3, <1>4 DEF initMetaData

\* The initial state.
LEMMA DmInitOK == dmInit => DmInv
  <1> SUFFICES ASSUME dmInit PROVE DmInv
    OBVIOUS
  <1>1. NoID \in Numbers /\ 0 \in IDs /\ "base" \in Hashes
    BY BaseAssumption DEF Numbers, IDs
  <1>2. dmOp \in DeviceOps /\ dmOp.pc = "setup"
    BY Resting DEF dmInit
  <1>3. dm \in DeviceSets
    BY <1>1 DEF dmInit, DeviceSets
  <1>4. txFile \in [open : Nat, hash : Hashes \cup {NoDevice}, id : Numbers] /\ txFile.hash = NoDevice
    BY <1>1 DEF dmInit, NoTx
  <1>5. dmLeft \in [{"failures", "crashes", "transactions"} -> Nat]
    BY BaseAssumption DEF dmInit
  <1>6. DmTypeOK
    BY <1>1, <1>2, <1>3, <1>4, <1>5 DEF dmInit, DmTypeOK, UnderWay
  <1>7. \A h \in Hashes : files[h] = NoID
    BY DEF dmInit
  <1>8. ~baseReady
    BY DEF dmInit
  <1>9. NumbersOK
    BY <1>2, <1>7, <1>8 DEF NumbersOK, Apart, Kept, Owned, Logged, Based, UnderWay
  <1>10. QED
    BY <1>6, <1>9 DEF DmInv

\* Every step.
LEMMA DmStepKeeps == DmInv /\ [dmNext]_dmVars => DmInv'
  <1> SUFFICES ASSUME DmInv, [dmNext]_dmVars PROVE DmInv'
    OBVIOUS
  <1>1. ASSUME UNCHANGED dmVars PROVE DmInv'
    <2>1. DmTypeOK'
      BY <1>1 DEF dmVars, DmInv, DmTypeOK
    <2>2. NumbersOK => NumbersOK'
      BY <1>1 DEF dmVars, NumbersOK, Apart, Kept, Owned, Logged, Based
    <2>3. QED
      BY <1>1, <2>1, <2>2 DEF dmVars, DmInv
  <1>2. ASSUME dmNext PROVE DmInv'
    BY <1>2, SetupKeeps, EndKeeps, OpenKeeps, MakeKeeps, RegisterKeeps, CloseKeeps, DropKeeps,
       UnregisterKeeps, StartKeeps,
       MountKeeps, DeleteBegins, AddKeeps DEF dmNext
  <1>3. QED
    BY <1>1, <1>2

\* Two devices never share a number, whatever fails and wherever a crash cuts a transaction
\* off, as long as none is deleted whose deletion a start has already undone.
THEOREM NumbersAreApart == dmSpec => []NoSharedNumber
  <1>1. DmInv => NoSharedNumber
    BY DEF DmInv, NumbersOK, Apart, NoSharedNumber
  <1>2. QED
    BY <1>1, DmInitOK, DmStepKeeps, PTL DEF dmSpec

-----------------------------------------------------------------------------
(* The devicemapper driver (volume/devicemapper/devicemapper.go).           *)

Devs == 0 .. thinMade
\* The steps at which the device of an operation is made and not yet named in metadata.json.
Making == {"created", "saved", "snapped", "informed", "copied", "unmounted", "mounted", "deleted", "load", "loaded"}
OnVolume == {"snapped", "informed", "copied", "unmounted", "mounted", "deleted", "load", "loaded", "rename", "unlist", "uninform"}
BetweenSteps == {"idle", "remove", "removedevice", "removedir", "cleandisk", "cleanlist"}

ThinTyped ==
    /\ deviceContent \in [1 .. MaxDevices -> Contents \cup {VolumeGone}]
    /\ thinMade \in 0 .. MaxDevices
    /\ md \in [dir : BOOLEAN, current : Devs, snaps : [Labels -> Devs]]
    /\ mounted \in Devs
    /\ thin \in [pc : {"set"} \cup OnVolume \cup Making \cup BetweenSteps, l : Labels \cup {"none"}, dev : Devs]
    /\ removing \in BOOLEAN

\* metadata.json names no device twice, and what is mounted is the device of no snapshot.
MetadataApart ==
    /\ ~md.dir => md.current = NoDev
    /\ md.current = NoDev => \A l \in Labels : md.snaps[l] = NoDev
    /\ \A l \in Labels : md.snaps[l] # NoDev =>
         /\ md.snaps[l] # md.current /\ md.snaps[l] # mounted
         /\ \A k \in Labels : md.snaps[k] = md.snaps[l] => k = l
    /\ mounted # NoDev => getVolume /\ ~removing
    /\ removing => getVolume /\ ~DeviceExists(md.current) /\ thin.pc \in BetweenSteps

\* The device that an operation makes is not in metadata.json.
DeviceApart ==
    thin.pc \in Making =>
        /\ DeviceExists(thin.dev) /\ thin.dev # md.current
        /\ \A l \in Labels : md.snaps[l] # thin.dev
        /\ thin.pc \notin {"mounted", "deleted"} => mounted # thin.dev

\* What an operation has made sure of, step by step.
StepKept ==
    /\ thin.pc \in OnVolume => thin.l \in Labels /\ getVolume
    /\ thin.pc = "created" => ~md.dir
    /\ thin.pc \in {"created", "saved"} => deviceContent[thin.dev] = Fresh
    /\ thin.pc = "saved" => md.dir /\ md.current = NoDev
    /\ thin.pc = "set" => md.dir /\ thin.dev = md.current /\ DeviceExists(thin.dev) /\ mounted = NoDev
    /\ thin.pc \in {"remove", "removedevice"} => getVolume
    /\ thin.pc = "removedevice" => mounted = NoDev
    /\ thin.pc = "removedir" => mounted = NoDev /\ (removing \/ ~getVolume)
    /\ thin.pc \in {"snapped", "informed", "load", "loaded"} => md.snaps[thin.l] = NoDev
    /\ thin.pc \in {"snapped", "informed"} =>
         DeviceExists(md.current) /\ deviceContent[thin.dev] = deviceContent[md.current]
    /\ thin.pc \in {"copied", "unmounted", "mounted", "deleted"} =>
         DeviceExists(md.snaps[thin.l]) /\ deviceContent[thin.dev] = deviceContent[md.snaps[thin.l]]
    /\ thin.pc = "unmounted" => mounted = NoDev
    /\ thin.pc \in {"mounted", "deleted"} => mounted = thin.dev
    /\ thin.pc = "rename" => md.snaps[thin.l] = thin.dev /\ thin.dev # NoDev
    /\ thin.pc = "unlist" => ~DeviceExists(md.snaps[thin.l])

ThinInv == ThinTyped /\ MetadataApart /\ DeviceApart /\ StepKept

\* The step is not seen.
Stands == UNCHANGED <<Visible, RestorableSnaps>>

\* The types of the fields, and that a device in use is one of those that may be made.
LEMMA Fields ==
    ASSUME ThinTyped
    PROVE  /\ md.dir \in BOOLEAN /\ md.current \in Devs /\ md.snaps \in [Labels -> Devs]
           /\ thin.dev \in Devs /\ thin.l \in Labels \cup {"none"}
           /\ \A l \in Labels : md.snaps[l] \in Devs
           /\ Devs \subseteq 0 .. MaxDevices
           /\ \A d \in Devs \ {NoDev} : d \in 1 .. MaxDevices /\ deviceContent[d] \in Contents \cup {VolumeGone}
  BY ThinAssumption DEF ThinTyped, Devs, NoDev

\* What a volume looks like depends on the devices in use, metadata.json and the mount only.
LEMMA SameView ==
    ASSUME ThinInv, UNCHANGED <<md, removing>>, Rolling' <=> Rolling, Rolling => thin'.dev = thin.dev,
           \/ mounted' = mounted
           \/ Visible # "torn" /\ mounted' \in {NoDev, deviceHash},
           \A d \in Devs \ {NoDev} : d = md.current \/ (Rolling /\ d = thin.dev) \/ (\E l \in Labels : d = md.snaps[l]) =>
               deviceContent'[d] = deviceContent[d]
    PROVE  Stands
  <1> USE Fields DEF ThinInv
  <1>1. Rolling => thin.dev \in Devs \ {NoDev}
    BY DEF Rolling, DeviceApart, Making, DeviceExists
  <1>2. Visible' = Visible
    <2>1. md.current # NoDev => deviceContent'[md.current] = deviceContent[md.current]
      OBVIOUS
    <2>2. Rolling => deviceContent'[thin.dev] = deviceContent[thin.dev]
      BY <1>1
    <2>3. QED
      BY <1>1, <2>1, <2>2 DEF Visible, getVolume, deviceHash, DeviceExists
  <1>3. \A l \in Labels : Restorable(l)' = Restorable(l)
    BY <1>2 DEF Restorable, DeviceExists
  <1>4. QED
    BY <1>2, <1>3 DEF Stands, RestorableSnaps

\* What changing one entry of metadata.json leaves alone.
LEMMA Relisted ==
    ASSUME ThinTyped, NEW l \in Labels, NEW d \in Devs, AddSnapshot(l, d)
    PROVE  /\ md' \in [dir : BOOLEAN, current : Devs, snaps : [Labels -> Devs]]
           /\ md'.dir = md.dir /\ md'.current = md.current /\ md'.snaps = [md.snaps EXCEPT ![l] = d]
  <1> DEFINE s == [md.snaps EXCEPT ![l] = d]
  <1>1. md' = [md EXCEPT !.snaps = s]
    BY DEF AddSnapshot
  <1>2. s \in [Labels -> Devs]
    BY DEF ThinTyped
  <1> HIDE DEF s
  <1>3. md' \in [dir : BOOLEAN, current : Devs, snaps : [Labels -> Devs]] /\ md'.dir = md.dir /\ md'.current = md.current /\ md'.snaps = s
    BY <1>1, <1>2 DEF ThinTyped
  <1>4. QED
    BY <1>3 DEF s

\* Nor does the current device change what it says of labels.
LEMMA Recurrent ==
    ASSUME ThinTyped, NEW d \in Devs, SetCurrentDevice(d)
    PROVE  /\ md' \in [dir : BOOLEAN, current : Devs, snaps : [Labels -> Devs]]
           /\ md'.dir = md.dir /\ md'.current = d /\ md'.snaps = md.snaps
  BY DEF ThinTyped, SetCurrentDevice

\* A step that changes what metadata.json says of one label changes nothing else.
LEMMA OneSnapshot ==
    ASSUME ThinInv, NEW l \in Labels, UNCHANGED <<removing, mounted>>, ~Rolling, ~Rolling',
           md'.dir = md.dir, md'.current = md.current, \A k \in Labels \ {l} : md'.snaps[k] = md.snaps[k],
           \A d \in Devs \ {NoDev} : d = md.current \/ (\E k \in Labels \ {l} : d = md.snaps[k]) => deviceContent'[d] = deviceContent[d]
    PROVE  Visible' = Visible /\ RestorableSnaps' = [RestorableSnaps EXCEPT ![l] = Restorable(l)']
  <1> USE Fields DEF ThinInv
  <1>1. Visible' = Visible
    BY DEF Visible, getVolume, deviceHash, DeviceExists, NoDev
  <1>2. \A k \in Labels \ {l} : Restorable(k)' = Restorable(k)
    BY <1>1 DEF Restorable, DeviceExists
  <1>3. QED
    BY <1>1, <1>2 DEF RestorableSnaps

\* A mount or an unmount of the current device is not seen.
LEMMA MountView ==
    ASSUME ThinInv, UNCHANGED <<deviceContent, md, removing>>, ~Rolling, ~Rolling',
           mounted \in {NoDev, md.current}, mounted' \in {NoDev, md.current}
    PROVE  Stands
  <1>1. Visible' = Visible
    BY DEF Visible, getVolume, deviceHash, DeviceExists, NoDev
  <1>2. QED
    BY <1>1 DEF Stands, RestorableSnaps, Restorable, DeviceExists

\* A device that is on disk holds one of the contents, and no content is one of the words.
LEMMA Whole ==
    ASSUME ThinInv
    PROVE  /\ \A d \in Devs : DeviceExists(d) => deviceContent[d] \in Contents
           /\ "absent" \notin Contents /\ "torn" \notin Contents
           /\ \A l \in Labels : RestorableSnaps[l] = Restorable(l)
           /\ \A l \in Labels : Restorable(l) # "absent" <=> Visible # "absent" /\ DeviceExists(md.snaps[l])
           /\ Visible # "absent" <=> getVolume /\ ~removing
  <1> USE Fields, ThinAssumption DEF ThinInv
  <1>1. /\ \A d \in Devs : DeviceExists(d) => deviceContent[d] \in Contents
        /\ "absent" \notin Contents /\ "torn" \notin Contents
    BY DEF DeviceExists, VolumeGone
  <1>2. \A l \in Labels : RestorableSnaps[l] = Restorable(l)
    BY DEF RestorableSnaps
  <1>3. \A l \in Labels : Restorable(l) # "absent" <=> Visible # "absent" /\ DeviceExists(md.snaps[l])
    BY <1>1 DEF Restorable
  <1>4. Rolling => DeviceExists(thin.dev)
    BY DEF Rolling, DeviceApart, Making
  <1>5. Visible # "absent" <=> getVolume /\ ~removing
    BY <1>1, <1>4 DEF Visible, deviceHash
  <1>6. QED
    BY <1>1, <1>2, <1>3, <1>5

\* A snapshot whose device is gone is removed, if it was seen at all.
LEMMA Unlisting ==
    ASSUME ThinInv, NEW l \in Labels, Visible' = Visible,
           RestorableSnaps' = [RestorableSnaps EXCEPT ![l] = Restorable(l)'], ~DeviceExists(md.snaps[l])'
    PROVE  Abstract!RemoveSnapshot(l) \/ Stands
  <1>1. Restorable(l)' = "absent"
    BY DEF Restorable
  <1>2. CASE Restorable(l) = "absent"
    BY <1>1, <1>2 DEF Stands, RestorableSnaps
  <1>3. CASE Restorable(l) # "absent"
    BY <1>1, <1>3, Whole DEF Abstract!RemoveSnapshot, Abstract!Absent
  <1>4. QED
    BY <1>2, <1>3

\* A device that is listed under a new label is an import, and a snapshot if it holds what
\* the volume does.
LEMMA Listing ==
    ASSUME ThinInv, NEW l \in Labels, Visible' = Visible, Visible # "absent",
           RestorableSnaps' = [RestorableSnaps EXCEPT ![l] = Restorable(l)'],
           md.snaps[l] = NoDev, md'.snaps[l] = thin.dev, DeviceExists(thin.dev), deviceContent' = deviceContent
    PROVE  /\ Abstract!Import(l)
           /\ deviceContent[thin.dev] = deviceContent[md.current] /\ DeviceExists(md.current) /\ ~Rolling => Abstract!Snapshot(l)
  <1>1. Restorable(l)' = deviceContent[thin.dev] /\ deviceContent[thin.dev] \in Contents
    BY Whole, Fields DEF Restorable, DeviceExists, ThinInv
  <1>2. RestorableSnaps[l] = "absent"
    BY Whole DEF DeviceExists
  <1>3. Abstract!Import(l)
    BY <1>1, <1>2 DEF Abstract!Import, Abstract!Absent, Abstract!Torn
  <1>4. ASSUME deviceContent[thin.dev] = deviceContent[md.current], DeviceExists(md.current), ~Rolling PROVE Abstract!Snapshot(l)
    <2>1. Visible \in {deviceContent[thin.dev], "torn"}
      BY <1>4 DEF Visible, deviceHash
    <2>2. deviceContent[thin.dev] \in Abstract!Seen(Visible) \cup {Abstract!Torn}
      BY <1>1, <2>1 DEF Abstract!Seen, Abstract!Torn
    <2>3. QED
      BY <1>1, <1>2, <2>2 DEF Abstract!Snapshot, Abstract!Absent
  <1>5. QED
    BY <1>3, <1>4

-----------------------------------------------------------------------------
(* Access and writes.                                                       *)

\* A volume that is mounted again has not changed.
LEMMA GetVolumeStep ==
    ASSUME ThinInv, GetVolume
    PROVE  ThinInv' /\ Stands
  <1> USE Fields, ThinAssumption DEF ThinInv, GetVolume, deviceHash, getVolume, snapshotExists, DeviceExists, NoDev, VolumeGone
  <1>1. ThinTyped'
    BY DEF ThinTyped, Devs, OnVolume, Making, BetweenSteps
  <1>2. MetadataApart' /\ DeviceApart' /\ StepKept'
    BY DEF ThinTyped, MetadataApart, DeviceApart, StepKept, OnVolume, Making, BetweenSteps, Devs
  <1>3. Stands
    BY MountView DEF ThinTyped, MetadataApart, DeviceApart, StepKept, OnVolume, Making, BetweenSteps, Devs,
       Rolling
  <1>4. QED
    BY <1>1, <1>2, <1>3

\* Nor has one that is released.
LEMMA ReleaseVolumeStep ==
    ASSUME ThinInv, ReleaseVolume
    PROVE  ThinInv' /\ Stands
  <1> USE Fields, ThinAssumption DEF ThinInv, ReleaseVolume, deviceHash, getVolume, snapshotExists, unmount, DeviceExists, NoDev, VolumeGone
  <1>1. ThinTyped'
    BY DEF ThinTyped, Devs, OnVolume, Making, BetweenSteps
  <1>2. MetadataApart' /\ DeviceApart' /\ StepKept'
    BY DEF ThinTyped, MetadataApart, DeviceApart, StepKept, OnVolume, Making, BetweenSteps, Devs
  <1>3. Stands
    BY MountView DEF ThinTyped, MetadataApart, DeviceApart, StepKept, OnVolume, Making, BetweenSteps, Devs,
       Rolling
  <1>4. QED
    BY <1>1, <1>2, <1>3

\* A write is one of the volume only where the current device is mounted; what is torn stays
\* torn.
LEMMA WriteStep ==
    ASSUME ThinInv, NEW c \in Contents, Write(c)
    PROVE  ThinInv' /\ (Abstract!Write \/ Stands)
  <1> USE Fields, ThinAssumption DEF ThinInv, Write, deviceHash, getVolume, snapshotExists, DeviceExists, NoDev, VolumeGone
  <1>1. ThinTyped'
    BY DEF ThinTyped, Devs, OnVolume, Making, BetweenSteps
  <1>2. MetadataApart' /\ DeviceApart' /\ StepKept'
    BY DEF ThinTyped, MetadataApart, DeviceApart, StepKept, OnVolume, Making, BetweenSteps, Devs
  <1>3. ASSUME Visible = "absent" PROVE Stands
    <2>1. Visible' = "absent"
      BY <1>3, Whole DEF ThinTyped, MetadataApart, DeviceApart, StepKept, OnVolume, Making, BetweenSteps,
         Devs, Visible
    <2>2. QED
      BY <1>3, <2>1 DEF Stands, RestorableSnaps, Restorable
  <1>4. ASSUME Visible # "absent" PROVE Abstract!Write \/ Stands
    <2>1. Visible' # "absent"
      BY <1>4, Whole DEF ThinTyped, MetadataApart, DeviceApart, StepKept, OnVolume, Making, BetweenSteps,
         Devs, Visible, Rolling
    <2>2. \A l \in Labels : Restorable(l)' = Restorable(l)
      BY <1>4, <2>1 DEF ThinTyped, MetadataApart, DeviceApart, StepKept, OnVolume, Making, BetweenSteps, Devs,
         Restorable
    <2>3. RestorableSnaps' = RestorableSnaps
      BY <2>2 DEF RestorableSnaps
    <2>4. QED
      BY <1>4, <2>3, Whole DEF ThinTyped, MetadataApart, DeviceApart, StepKept, OnVolume, Making,
         BetweenSteps, Devs, Visible, Rolling, Stands, Abstract!Write, Abstract!Seen, Abstract!Absent,
         Abstract!Torn, Restorable
  <1>5. Abstract!Write \/ Stands
    BY <1>3, <1>4
  <1>6. QED
    BY <1>1, <1>2, <1>5

\* A volume is created when its device becomes the current one in metadata.json, and not
\* before.
LEMMA CreateAddsStep ==
    ASSUME ThinInv, CreateAdds
    PROVE  ThinInv' /\ Stands
  <1> USE Fields, ThinAssumption DEF ThinInv, CreateAdds, addDevice, deviceHash, getVolume, snapshotExists, DeviceExists, NoDev, VolumeGone
  <1>1. ThinTyped'
    BY DEF ThinTyped, Devs, OnVolume, Making, BetweenSteps
  <1>2. MetadataApart' /\ DeviceApart' /\ StepKept'
    BY DEF ThinTyped, MetadataApart, DeviceApart, StepKept, OnVolume, Making, BetweenSteps, Devs
  <1>3. Stands
    BY SameView DEF ThinTyped, MetadataApart, DeviceApart, StepKept, OnVolume, Making, BetweenSteps, Devs,
       Rolling
  <1>4. QED
    BY <1>1, <1>2, <1>3

\* The directory alone is not a volume.
LEMMA CreateSavesStep ==
    ASSUME ThinInv, CreateSaves
    PROVE  ThinInv' /\ Stands
  <1> USE Fields, ThinAssumption DEF ThinInv, CreateSaves, ThinAt, deviceHash, getVolume, snapshotExists, DeviceExists, NoDev, VolumeGone
  <1>1. ThinTyped'
    BY DEF ThinTyped, Devs, OnVolume, Making, BetweenSteps
  <1>2. MetadataApart' /\ DeviceApart' /\ StepKept'
    BY DEF ThinTyped, MetadataApart, DeviceApart, StepKept, OnVolume, Making, BetweenSteps, Devs
  <1>3. Visible = "absent" /\ Visible' = "absent"
    BY DEF ThinTyped, MetadataApart, DeviceApart, StepKept, OnVolume, Making, BetweenSteps, Devs, Visible
  <1>4. Stands
    BY <1>3 DEF Stands, RestorableSnaps, Restorable
  <1>5. QED
    BY <1>1, <1>2, <1>4

\* Here it is, empty and without snapshots.
LEMMA CreateSetsStep ==
    ASSUME ThinInv, CreateSets
    PROVE  ThinInv' /\ Abstract!Create
  <1> USE Fields, ThinAssumption DEF ThinInv, CreateSets, ThinAt, deviceHash, getVolume, snapshotExists, DeviceExists, NoDev, VolumeGone
  <1>1. /\ md' \in [dir : BOOLEAN, current : Devs, snaps : [Labels -> Devs]]
        /\ md'.dir = md.dir /\ md'.current = thin.dev /\ md'.snaps = md.snaps
    BY Recurrent
  <1>2. ThinTyped'
    BY <1>1 DEF ThinTyped, Devs, OnVolume, Making, BetweenSteps
  <1>3. MetadataApart' /\ DeviceApart' /\ StepKept'
    BY <1>1 DEF ThinTyped, MetadataApart, DeviceApart, StepKept, OnVolume, Making, BetweenSteps, Devs
  <1>4. Visible = "absent" /\ Visible' = Fresh
    BY <1>1 DEF ThinTyped, MetadataApart, DeviceApart, StepKept, OnVolume, Making, BetweenSteps, Devs,
       Visible, Rolling
  <1>5. \A l \in Labels : Restorable(l) = "absent" /\ Restorable(l)' = "absent"
    BY <1>1, <1>4 DEF ThinTyped, MetadataApart, DeviceApart, StepKept, OnVolume, Making, BetweenSteps, Devs,
       Restorable
  <1>6. Abstract!Create
    BY <1>4, <1>5 DEF Abstract!Create, Abstract!Absent, RestorableSnaps
  <1>7. QED
    BY <1>2, <1>3, <1>6

\* The mount that ends Create is not seen.
LEMMA CreateMountsStep ==
    ASSUME ThinInv, CreateMounts
    PROVE  ThinInv' /\ Stands
  <1> USE Fields, ThinAssumption DEF ThinInv, CreateMounts, ThinIdle, deviceHash, getVolume, snapshotExists, DeviceExists, NoDev, VolumeGone
  <1>1. ThinTyped'
    BY DEF ThinTyped, Devs, OnVolume, Making, BetweenSteps
  <1>2. MetadataApart' /\ DeviceApart' /\ StepKept'
    BY DEF ThinTyped, MetadataApart, DeviceApart, StepKept, OnVolume, Making, BetweenSteps, Devs
  <1>3. Stands
    BY MountView DEF ThinTyped, MetadataApart, DeviceApart, StepKept, OnVolume, Making, BetweenSteps, Devs,
       Rolling
  <1>4. QED
    BY <1>1, <1>2, <1>3

\* Remove begins.
LEMMA RemoveBeginsStep ==
    ASSUME ThinInv, RemoveBegins
    PROVE  ThinInv' /\ Stands
  <1> USE Fields, ThinAssumption DEF ThinInv, RemoveBegins, ThinAt, deviceHash, getVolume, snapshotExists, DeviceExists, NoDev, VolumeGone
  <1>1. ThinTyped'
    BY DEF ThinTyped, Devs, OnVolume, Making, BetweenSteps
  <1>2. MetadataApart' /\ DeviceApart' /\ StepKept'
    BY DEF ThinTyped, MetadataApart, DeviceApart, StepKept, OnVolume, Making, BetweenSteps, Devs
  <1>3. Stands
    BY SameView DEF ThinTyped, MetadataApart, DeviceApart, StepKept, OnVolume, Making, BetweenSteps, Devs,
       Rolling
  <1>4. QED
    BY <1>1, <1>2, <1>3

\* Its loop removes one snapshot at a time.
LEMMA RemoveOneStep ==
    ASSUME ThinInv, NEW l \in Labels, RemoveOne(l)
    PROVE  ThinInv' /\ (Abstract!RemoveSnapshot(l) \/ Stands)
  <1> USE Fields, ThinAssumption DEF ThinInv, RemoveOne, deleteDevice, deviceHash, getVolume, snapshotExists, DeviceExists, NoDev, VolumeGone
  <1>1. /\ md' \in [dir : BOOLEAN, current : Devs, snaps : [Labels -> Devs]]
        /\ md'.dir = md.dir /\ md'.current = md.current /\ md'.snaps = [md.snaps EXCEPT ![l] = NoDev]
    BY Relisted DEF ThinTyped, MetadataApart, DeviceApart, StepKept, OnVolume, Making, BetweenSteps, Devs
  <1>2. ThinTyped'
    BY <1>1 DEF ThinTyped, Devs, OnVolume, Making, BetweenSteps
  <1>3. MetadataApart' /\ DeviceApart' /\ StepKept'
    BY <1>1 DEF ThinTyped, MetadataApart, DeviceApart, StepKept, OnVolume, Making, BetweenSteps, Devs
  <1>4. /\ \A k \in Labels \ {l} : md'.snaps[k] = md.snaps[k]
        /\ \A d \in Devs \ {NoDev} : d = md.current \/ (\E k \in Labels \ {l} : d = md.snaps[k]) => deviceContent'[d] = deviceContent[d]
        /\ ~Rolling /\ ~Rolling' /\ UNCHANGED <<removing, mounted>> /\ md'.dir = md.dir /\ md'.current = md.current
    BY <1>1 DEF ThinTyped, MetadataApart, DeviceApart, StepKept, OnVolume, Making, BetweenSteps, Devs, Rolling
  <1>5. ~DeviceExists(md.snaps[l])'
    BY <1>1 DEF ThinTyped, MetadataApart, DeviceApart, StepKept, OnVolume, Making, BetweenSteps, Devs
  <1>6. Visible' = Visible /\ RestorableSnaps' = [RestorableSnaps EXCEPT ![l] = Restorable(l)']
    BY <1>4, OneSnapshot
  <1>7. Abstract!RemoveSnapshot(l) \/ Stands
    BY <1>4, <1>5, <1>6, Unlisting
  <1>8. QED
    BY <1>2, <1>3, <1>7

\* The unmount shows a torn volume as its current device again.
LEMMA RemoveReleasesStep ==
    ASSUME ThinInv, RemoveReleases
    PROVE  ThinInv' /\ (Abstract!Settle \/ Stands)
  <1> USE Fields, ThinAssumption DEF ThinInv, RemoveReleases, ThinAt, ThinSpend, deviceHash, getVolume, snapshotExists, unmount, DeviceExists, NoDev, VolumeGone
  <1>1. ThinTyped'
    BY DEF ThinTyped, Devs, OnVolume, Making, BetweenSteps
  <1>2. MetadataApart' /\ DeviceApart' /\ StepKept'
    BY DEF ThinTyped, MetadataApart, DeviceApart, StepKept, OnVolume, Making, BetweenSteps, Devs
  <1>3. ASSUME Visible = "absent" PROVE Stands
    <2>1. Visible' = "absent"
      BY <1>3, Whole DEF ThinTyped, MetadataApart, DeviceApart, StepKept, OnVolume, Making, BetweenSteps,
         Devs, Visible
    <2>2. QED
      BY <1>3, <2>1 DEF Stands, RestorableSnaps, Restorable
  <1>4. ASSUME Visible # "absent" PROVE Abstract!Settle \/ Stands
    <2>1. Visible' # "absent"
      BY <1>4, Whole DEF ThinTyped, MetadataApart, DeviceApart, StepKept, OnVolume, Making, BetweenSteps,
         Devs, Visible, Rolling
    <2>2. \A l \in Labels : Restorable(l)' = Restorable(l)
      BY <1>4, <2>1 DEF ThinTyped, MetadataApart, DeviceApart, StepKept, OnVolume, Making, BetweenSteps, Devs,
         Restorable
    <2>3. RestorableSnaps' = RestorableSnaps
      BY <2>2 DEF RestorableSnaps
    <2>4. QED
      BY <1>4, <2>3, Whole DEF ThinTyped, MetadataApart, DeviceApart, StepKept, OnVolume, Making,
         BetweenSteps, Devs, Visible, Rolling, Stands, Abstract!Settle, Abstract!Seen, Abstract!Absent,
         Abstract!Torn, Restorable
  <1>5. Abstract!Settle \/ Stands
    BY <1>3, <1>4
  <1>6. QED
    BY <1>1, <1>2, <1>5

\* The volume is removed, with all that is left of its snapshots, when its device is deleted.
LEMMA RemoveDeletesStep ==
    ASSUME ThinInv, RemoveDeletes
    PROVE  ThinInv' /\ (Abstract!Remove \/ Stands)
  <1> USE Fields, ThinAssumption DEF ThinInv, RemoveDeletes, ThinAt, deleteDevice, deviceHash, getVolume, snapshotExists, DeviceExists, NoDev, VolumeGone
  <1>1. ThinTyped'
    BY DEF ThinTyped, Devs, OnVolume, Making, BetweenSteps
  <1>2. MetadataApart' /\ DeviceApart' /\ StepKept'
    BY DEF ThinTyped, MetadataApart, DeviceApart, StepKept, OnVolume, Making, BetweenSteps, Devs
  <1>3. Visible' = "absent" /\ \A l \in Labels : Restorable(l)' = "absent"
    BY DEF ThinTyped, MetadataApart, DeviceApart, StepKept, OnVolume, Making, BetweenSteps, Devs, Visible,
       Restorable
  <1>4. ASSUME Visible = "absent" PROVE Stands
    BY <1>3, <1>4 DEF Stands, RestorableSnaps, Restorable
  <1>5. ASSUME Visible # "absent" PROVE Abstract!Remove
    BY <1>3, <1>5 DEF Abstract!Remove, Abstract!Absent, RestorableSnaps
  <1>6. Abstract!Remove \/ Stands
    BY <1>4, <1>5
  <1>7. QED
    BY <1>1, <1>2, <1>6

\* What metadata.json still said of it was no longer seen.
LEMMA RemoveUnlistsStep ==
    ASSUME ThinInv, RemoveUnlists
    PROVE  ThinInv' /\ Stands
  <1> USE Fields, ThinAssumption DEF ThinInv, RemoveUnlists, ThinIdle, deviceHash, getVolume, snapshotExists, DeviceExists, NoDev, VolumeGone
  <1>1. /\ md' \in [dir : BOOLEAN, current : Devs, snaps : [Labels -> Devs]]
        /\ ~md'.dir /\ md'.current = NoDev /\ md'.snaps = [l \in Labels |-> NoDev]
    BY DEF NewMetadata, ThinTyped, Devs
  <1>2. ThinTyped'
    BY <1>1 DEF ThinTyped, Devs, OnVolume, Making, BetweenSteps
  <1>3. MetadataApart' /\ DeviceApart' /\ StepKept'
    BY <1>1 DEF ThinTyped, MetadataApart, DeviceApart, StepKept, OnVolume, Making, BetweenSteps, Devs
  <1>4. Visible = "absent" /\ Visible' = "absent"
    BY <1>1 DEF ThinTyped, MetadataApart, DeviceApart, StepKept, OnVolume, Making, BetweenSteps, Devs, Visible
  <1>5. Stands
    BY <1>4 DEF Stands, RestorableSnaps, Restorable
  <1>6. QED
    BY <1>2, <1>3, <1>5

-----------------------------------------------------------------------------
(* Snapshots.                                                               *)

\* A copy is not seen before it is listed.
LEMMA SnapshotAddsStep ==
    ASSUME ThinInv, NEW l \in Labels, SnapshotAdds(l)
    PROVE  ThinInv' /\ Stands
  <1> USE Fields, ThinAssumption DEF ThinInv, SnapshotAdds, Gettable, addDevice, deviceHash, getVolume, snapshotExists, DeviceExists, NoDev, VolumeGone
  <1>1. ThinTyped'
    BY DEF ThinTyped, Devs, OnVolume, Making, BetweenSteps
  <1>2. MetadataApart' /\ DeviceApart' /\ StepKept'
    BY DEF ThinTyped, MetadataApart, DeviceApart, StepKept, OnVolume, Making, BetweenSteps, Devs
  <1>3. Stands
    BY SameView DEF ThinTyped, MetadataApart, DeviceApart, StepKept, OnVolume, Making, BetweenSteps, Devs,
       Rolling
  <1>4. QED
    BY <1>1, <1>2, <1>3

\* Its .SNAPSHOTINFO is not looked at.
LEMMA SnapshotWritesInfoStep ==
    ASSUME ThinInv, SnapshotWritesInfo
    PROVE  ThinInv' /\ Stands
  <1> USE Fields, ThinAssumption DEF ThinInv, SnapshotWritesInfo, ThinAt, deviceHash, getVolume, snapshotExists, writeSnapshotInfo, DeviceExists, NoDev, VolumeGone
  <1>1. ThinTyped'
    BY DEF ThinTyped, Devs, OnVolume, Making, BetweenSteps
  <1>2. MetadataApart' /\ DeviceApart' /\ StepKept'
    BY DEF ThinTyped, MetadataApart, DeviceApart, StepKept, OnVolume, Making, BetweenSteps, Devs
  <1>3. Stands
    BY SameView DEF ThinTyped, MetadataApart, DeviceApart, StepKept, OnVolume, Making, BetweenSteps, Devs,
       Rolling
  <1>4. QED
    BY <1>1, <1>2, <1>3

\* A snapshot is listed with what the volume holds, for nothing wrote to the volume in
\* between.
LEMMA SnapshotListsStep ==
    ASSUME ThinInv, SnapshotLists
    PROVE  ThinInv' /\ Abstract!Snapshot(thin.l)
  <1> USE Fields, ThinAssumption DEF ThinInv, SnapshotLists, ThinIdle, deviceHash, getVolume, snapshotExists, DeviceExists, NoDev, VolumeGone
  <1>1. /\ md' \in [dir : BOOLEAN, current : Devs, snaps : [Labels -> Devs]]
        /\ md'.dir = md.dir /\ md'.current = md.current /\ md'.snaps = [md.snaps EXCEPT ![thin.l] = thin.dev]
    BY Relisted DEF ThinTyped, MetadataApart, DeviceApart, StepKept, OnVolume, Making, BetweenSteps, Devs
  <1>2. ThinTyped'
    BY <1>1 DEF ThinTyped, Devs, OnVolume, Making, BetweenSteps
  <1>3. MetadataApart' /\ DeviceApart' /\ StepKept'
    BY <1>1 DEF ThinTyped, MetadataApart, DeviceApart, StepKept, OnVolume, Making, BetweenSteps, Devs
  <1>4. PICK l \in Labels : l = thin.l
    BY DEF ThinTyped, MetadataApart, DeviceApart, StepKept, OnVolume, Making, BetweenSteps, Devs
  <1>5. /\ \A k \in Labels \ {l} : md'.snaps[k] = md.snaps[k]
        /\ \A d \in Devs \ {NoDev} : d = md.current \/ (\E k \in Labels \ {l} : d = md.snaps[k]) => deviceContent'[d] = deviceContent[d]
        /\ ~Rolling /\ ~Rolling' /\ UNCHANGED <<removing, mounted>> /\ md'.dir = md.dir /\ md'.current = md.current
    BY <1>1, <1>4 DEF ThinTyped, MetadataApart, DeviceApart, StepKept, OnVolume, Making, BetweenSteps, Devs,
       Rolling
  <1>6. /\ Visible # "absent" /\ md.snaps[l] = NoDev /\ md'.snaps[l] = thin.dev
        /\ DeviceExists(thin.dev) /\ deviceContent' = deviceContent
    BY <1>1, <1>4, Whole DEF ThinTyped, MetadataApart, DeviceApart, StepKept, OnVolume, Making, BetweenSteps,
       Devs
  <1>7. Visible' = Visible /\ RestorableSnaps' = [RestorableSnaps EXCEPT ![l] = Restorable(l)']
    BY <1>5, OneSnapshot
  <1>8. Abstract!Import(l) /\ (deviceContent[thin.dev] = deviceContent[md.current] /\ DeviceExists(md.current) => Abstract!Snapshot(l))
    BY <1>5, <1>6, <1>7, Listing
  <1>9. Abstract!Snapshot(thin.l)
    BY <1>4, <1>8 DEF ThinTyped, MetadataApart, DeviceApart, StepKept, OnVolume, Making, BetweenSteps, Devs
  <1>10. QED
    BY <1>2, <1>3, <1>9

\* A snapshot is removed when its device is deleted.
LEMMA RemoveSnapshotDeletesStep ==
    ASSUME ThinInv, NEW l \in Labels, RemoveSnapshotDeletes(l)
    PROVE  ThinInv' /\ (Abstract!RemoveSnapshot(l) \/ Stands)
  <1> USE Fields, ThinAssumption DEF ThinInv, RemoveSnapshotDeletes, Gettable, deleteDevice, deviceHash, getVolume, snapshotExists, DeviceExists, NoDev, VolumeGone
  <1>1. ThinTyped'
    BY DEF ThinTyped, Devs, OnVolume, Making, BetweenSteps
  <1>2. MetadataApart' /\ DeviceApart' /\ StepKept'
    BY DEF ThinTyped, MetadataApart, DeviceApart, StepKept, OnVolume, Making, BetweenSteps, Devs
  <1>3. /\ \A k \in Labels \ {l} : md'.snaps[k] = md.snaps[k]
        /\ \A d \in Devs \ {NoDev} : d = md.current \/ (\E k \in Labels \ {l} : d = md.snaps[k]) => deviceContent'[d] = deviceContent[d]
        /\ ~Rolling /\ ~Rolling' /\ UNCHANGED <<removing, mounted, md>>
    <2>1. UNCHANGED <<removing, mounted, md>> /\ ~Rolling /\ ~Rolling'
      BY DEF Rolling
    <2>2. md.snaps[l] \in Devs /\ md.snaps[l] # md.current /\ \A k \in Labels \ {l} : md.snaps[k] # md.snaps[l]
      BY DEF ThinTyped, MetadataApart
    <2>3. \A d \in Devs \ {NoDev} : d # md.snaps[l] => deviceContent'[d] = deviceContent[d]
      BY DEF ThinTyped
    <2>4. QED
      BY <2>1, <2>2, <2>3 DEF ThinTyped, MetadataApart, DeviceApart, StepKept, OnVolume, Making, BetweenSteps,
         Devs, Rolling
  <1>4. ~DeviceExists(md.snaps[l])'
    BY DEF ThinTyped, MetadataApart, DeviceApart, StepKept, OnVolume, Making, BetweenSteps, Devs
  <1>5. Visible' = Visible /\ RestorableSnaps' = [RestorableSnaps EXCEPT ![l] = Restorable(l)']
    BY <1>3, OneSnapshot
  <1>6. Abstract!RemoveSnapshot(l) \/ Stands
    BY <1>3, <1>4, <1>5, Unlisting
  <1>7. QED
    BY <1>1, <1>2, <1>6

\* Then it leaves metadata.json, unseen.
LEMMA RemoveSnapshotUnlistsStep ==
    ASSUME ThinInv, RemoveSnapshotUnlists
    PROVE  ThinInv' /\ (Abstract!RemoveSnapshot(thin.l) \/ Stands)
  <1> USE Fields, ThinAssumption DEF ThinInv, RemoveSnapshotUnlists, ThinAt, deviceHash, getVolume, snapshotExists, DeviceExists, NoDev, VolumeGone
  <1>1. /\ md' \in [dir : BOOLEAN, current : Devs, snaps : [Labels -> Devs]]
        /\ md'.dir = md.dir /\ md'.current = md.current /\ md'.snaps = [md.snaps EXCEPT ![thin.l] = NoDev]
    BY Relisted DEF ThinTyped, MetadataApart, DeviceApart, StepKept, OnVolume, Making, BetweenSteps, Devs
  <1>2. ThinTyped'
    BY <1>1 DEF ThinTyped, Devs, OnVolume, Making, BetweenSteps
  <1>3. MetadataApart' /\ DeviceApart' /\ StepKept'
    BY <1>1 DEF ThinTyped, MetadataApart, DeviceApart, StepKept, OnVolume, Making, BetweenSteps, Devs
  <1>4. PICK l \in Labels : l = thin.l
    BY DEF ThinTyped, MetadataApart, DeviceApart, StepKept, OnVolume, Making, BetweenSteps, Devs
  <1>5. /\ \A k \in Labels \ {l} : md'.snaps[k] = md.snaps[k]
        /\ \A d \in Devs \ {NoDev} : d = md.current \/ (\E k \in Labels \ {l} : d = md.snaps[k]) => deviceContent'[d] = deviceContent[d]
        /\ ~Rolling /\ ~Rolling' /\ UNCHANGED <<removing, mounted>> /\ md'.dir = md.dir /\ md'.current = md.current
    BY <1>4, <1>1 DEF ThinTyped, MetadataApart, DeviceApart, StepKept, OnVolume, Making, BetweenSteps, Devs,
       Rolling
  <1>6. ~DeviceExists(md.snaps[l])'
    BY <1>4, <1>1 DEF ThinTyped, MetadataApart, DeviceApart, StepKept, OnVolume, Making, BetweenSteps, Devs
  <1>7. Visible' = Visible /\ RestorableSnaps' = [RestorableSnaps EXCEPT ![l] = Restorable(l)']
    BY <1>5, OneSnapshot
  <1>8. Abstract!RemoveSnapshot(thin.l) \/ Stands
    BY <1>4, <1>5, <1>6, <1>7, Unlisting
  <1>9. QED
    BY <1>2, <1>3, <1>8

\* And its .SNAPSHOTINFO goes.
LEMMA RemoveSnapshotInfoStep ==
    ASSUME ThinInv, RemoveSnapshotInfo
    PROVE  ThinInv' /\ Stands
  <1> USE Fields, ThinAssumption DEF ThinInv, RemoveSnapshotInfo, ThinIdle, deviceHash, getVolume, snapshotExists, DeviceExists, NoDev, VolumeGone
  <1>1. ThinTyped'
    BY DEF ThinTyped, Devs, OnVolume, Making, BetweenSteps
  <1>2. MetadataApart' /\ DeviceApart' /\ StepKept'
    BY DEF ThinTyped, MetadataApart, DeviceApart, StepKept, OnVolume, Making, BetweenSteps, Devs
  <1>3. Stands
    BY SameView DEF ThinTyped, MetadataApart, DeviceApart, StepKept, OnVolume, Making, BetweenSteps, Devs,
       Rolling
  <1>4. QED
    BY <1>1, <1>2, <1>3

\* A tag is no content.
LEMMA TagThinSnapshotStep ==
    ASSUME ThinInv, NEW l \in Labels, NEW t \in Tags, TagThinSnapshot(l, t)
    PROVE  ThinInv' /\ Stands
  <1> USE Fields, ThinAssumption DEF ThinInv, TagThinSnapshot, Gettable, deviceHash, getVolume, snapshotExists, writeSnapshotInfo, DeviceExists, NoDev, VolumeGone
  <1>1. ThinTyped'
    BY DEF ThinTyped, Devs, OnVolume, Making, BetweenSteps
  <1>2. MetadataApart' /\ DeviceApart' /\ StepKept'
    BY DEF ThinTyped, MetadataApart, DeviceApart, StepKept, OnVolume, Making, BetweenSteps, Devs
  <1>3. Stands
    BY SameView DEF ThinTyped, MetadataApart, DeviceApart, StepKept, OnVolume, Making, BetweenSteps, Devs,
       Rolling
  <1>4. QED
    BY <1>1, <1>2, <1>3

\* Nor is the lack of one.
LEMMA UntagSnapshotStep ==
    ASSUME ThinInv, NEW t \in Tags, UntagSnapshot(t)
    PROVE  ThinInv' /\ Stands
  <1> USE Fields, ThinAssumption DEF ThinInv, UntagSnapshot, Gettable, deviceHash, getVolume, snapshotExists, writeSnapshotInfo, DeviceExists, NoDev, VolumeGone
  <1>1. ThinTyped'
    BY DEF ThinTyped, Devs, OnVolume, Making, BetweenSteps
  <1>2. MetadataApart' /\ DeviceApart' /\ StepKept'
    BY DEF ThinTyped, MetadataApart, DeviceApart, StepKept, OnVolume, Making, BetweenSteps, Devs
  <1>3. Stands
    BY SameView DEF ThinTyped, MetadataApart, DeviceApart, StepKept, OnVolume, Making, BetweenSteps, Devs,
       Rolling
  <1>4. QED
    BY <1>1, <1>2, <1>3

-----------------------------------------------------------------------------
(* Rollback.                                                                *)

\* The copy of the snapshot that is rolled back to is not seen.
LEMMA RollbackCopiesStep ==
    ASSUME ThinInv, NEW l \in Labels, RollbackCopies(l)
    PROVE  ThinInv' /\ Stands
  <1> USE Fields, ThinAssumption DEF ThinInv, RollbackCopies, Gettable, addDevice, deviceHash, getVolume, snapshotExists, DeviceExists, NoDev, VolumeGone
  <1>1. ThinTyped'
    BY DEF ThinTyped, Devs, OnVolume, Making, BetweenSteps
  <1>2. MetadataApart' /\ DeviceApart' /\ StepKept'
    BY DEF ThinTyped, MetadataApart, DeviceApart, StepKept, OnVolume, Making, BetweenSteps, Devs
  <1>3. Stands
    BY SameView DEF ThinTyped, MetadataApart, DeviceApart, StepKept, OnVolume, Making, BetweenSteps, Devs,
       Rolling
  <1>4. QED
    BY <1>1, <1>2, <1>3

\* The volume is unmounted; what was torn may show its current device.
LEMMA RollbackUnmountsStep ==
    ASSUME ThinInv, RollbackUnmounts
    PROVE  ThinInv' /\ (Abstract!Settle \/ Stands)
  <1> USE Fields, ThinAssumption DEF ThinInv, RollbackUnmounts, ThinAt, deviceHash, getVolume, snapshotExists, unmount, DeviceExists, NoDev, VolumeGone
  <1>1. ThinTyped'
    <2>1. thin' \in [pc : {"set"} \cup OnVolume \cup Making \cup BetweenSteps, l : Labels \cup {"none"}, dev : Devs]
      BY DEF ThinTyped, OnVolume
    <2>2. QED
      BY <2>1 DEF ThinTyped, Devs
  <1>2. MetadataApart' /\ DeviceApart' /\ StepKept'
    BY DEF ThinTyped, MetadataApart, DeviceApart, StepKept, OnVolume, Making, BetweenSteps, Devs
  <1>3. ASSUME Visible = "absent" PROVE Stands
    <2>1. Visible' = "absent"
      BY <1>3, Whole DEF ThinTyped, MetadataApart, DeviceApart, StepKept, OnVolume, Making, BetweenSteps,
         Devs, Visible
    <2>2. QED
      BY <1>3, <2>1 DEF Stands, RestorableSnaps, Restorable
  <1>4. ASSUME Visible # "absent" PROVE Abstract!Settle \/ Stands
    <2>1. Visible' # "absent"
      BY <1>4, Whole DEF ThinTyped, MetadataApart, DeviceApart, StepKept, OnVolume, Making, BetweenSteps,
         Devs, Visible, Rolling
    <2>2. \A l \in Labels : Restorable(l)' = Restorable(l)
      BY <1>4, <2>1 DEF ThinTyped, MetadataApart, DeviceApart, StepKept, OnVolume, Making, BetweenSteps, Devs,
         Restorable
    <2>3. RestorableSnaps' = RestorableSnaps
      BY <2>2 DEF RestorableSnaps
    <2>4. QED
      BY <1>4, <2>3, Whole DEF ThinTyped, MetadataApart, DeviceApart, StepKept, OnVolume, Making,
         BetweenSteps, Devs, Visible, Rolling, Stands, Abstract!Settle, Abstract!Seen, Abstract!Absent,
         Abstract!Torn, Restorable
  <1>5. Abstract!Settle \/ Stands
    BY <1>3, <1>4
  <1>6. QED
    BY <1>1, <1>2, <1>5

\* The copy is mounted: the old device counts as long as it is there.
LEMMA RollbackMountsStep ==
    ASSUME ThinInv, RollbackMounts
    PROVE  ThinInv' /\ (Abstract!Settle \/ Stands)
  <1> USE Fields, ThinAssumption DEF ThinInv, RollbackMounts, ThinAt, deviceHash, getVolume, snapshotExists, DeviceExists, NoDev, VolumeGone
  <1>1. ThinTyped'
    BY DEF ThinTyped, Devs, OnVolume, Making, BetweenSteps
  <1>2. MetadataApart' /\ DeviceApart' /\ StepKept'
    BY DEF ThinTyped, MetadataApart, DeviceApart, StepKept, OnVolume, Making, BetweenSteps, Devs
  <1>3. ASSUME Visible = "absent" PROVE Stands
    <2>1. Visible' = "absent"
      BY <1>3, Whole DEF ThinTyped, MetadataApart, DeviceApart, StepKept, OnVolume, Making, BetweenSteps,
         Devs, Visible
    <2>2. QED
      BY <1>3, <2>1 DEF Stands, RestorableSnaps, Restorable
  <1>4. ASSUME Visible # "absent" PROVE Abstract!Settle \/ Stands
    <2>1. Visible' # "absent"
      BY <1>4, Whole DEF ThinTyped, MetadataApart, DeviceApart, StepKept, OnVolume, Making, BetweenSteps,
         Devs, Visible, Rolling
    <2>2. \A l \in Labels : Restorable(l)' = Restorable(l)
      BY <1>4, <2>1 DEF ThinTyped, MetadataApart, DeviceApart, StepKept, OnVolume, Making, BetweenSteps, Devs,
         Restorable
    <2>3. RestorableSnaps' = RestorableSnaps
      BY <2>2 DEF RestorableSnaps
    <2>4. QED
      BY <1>4, <2>3, Whole DEF ThinTyped, MetadataApart, DeviceApart, StepKept, OnVolume, Making,
         BetweenSteps, Devs, Visible, Rolling, Stands, Abstract!Settle, Abstract!Seen, Abstract!Absent,
         Abstract!Torn, Restorable
  <1>5. Abstract!Settle \/ Stands
    BY <1>3, <1>4
  <1>6. QED
    BY <1>1, <1>2, <1>5

\* When the old device is deleted the volume is what the snapshot was.
LEMMA RollbackDeletesStep ==
    ASSUME ThinInv, RollbackDeletes
    PROVE  ThinInv' /\ (Abstract!Rollback(thin.l) \/ Stands)
  <1> USE Fields, ThinAssumption DEF ThinInv, RollbackDeletes, ThinAt, ThinSpend, deleteDevice, deviceHash, getVolume, snapshotExists, DeviceExists, NoDev, VolumeGone
  <1>1. ThinTyped'
    BY DEF ThinTyped, Devs, OnVolume, Making, BetweenSteps
  <1>2. MetadataApart' /\ DeviceApart' /\ StepKept'
    BY DEF ThinTyped, MetadataApart, DeviceApart, StepKept, OnVolume, Making, BetweenSteps, Devs
  <1>3. ASSUME Visible = "absent" PROVE Stands
    <2>1. Visible' = "absent"
      BY <1>3, Whole DEF ThinTyped, MetadataApart, DeviceApart, StepKept, OnVolume, Making, BetweenSteps,
         Devs, Visible
    <2>2. QED
      BY <1>3, <2>1 DEF Stands, RestorableSnaps, Restorable
  <1>4. ASSUME Visible # "absent" PROVE Abstract!Rollback(thin.l) \/ Stands
    <2>1. Visible' # "absent"
      BY <1>4, Whole DEF ThinTyped, MetadataApart, DeviceApart, StepKept, OnVolume, Making, BetweenSteps,
         Devs, Visible, Rolling
    <2>2. \A l \in Labels : Restorable(l)' = Restorable(l)
      BY <1>4, <2>1 DEF ThinTyped, MetadataApart, DeviceApart, StepKept, OnVolume, Making, BetweenSteps, Devs,
         Restorable
    <2>3. RestorableSnaps' = RestorableSnaps
      BY <2>2 DEF RestorableSnaps
    <2>4. QED
      BY <1>4, <2>3, Whole DEF ThinTyped, MetadataApart, DeviceApart, StepKept, OnVolume, Making,
         BetweenSteps, Devs, Visible, Rolling, Stands, Abstract!Rollback, Abstract!Seen, Abstract!Absent,
         Abstract!Torn, Restorable
  <1>5. Abstract!Rollback(thin.l) \/ Stands
    BY <1>3, <1>4
  <1>6. QED
    BY <1>1, <1>2, <1>5

\* If that deletion failed it is now, when the copy becomes the current device.
LEMMA RollbackSetsStep ==
    ASSUME ThinInv, RollbackSets
    PROVE  ThinInv' /\ (Abstract!Rollback(thin.l) \/ Stands)
  <1> USE Fields, ThinAssumption DEF ThinInv, RollbackSets, ThinIdle, deviceHash, getVolume, snapshotExists, DeviceExists, NoDev, VolumeGone
  <1>1. /\ md' \in [dir : BOOLEAN, current : Devs, snaps : [Labels -> Devs]]
        /\ md'.dir = md.dir /\ md'.current = thin.dev /\ md'.snaps = md.snaps
    BY Recurrent DEF ThinTyped, MetadataApart, DeviceApart, StepKept, OnVolume, Making, BetweenSteps, Devs
  <1>2. ThinTyped'
    BY <1>1 DEF ThinTyped, Devs, OnVolume, Making, BetweenSteps
  <1>3. MetadataApart' /\ DeviceApart' /\ StepKept'
    BY <1>1 DEF ThinTyped, MetadataApart, DeviceApart, StepKept, OnVolume, Making, BetweenSteps, Devs
  <1>4. ASSUME Visible = "absent" PROVE Stands
    <2>1. Visible' = "absent"
      BY <1>1, <1>4, Whole DEF ThinTyped, MetadataApart, DeviceApart, StepKept, OnVolume, Making,
         BetweenSteps, Devs, Visible
    <2>2. QED
      BY <1>4, <2>1 DEF Stands, RestorableSnaps, Restorable
  <1>5. ASSUME Visible # "absent" PROVE Abstract!Rollback(thin.l) \/ Stands
    <2>1. Visible' # "absent"
      BY <1>1, <1>5, Whole DEF ThinTyped, MetadataApart, DeviceApart, StepKept, OnVolume, Making,
         BetweenSteps, Devs, Visible, Rolling
    <2>2. \A l \in Labels : Restorable(l)' = Restorable(l)
      BY <1>1, <1>5, <2>1 DEF ThinTyped, MetadataApart, DeviceApart, StepKept, OnVolume, Making, BetweenSteps,
         Devs, Restorable
    <2>3. RestorableSnaps' = RestorableSnaps
      BY <2>2 DEF RestorableSnaps
    <2>4. QED
      BY <1>1, <1>5, <2>3, Whole DEF ThinTyped, MetadataApart, DeviceApart, StepKept, OnVolume, Making,
         BetweenSteps, Devs, Visible, Rolling, Stands, Abstract!Rollback, Abstract!Seen, Abstract!Absent,
         Abstract!Torn, Restorable
  <1>6. Abstract!Rollback(thin.l) \/ Stands
    BY <1>4, <1>5
  <1>7. QED
    BY <1>2, <1>3, <1>6

-----------------------------------------------------------------------------
(* Import, and what may happen at any time.                                 *)

\* The device of an import is not seen before it is listed,
LEMMA ImportIsStep ==
    ASSUME ThinInv, NEW l \in Labels, Import(l)
    PROVE  ThinInv' /\ Stands
  <1> USE Fields, ThinAssumption DEF ThinInv, Import, Gettable, addDevice, deviceHash, getVolume, snapshotExists, DeviceExists, NoDev, VolumeGone
  <1>1. ThinTyped'
    BY DEF ThinTyped, Devs, OnVolume, Making, BetweenSteps
  <1>2. MetadataApart' /\ DeviceApart' /\ StepKept'
    BY DEF ThinTyped, MetadataApart, DeviceApart, StepKept, OnVolume, Making, BetweenSteps, Devs
  <1>3. Stands
    BY SameView DEF ThinTyped, MetadataApart, DeviceApart, StepKept, OnVolume, Making, BetweenSteps, Devs,
       Rolling
  <1>4. QED
    BY <1>1, <1>2, <1>3

\* nor what is written to it.
LEMMA loadSnapshotImportStep ==
    ASSUME ThinInv, NEW c \in Contents, loadSnapshotImport(c)
    PROVE  ThinInv' /\ Stands
  <1> USE Fields, ThinAssumption DEF ThinInv, loadSnapshotImport, ThinAt, deviceHash, getVolume, snapshotExists, DeviceExists, NoDev, VolumeGone
  <1>1. ThinTyped'
    BY DEF ThinTyped, Devs, OnVolume, Making, BetweenSteps
  <1>2. MetadataApart' /\ DeviceApart' /\ StepKept'
    BY DEF ThinTyped, MetadataApart, DeviceApart, StepKept, OnVolume, Making, BetweenSteps, Devs
  <1>3. Stands
    BY SameView DEF ThinTyped, MetadataApart, DeviceApart, StepKept, OnVolume, Making, BetweenSteps, Devs,
       Rolling
  <1>4. QED
    BY <1>1, <1>2, <1>3

\* The file that is renamed in the end is not looked at.
LEMMA ImportRenamesStep ==
    ASSUME ThinInv, ImportRenames
    PROVE  ThinInv' /\ Stands
  <1> USE Fields, ThinAssumption DEF ThinInv, ImportRenames, ThinIdle, deviceHash, getVolume, snapshotExists, writeSnapshotInfo, DeviceExists, NoDev, VolumeGone
  <1>1. ThinTyped'
    BY DEF ThinTyped, Devs, OnVolume, Making, BetweenSteps
  <1>2. MetadataApart' /\ DeviceApart' /\ StepKept'
    BY DEF ThinTyped, MetadataApart, DeviceApart, StepKept, OnVolume, Making, BetweenSteps, Devs
  <1>3. Stands
    BY SameView DEF ThinTyped, MetadataApart, DeviceApart, StepKept, OnVolume, Making, BetweenSteps, Devs,
       Rolling
  <1>4. QED
    BY <1>1, <1>2, <1>3

\* The start of a daemon takes away what is only on disk, unseen.
LEMMA CleansDiskStep ==
    ASSUME ThinInv, CleansDisk
    PROVE  ThinInv' /\ Stands
  <1> USE Fields, ThinAssumption DEF ThinInv, CleansDisk, ThinAt, deviceHash, getVolume, snapshotExists, DeviceExists, NoDev, VolumeGone
  <1>1. ThinTyped'
    BY DEF ThinTyped, Devs, OnVolume, Making, BetweenSteps
  <1>2. MetadataApart' /\ DeviceApart' /\ StepKept'
    BY DEF ThinTyped, MetadataApart, DeviceApart, StepKept, OnVolume, Making, BetweenSteps, Devs
  <1>3. Stands
    BY SameView DEF ThinTyped, MetadataApart, DeviceApart, StepKept, OnVolume, Making, BetweenSteps, Devs,
       Rolling
  <1>4. QED
    BY <1>1, <1>2, <1>3

\* The import appears.
LEMMA ImportListsStep ==
    ASSUME ThinInv, ImportLists
    PROVE  ThinInv' /\ Abstract!Import(thin.l)
  <1> USE Fields, ThinAssumption DEF ThinInv, ImportLists, ThinAt, deviceHash, getVolume, snapshotExists, DeviceExists, NoDev, VolumeGone
  <1>1. /\ md' \in [dir : BOOLEAN, current : Devs, snaps : [Labels -> Devs]]
        /\ md'.dir = md.dir /\ md'.current = md.current /\ md'.snaps = [md.snaps EXCEPT ![thin.l] = thin.dev]
    BY Relisted DEF ThinTyped, MetadataApart, DeviceApart, StepKept, OnVolume, Making, BetweenSteps, Devs
  <1>2. ThinTyped'
    BY <1>1 DEF ThinTyped, Devs, OnVolume, Making, BetweenSteps
  <1>3. MetadataApart' /\ DeviceApart' /\ StepKept'
    BY <1>1 DEF ThinTyped, MetadataApart, DeviceApart, StepKept, OnVolume, Making, BetweenSteps, Devs
  <1>4. PICK l \in Labels : l = thin.l
    BY DEF ThinTyped, MetadataApart, DeviceApart, StepKept, OnVolume, Making, BetweenSteps, Devs
  <1>5. /\ \A k \in Labels \ {l} : md'.snaps[k] = md.snaps[k]
        /\ \A d \in Devs \ {NoDev} : d = md.current \/ (\E k \in Labels \ {l} : d = md.snaps[k]) => deviceContent'[d] = deviceContent[d]
        /\ ~Rolling /\ ~Rolling' /\ UNCHANGED <<removing, mounted>> /\ md'.dir = md.dir /\ md'.current = md.current
    BY <1>1, <1>4 DEF ThinTyped, MetadataApart, DeviceApart, StepKept, OnVolume, Making, BetweenSteps, Devs,
       Rolling
  <1>6. /\ Visible # "absent" /\ md.snaps[l] = NoDev /\ md'.snaps[l] = thin.dev
        /\ DeviceExists(thin.dev) /\ deviceContent' = deviceContent
    BY <1>1, <1>4, Whole DEF ThinTyped, MetadataApart, DeviceApart, StepKept, OnVolume, Making, BetweenSteps,
       Devs
  <1>7. Visible' = Visible /\ RestorableSnaps' = [RestorableSnaps EXCEPT ![l] = Restorable(l)']
    BY <1>5, OneSnapshot
  <1>8. Abstract!Import(l) /\ (deviceContent[thin.dev] = deviceContent[md.current] /\ DeviceExists(md.current) => Abstract!Snapshot(l))
    BY <1>5, <1>6, <1>7, Listing
  <1>9. Abstract!Import(thin.l)
    BY <1>4, <1>8 DEF ThinTyped, MetadataApart, DeviceApart, StepKept, OnVolume, Making, BetweenSteps, Devs
  <1>10. QED
    BY <1>2, <1>3, <1>9

\* What is seen of the snapshots depends on the devices, metadata.json and whether there is a volume.
LEMMA SnapsStay ==
    ASSUME UNCHANGED <<deviceContent, md>>, Visible = "absent" <=> Visible' = "absent"
    PROVE  RestorableSnaps' = RestorableSnaps
  BY DEF RestorableSnaps, Restorable, DeviceExists

\* A rollback that is cut off leaves the volume torn.
LEMMA Interrupted ==
    ASSUME ThinInv, Rolling, UNCHANGED <<deviceContent, md>>, Visible' = "torn"
    PROVE  \E l \in Labels : Abstract!RollbackInterrupted(l)
  <1>1. PICK l \in Labels : l = thin.l
    BY DEF ThinInv, StepKept, Rolling, OnVolume
  <1>2. Visible # "absent" /\ DeviceExists(md.snaps[l])
    BY <1>1, Whole DEF ThinInv, MetadataApart, StepKept, Rolling, OnVolume, BetweenSteps
  <1>3. RestorableSnaps[l] # "absent"
    BY <1>2, Whole
  <1>4. RestorableSnaps' = RestorableSnaps
    BY <1>2, SnapsStay
  <1>5. QED
    BY <1>3, <1>4 DEF Abstract!RollbackInterrupted, Abstract!Absent, Abstract!Torn

\* An error before the last step of a rollback leaves the volume torn, one of an import takes
\* away the snapshot that was listed.
LEMMA OpFailsStep ==
    ASSUME ThinInv, OpFails
    PROVE  /\ ThinInv'
           /\ Stands \/ \E l \in Labels : Abstract!RemoveSnapshot(l) \/ Abstract!RollbackInterrupted(l)
  <1> USE Fields, ThinAssumption DEF ThinInv, OpFails, deleteDevice, ThinIdle, deviceHash, getVolume, DeviceExists, NoDev, VolumeGone
  <1>1. ThinTyped'
    BY DEF ThinTyped, MetadataApart, DeviceApart, StepKept, OnVolume, Making, BetweenSteps, Devs
  <1>2. MetadataApart' /\ DeviceApart' /\ StepKept'
    BY DEF ThinTyped, MetadataApart, DeviceApart, StepKept, OnVolume, Making, BetweenSteps, Devs
  <1>3. ASSUME thin.pc = "deleted" PROVE \E l \in Labels : Abstract!RollbackInterrupted(l)
    <2>1. Rolling /\ Visible' = "torn"
      BY <1>3, Whole DEF ThinTyped, MetadataApart, DeviceApart, StepKept, OnVolume, Making, BetweenSteps,
         Devs, Rolling, Visible
    <2>2. UNCHANGED <<deviceContent, md>>
      BY <1>3
    <2>3. QED
      BY <2>1, <2>2, Interrupted
  <1>4. ASSUME thin.pc = "rename" PROVE Stands \/ \E l \in Labels : Abstract!RemoveSnapshot(l)
    <2>1. PICK l \in Labels : l = thin.l
      BY <1>4 DEF ThinTyped, MetadataApart, DeviceApart, StepKept, OnVolume, Making, BetweenSteps, Devs
    <2>2. UNCHANGED <<removing, mounted, md>> /\ ~Rolling /\ ~Rolling'
      BY <1>4 DEF Rolling
    <2>3. md.snaps[l] = thin.dev /\ thin.dev # md.current /\ \A k \in Labels \ {l} : md.snaps[k] # thin.dev
      BY <1>4, <2>1 DEF ThinTyped, MetadataApart, DeviceApart, StepKept, OnVolume, Making, BetweenSteps, Devs
    <2>4. \A d \in Devs \ {NoDev} : d # thin.dev => deviceContent'[d] = deviceContent[d]
      <3>1. deviceContent' = [deviceContent EXCEPT ![thin.dev] = VolumeGone]
        BY <1>4
      <3>2. QED
        BY <3>1 DEF ThinTyped
    <2>5. ~DeviceExists(md.snaps[l])'
      BY <1>4, <2>3 DEF ThinTyped, MetadataApart, DeviceApart, StepKept, OnVolume, Making, BetweenSteps, Devs
    <2>6. Visible' = Visible /\ RestorableSnaps' = [RestorableSnaps EXCEPT ![l] = Restorable(l)']
      BY <2>2, <2>3, <2>4, OneSnapshot
    <2>7. QED
      BY <2>5, <2>6, Unlisting
  <1>5. ASSUME thin.pc \notin {"deleted", "rename"} PROVE Stands
    <2>1. ~Rolling /\ ~Rolling' /\ UNCHANGED <<removing, mounted, md>>
      BY <1>5 DEF Rolling
    <2>2. \A d \in Devs \ {NoDev} : d # thin.dev \/ thin.pc \notin {"load", "loaded"} => deviceContent'[d] = deviceContent[d]
      <3>1. deviceContent' \in {deviceContent, [deviceContent EXCEPT ![thin.dev] = VolumeGone]}
        BY <1>5
      <3>2. thin.pc \notin {"load", "loaded"} => deviceContent' = deviceContent
        BY <1>5
      <3>3. QED
        BY <3>1, <3>2 DEF ThinTyped
    <2>3. thin.pc \in {"load", "loaded"} => thin.dev # md.current /\ \A l \in Labels : md.snaps[l] # thin.dev
      BY DEF DeviceApart, Making
    <2>4. \A d \in Devs \ {NoDev} : d = md.current \/ (\E l \in Labels : d = md.snaps[l]) => deviceContent'[d] = deviceContent[d]
      BY <2>2, <2>3
    <2>5. QED
      BY <2>1, <2>4, SameView
  <1>6. QED
    BY <1>1, <1>2, <1>3, <1>4, <1>5

\* The start of a daemon removes the snapshots without .SNAPSHOTINFO.
LEMMA CleansListStep ==
    ASSUME ThinInv, CleansList
    PROVE  ThinInv' /\ (Stands \/ \E l \in Labels : Abstract!RemoveSnapshot(l))
  <1> USE Fields, ThinAssumption DEF ThinInv, CleansList, ThinAt, deleteDevice, deviceHash, getVolume, DeviceExists, NoDev, VolumeGone
  <1>1. ASSUME HalfListed = {} PROVE ThinInv' /\ Stands
    <2>1. ThinTyped' /\ MetadataApart' /\ DeviceApart' /\ StepKept'
      BY <1>1 DEF ThinTyped, MetadataApart, DeviceApart, StepKept, OnVolume, Making, BetweenSteps, Devs
    <2>2. Stands
      BY <1>1, SameView DEF ThinTyped, MetadataApart, DeviceApart, StepKept, OnVolume, Making, BetweenSteps,
         Devs, Rolling
    <2>3. QED
      BY <2>1, <2>2
  <1>2. ASSUME NEW l \in Labels, HalfListed # {}, snapshotExists(l), AddSnapshot(l, NoDev), deleteDevice(md.snaps[l]), UNCHANGED thin
        PROVE  ThinInv' /\ (Stands \/ Abstract!RemoveSnapshot(l))
    <2>0. /\ md' \in [dir : BOOLEAN, current : Devs, snaps : [Labels -> Devs]]
          /\ md'.dir = md.dir /\ md'.current = md.current /\ md'.snaps = [md.snaps EXCEPT ![l] = NoDev]
      BY <1>2, Relisted DEF ThinTyped, Devs
    <2>1. md.snaps[l] # NoDev /\ UNCHANGED <<thin, thinMade, mounted, removing>>
      BY <1>2 DEF snapshotExists
    <2>2. ThinTyped'
      BY <1>2, <2>0, <2>1 DEF ThinTyped, Devs
    <2>3. MetadataApart' /\ DeviceApart' /\ StepKept'
      BY <1>2, <2>0, <2>1 DEF ThinTyped, MetadataApart, DeviceApart, StepKept, OnVolume, Making, BetweenSteps,
         Devs
    <2>4. \A d \in Devs \ {NoDev} : d # md.snaps[l] => deviceContent'[d] = deviceContent[d]
      BY <1>2 DEF ThinTyped
    <2>5. ~Rolling /\ ~Rolling'
      BY <2>1 DEF Rolling
    <2>6. \A k \in Labels \ {l} : md'.snaps[k] = md.snaps[k] /\ md.snaps[k] # md.snaps[l]
      BY <2>0, <2>1 DEF MetadataApart
    <2>7. md.snaps[l] # md.current /\ ~DeviceExists(md.snaps[l])'
      BY <2>0, <2>1 DEF ThinTyped, MetadataApart
    <2>8. Visible' = Visible /\ RestorableSnaps' = [RestorableSnaps EXCEPT ![l] = Restorable(l)']
      BY <2>0, <2>1, <2>4, <2>5, <2>6, <2>7, OneSnapshot
    <2>9. QED
      BY <2>2, <2>3, <2>7, <2>8, Unlisting
  <1>3. QED
    BY <1>1, <1>2 DEF HalfListed

\* A crash does what an error does to a rollback; a reboot may show a torn volume as its
\* current device.
LEMMA RestartStep ==
    ASSUME ThinInv, NEW reboot \in BOOLEAN, Restart(reboot)
    PROVE  /\ ThinInv'
           /\ Abstract!Settle \/ Stands \/ \E l \in Labels : Abstract!RollbackInterrupted(l)
  <1> USE Fields, ThinAssumption DEF ThinInv, Restart, ThinIdle, deviceHash, getVolume, DeviceExists, NoDev, VolumeGone
  <1>1. thin' \in [pc : {"idle", "cleandisk"}, l : {"none"}, dev : {NoDev}] /\ UNCHANGED <<deviceContent, md, removing, thinMade>>
    BY DEF cleanUpSnapshots
  <1> HIDE DEF Restart
  <1>2. mounted' \in {NoDev, mounted}
    BY DEF Restart
  <1>3. ThinTyped'
    BY <1>1, <1>2 DEF ThinTyped, MetadataApart, DeviceApart, StepKept, OnVolume, Making, BetweenSteps, Devs
  <1>4. MetadataApart' /\ DeviceApart' /\ StepKept'
    BY <1>1, <1>2 DEF ThinTyped, MetadataApart, DeviceApart, StepKept, OnVolume, Making, BetweenSteps, Devs
  <1>5. ~Rolling'
    BY <1>1 DEF Rolling
  <1>6. Visible = "absent" <=> Visible' = "absent"
    BY <1>1, <1>3, <1>4, <1>5, Whole DEF ThinTyped, MetadataApart, DeviceApart, StepKept, OnVolume, Making,
       BetweenSteps, Devs, Visible, Rolling
  <1>7. RestorableSnaps' = RestorableSnaps
    BY <1>1, <1>6, SnapsStay
  <1>8. ASSUME Rolling PROVE Stands \/ \E l \in Labels : Abstract!RollbackInterrupted(l)
    <2>1. Visible' \in {Visible, "torn"}
      BY <1>1, <1>2, <1>5, <1>8, <1>6 DEF ThinTyped, MetadataApart, DeviceApart, StepKept, OnVolume, Making,
         BetweenSteps, Devs, Visible, Rolling
    <2>2. QED
      BY <1>1, <1>7, <1>8, <2>1, Interrupted DEF Stands
  <1>9. ASSUME ~Rolling PROVE Abstract!Settle \/ Stands
    <2>1. CASE Visible = "absent"
      BY <1>6, <1>7, <2>1 DEF Stands
    <2>2. CASE mounted \in {NoDev, md.current}
      BY <1>1, <1>2, <1>5, <1>9, <2>2, MountView
    <2>3. CASE Visible # "absent" /\ mounted \notin {NoDev, md.current}
      <3>1. Visible = "torn"
        BY <1>9, <2>3, Whole DEF Visible
      <3>2. Visible' \in Contents \cup {"torn"}
        BY <1>1, <1>5, <1>6, <2>3, Whole DEF ThinTyped, Visible
      <3>3. QED
        BY <1>7, <3>1, <3>2 DEF Abstract!Settle, Abstract!Torn
    <2>4. QED
      BY <2>1, <2>2, <2>3
  <1>10. QED
    BY <1>3, <1>4, <1>8, <1>9

-----------------------------------------------------------------------------

\* At first there is neither a volume nor a snapshot.
LEMMA ThinInitOK == thinInit => ThinInv /\ Abstract!Init
  <1> SUFFICES ASSUME thinInit PROVE ThinInv /\ Abstract!Init
    OBVIOUS
  <1> USE ThinAssumption DEF thinInit, NewMetadata, ThinIdle, NoDev, VolumeGone
  <1>1. ThinTyped
    <2>1. md \in [dir : BOOLEAN, current : Devs, snaps : [Labels -> Devs]]
      BY DEF Devs
    <2>2. thin \in [pc : BetweenSteps, l : {"none"}, dev : Devs]
      BY DEF Devs, BetweenSteps
    <2>3. deviceContent \in [1 .. MaxDevices -> Contents \cup {VolumeGone}] /\ thinMade \in 0 .. MaxDevices
      OBVIOUS
    <2>4. mounted \in Devs /\ removing \in BOOLEAN
      <3>1. mounted \in Devs
        BY DEF Devs
      <3>2. removing \in BOOLEAN
        BY Zenon
      <3>3. QED
        BY <3>1, <3>2
    <2>5. thin \in [pc : {"set"} \cup OnVolume \cup Making \cup BetweenSteps, l : Labels \cup {"none"}, dev : Devs]
      BY <2>2
    <2>6. QED
      BY <2>1, <2>3, <2>4, <2>5 DEF ThinTyped
  <1>2. MetadataApart /\ DeviceApart /\ StepKept
    BY DEF ThinTyped, MetadataApart, DeviceApart, StepKept, OnVolume, Making, BetweenSteps, Devs, getVolume,
       deviceHash
  <1>3. Visible = "absent"
    BY DEF Visible, getVolume, deviceHash
  <1>4. RestorableSnaps = [l \in Labels |-> "absent"]
    BY <1>3 DEF RestorableSnaps, Restorable
  <1>5. QED
    BY <1>1, <1>2, <1>3, <1>4 DEF ThinInv, Abstract!Init, Abstract!Absent

\* Each step of the driver is a step of the volume, or is not seen.
LEMMA ThinStepOK == ThinInv /\ [thinNext]_thinVars => ThinInv' /\ [Abstract!Next]_(Abstract!volVars)
  <1> SUFFICES ASSUME ThinInv, [thinNext]_thinVars PROVE ThinInv' /\ (Abstract!Next \/ Stands)
    BY DEF Stands, Abstract!volVars
  <1>1. ASSUME UNCHANGED thinVars PROVE ThinInv' /\ Stands
    <2>1. ThinInv'
      BY <1>1 DEF thinVars, ThinInv, ThinTyped, MetadataApart, DeviceApart, StepKept, OnVolume, Making,
         BetweenSteps, Devs, getVolume, deviceHash, DeviceExists
    <2>2. Stands
      BY <1>1 DEF thinVars, Stands, Visible, Rolling, RestorableSnaps, Restorable, getVolume, deviceHash,
         DeviceExists
    <2>3. QED
      BY <2>1, <2>2
  <1>2. ASSUME thinNext PROVE ThinInv' /\ (Abstract!Next \/ Stands)
    <2> USE DEF Abstract!Next
    <2>1. ASSUME GetVolume \/ ReleaseVolume \/ CreateAdds \/ CreateSaves \/ CreateSets \/ CreateMounts
          PROVE  ThinInv' /\ (Abstract!Next \/ Stands)
      BY <2>1, GetVolumeStep, ReleaseVolumeStep, CreateAddsStep, CreateSavesStep, CreateSetsStep,
         CreateMountsStep
    <2>2. ASSUME RemoveBegins \/ RemoveReleases \/ RemoveDeletes \/ RemoveUnlists PROVE ThinInv' /\ (Abstract!Next \/ Stands)
      BY <2>2, RemoveBeginsStep, RemoveReleasesStep, RemoveDeletesStep, RemoveUnlistsStep
    <2>3. ASSUME SnapshotLists \/ RemoveSnapshotUnlists PROVE ThinInv' /\ (Abstract!Next \/ Stands)
      <3>1. thin.l \in Labels
        BY <2>3 DEF ThinInv, StepKept, OnVolume, SnapshotLists, RemoveSnapshotUnlists
      <3>2. QED
        BY <2>3, <3>1, SnapshotListsStep, RemoveSnapshotUnlistsStep
    <2>4. ASSUME SnapshotWritesInfo \/ RemoveSnapshotInfo PROVE ThinInv' /\ Stands
      BY <2>4, SnapshotWritesInfoStep, RemoveSnapshotInfoStep
    <2>5. ASSUME RollbackUnmounts \/ RollbackMounts PROVE ThinInv' /\ (Abstract!Next \/ Stands)
      BY <2>5, RollbackUnmountsStep, RollbackMountsStep
    <2>6. ASSUME RollbackDeletes \/ RollbackSets \/ ImportLists PROVE ThinInv' /\ (Abstract!Next \/ Stands)
      <3>1. thin.l \in Labels
        BY <2>6 DEF ThinInv, StepKept, OnVolume, RollbackDeletes, RollbackSets, ImportLists
      <3>2. QED
        BY <2>6, <3>1, RollbackDeletesStep, RollbackSetsStep, ImportListsStep
    <2>7. ASSUME ImportRenames \/ OpFails \/ CleansDisk \/ CleansList PROVE ThinInv' /\ (Abstract!Next \/ Stands)
      BY <2>7, ImportRenamesStep, OpFailsStep, CleansDiskStep, CleansListStep
    <2>8. ASSUME NEW c \in Contents, Write(c) \/ loadSnapshotImport(c) PROVE ThinInv' /\ (Abstract!Next \/ Stands)
      BY <2>8, WriteStep, loadSnapshotImportStep
    <2>9. ASSUME NEW l \in Labels, SnapshotAdds(l) \/ RemoveSnapshotDeletes(l) \/ RollbackCopies(l) \/ Import(l) \/ RemoveOne(l)
          PROVE  ThinInv' /\ (Abstract!Next \/ Stands)
      BY <2>9, SnapshotAddsStep, RemoveSnapshotDeletesStep, RollbackCopiesStep, ImportIsStep, RemoveOneStep
    <2>10. ASSUME NEW t \in Tags, UntagSnapshot(t) \/ \E l \in Labels : TagThinSnapshot(l, t) PROVE ThinInv' /\ Stands
      BY <2>10, UntagSnapshotStep, TagThinSnapshotStep
    <2>11. ASSUME NEW reboot \in BOOLEAN, Restart(reboot) PROVE ThinInv' /\ (Abstract!Next \/ Stands)
      BY <2>11, RestartStep
    <2>12. QED
      BY <1>2, <2>1, <2>2, <2>3, <2>4, <2>5, <2>6, <2>7, <2>8, <2>9, <2>10, <2>11 DEF thinNext
  <1>3. QED
    BY <1>1, <1>2

\* The devicemapper driver does what a volume promises (volume/volume.go), whatever fails and
\* wherever the daemon or the machine stops.
THEOREM ThinVolumesImplement == thinSpec => ImplementsVolume
  BY ThinInitOK, ThinStepOK, PTL DEF thinSpec, ImplementsVolume, Abstract!Spec

-----------------------------------------------------------------------------
(* The rsync and btrfs drivers (volume/rsync/rsync.go, volume/btrfs/btrfs.go). *)

Copies == Data \cup {"half", "absent"}
\* The steps that make a snapshot, and those that need the one they restore.
MakingSnap == {"info", "copy", "unpackinfo", "unpack", "subvol", "receive"}
Restoring == {"sync", "delete", "restore"}
OnLabel == MakingSnap \cup Restoring \cup {"unlist", "rmdir"}

DirTyped ==
    /\ driver \in {"rsync", "btrfs"} /\ vol \in Copies /\ spoiled \in BOOLEAN
    /\ dest \in [SnapLabels -> Copies] /\ hasInfo \in [SnapLabels -> BOOLEAN]
    /\ dirOp \in [pc : {"idle", "mkdir", "rmsnaps", "rmvol"} \cup OnLabel, l : SnapLabels \cup {"none"}, d : {"none"}]
    /\ dirOp.pc \in OnLabel => dirOp.l \in SnapLabels

\* What an operation has made sure of, step by step.
DirKept ==
    /\ dirOp.pc \in MakingSnap => ~Made(dirOp.l)
    /\ dirOp.pc \in {"info", "copy", "subvol"} => vol # "absent"
    /\ dirOp.pc \in {"info", "copy", "unpackinfo", "unpack", "sync", "rmdir"} => driver = "rsync"
    /\ dirOp.pc \in {"subvol", "receive", "delete", "restore"} => driver = "btrfs"
    /\ dirOp.pc \in {"copy", "unpack"} => hasInfo[dirOp.l]
    /\ dirOp.pc \in Restoring => dirOp.l \in getSnapshotList
    /\ dirOp.pc = "rmdir" => ~hasInfo[dirOp.l]
    /\ dirOp.pc = "rmvol" => getSnapshotList = {}
DirInv == DirTyped /\ DirKept

SnapOf(l) == IF l \in getSnapshotList THEN AsWhole(dest[l]) ELSE "absent"
SameDirs == UNCHANGED <<DirLive, DirSnaps>>

\* What a directory may hold, and how it is seen.
LEMMA DirFacts ==
    ASSUME DirInv
    PROVE  /\ vol \in Data \cup {"half", "absent"} /\ \A l \in SnapLabels : dest[l] \in Data \cup {"half", "absent"}
           /\ \A c \in Copies : AsWhole(c) = "absent" <=> c = "absent"
           /\ \A c \in Copies : AsWhole(c) \in Data \cup {"torn", "absent"}
           /\ DirLive \in Data \cup {"torn", "absent"}
           /\ DirSnaps = [l \in SnapLabels |-> SnapOf(l)]
           /\ \A l \in SnapLabels : DirSnaps[l] = SnapOf(l)
           /\ \A l \in SnapLabels : SnapOf(l) = "absent" <=> l \notin getSnapshotList
           /\ "absent" \notin Data /\ "torn" \notin Data /\ "half" \notin Data
  <1> USE DirAssumption DEF DirInv, DirTyped, Copies
  <1>1. /\ vol \in Data \cup {"half", "absent"} /\ \A l \in SnapLabels : dest[l] \in Data \cup {"half", "absent"}
        /\ \A c \in Copies : AsWhole(c) = "absent" <=> c = "absent"
        /\ \A c \in Copies : AsWhole(c) \in Data \cup {"torn", "absent"}
        /\ "absent" \notin Data /\ "torn" \notin Data /\ "half" \notin Data
    BY DEF AsWhole
  <1>2. DirLive \in Data \cup {"torn", "absent"}
    BY <1>1 DEF DirLive
  <1>3. DirSnaps = [l \in SnapLabels |-> SnapOf(l)]
    BY DEF DirSnaps, SnapOf
  <1>4. \A l \in SnapLabels : SnapOf(l) = "absent" <=> l \notin getSnapshotList
    BY <1>1 DEF SnapOf, getSnapshotList, Made
  <1>5. QED
    BY <1>1, <1>2, <1>3, <1>4

\* The information of a snapshot that is not there, and what an operation is about to do, are not seen.
LEMMA SameDirsView ==
    ASSUME UNCHANGED <<driver, vol, dest, spoiled>>, dirOp.pc # "restore", dirOp'.pc # "restore",
           \A l \in SnapLabels : Made(l) => (hasInfo'[l] <=> hasInfo[l])
    PROVE  SameDirs
  <1>1. DirLive' = DirLive
    BY DEF DirLive
  <1>2. \A l \in SnapLabels : l \in getSnapshotList' <=> l \in getSnapshotList
    BY DEF getSnapshotList, Made
  <1>3. DirSnaps' = DirSnaps
    BY <1>2 DEF DirSnaps
  <1>4. QED
    BY <1>1, <1>3 DEF SameDirs

\* A step of one label is not seen at the others.
LEMMA OneDir ==
    ASSUME NEW l \in SnapLabels, driver' = driver,
           \A k \in SnapLabels \ {l} : dest'[k] = dest[k] /\ (hasInfo'[k] <=> hasInfo[k])
    PROVE  DirSnaps' = [DirSnaps EXCEPT ![l] = SnapOf(l)']
  <1>1. \A k \in SnapLabels \ {l} : k \in getSnapshotList' <=> k \in getSnapshotList
    BY DEF getSnapshotList, Made
  <1>2. \A k \in SnapLabels \ {l} : SnapOf(k)' = SnapOf(k)
    BY <1>1 DEF SnapOf
  <1>3. DirSnaps = [k \in SnapLabels |-> SnapOf(k)] /\ DirSnaps' = [k \in SnapLabels |-> SnapOf(k)']
    BY DEF DirSnaps, SnapOf
  <1>4. QED
    BY <1>2, <1>3

\* A snapshot that is listed no more is removed, if it was seen at all.
LEMMA DirUnlisting ==
    ASSUME DirInv, NEW l \in SnapLabels, DirLive' = DirLive, DirSnaps' = [DirSnaps EXCEPT ![l] = SnapOf(l)'], l \notin getSnapshotList'
    PROVE  DirAbstract!RemoveSnapshot(l) \/ SameDirs
  <1>1. SnapOf(l)' = "absent"
    BY DEF SnapOf
  <1>2. ASSUME SnapOf(l) = "absent" PROVE SameDirs
    BY <1>1, <1>2, DirFacts DEF SameDirs
  <1>3. ASSUME SnapOf(l) # "absent" PROVE DirAbstract!RemoveSnapshot(l)
    BY <1>1, <1>3, DirFacts DEF DirAbstract!RemoveSnapshot, DirAbstract!Absent
  <1>4. QED
    BY <1>2, <1>3

\* A directory that is made under a new label is an import, and a snapshot if it is the
\* volume's or half made.
LEMMA DirListing ==
    ASSUME DirInv, NEW l \in SnapLabels, DirLive' = DirLive, DirSnaps' = [DirSnaps EXCEPT ![l] = SnapOf(l)'],
           ~Made(l), NEW c \in Copies, c # "absent", dest'[l] = c
    PROVE  /\ DirAbstract!Import(l) \/ SameDirs
           /\ vol # "absent" /\ c \in {vol, "half"} => DirAbstract!Snapshot(l) \/ SameDirs
  <1>1. SnapOf(l) = "absent"
    BY DirFacts DEF getSnapshotList
  <1>2. SnapOf(l)' \in {AsWhole(c), "absent"} /\ AsWhole(c) \in Data \cup {"torn"}
    BY DirFacts DEF SnapOf
  <1>3. ASSUME SnapOf(l)' = "absent" PROVE SameDirs
    BY <1>1, <1>3, DirFacts DEF SameDirs
  <1>4. ASSUME SnapOf(l)' = AsWhole(c) PROVE DirAbstract!Import(l)
    BY <1>1, <1>2, <1>4, DirFacts DEF DirAbstract!Import, DirAbstract!Absent, DirAbstract!Torn
  <1>5. ASSUME SnapOf(l)' = AsWhole(c), vol # "absent", c \in {vol, "half"} PROVE DirAbstract!Snapshot(l)
    <2>1. AsWhole("half") = "torn"
      BY DEF AsWhole
    <2>2. DirLive \in {AsWhole(vol), "torn"}
      BY DEF DirLive
    <2>3. vol \in Copies /\ DirLive # "absent"
      BY <1>5, <2>2, DirFacts DEF Copies
    <2>4. AsWhole(c) \in DirAbstract!Seen(DirLive) \cup {DirAbstract!Torn}
      BY <1>2, <1>5, <2>1, <2>2 DEF DirAbstract!Seen, DirAbstract!Torn
    <2>5. QED
      BY <1>1, <1>5, <2>3, <2>4, DirFacts DEF DirAbstract!Snapshot, DirAbstract!Absent
  <1>6. QED
    BY <1>2, <1>3, <1>4, <1>5
-----------------------------------------------------------------------------

\* The directory in the metadata is not looked at.
LEMMA CreateDirsStep ==
    ASSUME DirInv, CreateDirs
    PROVE  DirInv' /\ SameDirs
  <1> USE DirAssumption DEF DirInv, CreateDirs, BeginDirOp, Step, Done, Free
  <1>1. DirTyped'
    BY DEF DirTyped, DirKept, Copies, MakingSnap, Restoring, OnLabel, Made, getSnapshotList
  <1>2. DirKept'
    BY DEF DirTyped, DirKept, Copies, MakingSnap, Restoring, OnLabel, Made, getSnapshotList
  <1>3. SameDirs
    BY SameDirsView DEF DirTyped, DirKept, Copies, MakingSnap, Restoring, OnLabel, Made, getSnapshotList
  <1>4. QED
    BY <1>1, <1>2, <1>3

\* The removal of a volume begins.
LEMMA RemoveVolumeStep ==
    ASSUME DirInv, RemoveVolume
    PROVE  DirInv' /\ SameDirs
  <1> USE DirAssumption DEF DirInv, RemoveVolume, BeginDirOp, Step, Done, Free
  <1>1. DirTyped'
    BY DEF DirTyped, DirKept, Copies, MakingSnap, Restoring, OnLabel, Made, getSnapshotList
  <1>2. DirKept'
    BY DEF DirTyped, DirKept, Copies, MakingSnap, Restoring, OnLabel, Made, getSnapshotList
  <1>3. SameDirs
    BY SameDirsView DEF DirTyped, DirKept, Copies, MakingSnap, Restoring, OnLabel, Made, getSnapshotList
  <1>4. QED
    BY <1>1, <1>2, <1>3

\* Its directory in the metadata goes when no snapshot is listed.
LEMMA RemovesMetaStep ==
    ASSUME DirInv, RemovesMeta
    PROVE  DirInv' /\ SameDirs
  <1> USE DirAssumption DEF DirInv, RemovesMeta, BeginDirOp, Step, Done, Free
  <1>1. DirTyped'
    BY DEF DirTyped, DirKept, Copies, MakingSnap, Restoring, OnLabel, Made, getSnapshotList
  <1>2. DirKept'
    BY DEF DirTyped, DirKept, Copies, MakingSnap, Restoring, OnLabel, Made, getSnapshotList
  <1>3. SameDirs
    BY SameDirsView DEF DirTyped, DirKept, Copies, MakingSnap, Restoring, OnLabel, Made, getSnapshotList
  <1>4. QED
    BY <1>1, <1>2, <1>3

\* The information of a snapshot that is not there yet is not seen,
LEMMA WritesInfoStep ==
    ASSUME DirInv, WritesInfo
    PROVE  DirInv' /\ SameDirs
  <1> USE DirAssumption DEF DirInv, WritesInfo, BeginDirOp, Step, Done, Free
  <1>1. DirTyped'
    BY DEF DirTyped, DirKept, Copies, MakingSnap, Restoring, OnLabel, Made, getSnapshotList
  <1>2. DirKept'
    BY DEF DirTyped, DirKept, Copies, MakingSnap, Restoring, OnLabel, Made, getSnapshotList
  <1>3. SameDirs
    BY SameDirsView DEF DirTyped, DirKept, Copies, MakingSnap, Restoring, OnLabel, Made, getSnapshotList
  <1>4. QED
    BY <1>1, <1>2, <1>3

\* nor that of an import.
LEMMA UnpacksInfoStep ==
    ASSUME DirInv, UnpacksInfo
    PROVE  DirInv' /\ SameDirs
  <1> USE DirAssumption DEF DirInv, UnpacksInfo, BeginDirOp, Step, Done, Free
  <1>1. DirTyped'
    BY DEF DirTyped, DirKept, Copies, MakingSnap, Restoring, OnLabel, Made, getSnapshotList
  <1>2. DirKept'
    BY DEF DirTyped, DirKept, Copies, MakingSnap, Restoring, OnLabel, Made, getSnapshotList
  <1>3. SameDirs
    BY SameDirsView DEF DirTyped, DirKept, Copies, MakingSnap, Restoring, OnLabel, Made, getSnapshotList
  <1>4. QED
    BY <1>1, <1>2, <1>3

\* A snapshot begins, of a volume that is there.
LEMMA TakeSnapshotStep ==
    ASSUME DirInv, NEW l \in SnapLabels, TakeSnapshot(l)
    PROVE  DirInv' /\ SameDirs
  <1> USE DirAssumption DEF DirInv, TakeSnapshot, BeginDirOp, Step, Done, Free
  <1>1. DirTyped'
    BY DEF DirTyped, DirKept, Copies, MakingSnap, Restoring, OnLabel, Made, getSnapshotList
  <1>2. DirKept'
    BY DEF DirTyped, DirKept, Copies, MakingSnap, Restoring, OnLabel, Made, getSnapshotList
  <1>3. SameDirs
    BY SameDirsView DEF DirTyped, DirKept, Copies, MakingSnap, Restoring, OnLabel, Made, getSnapshotList
  <1>4. QED
    BY <1>1, <1>2, <1>3

\* The removal of a snapshot begins.
LEMMA RemoveSnapStep ==
    ASSUME DirInv, NEW l \in SnapLabels, RemoveSnap(l)
    PROVE  DirInv' /\ SameDirs
  <1> USE DirAssumption DEF DirInv, RemoveSnap, BeginDirOp, Step, Done, Free
  <1>1. DirTyped'
    BY DEF DirTyped, DirKept, Copies, MakingSnap, Restoring, OnLabel, Made, getSnapshotList
  <1>2. DirKept'
    BY DEF DirTyped, DirKept, Copies, MakingSnap, Restoring, OnLabel, Made, getSnapshotList
  <1>3. SameDirs
    BY SameDirsView DEF DirTyped, DirKept, Copies, MakingSnap, Restoring, OnLabel, Made, getSnapshotList
  <1>4. QED
    BY <1>1, <1>2, <1>3

\* A rollback begins, to a snapshot that is listed.
LEMMA RollbackToStep ==
    ASSUME DirInv, NEW l \in SnapLabels, RollbackTo(l)
    PROVE  DirInv' /\ SameDirs
  <1> USE DirAssumption DEF DirInv, RollbackTo, BeginDirOp, Step, Done, Free
  <1>1. DirTyped'
    BY DEF DirTyped, DirKept, Copies, MakingSnap, Restoring, OnLabel, Made, getSnapshotList, isInvalid
  <1>2. DirKept'
    BY DEF DirTyped, DirKept, Copies, MakingSnap, Restoring, OnLabel, Made, getSnapshotList, isInvalid
  <1>3. SameDirs
    BY SameDirsView DEF DirTyped, DirKept, Copies, MakingSnap, Restoring, OnLabel, Made, getSnapshotList
  <1>4. QED
    BY <1>1, <1>2, <1>3

\* An import begins.
LEMMA ImportStreamStep ==
    ASSUME DirInv, NEW l \in SnapLabels, ImportStream(l)
    PROVE  DirInv' /\ SameDirs
  <1> USE DirAssumption DEF DirInv, ImportStream, BeginDirOp, Step, Done, Free
  <1>1. DirTyped'
    BY DEF DirTyped, DirKept, Copies, MakingSnap, Restoring, OnLabel, Made, getSnapshotList
  <1>2. DirKept'
    BY DEF DirTyped, DirKept, Copies, MakingSnap, Restoring, OnLabel, Made, getSnapshotList
  <1>3. SameDirs
    BY SameDirsView DEF DirTyped, DirKept, Copies, MakingSnap, Restoring, OnLabel, Made, getSnapshotList
  <1>4. QED
    BY <1>1, <1>2, <1>3

\* btrfs makes the volume in one step,
LEMMA CreateSubvolumeStep ==
    ASSUME DirInv, CreateSubvolume
    PROVE  DirInv' /\ (DirAbstract!Create \/ SameDirs)
  <1> USE DirAssumption DEF DirInv, CreateSubvolume, BeginDirOp, Step, Done, Free
  <1>1. DirTyped'
    BY DEF DirTyped, DirKept, Copies, MakingSnap, Restoring, OnLabel, Made, getSnapshotList
  <1>2. DirKept'
    BY DEF DirTyped, DirKept, Copies, MakingSnap, Restoring, OnLabel, Made, getSnapshotList
  <1>3. DirSnaps' = DirSnaps
    BY DEF DirSnaps, getSnapshotList, Made
  <1>4. DirAbstract!Create \/ SameDirs
    BY <1>3, DirFacts DEF DirTyped, DirKept, Copies, MakingSnap, Restoring, OnLabel, Made, getSnapshotList,
       DirLive, SameDirs, AsWhole, DirAbstract!Create, DirAbstract!Absent
  <1>5. QED
    BY <1>1, <1>2, <1>4

\* rsync when its directory is made.
LEMMA MakesPathStep ==
    ASSUME DirInv, MakesPath
    PROVE  DirInv' /\ (DirAbstract!Create \/ SameDirs)
  <1> USE DirAssumption DEF DirInv, MakesPath, BeginDirOp, Step, Done, Free
  <1>1. DirTyped'
    BY DEF DirTyped, DirKept, Copies, MakingSnap, Restoring, OnLabel, Made, getSnapshotList
  <1>2. DirKept'
    BY DEF DirTyped, DirKept, Copies, MakingSnap, Restoring, OnLabel, Made, getSnapshotList
  <1>3. DirSnaps' = DirSnaps
    BY DEF DirSnaps, getSnapshotList, Made
  <1>4. DirAbstract!Create \/ SameDirs
    BY <1>3, DirFacts DEF DirTyped, DirKept, Copies, MakingSnap, Restoring, OnLabel, Made, getSnapshotList,
       DirLive, SameDirs, AsWhole, DirAbstract!Create, DirAbstract!Absent
  <1>5. QED
    BY <1>1, <1>2, <1>4

\* A write of a service.
LEMMA WritesStep ==
    ASSUME DirInv, NEW c \in Data, Writes(c)
    PROVE  DirInv' /\ (DirAbstract!Write \/ SameDirs)
  <1> USE DirAssumption DEF DirInv, Writes, BeginDirOp, Step, Done, Free
  <1>1. DirTyped'
    BY DEF DirTyped, DirKept, Copies, MakingSnap, Restoring, OnLabel, Made, getSnapshotList
  <1>2. DirKept'
    BY DEF DirTyped, DirKept, Copies, MakingSnap, Restoring, OnLabel, Made, getSnapshotList
  <1>3. DirSnaps' = DirSnaps
    BY DEF DirSnaps, getSnapshotList, Made
  <1>4. DirAbstract!Write \/ SameDirs
    BY <1>3, DirFacts DEF DirTyped, DirKept, Copies, MakingSnap, Restoring, OnLabel, Made, getSnapshotList,
       DirLive, SameDirs, AsWhole, DirAbstract!Write, DirAbstract!Absent, DirAbstract!Torn
  <1>5. QED
    BY <1>1, <1>2, <1>4

\* The loop of Remove removes one snapshot at a time.
LEMMA RemovesSnapStep ==
    ASSUME DirInv, NEW l \in SnapLabels, RemovesSnap(l)
    PROVE  DirInv' /\ (DirAbstract!RemoveSnapshot(l) \/ SameDirs)
  <1> USE DirAssumption DEF DirInv, RemovesSnap, BeginDirOp, Step, Done, Free
  <1>1. DirTyped'
    BY DEF DirTyped, DirKept, Copies, MakingSnap, Restoring, OnLabel, Made, getSnapshotList
  <1>2. DirKept'
    BY DEF DirTyped, DirKept, Copies, MakingSnap, Restoring, OnLabel, Made, getSnapshotList
  <1>3. \A k \in SnapLabels \ {l} : dest'[k] = dest[k] /\ (hasInfo'[k] <=> hasInfo[k])
    BY DEF DirTyped, DirKept, Copies, MakingSnap, Restoring, OnLabel, Made, getSnapshotList
  <1>4. DirLive' = DirLive
    BY DEF DirLive
  <1>5. DirSnaps' = [DirSnaps EXCEPT ![l] = SnapOf(l)']
    BY <1>3, OneDir
  <1>6. l \notin getSnapshotList'
    BY DEF DirTyped, DirKept, Copies, MakingSnap, Restoring, OnLabel, Made, getSnapshotList
  <1>7. DirAbstract!RemoveSnapshot(l) \/ SameDirs
    BY <1>4, <1>5, <1>6, DirUnlisting
  <1>8. QED
    BY <1>1, <1>2, <1>7

\* The volume is removed when its snapshots are.
LEMMA RemovesPathStep ==
    ASSUME DirInv, RemovesPath
    PROVE  DirInv' /\ (DirAbstract!Remove \/ SameDirs)
  <1> USE DirAssumption DEF DirInv, RemovesPath, BeginDirOp, Step, Done, Free
  <1>1. DirTyped'
    BY DEF DirTyped, DirKept, Copies, MakingSnap, Restoring, OnLabel, Made, getSnapshotList
  <1>2. DirKept'
    BY DEF DirTyped, DirKept, Copies, MakingSnap, Restoring, OnLabel, Made, getSnapshotList
  <1>3. getSnapshotList = {} /\ getSnapshotList' = {}
    BY DEF DirTyped, DirKept, Copies, MakingSnap, Restoring, OnLabel, Made, getSnapshotList
  <1>4. DirSnaps = [l \in SnapLabels |-> "absent"] /\ DirSnaps' = [l \in SnapLabels |-> "absent"]
    BY <1>3 DEF DirSnaps
  <1>5. DirLive' = "absent"
    BY DEF DirLive, AsWhole
  <1>6. DirAbstract!Remove \/ SameDirs
    BY <1>4, <1>5 DEF SameDirs, DirAbstract!Remove, DirAbstract!Absent
  <1>7. QED
    BY <1>1, <1>2, <1>6

\* A copy that ends is a snapshot.
LEMMA RsyncCopiesStep ==
    ASSUME DirInv, RsyncCopies
    PROVE  DirInv' /\ (DirAbstract!Snapshot(dirOp.l) \/ SameDirs)
  <1> USE DirAssumption DEF DirInv, RsyncCopies, BeginDirOp, Step, Done, Free
  <1>1. DirTyped'
    BY DEF DirTyped, DirKept, Copies, MakingSnap, Restoring, OnLabel, Made, getSnapshotList
  <1>2. DirKept'
    BY DEF DirTyped, DirKept, Copies, MakingSnap, Restoring, OnLabel, Made, getSnapshotList
  <1>3. PICK l \in SnapLabels : l = dirOp.l
    BY DEF DirTyped, DirKept, Copies, MakingSnap, Restoring, OnLabel, Made, getSnapshotList
  <1>4. \A k \in SnapLabels \ {l} : dest'[k] = dest[k] /\ (hasInfo'[k] <=> hasInfo[k])
    BY <1>3 DEF DirTyped, DirKept, Copies, MakingSnap, Restoring, OnLabel, Made, getSnapshotList
  <1>5. DirLive' = DirLive
    BY DEF DirLive
  <1>6. DirSnaps' = [DirSnaps EXCEPT ![l] = SnapOf(l)']
    BY <1>4, OneDir
  <1>7. ~Made(l) /\ vol \in Copies /\ vol # "absent" /\ dest'[l] = vol /\ vol # "absent"
    BY <1>3 DEF DirTyped, DirKept, Copies, MakingSnap, Restoring, OnLabel, Made, getSnapshotList
  <1>8. DirAbstract!Snapshot(dirOp.l) \/ SameDirs
    BY <1>3, <1>5, <1>6, <1>7, DirListing
  <1>9. QED
    BY <1>1, <1>2, <1>8

\* btrfs makes a snapshot in one step.
LEMMA BtrfsSnapshotsStep ==
    ASSUME DirInv, BtrfsSnapshots
    PROVE  DirInv' /\ (DirAbstract!Snapshot(dirOp.l) \/ SameDirs)
  <1> USE DirAssumption DEF DirInv, BtrfsSnapshots, BeginDirOp, Step, Done, Free
  <1>1. DirTyped'
    BY DEF DirTyped, DirKept, Copies, MakingSnap, Restoring, OnLabel, Made, getSnapshotList
  <1>2. DirKept'
    BY DEF DirTyped, DirKept, Copies, MakingSnap, Restoring, OnLabel, Made, getSnapshotList
  <1>3. PICK l \in SnapLabels : l = dirOp.l
    BY DEF DirTyped, DirKept, Copies, MakingSnap, Restoring, OnLabel, Made, getSnapshotList
  <1>4. \A k \in SnapLabels \ {l} : dest'[k] = dest[k] /\ (hasInfo'[k] <=> hasInfo[k])
    BY <1>3 DEF DirTyped, DirKept, Copies, MakingSnap, Restoring, OnLabel, Made, getSnapshotList
  <1>5. DirLive' = DirLive
    BY DEF DirLive
  <1>6. DirSnaps' = [DirSnaps EXCEPT ![l] = SnapOf(l)']
    BY <1>4, OneDir
  <1>7. ~Made(l) /\ vol \in Copies /\ vol # "absent" /\ dest'[l] = vol /\ vol # "absent"
    BY <1>3 DEF DirTyped, DirKept, Copies, MakingSnap, Restoring, OnLabel, Made, getSnapshotList
  <1>8. DirAbstract!Snapshot(dirOp.l) \/ SameDirs
    BY <1>3, <1>5, <1>6, <1>7, DirListing
  <1>9. QED
    BY <1>1, <1>2, <1>8

\* rsync removes a snapshot with its information,
LEMMA UnlistsSnapStep ==
    ASSUME DirInv, UnlistsSnap
    PROVE  DirInv' /\ (DirAbstract!RemoveSnapshot(dirOp.l) \/ SameDirs)
  <1> USE DirAssumption DEF DirInv, UnlistsSnap, BeginDirOp, Step, Done, Free
  <1>1. DirTyped'
    BY DEF DirTyped, DirKept, Copies, MakingSnap, Restoring, OnLabel, Made, getSnapshotList
  <1>2. DirKept'
    BY DEF DirTyped, DirKept, Copies, MakingSnap, Restoring, OnLabel, Made, getSnapshotList
  <1>3. PICK l \in SnapLabels : l = dirOp.l
    BY DEF DirTyped, DirKept, Copies, MakingSnap, Restoring, OnLabel, Made, getSnapshotList
  <1>4. \A k \in SnapLabels \ {l} : dest'[k] = dest[k] /\ (hasInfo'[k] <=> hasInfo[k])
    BY <1>3 DEF DirTyped, DirKept, Copies, MakingSnap, Restoring, OnLabel, Made, getSnapshotList
  <1>5. DirLive' = DirLive
    BY DEF DirLive
  <1>6. DirSnaps' = [DirSnaps EXCEPT ![l] = SnapOf(l)']
    BY <1>4, OneDir
  <1>7. l \notin getSnapshotList'
    BY <1>3 DEF DirTyped, DirKept, Copies, MakingSnap, Restoring, OnLabel, Made, getSnapshotList
  <1>8. DirAbstract!RemoveSnapshot(dirOp.l) \/ SameDirs
    BY <1>3, <1>5, <1>6, <1>7, DirUnlisting
  <1>9. QED
    BY <1>1, <1>2, <1>8

\* and what it deletes then is listed no more.
LEMMA DeletesSnapStep ==
    ASSUME DirInv, DeletesSnap
    PROVE  DirInv' /\ (DirAbstract!RemoveSnapshot(dirOp.l) \/ SameDirs)
  <1> USE DirAssumption DEF DirInv, DeletesSnap, BeginDirOp, Step, Done, Free
  <1>1. DirTyped'
    BY DEF DirTyped, DirKept, Copies, MakingSnap, Restoring, OnLabel, Made, getSnapshotList
  <1>2. DirKept'
    BY DEF DirTyped, DirKept, Copies, MakingSnap, Restoring, OnLabel, Made, getSnapshotList
  <1>3. PICK l \in SnapLabels : l = dirOp.l
    BY DEF DirTyped, DirKept, Copies, MakingSnap, Restoring, OnLabel, Made, getSnapshotList
  <1>4. \A k \in SnapLabels \ {l} : dest'[k] = dest[k] /\ (hasInfo'[k] <=> hasInfo[k])
    BY <1>3 DEF DirTyped, DirKept, Copies, MakingSnap, Restoring, OnLabel, Made, getSnapshotList
  <1>5. DirLive' = DirLive
    BY DEF DirLive
  <1>6. DirSnaps' = [DirSnaps EXCEPT ![l] = SnapOf(l)']
    BY <1>4, OneDir
  <1>7. l \notin getSnapshotList'
    BY <1>3 DEF DirTyped, DirKept, Copies, MakingSnap, Restoring, OnLabel, Made, getSnapshotList
  <1>8. DirAbstract!RemoveSnapshot(dirOp.l) \/ SameDirs
    BY <1>3, <1>5, <1>6, <1>7, DirUnlisting
  <1>9. QED
    BY <1>1, <1>2, <1>8

\* btrfs removes a snapshot in one step.
LEMMA DeletesSubvolumeStep ==
    ASSUME DirInv, DeletesSubvolume
    PROVE  DirInv' /\ (DirAbstract!RemoveSnapshot(dirOp.l) \/ SameDirs)
  <1> USE DirAssumption DEF DirInv, DeletesSubvolume, BeginDirOp, Step, Done, Free
  <1>1. DirTyped'
    BY DEF DirTyped, DirKept, Copies, MakingSnap, Restoring, OnLabel, Made, getSnapshotList
  <1>2. DirKept'
    BY DEF DirTyped, DirKept, Copies, MakingSnap, Restoring, OnLabel, Made, getSnapshotList
  <1>3. PICK l \in SnapLabels : l = dirOp.l
    BY DEF DirTyped, DirKept, Copies, MakingSnap, Restoring, OnLabel, Made, getSnapshotList
  <1>4. \A k \in SnapLabels \ {l} : dest'[k] = dest[k] /\ (hasInfo'[k] <=> hasInfo[k])
    BY <1>3 DEF DirTyped, DirKept, Copies, MakingSnap, Restoring, OnLabel, Made, getSnapshotList
  <1>5. DirLive' = DirLive
    BY DEF DirLive
  <1>6. DirSnaps' = [DirSnaps EXCEPT ![l] = SnapOf(l)']
    BY <1>4, OneDir
  <1>7. l \notin getSnapshotList'
    BY <1>3 DEF DirTyped, DirKept, Copies, MakingSnap, Restoring, OnLabel, Made, getSnapshotList
  <1>8. DirAbstract!RemoveSnapshot(dirOp.l) \/ SameDirs
    BY <1>3, <1>5, <1>6, <1>7, DirUnlisting
  <1>9. QED
    BY <1>1, <1>2, <1>8

\* A stream that was unpacked is an import.
LEMMA UnpacksStep ==
    ASSUME DirInv, NEW c \in Data, Unpacks(c)
    PROVE  DirInv' /\ (DirAbstract!Import(dirOp.l) \/ SameDirs)
  <1> USE DirAssumption DEF DirInv, Unpacks, BeginDirOp, Step, Done, Free
  <1>1. DirTyped'
    BY DEF DirTyped, DirKept, Copies, MakingSnap, Restoring, OnLabel, Made, getSnapshotList
  <1>2. DirKept'
    BY DEF DirTyped, DirKept, Copies, MakingSnap, Restoring, OnLabel, Made, getSnapshotList
  <1>3. PICK l \in SnapLabels : l = dirOp.l
    BY DEF DirTyped, DirKept, Copies, MakingSnap, Restoring, OnLabel, Made, getSnapshotList
  <1>4. \A k \in SnapLabels \ {l} : dest'[k] = dest[k] /\ (hasInfo'[k] <=> hasInfo[k])
    BY <1>3 DEF DirTyped, DirKept, Copies, MakingSnap, Restoring, OnLabel, Made, getSnapshotList
  <1>5. DirLive' = DirLive
    BY DEF DirLive
  <1>6. DirSnaps' = [DirSnaps EXCEPT ![l] = SnapOf(l)']
    BY <1>4, OneDir
  <1>7. ~Made(l) /\ c \in Copies /\ c # "absent" /\ dest'[l] = c
    BY <1>3 DEF DirTyped, DirKept, Copies, MakingSnap, Restoring, OnLabel, Made, getSnapshotList
  <1>8. DirAbstract!Import(dirOp.l) \/ SameDirs
    BY <1>3, <1>5, <1>6, <1>7, DirListing
  <1>9. QED
    BY <1>1, <1>2, <1>8

\* So is one that was received.
LEMMA BtrfsReceivesStep ==
    ASSUME DirInv, NEW c \in Data, BtrfsReceives(c)
    PROVE  DirInv' /\ (DirAbstract!Import(dirOp.l) \/ SameDirs)
  <1> USE DirAssumption DEF DirInv, BtrfsReceives, BeginDirOp, Step, Done, Free
  <1>1. DirTyped'
    BY DEF DirTyped, DirKept, Copies, MakingSnap, Restoring, OnLabel, Made, getSnapshotList
  <1>2. DirKept'
    BY DEF DirTyped, DirKept, Copies, MakingSnap, Restoring, OnLabel, Made, getSnapshotList
  <1>3. PICK l \in SnapLabels : l = dirOp.l
    BY DEF DirTyped, DirKept, Copies, MakingSnap, Restoring, OnLabel, Made, getSnapshotList
  <1>4. \A k \in SnapLabels \ {l} : dest'[k] = dest[k] /\ (hasInfo'[k] <=> hasInfo[k])
    BY <1>3 DEF DirTyped, DirKept, Copies, MakingSnap, Restoring, OnLabel, Made, getSnapshotList
  <1>5. DirLive' = DirLive
    BY DEF DirLive
  <1>6. DirSnaps' = [DirSnaps EXCEPT ![l] = SnapOf(l)']
    BY <1>4, OneDir
  <1>7. ~Made(l) /\ c \in Copies /\ c # "absent" /\ dest'[l] = c
    BY <1>3 DEF DirTyped, DirKept, Copies, MakingSnap, Restoring, OnLabel, Made, getSnapshotList
  <1>8. DirAbstract!Import(dirOp.l) \/ SameDirs
    BY <1>3, <1>5, <1>6, <1>7, DirListing
  <1>9. QED
    BY <1>1, <1>2, <1>8

\* A rollback that ends: the volume is what the snapshot is.
LEMMA RsyncRestoresStep ==
    ASSUME DirInv, RsyncRestores
    PROVE  DirInv' /\ DirAbstract!Rollback(dirOp.l)
  <1> USE DirAssumption DEF DirInv, RsyncRestores, BeginDirOp, Step, Done, Free
  <1>1. DirTyped'
    BY DEF DirTyped, DirKept, Copies, MakingSnap, Restoring, OnLabel, Made, getSnapshotList
  <1>2. DirKept'
    BY DEF DirTyped, DirKept, Copies, MakingSnap, Restoring, OnLabel, Made, getSnapshotList
  <1>3. DirSnaps' = DirSnaps
    BY DEF DirSnaps, getSnapshotList, Made
  <1>4. PICK l \in SnapLabels : l = dirOp.l
    BY DEF DirTyped, DirKept, Copies, MakingSnap, Restoring, OnLabel, Made, getSnapshotList
  <1>5. DirLive' = SnapOf(l) /\ SnapOf(l) # "absent"
    BY <1>4, DirFacts DEF DirTyped, DirKept, Copies, MakingSnap, Restoring, OnLabel, Made, getSnapshotList,
       DirLive, SnapOf
  <1>6. DirAbstract!Rollback(l)
    BY <1>3, <1>5, DirFacts DEF DirAbstract!Rollback, DirAbstract!Absent, DirAbstract!Seen
  <1>7. DirAbstract!Rollback(dirOp.l)
    BY <1>4, <1>6
  <1>8. QED
    BY <1>1, <1>2, <1>7

\* The same for btrfs.
LEMMA BtrfsRestoresStep ==
    ASSUME DirInv, BtrfsRestores
    PROVE  DirInv' /\ DirAbstract!Rollback(dirOp.l)
  <1> USE DirAssumption DEF DirInv, BtrfsRestores, BeginDirOp, Step, Done, Free
  <1>1. DirTyped'
    BY DEF DirTyped, DirKept, Copies, MakingSnap, Restoring, OnLabel, Made, getSnapshotList
  <1>2. DirKept'
    BY DEF DirTyped, DirKept, Copies, MakingSnap, Restoring, OnLabel, Made, getSnapshotList
  <1>3. DirSnaps' = DirSnaps
    BY DEF DirSnaps, getSnapshotList, Made
  <1>4. PICK l \in SnapLabels : l = dirOp.l
    BY DEF DirTyped, DirKept, Copies, MakingSnap, Restoring, OnLabel, Made, getSnapshotList
  <1>5. DirLive' = SnapOf(l) /\ SnapOf(l) # "absent"
    BY <1>4, DirFacts DEF DirTyped, DirKept, Copies, MakingSnap, Restoring, OnLabel, Made, getSnapshotList,
       DirLive, SnapOf
  <1>6. DirAbstract!Rollback(l)
    BY <1>3, <1>5, DirFacts DEF DirAbstract!Rollback, DirAbstract!Absent, DirAbstract!Seen
  <1>7. DirAbstract!Rollback(dirOp.l)
    BY <1>4, <1>6
  <1>8. QED
    BY <1>1, <1>2, <1>7

\* Between its two steps a rollback of btrfs counts as interrupted.
LEMMA BtrfsDeletesStep ==
    ASSUME DirInv, BtrfsDeletes
    PROVE  DirInv' /\ DirAbstract!RollbackInterrupted(dirOp.l)
  <1> USE DirAssumption DEF DirInv, BtrfsDeletes, BeginDirOp, Step, Done, Free
  <1>1. DirTyped'
    BY DEF DirTyped, DirKept, Copies, MakingSnap, Restoring, OnLabel, Made, getSnapshotList
  <1>2. DirKept'
    BY DEF DirTyped, DirKept, Copies, MakingSnap, Restoring, OnLabel, Made, getSnapshotList
  <1>3. DirSnaps' = DirSnaps
    BY DEF DirSnaps, getSnapshotList, Made
  <1>4. PICK l \in SnapLabels : l = dirOp.l
    BY DEF DirTyped, DirKept, Copies, MakingSnap, Restoring, OnLabel, Made, getSnapshotList
  <1>5. DirLive' = "torn" /\ SnapOf(l) # "absent"
    BY <1>4, DirFacts DEF DirTyped, DirKept, Copies, MakingSnap, Restoring, OnLabel, Made, getSnapshotList,
       DirLive
  <1>6. DirAbstract!RollbackInterrupted(l)
    BY <1>3, <1>5, DirFacts DEF DirAbstract!RollbackInterrupted, DirAbstract!Absent, DirAbstract!Torn
  <1>7. DirAbstract!RollbackInterrupted(dirOp.l)
    BY <1>4, <1>6
  <1>8. QED
    BY <1>1, <1>2, <1>7

\* A copy that is cut off leaves a torn label, a rollback that is cut off a torn volume.
LEMMA CopyStopsStep ==
    ASSUME DirInv, CopyStops
    PROVE  DirInv' /\ (SameDirs \/ DirAbstract!RollbackInterrupted(dirOp.l) \/ DirAbstract!Snapshot(dirOp.l) \/ DirAbstract!Import(dirOp.l))
  <1> USE DirAssumption DEF DirInv, CopyStops, BeginDirOp, Step, Done, Free
  <1>1. DirTyped'
    BY DEF DirTyped, DirKept, Copies, MakingSnap, Restoring, OnLabel, Made, getSnapshotList
  <1>2. DirKept'
    BY DEF DirTyped, DirKept, Copies, MakingSnap, Restoring, OnLabel, Made, getSnapshotList
  <1>3. PICK l \in SnapLabels : l = dirOp.l
    BY DEF DirTyped, DirKept, Copies, MakingSnap, Restoring, OnLabel, Made, getSnapshotList
  <1>4. ASSUME dirOp.pc = "sync" PROVE DirAbstract!RollbackInterrupted(l)
    <2>1. DirSnaps' = DirSnaps
      BY <1>4 DEF DirSnaps, getSnapshotList, Made
    <2>2. DirLive' = "torn" /\ SnapOf(l) # "absent"
      BY <1>3, <1>4, DirFacts DEF DirTyped, DirKept, Copies, MakingSnap, Restoring, OnLabel, Made,
         getSnapshotList, DirLive
    <2>3. QED
      BY <2>1, <2>2, DirFacts DEF DirAbstract!RollbackInterrupted, DirAbstract!Absent, DirAbstract!Torn
  <1>5. ASSUME dirOp.pc # "sync" PROVE DirAbstract!Import(l) \/ (dirOp.pc = "copy" /\ DirAbstract!Snapshot(l)) \/ SameDirs
    <2>1. \A k \in SnapLabels \ {l} : dest'[k] = dest[k] /\ (hasInfo'[k] <=> hasInfo[k])
      BY <1>3, <1>5 DEF DirTyped, DirKept, Copies, MakingSnap, Restoring, OnLabel, Made, getSnapshotList
    <2>2. DirLive' = DirLive
      BY <1>5 DEF DirLive
    <2>3. DirSnaps' = [DirSnaps EXCEPT ![l] = SnapOf(l)']
      BY <2>1, OneDir
    <2>4. ~Made(l) /\ "half" \in Copies /\ dest'[l] = "half"
      BY <1>3, <1>5 DEF DirTyped, DirKept, Copies, MakingSnap, Restoring, OnLabel, Made, getSnapshotList
    <2>5. QED
      BY <2>2, <2>3, <2>4, DirListing
  <1>6. SameDirs \/ DirAbstract!RollbackInterrupted(dirOp.l) \/ DirAbstract!Snapshot(dirOp.l) \/ DirAbstract!Import(dirOp.l)
    BY <1>3, <1>4, <1>5
  <1>7. QED
    BY <1>1, <1>2, <1>6

\* An error between two steps is not seen, unless it leaves the rollback of btrfs where it
\* was.
LEMMA StepFailsStep ==
    ASSUME DirInv, StepFails
    PROVE  DirInv' /\ SameDirs
  <1> USE DirAssumption DEF DirInv, StepFails, BeginDirOp, Step, Done, Free
  <1>1. DirTyped'
    BY DEF DirTyped, DirKept, Copies, MakingSnap, Restoring, OnLabel, Made, getSnapshotList
  <1>2. DirKept'
    BY DEF DirTyped, DirKept, Copies, MakingSnap, Restoring, OnLabel, Made, getSnapshotList
  <1>3. DirSnaps' = DirSnaps
    BY DEF DirSnaps, getSnapshotList, Made
  <1>4. DirLive' = DirLive
    BY DEF DirTyped, DirKept, Copies, MakingSnap, Restoring, OnLabel, Made, getSnapshotList, DirLive
  <1>5. SameDirs
    BY <1>3, <1>4 DEF SameDirs
  <1>6. QED
    BY <1>1, <1>2, <1>5

-----------------------------------------------------------------------------

\* At first there is neither a volume nor a snapshot.
LEMMA DirInitOK == dirInit => DirInv /\ DirAbstract!Init
  <1> SUFFICES ASSUME dirInit PROVE DirInv /\ DirAbstract!Init
    OBVIOUS
  <1>1. DirTyped /\ DirKept
    BY DEF dirInit, Free, DirTyped, DirKept, Copies, MakingSnap, Restoring, OnLabel, Made, getSnapshotList
  <1>2. DirLive = "absent" /\ DirSnaps = [l \in SnapLabels |-> "absent"]
    BY DEF dirInit, Free, DirLive, DirSnaps, AsWhole, getSnapshotList, Made
  <1>3. QED
    BY <1>1, <1>2 DEF DirInv, DirAbstract!Init, DirAbstract!Absent

\* Each step of the two drivers is a step of the volume, or is not seen.
LEMMA DirStepOK == DirInv /\ [dirNext]_dirVars => DirInv' /\ [DirAbstract!Next]_(DirAbstract!volVars)
  <1> SUFFICES ASSUME DirInv, [dirNext]_dirVars PROVE DirInv' /\ (DirAbstract!Next \/ SameDirs)
    BY DEF SameDirs, DirAbstract!volVars
  <1>1. ASSUME UNCHANGED dirVars PROVE DirInv' /\ SameDirs
    <2>1. DirInv'
      BY <1>1 DEF dirVars, DirInv, DirTyped, DirKept, Copies, MakingSnap, Restoring, OnLabel, Made,
         getSnapshotList
    <2>2. SameDirs
      BY <1>1 DEF dirVars, SameDirs, DirLive, DirSnaps, getSnapshotList, Made
    <2>3. QED
      BY <2>1, <2>2
  <1>2. ASSUME dirNext PROVE DirInv' /\ (DirAbstract!Next \/ SameDirs)
    <2> USE DEF DirAbstract!Next
    <2>1. ASSUME CreateDirs \/ CreateSubvolume \/ MakesPath PROVE DirInv' /\ (DirAbstract!Next \/ SameDirs)
      BY <2>1, CreateDirsStep, CreateSubvolumeStep, MakesPathStep
    <2>2. ASSUME RemoveVolume \/ RemovesMeta \/ RemovesPath PROVE DirInv' /\ (DirAbstract!Next \/ SameDirs)
      BY <2>2, RemoveVolumeStep, RemovesMetaStep, RemovesPathStep
    <2>3. ASSUME WritesInfo \/ UnpacksInfo \/ StepFails PROVE DirInv' /\ SameDirs
      BY <2>3, WritesInfoStep, UnpacksInfoStep, StepFailsStep
    <2>4. dirOp.pc \in OnLabel => dirOp.l \in SnapLabels
      BY DEF DirInv, DirTyped
    <2>5. ASSUME RsyncCopies \/ BtrfsSnapshots \/ UnlistsSnap \/ DeletesSnap \/ DeletesSubvolume
          PROVE  DirInv' /\ (DirAbstract!Next \/ SameDirs)
      <3>1. dirOp.l \in SnapLabels
        BY <2>4, <2>5 DEF RsyncCopies, BtrfsSnapshots, UnlistsSnap, DeletesSnap, DeletesSubvolume, OnLabel,
           MakingSnap
      <3>2. QED
        BY <2>5, <3>1, RsyncCopiesStep, BtrfsSnapshotsStep, UnlistsSnapStep, DeletesSnapStep,
           DeletesSubvolumeStep
    <2>6. ASSUME RsyncRestores \/ BtrfsDeletes \/ BtrfsRestores \/ CopyStops PROVE DirInv' /\ (DirAbstract!Next \/ SameDirs)
      <3>1. dirOp.l \in SnapLabels
        BY <2>4, <2>6 DEF RsyncRestores, BtrfsDeletes, BtrfsRestores, CopyStops, OnLabel, MakingSnap,
           Restoring
      <3>2. QED
        BY <2>6, <3>1, RsyncRestoresStep, BtrfsDeletesStep, BtrfsRestoresStep, CopyStopsStep
    <2>7. ASSUME NEW c \in Data, Writes(c) PROVE DirInv' /\ (DirAbstract!Next \/ SameDirs)
      BY <2>7, WritesStep
    <2>8. ASSUME NEW c \in Data, Unpacks(c) \/ BtrfsReceives(c) PROVE DirInv' /\ (DirAbstract!Next \/ SameDirs)
      <3>1. dirOp.l \in SnapLabels
        BY <2>4, <2>8 DEF Unpacks, BtrfsReceives, OnLabel, MakingSnap
      <3>2. QED
        BY <2>8, <3>1, UnpacksStep, BtrfsReceivesStep
    <2>9. ASSUME NEW l \in SnapLabels, RemovesSnap(l) \/ TakeSnapshot(l) \/ RemoveSnap(l) \/ RollbackTo(l) \/ ImportStream(l)
          PROVE  DirInv' /\ (DirAbstract!Next \/ SameDirs)
      BY <2>9, RemovesSnapStep, TakeSnapshotStep, RemoveSnapStep, RollbackToStep, ImportStreamStep
    <2>10. QED
      BY <1>2, <2>1, <2>2, <2>3, <2>5, <2>6, <2>7, <2>8, <2>9 DEF dirNext
  <1>3. QED
    BY <1>1, <1>2

\* So do the rsync and btrfs drivers.
THEOREM DirVolumesImplement == dirSpec => ImplementsVolumeInDirs
  BY DirInitOK, DirStepOK, PTL DEF dirSpec, ImplementsVolumeInDirs, DirAbstract!Spec

\* What the three drivers do is what a volume promises.
THEOREM VolumesAreImplemented == thinSpec /\ dirSpec => VolumesImplemented
  BY ThinVolumesImplement, DirVolumesImplement DEF VolumesImplemented

-----------------------------------------------------------------------------
(* Operations on a tenant while it runs (facade/dfs.go)                     *)

\* Where a service or its instance shall be.
Wants == {"run", "pause", "stop"}

\* What is kept of the types.
SnapTyped ==
    /\ desired \in [SnapServices -> Wants] /\ inst \in [SnapServices -> Wants]
    /\ snapNode \in [SnapServices -> [want : Wants, locked : BOOLEAN]]
    /\ queue \in [SnapServices -> {"none", "run", "pause", "stop", "emergency", "current"}]
    /\ snapOp = [pc |-> snapOp.pc, kind |-> snapOp.kind, held |-> snapOp.held, waiting |-> snapOp.waiting, done |-> snapOp.done]
    /\ wrong \in BOOLEAN /\ gaveUp \in BOOLEAN

\* The node of a service says what the cache of the store says.
NodesFollow == \A s \in SnapServices : desired[s] = snapNode[s].want

\* An instance that is about to be resumed.  It would be, even of a locked service.
Resumes(s) == snapNode[s].want = "run" /\ inst[s] = "pause"

\* That happens only while the service has an entry in the queue that runs it or has just run.
NothingResumes == \A s \in SnapServices : queue[s] \in {"none", "pause"} => ~Resumes(s)

\* The operation holds the lock of the tenant, so that no user schedules anything.
TenantKept == snapOp.pc \in {"ssm", "pause", "wait", "volume", "resume", "unlock"} => tenantHeld

\* From the lock of the nodes to the work on the volume nothing is started: what shall run is
\* locked, what the batch has unlocked shall not run, and nothing is resumed.
StartsNothing ==
    snapOp.pc \in {"pause", "wait", "volume"} =>
        \A s \in SnapServices :
            /\ queue[s] \in {"none", "pause", "stop", "current"} /\ ~Resumes(s)
            /\ snapNode[s].want = "run" => snapNode[s].locked
            /\ snapOp.pc = "pause" => queue[s] = "none"

\* Who was waited for is quiet, and the volume is worked on when nobody is left to wait for.
StayQuiet ==
    /\ snapOp.pc \in {"wait", "volume"} => \A s \in SnapServices : s \in snapOp.waiting \/ Quiet(s)
    /\ snapOp.pc = "volume" => snapOp.waiting = {}

QuietInv == SnapTyped /\ NodesFollow /\ TenantKept /\ (wrong => gaveUp) /\ (~gaveUp => NothingResumes /\ StartsNothing /\ StayQuiet)

\* The lock flag of all service nodes.
LEMMA LocksSet ==
    ASSUME SnapTyped, NEW b \in BOOLEAN, SetLocks(b)
    PROVE  /\ snapNode' \in [SnapServices -> [want : Wants, locked : BOOLEAN]]
           /\ \A s \in SnapServices : snapNode'[s].want = snapNode[s].want /\ snapNode'[s].locked = b
  <1>1. ASSUME NEW s \in SnapServices
        PROVE  LET v == [snapNode[s] EXCEPT !.locked = b]
               IN  v \in [want : Wants, locked : BOOLEAN] /\ v.want = snapNode[s].want /\ v.locked = b
    BY DEF SnapTyped
  <1> DEFINE node(s) == [snapNode[s] EXCEPT !.locked = b]
  <1>2. snapNode' = [s \in SnapServices |-> node(s)]
    BY DEF SetLocks
  <1>3. \A s \in SnapServices : node(s) \in [want : Wants, locked : BOOLEAN] /\ node(s).want = snapNode[s].want /\ node(s).locked = b
    BY <1>1
  <1> HIDE DEF node
  <1>4. QED
    BY <1>2, <1>3

\* Every step of an operation, the state manager, the agents, a user, or what fails.
LEMMA QuietStep ==
    QuietInv /\ [snapNext]_snapVars => QuietInv'
  <1> SUFFICES ASSUME QuietInv, [snapNext]_snapVars PROVE QuietInv'
    OBVIOUS
  <1> USE DEF QuietInv, SnapTyped, NodesFollow, Resumes, NothingResumes, TenantKept, StartsNothing, StayQuiet, Quiet, Wants, NoOp
  <1>1. ASSUME TenantLock PROVE QuietInv'
    BY <1>1 DEF TenantLock
  <1>2. ASSUME LockNodes PROVE QuietInv'
    <2>1. snapOp.pc = "ssm" /\ \A s \in SnapServices : queue[s] = "none"
      BY <1>2 DEF LockNodes
    <2>2. UNCHANGED <<desired, inst, queue, wrong, gaveUp>>
      BY <1>2 DEF LockNodes
    <2>3. CASE SetLocks(TRUE) /\ snapOp' = [snapOp EXCEPT !.pc = "pause"] /\ UNCHANGED tenantHeld
      <3>1. /\ snapNode' \in [SnapServices -> [want : Wants, locked : BOOLEAN]]
            /\ \A s \in SnapServices : snapNode'[s].want = snapNode[s].want /\ snapNode'[s].locked
        BY <2>3, LocksSet
      <3>2. snapOp' = [pc |-> "pause", kind |-> snapOp.kind, held |-> snapOp.held, waiting |-> snapOp.waiting, done |-> snapOp.done]
        BY <2>3
      <3>3. QED
        BY <2>1, <2>2, <2>3, <3>1, <3>2
    <2>4. CASE snapOp' = NoOp /\ UNCHANGED snapNode
      BY <2>1, <2>2, <2>4
    <2>5. QED
      BY <1>2, <2>3, <2>4 DEF LockNodes
  <1>3. ASSUME SchedulePause PROVE QuietInv'
    BY <1>3 DEF SchedulePause, Running
  <1>4. ASSUME ScheduleStop PROVE QuietInv'
    <2>1. /\ snapOp.pc = "pause" /\ snapOp.kind \in {"rollback", "force"}
          /\ UNCHANGED <<desired, snapNode, inst, tenantHeld, wrong, gaveUp>>
      BY <1>4 DEF ScheduleStop
    <2>2. CASE snapOp' = [snapOp EXCEPT !.pc = "unlock"] /\ UNCHANGED queue
      BY <2>1, <2>2
    <2>3. CASE /\ queue' = [s \in SnapServices |-> IF s \in Running THEN "stop" ELSE queue[s]]
               /\ snapOp' = [snapOp EXCEPT !.pc = "wait", !.held = Running, !.waiting = SnapServices]
      BY <2>1, <2>3
    <2>4. QED
      BY <1>4, <2>2, <2>3 DEF ScheduleStop
  <1>5. ASSUME WaitEnds PROVE QuietInv'
    BY <1>5 DEF WaitEnds
  <1>6. ASSUME SnapshotVolume PROVE QuietInv'
    <2>1. /\ snapOp.pc = "volume" /\ snapOp.kind \in {"snapshot", "backup"} /\ UNCHANGED <<desired, snapNode, inst, queue, tenantHeld, gaveUp>>
          /\ snapOp' = [snapOp EXCEPT !.pc = "resume", !.done = TRUE] \/ snapOp' = [snapOp EXCEPT !.pc = "resume"]
          /\ wrong' = (wrong \/ \E s \in SnapServices : inst[s] = "run") \/ UNCHANGED wrong
      BY <1>6 DEF SnapshotVolume
    <2>2. ASSUME ~gaveUp PROVE ~\E s \in SnapServices : inst[s] = "run"
      BY <2>1, <2>2
    <2>3. wrong' \in BOOLEAN /\ (wrong' => gaveUp')
      BY <2>1, <2>2
    <2>4. snapOp'.pc = "resume" /\ snapOp' = [pc |-> snapOp'.pc, kind |-> snapOp'.kind, held |-> snapOp'.held, waiting |-> snapOp'.waiting, done |-> snapOp'.done]
      BY <2>1
    <2>5. QED
      BY <2>1, <2>3, <2>4
  <1>7. ASSUME RollbackVolume PROVE QuietInv'
    <2>1. /\ snapOp.pc = "volume" /\ snapOp.kind \in {"rollback", "force"} /\ UNCHANGED <<inst, queue, tenantHeld, gaveUp>>
          /\ snapOp' = [snapOp EXCEPT !.pc = "resume"]
          /\ desired' = [s \in SnapServices |-> "stop"] /\ snapNode' = [s \in SnapServices |-> [want |-> "stop", locked |-> TRUE]]
          /\ wrong' = (wrong \/ \E s \in SnapServices : inst[s] # "stop") \/ UNCHANGED wrong
      BY <1>7 DEF RollbackVolume
    <2>2. ASSUME ~gaveUp PROVE ~\E s \in SnapServices : inst[s] # "stop"
      BY <2>1, <2>2
    <2>3. wrong' \in BOOLEAN /\ (wrong' => gaveUp')
      BY <2>1, <2>2
    <2>4. snapOp'.pc = "resume" /\ snapOp' = [pc |-> snapOp'.pc, kind |-> snapOp'.kind, held |-> snapOp'.held, waiting |-> snapOp'.waiting, done |-> snapOp'.done]
      BY <2>1
    <2>5. QED
      BY <2>1, <2>3, <2>4
  <1>8. ASSUME ResumeHeld PROVE QuietInv'
    BY <1>8 DEF ResumeHeld
  <1>9. ASSUME UnlockNodes PROVE QuietInv'
    <2>1. snapOp.pc = "unlock" /\ UNCHANGED <<desired, inst, queue, wrong, gaveUp>>
      BY <1>9 DEF UnlockNodes
    <2>2. CASE SetLocks(FALSE) /\ (snapOp' = [snapOp EXCEPT !.pc = "export"] \/ snapOp' = NoOp)
      <3>1. /\ snapNode' \in [SnapServices -> [want : Wants, locked : BOOLEAN]]
            /\ \A s \in SnapServices : snapNode'[s].want = snapNode[s].want
        BY <2>2, LocksSet
      <3>2. snapOp'.pc \in {"export", "idle"} /\ SnapTyped'
        BY <2>1, <2>2, <3>1
      <3>3. QED
        BY <2>1, <3>1, <3>2
    <2>3. CASE UNCHANGED <<snapNode, tenantHeld, snapOp>>
      BY <2>1, <2>3
    <2>4. QED
      BY <1>9, <2>2, <2>3 DEF UnlockNodes
  <1>10. ASSUME BackupEnds PROVE QuietInv'
    BY <1>10 DEF BackupEnds
  <1>11. ASSUME PurgeSnapshots PROVE QuietInv'
    BY <1>11 DEF PurgeSnapshots
  <1>12. ASSUME MasterRestarts PROVE QuietInv'
    <2>1. /\ SetLocks(FALSE) /\ snapOp' = NoOp /\ gaveUp' = TRUE /\ UNCHANGED <<inst, wrong>>
          /\ queue' = [s \in SnapServices |-> "none"] /\ desired' = [s \in SnapServices |-> snapNode[s].want]
      BY <1>12 DEF MasterRestarts
    <2>2. /\ snapNode' \in [SnapServices -> [want : Wants, locked : BOOLEAN]]
          /\ \A s \in SnapServices : snapNode'[s].want = snapNode[s].want
      BY <2>1, LocksSet
    <2>3. QED
      BY <2>1, <2>2
  <1>13. ASSUME NEW s \in SnapServices, WaitOne(s) PROVE QuietInv'
    BY <1>13 DEF WaitOne
  <1>14. ASSUME NEW s \in SnapServices, BatchRuns(s) PROVE QuietInv'
    <2>1. queue[s] \in {"run", "pause", "stop"} /\ UNCHANGED <<inst, snapOp, tenantHeld, wrong, gaveUp>>
      BY <1>14 DEF BatchRuns
    <2>2. CASE /\ desired[s] # queue[s] /\ queue' = [queue EXCEPT ![s] = "current"] /\ desired' = [desired EXCEPT ![s] = queue[s]]
               /\ snapNode' = [snapNode EXCEPT ![s] = [want |-> queue[s], locked |-> FALSE]]
      <3>1. [want |-> queue[s], locked |-> FALSE] \in [want : Wants, locked : BOOLEAN] /\ queue[s] \in Wants
        BY <2>1
      <3>2. SnapTyped'
        BY <2>1, <2>2, <3>1
      <3>3. QED
        BY <2>1, <2>2, <3>2
    <2>3. CASE queue' = [queue EXCEPT ![s] = "current"] /\ UNCHANGED <<desired, snapNode>>
      BY <2>1, <2>3
    <2>4. CASE desired[s] # queue[s] /\ queue[s] # "stop" /\ queue' = [queue EXCEPT ![s] = "none"] /\ UNCHANGED <<desired, snapNode>>
      BY <2>1, <2>4
    <2>5. QED
      BY <1>14, <2>2, <2>3, <2>4 DEF BatchRuns
  <1>15. ASSUME NEW s \in SnapServices, BatchSettles(s) PROVE QuietInv'
    <2>1. queue[s] = "current" /\ queue' = [queue EXCEPT ![s] = "none"] /\ UNCHANGED <<desired, snapNode, inst, snapOp, tenantHeld, wrong>>
      BY <1>15 DEF BatchSettles
    <2>2. (gaveUp' = TRUE \/ UNCHANGED gaveUp) /\ NodesFollow' /\ TenantKept'
      BY <1>15, <2>1 DEF BatchSettles
    <2>3. CASE inst[s] = snapNode[s].want /\ UNCHANGED gaveUp
      BY <2>1, <2>2, <2>3
    <2>4. CASE gaveUp' = TRUE
      BY <2>1, <2>2, <2>4
    <2>5. QED
      BY <1>15, <2>3, <2>4 DEF BatchSettles
  <1>16. ASSUME NEW s \in SnapServices, Follow(s) PROVE QuietInv'
    BY <1>16 DEF Follow
  <1>17. ASSUME NEW s \in SnapServices, InstanceDies(s) PROVE QuietInv'
    BY <1>17 DEF InstanceDies
  <1>18. ASSUME NEW s \in SnapServices, EmergencyRequested(s) PROVE QuietInv'
    BY <1>18 DEF EmergencyRequested
  <1>19. ASSUME NEW s \in SnapServices, EmergencyMarked(s) PROVE QuietInv'
    BY <1>19 DEF EmergencyMarked
  <1>20. ASSUME NEW s \in SnapServices, NEW w \in {"run", "stop"}, UserSchedules(s, w) PROVE QuietInv'
    BY <1>20 DEF UserSchedules
  <1>21. ASSUME NEW n \in ttl, PurgeOne(n) PROVE QuietInv'
    BY <1>21 DEF PurgeOne
  <1>22. ASSUME NEW x \in snaps, Ages(x) PROVE QuietInv'
    BY <1>22 DEF Ages
  <1>23. ASSUME NEW x \in snaps, TagSnapshot(x) PROVE QuietInv'
    BY <1>23 DEF TagSnapshot
  <1>24. ASSUME NEW kind \in SnapKinds, BeginOp(kind) PROVE QuietInv'
    BY <1>24 DEF BeginOp
  <1>25. CASE UNCHANGED snapVars
    BY <1>25 DEF snapVars
  <1>26. ASSUME OpStep \/ PurgeStep \/ Ageing PROVE QuietInv'
    BY <1>26, <1>1, <1>2, <1>3, <1>4, <1>5, <1>6, <1>7, <1>8, <1>9, <1>10, <1>11, <1>13, <1>21, <1>22 DEF
       OpStep, PurgeStep, Ageing
  <1>27. QED
    BY <1>26, <1>12, <1>14, <1>15, <1>16, <1>17, <1>18, <1>19, <1>20, <1>23, <1>24, <1>25 DEF snapNext

\* The initial states.
LEMMA QuietInit == snapInit => QuietInv
  <1> SUFFICES ASSUME snapInit PROVE QuietInv
    OBVIOUS
  <1>1. SnapTyped
    BY DEF snapInit, QuietInv, SnapTyped, NodesFollow, Resumes, NothingResumes, TenantKept, StartsNothing,
       StayQuiet, Quiet, Wants, NoOp
  <1>2. NodesFollow
    BY DEF snapInit, QuietInv, SnapTyped, NodesFollow, Resumes, NothingResumes, TenantKept, StartsNothing,
       StayQuiet, Quiet, Wants, NoOp
  <1>3. TenantKept
    BY DEF snapInit, QuietInv, SnapTyped, NodesFollow, Resumes, NothingResumes, TenantKept, StartsNothing,
       StayQuiet, Quiet, Wants, NoOp
  <1>4. (wrong => gaveUp)
    BY DEF snapInit, QuietInv, SnapTyped, NodesFollow, Resumes, NothingResumes, TenantKept, StartsNothing,
       StayQuiet, Quiet, Wants, NoOp
  <1>5. (~gaveUp => NothingResumes)
    BY DEF snapInit, QuietInv, SnapTyped, NodesFollow, Resumes, NothingResumes, TenantKept, StartsNothing,
       StayQuiet, Quiet, Wants, NoOp
  <1>6. (~gaveUp => StartsNothing)
    BY DEF snapInit, QuietInv, SnapTyped, NodesFollow, Resumes, NothingResumes, TenantKept, StartsNothing,
       StayQuiet, Quiet, Wants, NoOp
  <1>7. (~gaveUp => StayQuiet)
    BY DEF snapInit, QuietInv, SnapTyped, NodesFollow, Resumes, NothingResumes, TenantKept, StartsNothing,
       StayQuiet, Quiet, Wants, NoOp
  <1>8. QED
    BY <1>1, <1>2, <1>3, <1>4, <1>5, <1>6, <1>7 DEF QuietInv

-----------------------------------------------------------------------------
(* The export of the volumes (dfs/nfs/server.go)                            *)

\* What is kept of the types.
NfsTyped ==
    /\ device \in [NfsTenants -> Nat] /\ binds \in [NfsTenants -> Nat] /\ nextDevice \in Nat \ {0}
    /\ toExport \subseteq NfsTenants /\ exportsFile \subseteq NfsTenants
    /\ nfsOp = [kind |-> nfsOp.kind, t |-> nfsOp.t, at |-> nfsOp.at]
    /\ nfsOp.at \in {"idle", "create", "remove", "add", "sync", "stop", "restart", "rollback", "delete"}
    /\ nfsOp.at # "idle" => nfsOp.t \in NfsTenants
    /\ nfsd \in BOOLEAN

\* What an operation that is under way has made sure of: its volume is out of what shall be
\* exported before the device is replaced or deleted, and what shall be exported has a device.
OpInOrder ==
    /\ nfsOp.at \in {"create", "stop", "restart", "rollback", "delete"} => nfsOp.t \notin toExport
    /\ nfsOp.at \in {"remove", "stop", "restart", "rollback", "add", "sync"} => device[nfsOp.t] # 0
    /\ \A t \in toExport : device[t] # 0
    /\ nfsOp.at = "create" => device[nfsOp.t] = 0

NfsInv == NfsTyped /\ OpInOrder /\ BindsCurrent /\ ExportsAreBound /\ AllowedHadPermission /\ nfsClients \subseteq clientNodes

\* What a Sync or a Restart of the server leaves behind, wherever it failed.
LEMMA WritesKeep ==
    ASSUME NfsInv, WritesAll \/ WritesPart
    PROVE  /\ binds' \in [NfsTenants -> Nat] /\ exportsFile' \subseteq NfsTenants /\ nfsd' \in BOOLEAN /\ hostsAllow' \in {hostsAllow, nfsClients}
           /\ \A t \in NfsTenants \ stuckBinds' : (binds'[t] # 0 => binds'[t] = device[t]) /\ (t \notin toExport => binds'[t] = 0)
           /\ nfsd' => \A t \in exportsFile' : binds'[t] # 0 \/ t \in stuckBinds'
  <1> USE DEF NfsInv, NfsTyped, OpInOrder, BindsCurrent, ExportsAreBound, Bound, Cleaned
  <1>1. CASE WritesAll
    <2>1. exportsFile' = toExport /\ nfsd' = TRUE /\ hostsAllow' = nfsClients
      BY <1>1 DEF WritesAll
    <2> DEFINE bs == Cleaned(Bound(toExport), toExport)
    <2>2. bs \in [NfsTenants -> Nat] /\ \A t \in NfsTenants : bs[t] = IF t \in toExport THEN (IF binds[t] = 0 THEN device[t] ELSE binds[t]) ELSE 0
      OBVIOUS
    <2>3. CASE binds' = bs /\ stuckBinds' = stuckBinds \cap {t \in toExport : binds[t] # 0}
      <3> HIDE DEF bs
      <3> QED
        BY <2>1, <2>2, <2>3
    <2>4. ASSUME NEW t \in NfsTenants \ toExport, binds[t] # 0, binds' = [bs EXCEPT ![t] = binds[t]],
                 stuckBinds' = (stuckBinds \cap {u \in toExport : binds[u] # 0}) \cup {t}
          PROVE  /\ binds' \in [NfsTenants -> Nat]
                 /\ \A u \in NfsTenants \ stuckBinds' : (binds'[u] # 0 => binds'[u] = device[u]) /\ (u \notin toExport => binds'[u] = 0)
                 /\ \A u \in toExport : binds'[u] # 0
      <3> HIDE DEF bs
      <3> QED
        BY <2>2, <2>4
    <2>5. QED
      BY <1>1, <2>1, <2>3, <2>4 DEF WritesAll
  <1>2. CASE WritesPart
    BY <1>2 DEF WritesPart
  <1>3. QED
    BY <1>1, <1>2

\* Every step of an operation, of the loop of the storage server and of the delegates.
LEMMA NfsStep ==
    NfsInv /\ [nfsNext]_nfsVars => NfsInv'
  <1> SUFFICES ASSUME NfsInv, [nfsNext]_nfsVars PROVE NfsInv'
    OBVIOUS
  <1> USE DEF NfsInv, NfsTyped, OpInOrder, BindsCurrent, ExportsAreBound, AllowedHadPermission, NoNfsOp, NfsOpStep, OpEnds, DeviceMade, serverVars, delegateVars, diskState, LoopGoesOn
  <1>1. ASSUME DiskCreate PROVE NfsInv'
    BY <1>1 DEF DiskCreate
  <1>2. ASSUME ExportAdded PROVE NfsInv'
    BY <1>2 DEF ExportAdded
  <1>3. ASSUME OpSync PROVE NfsInv'
    BY <1>3, WritesKeep DEF OpSync
  <1>4. ASSUME RemoveExport PROVE NfsInv'
    BY <1>4 DEF RemoveExport
  <1>5. ASSUME StopServer PROVE NfsInv'
    <2>1. CASE NfsOpStep("stop", "restart") /\ nfsd' = FALSE /\ binds' = Cleaned(binds, exported)
      BY <1>5, <2>1 DEF StopServer, Cleaned
    <2>2. CASE NfsSpend("failures") /\ UNCHANGED <<nfsd, binds>> /\ stuckBinds' = stuckBinds \cup {nfsOp.t}
      BY <1>5, <2>2 DEF StopServer
    <2>3. QED
      BY <1>5, <2>1, <2>2 DEF StopServer
  <1>6. ASSUME RestartServer PROVE NfsInv'
    BY <1>6, WritesKeep DEF RestartServer
  <1>7. ASSUME DiskRollback PROVE NfsInv'
    BY <1>7 DEF DiskRollback
  <1>8. ASSUME DiskRemove PROVE NfsInv'
    BY <1>8 DEF DiskRemove
  <1>9. ASSUME RunStarts PROVE NfsInv'
    BY <1>9 DEF RunStarts
  <1>10. ASSUME SetClients PROVE NfsInv'
    BY <1>10 DEF SetClients, Permitted
  <1>11. ASSUME LoopSync PROVE NfsInv'
    BY <1>11, WritesKeep DEF LoopSync
  <1>12. ASSUME LoopWakes PROVE NfsInv'
    BY <1>12 DEF LoopWakes
  <1>13. ASSUME NEW t \in NfsTenants, BeginNfsOp(t) PROVE NfsInv'
    BY <1>13 DEF BeginNfsOp
  <1>14. ASSUME NEW d \in Delegates, ClientCreates(d) PROVE NfsInv'
    BY <1>14 DEF ClientCreates
  <1>15. ASSUME NEW d \in Delegates, PermissionChanges(d) PROVE NfsInv'
    BY <1>15 DEF PermissionChanges
  <1>16. CASE UNCHANGED nfsVars
    BY <1>16 DEF nfsVars
  <1>17. QED
    BY <1>1, <1>2, <1>3, <1>4, <1>5, <1>6, <1>7, <1>8, <1>9, <1>10, <1>11, <1>12, <1>13, <1>14, <1>15, <1>16
       DEF nfsNext, nfsOperates, nfsLoop

\* The initial states.
LEMMA NfsInit == nfsInit => NfsInv
  BY DEF nfsInit, NfsInv, NfsTyped, OpInOrder, BindsCurrent, ExportsAreBound, AllowedHadPermission, NoNfsOp

-----------------------------------------------------------------------------
\* A volume is snapshotted only while nothing writes to it and rolled back only while nothing
\* runs, whatever dies, fails or is refused in between (Facade.Snapshot and Rollback), unless a
\* batch was given up; and what the hosts can mount is the present device of a tenant
\* (nfs.Server).
THEOREM VolumesStaySound ==
    snapSpec /\ nfsSpec => []VolumesSound
  <1>1. snapSpec => []VolumeIsQuiet
    <2>1. QuietInv => VolumeIsQuiet
      BY DEF QuietInv, VolumeIsQuiet
    <2>2. QED
      BY <2>1, QuietInit, QuietStep, PTL DEF snapSpec
  <1>2. nfsSpec => []NfsSound
    <2>1. NfsInv => NfsSound
      BY DEF NfsInv, NfsSound
    <2>2. QED
      BY <2>1, NfsInit, NfsStep, PTL DEF nfsSpec
  <1>3. VolumeIsQuiet /\ NfsSound => VolumesSound
    BY DEF VolumesSound
  <1>4. QED
    BY <1>1, <1>2, <1>3, PTL

-----------------------------------------------------------------------------
(* Backup and restore (dfs/backup.go, dfs/restore.go).                      *)

\* Where an operation can be.
BackupPlaces == {"estimate", "create", "collect", "next", "copy", "drain"}
DealPlaces == {"read", "pass", "close", "await", "push"}
RestorePlaces == DealPlaces \cup {"open", "read0", "abort", "templates", "rollback"}
Lives == {"old", "none", "empty", "whole"}

\* Every variable has its type, and the operation is one of the two.
BkTyped ==
    /\ bk = [kind |-> bk.kind, at |-> bk.at, i |-> bk.i, failed |-> bk.failed, open |-> bk.open, on |-> bk.on]
    /\ bk.i \in Nat /\ bk.failed \in BOOLEAN /\ bk.open \subseteq Streams
    /\ bk = NoBk \/ (bk.kind = "backup" /\ bk.at \in BackupPlaces)
         \/ (bk.kind = "restore" /\ bk.at \in RestorePlaces)
    /\ archive = [entries |-> archive.entries, closed |-> archive.closed, version |-> archive.version, exists |-> archive.exists]
    /\ archive.entries \in Seq(Streams) /\ archive.closed \in BOOLEAN
         /\ (archive = OldArchive \/ archive.version = 1)
    /\ exporter = [at |-> exporter.at, of |-> exporter.of, n |-> exporter.n, failed |-> exporter.failed]
         /\ exporter.n \in 0 .. EntriesEach
    /\ importer \in [Streams -> [at : {"off", "begin", "read", "eof", "send"}, n : Nat, failed : BOOLEAN]]
    /\ volumes \in [TenantSet -> [live : Lives, snap : {"none", "whole"}]]

\* A goroutine runs only while its operation is where it waits for it.
Goroutines ==
    /\ bk.at \notin {"copy", "drain"} => exporter = NoExport
    /\ \A s \in Streams :
        /\ importer[s].at = "off" => importer[s] = NoImport
        /\ importer[s] # NoImport => \/ bk.at \in DealPlaces \cup {"abort"} /\ s \in bk.open
                                     \/ bk.at = "await" /\ s = bk.on
        /\ importer[s].at = "eof" => bk.at = "await" /\ s = bk.on

\* How many entries of a stream are among the first k.
CountTo(s, k) == Cardinality({j \in 1 .. k : archive.entries[j] = s})

\* What is in the file: the exports that have been copied as a whole, and of the one that is
\* being copied what its goroutine has written.
Copied ==
    /\ bk.at = "collect" => archive.entries = <<>>
    /\ bk.at \in {"collect", "next", "copy", "drain"} => ~archive.closed /\ archive.version = 1
    /\ bk.at \in {"copy", "drain"} => bk.i \in 1 .. Len(Exports) /\ exporter.of = Exports[bk.i]
    /\ exporter.at = "send" /\ ~exporter.failed => exporter.n = EntriesEach
    /\ bk.at \in {"next", "copy", "drain"} =>
         bk.i > 0 /\ \A j \in 1 .. Len(Exports) :
            Count(Exports[j]) = IF j < bk.i THEN EntriesEach ELSE IF j = bk.i THEN exporter.n ELSE 0

\* An importer has had all entries of its stream that have been read.
Dealt ==
    /\ bk.at \in {"read", "pass"} =>
        /\ bk.i > 0 /\ bk.i <= Len(archive.entries) + 1 /\ archive.version = 1 /\ ~bk.failed
        /\ \A j \in 1 .. bk.i - 1 : archive.entries[j] \in bk.open
        /\ \A s \in Streams : importer[s].at \in {"begin", "read"} => importer[s].n = CountTo(s, bk.i - 1)
    /\ bk.at = "pass" => bk.i <= Len(archive.entries) /\ archive.entries[bk.i] \in bk.open
    /\ bk.at \in {"close", "await", "push"} =>
        \A s \in Streams : importer[s].at \in {"begin", "read", "eof"} => importer[s].n = EntriesEach

\* What has been imported: a snapshot is whole when its importer has ended without an error, and
\* has been waited for unless something failed.
Restored ==
    /\ \A t \in TenantSet : importer[t].at = "send" /\ ~importer[t].failed => volumes[t].snap = "whole"
    /\ bk.at = "open" => ~bk.failed
    /\ bk.at = "push" => bk.on \in TenantSet
    /\ bk.at = "await" => bk.on \in Streams
    /\ bk.at \in {"await", "push"} => bk.on \notin bk.open
    /\ bk.at \in {"close", "await", "push"} /\ ~bk.failed =>
        \A t \in TenantSet : t \in bk.open \/ (bk.at = "await" /\ t = bk.on) \/ volumes[t].snap = "whole"
    /\ bk.at = "read0" => bk.i > 0 /\ archive = OldArchive /\ \A j \in 1 .. Len(Tenants) : j < bk.i
         => volumes[Tenants[j]].snap = "whole"
    /\ bk.at = "templates" => \A t \in TenantSet : volumes[t].snap = "whole"
    /\ bk.at = "rollback" =>
        bk.i > 0
          /\ \A j \in 1 .. Len(Tenants) : IF j < bk.i THEN volumes[Tenants[j]].live = "whole" ELSE volumes[Tenants[j]].snap = "whole"

\* A tar that was closed has every export.
ClosedIsWhole == archive.closed /\ archive.version = 1 => \A s \in Streams : Count(s) = EntriesEach

BkInv == BkTyped /\ Goroutines /\ Copied /\ Dealt /\ Restored /\ ClosedIsWhole

\* The exports of a backup: each tenant once, and the images.
LEMMA ExportsFacts ==
    /\ Exports \in Seq(Streams) /\ Len(Tenants) \in Nat /\ Len(Exports) = Len(Tenants) + 1
    /\ \A j \in 1 .. Len(Tenants) : Exports[j] = Tenants[j] /\ Tenants[j] \in TenantSet
    /\ Exports[Len(Tenants) + 1] = "images"
  <1>1. Tenants \in Seq(Streams) /\ "images" \in Streams
    BY BackupAssumption DEF Streams
  <1>2. QED
    BY <1>1, BackupAssumption DEF Exports

\* Each stream is exported once.
LEMMA ExportsApart ==
    /\ \A j, k \in 1 .. Len(Exports) : Exports[j] = Exports[k] => j = k
    /\ \A s \in Streams : \E j \in 1 .. Len(Exports) : Exports[j] = s
    /\ \A t \in TenantSet : \E j \in 1 .. Len(Tenants) : Tenants[j] = t
  <1>1. DOMAIN Tenants = 1 .. Len(Tenants)
    BY BackupAssumption
  <1>2. \A t \in TenantSet : \E j \in 1 .. Len(Tenants) : Tenants[j] = t
    BY <1>1 DEF TenantSet
  <1>3. \A j, k \in 1 .. Len(Tenants) : Tenants[j] = Tenants[k] => j = k
    BY <1>1, BackupAssumption
  <1>4. \A j \in 1 .. Len(Tenants) : Tenants[j] # "images"
    BY ExportsFacts, BackupAssumption
  <1>5. \A j, k \in 1 .. Len(Exports) : Exports[j] = Exports[k] => j = k
    BY <1>3, <1>4, ExportsFacts
  <1>6. \A s \in Streams : \E j \in 1 .. Len(Exports) : Exports[j] = s
    BY <1>2, ExportsFacts DEF Streams
  <1>7. QED
    BY <1>2, <1>5, <1>6

\* How many of the first entries of a sequence are s.
At(e, s, k) == {j \in 1 .. k : e[j] = s}

\* One entry more.
LEMMA AtNext ==
    ASSUME NEW e, NEW s, NEW k \in Nat
    PROVE  /\ IsFiniteSet(At(e, s, k)) /\ Cardinality(At(e, s, k)) \in Nat
           /\ Cardinality(At(e, s, k + 1)) = IF e[k + 1] = s THEN Cardinality(At(e, s, k)) + 1 ELSE Cardinality(At(e, s, k))
           /\ Cardinality(At(e, s, 0)) = 0
  <1>1. IsFiniteSet(1 .. k)
    BY FS_Interval
  <1>2. IsFiniteSet(At(e, s, k)) /\ Cardinality(At(e, s, k)) \in Nat
    BY <1>1, FS_Subset, FS_CardinalityType DEF At
  <1>3. At(e, s, k + 1) = IF e[k + 1] = s THEN At(e, s, k) \cup {k + 1} ELSE At(e, s, k)
    BY DEF At
  <1>4. k + 1 \notin At(e, s, k)
    BY DEF At
  <1>5. At(e, s, 0) = {}
    BY DEF At
  <1>6. Cardinality(At(e, s, k) \cup {k + 1}) = Cardinality(At(e, s, k)) + 1
    BY <1>2, <1>4, FS_AddElement
  <1>7. Cardinality(At(e, s, 0)) = 0
    BY <1>5, FS_EmptySet
  <1>8. QED
    BY <1>2, <1>3, <1>6, <1>7

\* The count of the whole archive.
LEMMA CountIsAt ==
    ASSUME archive.entries \in Seq(Streams), NEW s
    PROVE  Count(s) = Cardinality(At(archive.entries, s, Len(archive.entries)))
           /\ \A k : CountTo(s, k) = Cardinality(At(archive.entries, s, k))
  <1>1. DOMAIN archive.entries = 1 .. Len(archive.entries)
    OBVIOUS
  <1>2. QED
    BY <1>1 DEF Count, CountTo, At

\* The operation ends, or the master dies: nothing of it runs any more, and a tar is closed only when
\* every export is in it.
LEMMA OperationOver ==
    ASSUME BkInv, bk' = NoBk, exporter' = NoExport,
           importer' \in [Streams -> [at : {"off", "begin", "read", "eof", "send"}, n : Nat, failed : BOOLEAN]],
           \A s \in Streams : importer'[s] = NoImport,
           volumes' \in [TenantSet -> [live : Lives, snap : {"none", "whole"}]],
           \/ archive' = archive \/ archive' = NoFile
           \/ /\ archive' = [archive EXCEPT !.closed = TRUE]
              /\ \A s \in Streams : Count(s) = EntriesEach
    PROVE  BkInv'
  <1>1. BkTyped'
    <2>1. NoBk = [kind |-> NoBk.kind, at |-> NoBk.at, i |-> NoBk.i, failed |-> NoBk.failed, open |-> NoBk.open, on |-> NoBk.on]
      BY DEF NoBk
    <2>2. archive' = [entries |-> archive'.entries, closed |-> archive'.closed, version |-> archive'.version, exists |-> archive'.exists]
          /\ archive'.entries \in Seq(Streams) /\ archive'.closed \in BOOLEAN
               /\ (archive' = OldArchive \/ archive'.version = 1)
      <3>1. ASSUME archive' = NoFile
            PROVE archive'.entries \in Seq(Streams) /\ archive'.closed = FALSE /\ archive'.version = 1
            /\ archive' = [entries |-> archive'.entries, closed |-> archive'.closed, version |-> archive'.version, exists |-> archive'.exists]
        BY <3>1 DEF NoFile
      <3>2. ASSUME archive' = [archive EXCEPT !.closed = TRUE]
            PROVE  /\ archive'.entries = archive.entries /\ archive'.closed = TRUE
                        /\ archive'.version = archive.version
                   /\ archive' = [entries |-> archive'.entries, closed |-> archive'.closed, version |-> archive'.version, exists |-> archive'.exists]
                   /\ (archive.closed => archive' = archive)
        BY <3>2 DEF BkInv, BkTyped
      <3>3. OldArchive.closed
        BY DEF OldArchive
      <3>4. QED
        BY <3>1, <3>2, <3>3 DEF BkInv, BkTyped
    <2>3. exporter' = [at |-> exporter'.at, of |-> exporter'.of, n |-> exporter'.n, failed |-> exporter'.failed]
            /\ exporter'.n \in 0 .. EntriesEach
      BY BackupAssumption DEF NoExport
    <2>4. QED
      BY <2>1, <2>2, <2>3 DEF BkTyped, NoBk
  <1>2. Goroutines'
    BY DEF Goroutines, NoImport, NoBk
  <1>3. Copied'
    BY DEF Copied, NoBk, NoExport
  <1>4. Dealt' /\ Restored'
    BY DEF Dealt, Restored, NoBk, NoImport, Streams
  <1>5. ClosedIsWhole'
    <2>1. ASSUME archive' = NoFile PROVE ~archive'.closed
      BY <2>1 DEF NoFile
    <2>2. ASSUME archive' = [archive EXCEPT !.closed = TRUE] PROVE archive'.entries = archive.entries
      BY <2>2 DEF BkInv, BkTyped
    <2>3. archive'.entries = archive.entries => \A s : Count(s)' = Count(s)
      BY DEF Count
    <2>4. QED
      BY <2>1, <2>2, <2>3 DEF BkInv, ClosedIsWhole
  <1>6. QED
    BY <1>1, <1>2, <1>3, <1>4, <1>5 DEF BkInv

\* The fields of the records that the operation is made of.
BkRecord(r) == r = [kind |-> r.kind, at |-> r.at, i |-> r.i, failed |-> r.failed, open |-> r.open, on |-> r.on]
               /\ r.i \in Nat /\ r.failed \in BOOLEAN /\ r.open \subseteq Streams
FileRecord(r) == r = [entries |-> r.entries, closed |-> r.closed, version |-> r.version, exists |-> r.exists]
                 /\ r.entries \in Seq(Streams) /\ r.closed \in BOOLEAN /\ (r = OldArchive \/ r.version = 1)
ExporterRecord(r) == r = [at |-> r.at, of |-> r.of, n |-> r.n, failed |-> r.failed] /\ r.n \in 0 .. EntriesEach

\* The operation ends in its deferred functions.
LEMMA FinishOver ==
    ASSUME BkInv, NEW f, Finish(f), exporter' = NoExport,
           importer' \in [Streams -> [at : {"off", "begin", "read", "eof", "send"}, n : Nat, failed : BOOLEAN]],
           \A s \in Streams : importer'[s] = NoImport,
           volumes' \in [TenantSet -> [live : Lives, snap : {"none", "whole"}]]
    PROVE  BkInv'
  <1>1. bk' = NoBk /\ (archive' = archive \/ archive' = NoFile)
    BY DEF Finish
  <1>2. QED
    BY <1>1, OperationOver

\* What runs where, and the types.
LEMMA NothingRuns ==
    ASSUME BkInv
    PROVE  /\ bk.at \notin {"copy", "drain"} => exporter = NoExport
           /\ bk.at \notin DealPlaces \cup {"abort"} => \A s \in Streams : importer[s] = NoImport
           /\ importer \in [Streams -> [at : {"off", "begin", "read", "eof", "send"}, n : Nat, failed : BOOLEAN]]
           /\ volumes \in [TenantSet -> [live : Lives, snap : {"none", "whole"}]]
           /\ BkRecord(bk) /\ FileRecord(archive) /\ ExporterRecord(exporter)
           /\ bk = NoBk \/ (bk.kind = "backup" /\ bk.at \in BackupPlaces)
                \/ (bk.kind = "restore" /\ bk.at \in RestorePlaces)
  <1>1. bk.at \notin DealPlaces \cup {"abort"} => \A s \in Streams : importer[s] = NoImport
    BY DEF BkInv, Goroutines, DealPlaces
  <1>2. QED
    BY <1>1 DEF BkInv, BkTyped, Goroutines, BkRecord, FileRecord, ExporterRecord

\* A step of a backup: the importers rest, so that its own part of the invariant is enough.
LEMMA BackupGoes ==
    ASSUME BkInv, BkRecord(bk'), bk'.kind = "backup", bk'.at \in BackupPlaces,
           bk.at \in BackupPlaces \/ bk = NoBk,
           UNCHANGED <<importer, volumes>>, ExporterRecord(exporter'), FileRecord(archive'),
           archive' = archive \/ ~archive'.closed,
           bk'.at \notin {"copy", "drain"} => exporter' = NoExport, Copied'
    PROVE  BkInv'
  <1>1. \A s \in Streams : importer[s] = NoImport
    BY NothingRuns DEF BackupPlaces, DealPlaces, NoBk
  <1>2. BkTyped'
    BY DEF BkInv, BkTyped, BkRecord, ExporterRecord, FileRecord
  <1>3. Goroutines'
    BY <1>1 DEF Goroutines, NoImport
  <1>4. Dealt' /\ Restored'
    BY <1>1 DEF Dealt, Restored, NoImport, Streams, BackupPlaces
  <1>5. ClosedIsWhole'
    BY DEF BkInv, ClosedIsWhole, Count
  <1>6. QED
    BY <1>2, <1>3, <1>4, <1>5 DEF BkInv

\* A step of a restore: the exporter rests.
LEMMA RestoreGoes ==
    ASSUME BkInv, BkRecord(bk'), bk'.kind = "restore", bk'.at \in RestorePlaces,
           bk.at \in RestorePlaces \/ bk = NoBk,
           UNCHANGED <<archive, exporter>>,
           importer' \in [Streams -> [at : {"off", "begin", "read", "eof", "send"}, n : Nat, failed : BOOLEAN]],
           volumes' \in [TenantSet -> [live : Lives, snap : {"none", "whole"}]],
           \A s \in Streams :
              /\ importer'[s].at = "off" => importer'[s] = NoImport
              /\ importer'[s] # NoImport => \/ bk'.at \in DealPlaces \cup {"abort"} /\ s \in bk'.open
                                            \/ bk'.at = "await" /\ s = bk'.on
              /\ importer'[s].at = "eof" => bk'.at = "await" /\ s = bk'.on,
           Dealt', Restored'
    PROVE  BkInv'
  <1>1. exporter = NoExport
    BY NothingRuns DEF RestorePlaces, DealPlaces, NoBk
  <1>2. BkTyped'
    BY DEF BkInv, BkTyped, BkRecord
  <1>3. Goroutines'
    BY <1>1 DEF Goroutines
  <1>4. Copied'
    BY <1>1 DEF Copied, NoExport, RestorePlaces, DealPlaces
  <1>5. ClosedIsWhole'
    BY DEF BkInv, ClosedIsWhole, Count
  <1>6. QED
    BY <1>2, <1>3, <1>4, <1>5 DEF BkInv

\* The requests and the status touch nothing of this.
LEMMA BkStays ==
    ASSUME BkInv, UNCHANGED <<bk, archive, exporter, importer, volumes>>
    PROVE  BkInv'
  <1>1. BkTyped' /\ Goroutines'
    BY DEF BkInv, BkTyped, Goroutines
  <1>2. Copied'
    BY DEF BkInv, Copied, Count
  <1>3. Dealt'
    BY DEF BkInv, Dealt, CountTo
  <1>4. Restored' /\ ClosedIsWhole'
    BY DEF BkInv, Restored, ClosedIsWhole, Count
  <1>5. QED
    BY <1>1, <1>2, <1>3, <1>4 DEF BkInv

\* An operation takes the lock.
LEMMA LockForKeeps ==
    ASSUME BkInv, NEW kind \in {"backup", "restore"}, LockFor(kind)
    PROVE  BkInv'
  <1>1. bk = NoBk /\ bk' = [NoBk EXCEPT !.kind = kind, !.at = IF kind = "backup" THEN "estimate" ELSE "open"]
        /\ UNCHANGED <<archive, exporter, importer, volumes>>
    BY DEF LockFor
  <1>2. BkRecord(bk') /\ bk'.kind = kind /\ ~bk'.failed
          /\ bk'.at = IF kind = "backup" THEN "estimate" ELSE "open"
    BY <1>1 DEF BkRecord, NoBk
  <1>3. exporter = NoExport /\ \A s \in Streams : importer[s] = NoImport
    BY <1>1, NothingRuns DEF NoBk, DealPlaces
  <1>4. ASSUME kind = "backup" PROVE BkInv'
    <2>1. Copied'
      BY <1>1, <1>2, <1>3, <1>4 DEF Copied, NoExport
    <2>2. QED
      BY <1>1, <1>2, <1>3, <1>4, <2>1, BackupGoes, NothingRuns DEF BackupPlaces
  <1>5. ASSUME kind = "restore" PROVE BkInv'
    <2>1. Dealt' /\ Restored'
      BY <1>1, <1>2, <1>3, <1>5 DEF Dealt, Restored, NoImport, Streams
    <2>2. bk'.at \in RestorePlaces
      BY <1>2, <1>5 DEF RestorePlaces
    <2>3. \A s \in Streams : importer'[s] = NoImport /\ NoImport.at = "off"
      BY <1>1, <1>3 DEF NoImport
    <2>4. QED
      BY <1>1, <1>2, <1>5, <2>1, <2>2, <2>3, RestoreGoes, NothingRuns
  <1>6. QED
    BY <1>4, <1>5

\* The steps of a backup.
LEMMA EstimateKeeps ==
    ASSUME BkInv, Estimate
    PROVE  BkInv'
  <1>1. bk.at \in BackupPlaces /\ bk.kind = "backup" /\ exporter = NoExport
          /\ \A s \in Streams : importer[s] = NoImport
    BY NothingRuns DEF Estimate, BackupPlaces, DealPlaces, RestorePlaces, NoBk
  <1>2. UNCHANGED <<archive, exporter, importer, volumes>>
    BY DEF Estimate
  <1>3. ASSUME bk' = NoBk PROVE BkInv'
    BY <1>1, <1>2, <1>3, OperationOver, NothingRuns
  <1>4. ASSUME BkAt("create") PROVE BkInv'
    <2>1. BkRecord(bk') /\ bk'.kind = "backup" /\ bk'.at = "create"
      BY <1>1, <1>4, NothingRuns DEF BkAt, BkRecord
    <2>2. Copied'
      BY <1>1, <1>2, <2>1 DEF Copied, NoExport
    <2>3. QED
      BY <1>1, <1>2, <2>1, <2>2, BackupGoes, NothingRuns DEF BackupPlaces
  <1>5. QED
    BY <1>3, <1>4 DEF Estimate

\* The file is new and empty.
LEMMA CreateFileKeeps ==
    ASSUME BkInv, CreateFile
    PROVE  BkInv'
  <1>1. bk.at \in BackupPlaces /\ bk.kind = "backup" /\ exporter = NoExport
    BY NothingRuns DEF CreateFile, BackupPlaces, DealPlaces, RestorePlaces, NoBk
  <1>2. UNCHANGED <<exporter, importer, volumes>>
    BY DEF CreateFile
  <1>3. BkRecord(bk') /\ bk'.kind = "backup" /\ bk'.at = "collect"
    BY <1>1, NothingRuns DEF CreateFile, BkAt, BkRecord
  <1>4. FileRecord(archive') /\ archive'.entries = <<>> /\ archive'.closed = FALSE /\ archive'.version = 1
    <2>1. archive' = [entries |-> <<>>, closed |-> FALSE, version |-> 1, exists |-> TRUE]
      BY DEF CreateFile, NoFile
    <2>2. QED
      BY <2>1 DEF FileRecord
  <1>5. Copied'
    BY <1>1, <1>2, <1>3, <1>4 DEF Copied, NoExport
  <1>6. QED
    BY <1>1, <1>2, <1>3, <1>4, <1>5, BackupGoes, NothingRuns DEF BackupPlaces

\* The first export is next.
LEMMA CollectKeeps ==
    ASSUME BkInv, Collect
    PROVE  BkInv'
  <1>1. bk.at = "collect" /\ bk.at \in BackupPlaces /\ bk.kind = "backup" /\ exporter = NoExport
          /\ \A s \in Streams : importer[s] = NoImport
    BY NothingRuns DEF Collect, BackupPlaces, DealPlaces, RestorePlaces, NoBk
  <1>2. UNCHANGED <<exporter, importer, volumes>>
    BY DEF Collect
  <1>3. ASSUME Finish(TRUE) PROVE BkInv'
    BY <1>1, <1>2, <1>3, FinishOver, NothingRuns
  <1>4. ASSUME bk' = [bk EXCEPT !.at = "next", !.i = 1], UNCHANGED archive PROVE BkInv'
    <2>1. BkRecord(bk') /\ bk'.kind = "backup" /\ bk'.at = "next" /\ bk'.i = 1
      BY <1>1, <1>4, NothingRuns DEF BkRecord
    <2>2. archive'.entries = <<>> /\ ~archive'.closed /\ archive'.version = 1
      BY <1>1, <1>4 DEF BkInv, Copied
    <2>3. \A s : Count(s)' = 0
      <3>1. DOMAIN <<>> = {}
        OBVIOUS
      <3>2. \A s : {j \in DOMAIN archive'.entries : archive'.entries[j] = s} = {}
        BY <2>2, <3>1
      <3>3. QED
        BY <3>2, FS_EmptySet DEF Count
    <2>4. exporter'.n = 0 /\ exporter'.at = "off"
      BY <1>1, <1>2 DEF NoExport
    <2>5. Copied'
      BY <1>1, <1>2, <2>1, <2>2, <2>3, <2>4, ExportsFacts DEF Copied
    <2>6. QED
      BY <1>1, <1>2, <1>4, <2>1, <2>5, BackupGoes, NothingRuns DEF BackupPlaces
  <1>5. QED
    BY <1>3, <1>4 DEF Collect

\* The next export, or the end of the archive.
LEMMA NextExportKeeps ==
    ASSUME BkInv, NextExport
    PROVE  BkInv'
  <1>1. bk.at = "next" /\ bk.at \in BackupPlaces /\ bk.kind = "backup" /\ exporter = NoExport
          /\ \A s \in Streams : importer[s] = NoImport
    BY NothingRuns DEF NextExport, BackupPlaces, DealPlaces, RestorePlaces, NoBk
  <1>2. UNCHANGED <<importer, volumes>>
    BY DEF NextExport
  <1>3. bk.i > 0 /\ bk.i \in Nat /\ \A j \in 1 .. Len(Exports) :
            Count(Exports[j]) = IF j < bk.i THEN EntriesEach ELSE IF j = bk.i THEN 0 ELSE 0
    BY <1>1 DEF BkInv, BkTyped, Copied, NoExport
  <1>4. ASSUME bk.i > Len(Exports), bk' = NoBk, archive' = [archive EXCEPT !.closed = TRUE], UNCHANGED exporter
        PROVE BkInv'
    <2>1. \A j \in 1 .. Len(Exports) : j < bk.i
      BY <1>3, <1>4, ExportsFacts
    <2>2. \A j \in 1 .. Len(Exports) : Count(Exports[j]) = EntriesEach
      BY <1>3, <2>1
    <2>3. \A s \in Streams : Count(s) = EntriesEach
      BY <2>2, ExportsApart
    <2>4. QED
      BY <1>1, <1>2, <1>4, <2>3, OperationOver, NothingRuns
  <1>5. ASSUME bk.i <= Len(Exports), BkAt("copy"), UNCHANGED archive,
               exporter' = [at |-> "write", of |-> Exports[bk.i], n |-> 0, failed |-> FALSE]
        PROVE BkInv'
    <2>1. BkRecord(bk') /\ bk'.kind = "backup" /\ bk'.at = "copy" /\ bk'.i = bk.i
      BY <1>1, <1>5, NothingRuns DEF BkRecord, BkAt
    <2>2. ~archive'.closed /\ archive'.version = 1
      BY <1>1, <1>5 DEF BkInv, Copied
    <2>3. \A s : Count(s)' = Count(s)
      BY <1>5 DEF Count
    <2>4. ExporterRecord(exporter') /\ exporter'.n = 0 /\ exporter'.at = "write" /\ exporter'.of = Exports[bk.i]
      BY <1>5, BackupAssumption DEF ExporterRecord
    <2>5. bk.i \in 1 .. Len(Exports)
      BY <1>3, <1>5, ExportsFacts
    <2>6. Copied'
      BY <1>3, <2>1, <2>2, <2>3, <2>4, <2>5 DEF Copied
    <2>7. QED
      BY <1>1, <1>2, <1>5, <2>1, <2>4, <2>6, BackupGoes, NothingRuns DEF BackupPlaces
  <1>6. ASSUME Finish(TRUE), UNCHANGED exporter PROVE BkInv'
    BY <1>1, <1>2, <1>6, FinishOver, NothingRuns
  <1>7. QED
    BY <1>4, <1>5, <1>6 DEF NextExport

\* One entry of the export that is being copied.
LEMMA CopyEntryKeeps ==
    ASSUME BkInv, CopyEntry
    PROVE  BkInv'
  <1>1. bk.at = "copy" /\ bk.at \in BackupPlaces /\ bk.kind = "backup" /\ bk' = bk
          /\ UNCHANGED <<importer, volumes>>
        /\ exporter.at = "write" /\ exporter.n < EntriesEach
    BY NothingRuns DEF CopyEntry, BackupPlaces, DealPlaces, RestorePlaces, NoBk
  <1>2. ExporterRecord(exporter') /\ exporter'.n = exporter.n + 1 /\ exporter'.at = exporter.at
          /\ exporter'.of = exporter.of
    BY <1>1, NothingRuns, BackupAssumption DEF CopyEntry, ExporterRecord
  <1>3. bk.i \in 1 .. Len(Exports) /\ exporter.of = Exports[bk.i] /\ ~archive.closed /\ archive.version = 1
        /\ \A j \in 1 .. Len(Exports) :
            Count(Exports[j]) = IF j < bk.i THEN EntriesEach ELSE IF j = bk.i THEN exporter.n ELSE 0
    BY <1>1 DEF BkInv, Copied
  <1>4. exporter.of \in Streams
    BY <1>3, ExportsFacts
  <1>5. FileRecord(archive') /\ archive'.entries = Append(archive.entries, exporter.of)
          /\ archive'.closed = archive.closed /\ archive'.version = archive.version
    <2>1. archive.entries \in Seq(Streams)
      BY NothingRuns DEF FileRecord
    <2>2. Append(archive.entries, exporter.of) \in Seq(Streams)
      BY <1>4, <2>1
    <2>3. archive' = [archive EXCEPT !.entries = Append(archive.entries, exporter.of)]
      BY DEF CopyEntry
    <2>4. QED
      BY <1>3, <2>2, <2>3, NothingRuns DEF FileRecord
  <1>6. \A s : Count(s)' = IF s = exporter.of THEN Count(s) + 1 ELSE Count(s)
    <2>1. archive.entries \in Seq(Streams) /\ archive'.entries \in Seq(Streams)
      BY <1>5, NothingRuns DEF FileRecord
    <2>2. PICK k \in Nat : Len(archive.entries) = k
      BY <2>1, LenProperties
    <2>3. Len(archive'.entries) = k + 1 /\ archive'.entries[k + 1] = exporter.of
            /\ \A j \in 1 .. k : archive'.entries[j] = archive.entries[j]
      BY <1>4, <1>5, <2>1, <2>2
    <2>4. \A s : At(archive'.entries, s, k) = At(archive.entries, s, k)
      BY <2>3 DEF At
    <2>5. \A s : Count(s) = Cardinality(At(archive.entries, s, k))
      BY <2>1, <2>2, CountIsAt
    <2>6. \A s : Count(s)' = Cardinality(At(archive'.entries, s, k + 1))
      <3>1. DOMAIN archive'.entries = 1 .. k + 1
        BY <2>1, <2>3
      <3>2. QED
        BY <3>1 DEF Count, At
    <2>7. \A s : Cardinality(At(archive'.entries, s, k + 1)) =
                    IF archive'.entries[k + 1] = s THEN Cardinality(At(archive'.entries, s, k)) + 1 ELSE Cardinality(At(archive'.entries, s, k))
      BY AtNext
    <2>8. QED
      BY <2>3, <2>4, <2>5, <2>6, <2>7
  <1>7. \A j \in 1 .. Len(Exports) : Exports[j] = exporter.of <=> j = bk.i
    BY <1>3, ExportsApart
  <1>8. Copied'
    BY <1>1, <1>2, <1>3, <1>5, <1>6, <1>7, NothingRuns DEF Copied, ExporterRecord, BkRecord
  <1>9. QED
    BY <1>1, <1>2, <1>3, <1>5, <1>8, BackupGoes, NothingRuns DEF BackupPlaces

\* While an export is copied, its goroutine may end.
LEMMA CopyStays ==
    ASSUME BkInv, bk.at \in {"copy", "drain"}, BkRecord(bk'), bk'.kind = "backup", bk'.at \in {"copy", "drain"},
           bk'.i = bk.i,
           UNCHANGED <<archive, importer, volumes>>, ExporterRecord(exporter'), exporter'.of = exporter.of,
           exporter'.n = exporter.n,
           exporter'.at = "send" /\ ~exporter'.failed => exporter'.n = EntriesEach
    PROVE  BkInv'
  <1>1. \A s : Count(s)' = Count(s)
    BY DEF Count
  <1>2. Copied'
    BY <1>1 DEF BkInv, Copied
  <1>3. QED
    BY <1>2, BackupGoes, NothingRuns DEF BackupPlaces

\* The goroutine of the export ends: without an error only when all is written.
LEMMA ExportEndsKeeps ==
    ASSUME BkInv, ExportEnds
    PROVE  BkInv'
  <1>1. exporter.at = "write" /\ UNCHANGED <<bk, archive, importer, volumes>>
    BY DEF ExportEnds
  <1>2. bk.at \in {"copy", "drain"}
    BY <1>1, NothingRuns DEF NoExport
  <1>3. bk.kind = "backup"
    BY <1>2, NothingRuns DEF RestorePlaces, DealPlaces, NoBk
  <1>4. ASSUME exporter.n = EntriesEach, exporter' = [exporter EXCEPT !.at = "send"] PROVE BkInv'
    <2>1. ExporterRecord(exporter') /\ exporter'.of = exporter.of /\ exporter'.n = exporter.n
      BY <1>4, NothingRuns DEF ExporterRecord
    <2>2. QED
      BY <1>1, <1>2, <1>3, <1>4, <2>1, CopyStays, NothingRuns
  <1>5. ASSUME exporter' = [exporter EXCEPT !.at = "send", !.failed = TRUE] PROVE BkInv'
    <2>1. ExporterRecord(exporter') /\ exporter'.of = exporter.of /\ exporter'.n = exporter.n
            /\ exporter'.failed = TRUE
      BY <1>5, NothingRuns DEF ExporterRecord
    <2>2. QED
      BY <1>1, <1>2, <1>3, <1>5, <2>1, CopyStays, NothingRuns
  <1>6. QED
    BY <1>4, <1>5 DEF ExportEnds

\* The archive cannot be written.
LEMMA CopyFailsKeeps ==
    ASSUME BkInv, CopyFails
    PROVE  BkInv'
  <1>1. bk.at = "copy" /\ UNCHANGED <<archive, importer, volumes>> /\ bk.kind = "backup"
    BY NothingRuns DEF CopyFails, RestorePlaces, DealPlaces, NoBk
  <1>2. ExporterRecord(exporter') /\ exporter'.of = exporter.of /\ exporter'.n = exporter.n
          /\ exporter'.failed = TRUE
    BY NothingRuns DEF CopyFails, ExporterRecord
  <1>3. BkRecord(bk') /\ bk'.kind = "backup" /\ bk'.at = "drain" /\ bk'.i = bk.i
    BY <1>1, NothingRuns DEF CopyFails, BkRecord
  <1>4. QED
    BY <1>1, <1>2, <1>3, CopyStays

\* The end of the export has been seen.
LEMMA CopyEndsKeeps ==
    ASSUME BkInv, CopyEnds
    PROVE  BkInv'
  <1>1. bk.at = "copy" /\ UNCHANGED <<archive, exporter, importer, volumes>> /\ bk.kind = "backup"
    BY NothingRuns DEF CopyEnds, RestorePlaces, DealPlaces, NoBk
  <1>2. BkRecord(bk') /\ bk'.kind = "backup" /\ bk'.at = "drain" /\ bk'.i = bk.i
    BY <1>1, NothingRuns DEF CopyEnds, BkRecord, BkAt
  <1>3. exporter.at = "send" /\ ~exporter.failed => exporter.n = EntriesEach
    BY DEF BkInv, Copied
  <1>4. QED
    BY <1>1, <1>2, <1>3, CopyStays, NothingRuns

\* The error of the goroutine decides.
LEMMA TakeExportErrorKeeps ==
    ASSUME BkInv, TakeExportError
    PROVE  BkInv'
  <1>1. bk.at = "drain" /\ exporter.at = "send" /\ exporter' = NoExport /\ UNCHANGED <<importer, volumes>>
    BY DEF TakeExportError
  <1>2. bk.kind = "backup" /\ \A s \in Streams : importer[s] = NoImport
    BY <1>1, NothingRuns DEF RestorePlaces, DealPlaces, NoBk
  <1>3. ASSUME Finish(TRUE) PROVE BkInv'
    BY <1>1, <1>2, <1>3, FinishOver, NothingRuns
  <1>4. ASSUME ~exporter.failed, bk' = [bk EXCEPT !.at = "next", !.i = bk.i + 1], UNCHANGED archive
        PROVE BkInv'
    <2>1. BkRecord(bk') /\ bk'.kind = "backup" /\ bk'.at = "next" /\ bk'.i = bk.i + 1
      <3>1. BkRecord(bk)
        BY NothingRuns
      <3>2. bk' = [kind |-> bk.kind, at |-> "next", i |-> bk.i + 1, failed |-> bk.failed, open |-> bk.open, on |-> bk.on]
        BY <1>4, <3>1 DEF BkRecord
      <3>3. QED
        BY <1>2, <3>1, <3>2 DEF BkRecord
    <2>2. exporter.n = EntriesEach /\ ~archive.closed /\ archive.version = 1 /\ bk.i > 0
          /\ \A j \in 1 .. Len(Exports) :
                Count(Exports[j]) = IF j < bk.i THEN EntriesEach ELSE IF j = bk.i THEN EntriesEach ELSE 0
      BY <1>1, <1>4 DEF BkInv, Copied
    <2>3. \A s : Count(s)' = Count(s)
      BY <1>4 DEF Count
    <2>4. exporter'.n = 0 /\ exporter'.at = "off" /\ ExporterRecord(exporter')
      BY <1>1, BackupAssumption DEF NoExport, ExporterRecord
    <2>5. bk.i \in Nat /\ Len(Exports) \in Nat
      BY NothingRuns, ExportsFacts DEF BkRecord
    <2>6. Copied'
      BY <1>4, <2>1, <2>2, <2>3, <2>4, <2>5 DEF Copied
    <2>7. QED
      BY <1>1, <1>2, <1>4, <2>1, <2>4, <2>6, BackupGoes, NothingRuns DEF BackupPlaces
  <1>5. QED
    BY <1>3, <1>4 DEF TakeExportError

\* The types of what a step of an importer changes.
ImportRecords == [at : {"off", "begin", "read", "eof", "send"}, n : Nat, failed : BOOLEAN]
VolumeRecords == [live : Lives, snap : {"none", "whole"}]

\* What the helpers make of a volume.
LEMMA VolumeRecordFacts ==
    ASSUME NEW v \in VolumeRecords
    PROVE  /\ CreateVolume(v) \in VolumeRecords /\ CreateVolume(v).snap = v.snap
           /\ RemoveNew(v) \in VolumeRecords /\ RemoveNew(v).snap = v.snap
           /\ [live |-> CreateVolume(v).live, snap |-> "whole"] \in VolumeRecords
           /\ [live |-> v.snap, snap |-> "none"] \in VolumeRecords
           /\ [v EXCEPT !.snap = "none"] \in VolumeRecords
           /\ [v EXCEPT !.snap = "whole"] \in VolumeRecords
  <1>1. [v EXCEPT !.live = "empty"] \in VolumeRecords /\ [v EXCEPT !.live = "empty"].snap = v.snap
    BY DEF VolumeRecords, Lives
  <1>2. [v EXCEPT !.live = "none"] \in VolumeRecords /\ [v EXCEPT !.live = "none"].snap = v.snap
    BY DEF VolumeRecords, Lives
  <1>3. CreateVolume(v) \in VolumeRecords /\ CreateVolume(v).snap = v.snap
    BY <1>1 DEF CreateVolume
  <1>4. RemoveNew(v) \in VolumeRecords /\ RemoveNew(v).snap = v.snap
    BY <1>2 DEF RemoveNew
  <1>5. v.snap \in Lives /\ CreateVolume(v).live \in Lives
    BY <1>3 DEF VolumeRecords, Lives
  <1>6. QED
    BY <1>3, <1>4, <1>5 DEF VolumeRecords

\* One volume changes.
LEMMA OneVolume ==
    ASSUME volumes \in [TenantSet -> VolumeRecords], NEW t \in TenantSet, NEW v \in VolumeRecords,
           volumes' = [volumes EXCEPT ![t] = v]
    PROVE  /\ volumes' \in [TenantSet -> VolumeRecords]
           /\ volumes'[t] = v /\ \A q \in TenantSet \ {t} : volumes'[q] = volumes[q]
  OBVIOUS

\* One importer changes.
LEMMA OneImporter ==
    ASSUME importer \in [Streams -> ImportRecords], NEW s \in Streams, NEW v \in ImportRecords,
           importer' = [importer EXCEPT ![s] = v]
    PROVE  /\ importer' \in [Streams -> ImportRecords]
           /\ importer'[s] = v /\ \A q \in Streams \ {s} : importer'[q] = importer[q]
  OBVIOUS

\* An importer moves on.
LEMMA ImporterAt ==
    ASSUME NEW v \in ImportRecords, NEW a \in {"read", "send", "eof"}
    PROVE  /\ [v EXCEPT !.at = a] \in ImportRecords /\ [v EXCEPT !.at = a].at = a
           /\ [v EXCEPT !.at = a].n = v.n /\ [v EXCEPT !.at = a].failed = v.failed
  BY DEF ImportRecords

\* What the steps make of an importer.
LEMMA ImportRecordFacts ==
    /\ NoImport \in ImportRecords /\ NoImport.at = "off"
    /\ [NoImport EXCEPT !.at = "begin"] \in ImportRecords /\ [NoImport EXCEPT !.at = "begin"].at = "begin"
         /\ [NoImport EXCEPT !.at = "begin"].n = 0
    /\ \A v \in ImportRecords :
        /\ [v EXCEPT !.at = "send", !.failed = TRUE] \in ImportRecords
        /\ [v EXCEPT !.at = "send", !.failed = TRUE].at = "send"
        /\ [v EXCEPT !.at = "send", !.failed = TRUE].failed
        /\ \A a \in {"read", "send", "eof"} : /\ [v EXCEPT !.at = a] \in ImportRecords
                                              /\ [v EXCEPT !.at = a].at = a
                                              /\ [v EXCEPT !.at = a].n = v.n
                                              /\ [v EXCEPT !.at = a].failed = v.failed
        /\ [v EXCEPT !.n = v.n + 1] \in ImportRecords
        /\ [v EXCEPT !.n = v.n + 1].at = v.at /\ [v EXCEPT !.n = v.n + 1].n = v.n + 1
        /\ [v EXCEPT !.n = v.n + 1].failed = v.failed
  <1>1. NoImport \in ImportRecords /\ NoImport.at = "off"
    BY DEF NoImport, ImportRecords
  <1>2. [NoImport EXCEPT !.at = "begin"] \in ImportRecords /\ [NoImport EXCEPT !.at = "begin"].at = "begin"
          /\ [NoImport EXCEPT !.at = "begin"].n = 0
    BY DEF NoImport, ImportRecords
  <1>3. ASSUME NEW v \in ImportRecords
        PROVE  /\ [v EXCEPT !.at = "send", !.failed = TRUE] \in ImportRecords
               /\ [v EXCEPT !.at = "send", !.failed = TRUE].at = "send"
               /\ [v EXCEPT !.at = "send", !.failed = TRUE].failed
               /\ \A a \in {"read", "send", "eof"} : /\ [v EXCEPT !.at = a] \in ImportRecords
                                                     /\ [v EXCEPT !.at = a].at = a
                                                     /\ [v EXCEPT !.at = a].n = v.n
                                                     /\ [v EXCEPT !.at = a].failed = v.failed
               /\ [v EXCEPT !.n = v.n + 1] \in ImportRecords
               /\ [v EXCEPT !.n = v.n + 1].at = v.at /\ [v EXCEPT !.n = v.n + 1].n = v.n + 1
               /\ [v EXCEPT !.n = v.n + 1].failed = v.failed
    <2>1. /\ [v EXCEPT !.at = "send", !.failed = TRUE] \in ImportRecords
          /\ [v EXCEPT !.at = "send", !.failed = TRUE].at = "send"
          /\ [v EXCEPT !.at = "send", !.failed = TRUE].failed
      BY DEF ImportRecords
    <2>2. ASSUME NEW a \in {"read", "send", "eof"}
          PROVE  /\ [v EXCEPT !.at = a] \in ImportRecords /\ [v EXCEPT !.at = a].at = a
                 /\ [v EXCEPT !.at = a].n = v.n /\ [v EXCEPT !.at = a].failed = v.failed
      BY DEF ImportRecords
    <2>3. /\ [v EXCEPT !.n = v.n + 1] \in ImportRecords
          /\ [v EXCEPT !.n = v.n + 1].at = v.at /\ [v EXCEPT !.n = v.n + 1].n = v.n + 1
          /\ [v EXCEPT !.n = v.n + 1].failed = v.failed
      BY DEF ImportRecords
    <2>4. QED
      BY ONLY <2>1, <2>2, <2>3, Zenon
  <1>4. QED
    BY ONLY <1>1, <1>2, <1>3, Zenon

\* The types that a restore needs.
LEMMA RestoreTyped ==
    ASSUME BkInv
    PROVE  /\ importer \in [Streams -> ImportRecords] /\ volumes \in [TenantSet -> VolumeRecords]
           /\ BkRecord(bk)
           /\ TenantSet \subseteq Streams /\ "images" \in Streams /\ "images" \notin TenantSet
           /\ \A s \in Streams : s # "images" => s \in TenantSet
  BY BackupAssumption DEF BkInv, BkTyped, BkRecord, ImportRecords, VolumeRecords, Streams

\* Only a restore is in these places.
LEMMA RestoreHolds ==
    ASSUME BkInv, bk.at \in RestorePlaces
    PROVE  bk.kind = "restore" /\ exporter = NoExport
  BY NothingRuns DEF RestorePlaces, DealPlaces, BackupPlaces, NoBk

\* An importer runs only while its restore deals out or gives up.
LEMMA ImporterRuns ==
    ASSUME BkInv, NEW s \in Streams, importer[s].at # "off"
    PROVE  /\ bk.at \in RestorePlaces /\ bk.at \in DealPlaces \cup {"abort"}
           /\ s \in bk.open \/ (bk.at = "await" /\ s = bk.on)
  <1>1. importer[s] # NoImport
    BY ImportRecordFacts
  <1>2. QED
    BY <1>1 DEF BkInv, Goroutines, RestorePlaces, DealPlaces

\* A step of a restore while no importer runs.
LEMMA RestoreQuiet ==
    ASSUME BkInv, bk.at \in RestorePlaces, BkRecord(bk'), bk'.kind = "restore",
           bk'.at \in {"read", "read0", "templates", "rollback"},
           UNCHANGED <<archive, exporter, importer>>, \A s \in Streams : importer[s] = NoImport,
           volumes' \in [TenantSet -> VolumeRecords],
           bk'.at = "read" => bk'.i = 1 /\ archive.version = 1 /\ ~bk'.failed,
           bk'.at = "read0" => bk'.i > 0 /\ archive = OldArchive /\ \A j \in 1 .. Len(Tenants) : j < bk'.i
             => volumes'[Tenants[j]].snap = "whole",
           bk'.at = "templates" => \A t \in TenantSet : volumes'[t].snap = "whole",
           bk'.at = "rollback" =>
             bk'.i > 0
               /\ \A j \in 1 .. Len(Tenants) : IF j < bk'.i THEN volumes'[Tenants[j]].live = "whole" ELSE volumes'[Tenants[j]].snap = "whole"
    PROVE  BkInv'
  <1>1. \A s \in Streams : importer'[s] = NoImport /\ importer'[s].at = "off"
    BY ImportRecordFacts
  <1>2. Dealt'
    <2>1. Len(archive.entries) \in Nat
      BY NothingRuns DEF FileRecord
    <2>2. bk'.at = "read" => bk'.i > 0 /\ bk'.i <= Len(archive.entries) + 1 /\ 1 .. bk'.i - 1 = {}
      BY <2>1
    <2>3. QED
      BY <1>1, <2>2 DEF Dealt
  <1>3. Restored'
    BY <1>1, RestoreTyped DEF Restored
  <1>4. bk'.at \in RestorePlaces
    BY DEF RestorePlaces, DealPlaces
  <1>5. importer' \in [Streams -> [at : {"off", "begin", "read", "eof", "send"}, n : Nat, failed : BOOLEAN]]
    BY NothingRuns
  <1>6. volumes' \in [TenantSet -> [live : Lives, snap : {"none", "whole"}]]
    BY DEF VolumeRecords
  <1>7. QED
    BY <1>1, <1>2, <1>3, <1>4, <1>5, <1>6, RestoreGoes

\* The steps of a restore without importers.
LEMMA OpenArchiveKeeps ==
    ASSUME BkInv, OpenArchive
    PROVE  BkInv'
  <1>1. bk.at = "open" /\ UNCHANGED <<exporter, importer, volumes>> /\ bk.at \in RestorePlaces
    BY DEF OpenArchive, RestorePlaces
  <1>2. \A s \in Streams : importer[s] = NoImport
    BY <1>1, NothingRuns DEF DealPlaces
  <1>3. ASSUME Finish(TRUE) PROVE BkInv'
    BY <1>1, <1>2, <1>3, FinishOver, NothingRuns, RestoreHolds
  <1>4. ASSUME bk' = [bk EXCEPT !.at = IF archive.version = 0 THEN "read0" ELSE "read", !.i = 1],
               UNCHANGED archive
        PROVE  BkInv'
    <2>1. BkRecord(bk') /\ bk'.kind = "restore" /\ bk'.at = (IF archive.version = 0 THEN "read0" ELSE "read")
            /\ bk'.i = 1
          /\ bk'.failed = bk.failed
      BY <1>1, <1>4, RestoreHolds, RestoreTyped DEF BkRecord
    <2>2. ~bk'.failed
      BY <1>1, <2>1 DEF BkInv, Restored
    <2>3. FileRecord(archive) /\ Len(archive.entries) \in Nat
      BY NothingRuns DEF FileRecord
    <2>4. archive.version = 0 \/ archive.version = 1
      BY <2>3 DEF FileRecord, OldArchive
    <2>5. archive.version = 0 => archive = OldArchive
      BY <2>3 DEF FileRecord
    <2>6. \A j \in 1 .. Len(Tenants) : ~(j < 1)
      BY ExportsFacts
    <2>7. QED
      BY <1>1, <1>2, <1>4, <2>1, <2>2, <2>4, <2>5, <2>6, RestoreQuiet, RestoreTyped
  <1>5. QED
    BY <1>3, <1>4 DEF OpenArchive

\* An entry of an old archive is imported in place.
LEMMA RestoreV0EntryKeeps ==
    ASSUME BkInv, RestoreV0Entry
    PROVE  BkInv'
  <1>1. bk.at = "read0" /\ UNCHANGED <<exporter, importer>> /\ bk.at \in RestorePlaces
    BY DEF RestoreV0Entry, RestorePlaces
  <1>2. \A s \in Streams : importer[s] = NoImport
    BY <1>1, NothingRuns DEF DealPlaces
  <1>3. bk.i > 0 /\ bk.i \in Nat /\ archive = OldArchive /\ \A j \in 1 .. Len(Tenants) : j < bk.i
          => volumes[Tenants[j]].snap = "whole"
    BY <1>1, RestoreTyped DEF BkInv, Restored, BkRecord
  <1>4. archive.entries = Exports
    BY <1>3 DEF OldArchive
  <1>5. ASSUME Finish(TRUE), volumes' \in [TenantSet -> VolumeRecords] PROVE BkInv'
    BY <1>1, <1>2, <1>5, FinishOver, NothingRuns, RestoreHolds DEF VolumeRecords
  <1>6. ASSUME bk.i > Len(archive.entries), BkAt("templates"), UNCHANGED <<volumes, archive>> PROVE BkInv'
    <2>1. BkRecord(bk') /\ bk'.kind = "restore" /\ bk'.at = "templates"
      BY <1>1, <1>6, RestoreHolds, RestoreTyped DEF BkRecord, BkAt
    <2>2. \A t \in TenantSet : volumes[t].snap = "whole"
      BY <1>3, <1>4, <1>6, ExportsFacts, ExportsApart
    <2>3. QED
      BY <1>1, <1>2, <1>6, <2>1, <2>2, RestoreQuiet, RestoreTyped
  <1>7. ASSUME bk.i <= Len(archive.entries), bk' = [bk EXCEPT !.i = bk.i + 1], UNCHANGED archive, NEW s,
               s = archive.entries[bk.i],
               volumes' = IF s = "images" THEN volumes
                               ELSE [volumes EXCEPT ![s] = [live |-> CreateVolume(volumes[s]).live, snap |-> "whole"]]
        PROVE  BkInv'
    <2>1. BkRecord(bk') /\ bk'.kind = "restore" /\ bk'.at = "read0" /\ bk'.i = bk.i + 1
      BY <1>1, <1>7, RestoreHolds, RestoreTyped DEF BkRecord
    <2>2. s \in Streams /\ (s = "images" <=> bk.i = Len(Tenants) + 1)
            /\ (bk.i <= Len(Tenants) => s = Tenants[bk.i])
      BY <1>3, <1>4, <1>7, ExportsFacts, RestoreTyped
    <2>3. /\ volumes' \in [TenantSet -> VolumeRecords] 
          /\ \A q \in TenantSet \ {s} : volumes'[q] = volumes[q]
          /\ s \in TenantSet => volumes'[s].snap = "whole"
      <3>1. ASSUME s \in TenantSet
            PROVE  /\ volumes' \in [TenantSet -> VolumeRecords]
                   /\ \A q \in TenantSet \ {s} : volumes'[q] = volumes[q]
                   /\ s \in TenantSet => volumes'[s].snap = "whole"
        <4>1. volumes[s] \in VolumeRecords
                /\ volumes' = [volumes EXCEPT ![s] = [live |-> CreateVolume(volumes[s]).live, snap |-> "whole"]]
          BY <1>7, <3>1, RestoreTyped
        <4>2. [live |-> CreateVolume(volumes[s]).live, snap |-> "whole"] \in VolumeRecords
          BY <4>1, VolumeRecordFacts
        <4>3. volumes'[s] = [live |-> CreateVolume(volumes[s]).live, snap |-> "whole"]
              /\ volumes' \in [TenantSet -> VolumeRecords]
                   /\ \A q \in TenantSet \ {s} : volumes'[q] = volumes[q]
          BY <3>1, <4>1, <4>2, OneVolume, RestoreTyped
        <4>4. QED
          BY <4>3
      <3>2. ASSUME s = "images"
            PROVE  /\ volumes' \in [TenantSet -> VolumeRecords]
                   /\ \A q \in TenantSet \ {s} : volumes'[q] = volumes[q]
                   /\ s \in TenantSet => volumes'[s].snap = "whole"
        <4>1. volumes' = volumes /\ s \notin TenantSet /\ volumes \in [TenantSet -> VolumeRecords]
          BY <1>7, <3>2, RestoreTyped
        <4>2. QED
          BY ONLY <4>1, Zenon
      <3>3. s = "images" \/ s \in TenantSet
        BY <2>2, RestoreTyped
      <3>4. QED
        BY ONLY <3>1, <3>2, <3>3, Zenon
    <2>4. \A j \in 1 .. Len(Tenants) : j < bk.i + 1 => volumes'[Tenants[j]].snap = "whole"
      <3>1. TAKE j \in 1 .. Len(Tenants)
      <3>2. Tenants[j] \in TenantSet
        BY ExportsFacts
      <3>3. ASSUME j = bk.i PROVE Tenants[j] = s
        BY <3>3, <2>2
      <3>4. ASSUME j < bk.i PROVE volumes[Tenants[j]].snap = "whole"
        BY <1>3, <3>4
      <3>5. j < bk.i + 1 => j = bk.i \/ j < bk.i
        BY <1>3
      <3>6. QED
        BY <2>3, <3>2, <3>3, <3>4, <3>5
    <2>5. QED
      BY <1>1, <1>2, <1>3, <1>7, <2>1, <2>3, <2>4, RestoreQuiet
  <1>8. ASSUME bk.i <= Len(archive.entries), Finish(TRUE), NEW s, s = archive.entries[bk.i],
               volumes' = IF s = "images" THEN volumes
                               ELSE [volumes EXCEPT ![s] = RemoveNew(CreateVolume(volumes[s]))]
        PROVE  BkInv'
    <2>1. s \in Streams
      BY <1>3, <1>4, <1>8, ExportsFacts, RestoreTyped
    <2>2. ASSUME s \in TenantSet PROVE volumes' \in [TenantSet -> VolumeRecords]
      <3>1. volumes[s] \in VolumeRecords
              /\ volumes' = [volumes EXCEPT ![s] = RemoveNew(CreateVolume(volumes[s]))]
        BY <1>8, <2>2, RestoreTyped
      <3>2. RemoveNew(CreateVolume(volumes[s])) \in VolumeRecords
        BY <3>1, VolumeRecordFacts
      <3>3. QED
        BY <2>2, <3>1, <3>2, OneVolume, RestoreTyped
    <2>3. QED
      BY <1>5, <1>8, <2>1, <2>2, RestoreTyped
  <1>9. CASE bk.i > Len(archive.entries)
    BY <1>6, <1>9 DEF RestoreV0Entry
  <1>10. CASE ~(bk.i > Len(archive.entries))
    <2>1. bk.i <= Len(archive.entries)
      BY <1>3, <1>4, <1>10, ExportsFacts
    <2>2. PICK s : s = archive.entries[bk.i]
      OBVIOUS
    <2>3. \/ /\ bk' = [bk EXCEPT !.i = bk.i + 1]
             /\ volumes' = IF s = "images" THEN volumes
                           ELSE [volumes EXCEPT ![s] = [live |-> CreateVolume(volumes[s]).live, snap |-> "whole"]]
             /\ UNCHANGED archive
          \/ /\ Finish(TRUE)
             /\ volumes' = IF s = "images" THEN volumes
                           ELSE [volumes EXCEPT ![s] = RemoveNew(CreateVolume(volumes[s]))]
      BY <1>10, <2>2, Zenon DEF RestoreV0Entry
    <2>4. QED
      BY <1>7, <1>8, <2>1, <2>2, <2>3
  <1>11. QED
    BY <1>9, <1>10

\* The templates and pools.
LEMMA RestoreTemplatesKeeps ==
    ASSUME BkInv, RestoreTemplates
    PROVE  BkInv'
  <1>1. bk.at = "templates" /\ UNCHANGED <<exporter, importer, volumes>> /\ bk.at \in RestorePlaces
    BY DEF RestoreTemplates, RestorePlaces
  <1>2. \A s \in Streams : importer[s] = NoImport
    BY <1>1, NothingRuns DEF DealPlaces
  <1>3. ASSUME Finish(TRUE) PROVE BkInv'
    BY <1>1, <1>2, <1>3, FinishOver, NothingRuns, RestoreHolds
  <1>4. ASSUME bk' = [bk EXCEPT !.at = "rollback", !.i = 1], UNCHANGED archive PROVE BkInv'
    <2>1. BkRecord(bk') /\ bk'.kind = "restore" /\ bk'.at = "rollback" /\ bk'.i = 1
      BY <1>1, <1>4, RestoreHolds, RestoreTyped DEF BkRecord
    <2>2. \A j \in 1 .. Len(Tenants) : ~(j < 1) /\ volumes[Tenants[j]].snap = "whole"
      BY <1>1, ExportsFacts DEF BkInv, Restored
    <2>3. QED
      BY <1>1, <1>2, <1>4, <2>1, <2>2, RestoreQuiet, RestoreTyped
  <1>5. QED
    BY <1>3, <1>4 DEF RestoreTemplates

\* One tenant is rolled back.
LEMMA RollbackTenantKeeps ==
    ASSUME BkInv, RollbackTenant
    PROVE  BkInv'
  <1>1. bk.at = "rollback" /\ UNCHANGED <<exporter, importer>> /\ bk.at \in RestorePlaces
          /\ bk.i <= Len(Tenants)
    BY DEF RollbackTenant, RestorePlaces
  <1>2. \A s \in Streams : importer[s] = NoImport
    BY <1>1, NothingRuns DEF DealPlaces
  <1>3. ASSUME Finish(TRUE), UNCHANGED volumes PROVE BkInv'
    BY <1>1, <1>2, <1>3, FinishOver, NothingRuns, RestoreHolds
  <1>4. ASSUME bk' = [bk EXCEPT !.i = bk.i + 1], UNCHANGED archive, NEW t, t = Tenants[bk.i],
               volumes' = [volumes EXCEPT ![t] = [live |-> volumes[t].snap, snap |-> "none"]]
        PROVE  BkInv'
    <2>1. BkRecord(bk') /\ bk'.kind = "restore" /\ bk'.at = "rollback" /\ bk'.i = bk.i + 1
      BY <1>1, <1>4, RestoreHolds, RestoreTyped DEF BkRecord
    <2>2. bk.i > 0 /\ bk.i \in Nat /\ \A j \in 1 .. Len(Tenants) :
             IF j < bk.i THEN volumes[Tenants[j]].live = "whole" ELSE volumes[Tenants[j]].snap = "whole"
      BY <1>1, RestoreTyped DEF BkInv, Restored, BkRecord
    <2>3. bk.i \in 1 .. Len(Tenants) /\ t \in TenantSet /\ volumes[t].snap = "whole"
            /\ volumes[t] \in VolumeRecords
      BY <1>1, <1>4, <2>2, ExportsFacts, RestoreTyped
    <2>4. [live |-> volumes[t].snap, snap |-> "none"] \in VolumeRecords
      BY <2>3, VolumeRecordFacts
    <2>5. volumes' \in [TenantSet -> VolumeRecords] /\ volumes'[t] = [live |-> volumes[t].snap, snap |-> "none"]
          /\ \A q \in TenantSet \ {t} : volumes'[q] = volumes[q]
      BY <1>4, <2>3, <2>4, OneVolume, RestoreTyped
    <2>6. ASSUME NEW j \in 1 .. Len(Tenants)
          PROVE IF j < bk.i + 1 THEN volumes'[Tenants[j]].live = "whole" ELSE volumes'[Tenants[j]].snap = "whole"
      <3>1. CASE j = bk.i
        BY <1>4, <2>3, <2>5, <3>1
      <3>2. CASE j # bk.i
        <4>1. Tenants[j] # t /\ Tenants[j] \in TenantSet
          BY <1>4, <2>3, <3>2, ExportsFacts, BackupAssumption
        <4>2. j < bk.i + 1 <=> j < bk.i
          BY <2>2, <3>2
        <4>3. QED
          BY <2>2, <2>5, <4>1, <4>2
      <3>3. QED
        BY <3>1, <3>2
    <2>7. QED
      BY <1>1, <1>2, <1>4, <2>1, <2>2, <2>5, <2>6, RestoreQuiet
  <1>5. QED
    BY <1>3, <1>4 DEF RollbackTenant

\* All of them are.
LEMMA RestoreFinishesKeeps ==
    ASSUME BkInv, RestoreFinishes
    PROVE  BkInv'
  <1>1. bk.at = "rollback" /\ UNCHANGED <<exporter, importer, volumes>> /\ bk.at \in RestorePlaces
          /\ Finish(FALSE)
    BY DEF RestoreFinishes, RestorePlaces
  <1>2. \A s \in Streams : importer[s] = NoImport
    BY <1>1, NothingRuns DEF DealPlaces
  <1>3. QED
    BY <1>1, <1>2, FinishOver, NothingRuns, RestoreHolds

\* All streams are closed.
LEMMA StreamsClosedKeeps ==
    ASSUME BkInv, StreamsClosed
    PROVE  BkInv'
  <1>1. bk.at = "close" /\ bk.open = {} /\ UNCHANGED <<exporter, importer, volumes>> /\ bk.at \in RestorePlaces
    BY DEF StreamsClosed, RestorePlaces, DealPlaces
  <1>2. \A s \in Streams : importer[s] = NoImport
    BY <1>1 DEF BkInv, Goroutines
  <1>3. ASSUME Finish(TRUE) PROVE BkInv'
    BY <1>1, <1>2, <1>3, FinishOver, NothingRuns, RestoreHolds
  <1>4. ASSUME ~bk.failed, BkAt("templates"), UNCHANGED archive PROVE BkInv'
    <2>1. BkRecord(bk') /\ bk'.kind = "restore" /\ bk'.at = "templates"
      BY <1>1, <1>4, RestoreHolds, RestoreTyped DEF BkRecord, BkAt
    <2>2. \A t \in TenantSet : volumes[t].snap = "whole"
      BY <1>1, <1>4 DEF BkInv, Restored
    <2>3. QED
      BY <1>1, <1>2, <1>4, <2>1, <2>2, RestoreQuiet, RestoreTyped
  <1>5. QED
    BY <1>3, <1>4 DEF StreamsClosed

\* The tenants change only while nobody holds the lock.
LEMMA TenantChangesKeeps ==
    ASSUME BkInv, NEW t \in TenantSet, TenantChanges(t)
    PROVE  BkInv'
  <1>1. bk = NoBk /\ bk' = NoBk /\ UNCHANGED <<archive, exporter, importer>>
    BY DEF TenantChanges
  <1>2. \A s \in Streams : importer[s] = NoImport
    BY <1>1, NothingRuns DEF NoBk, DealPlaces
  <1>3. exporter = NoExport
    BY <1>1, NothingRuns DEF NoBk
  <1>4. volumes[t] \in VolumeRecords
    BY RestoreTyped
  <1>5. PICK live \in {"old", "none"} :
           volumes' = [volumes EXCEPT ![t] = [live |-> live, snap |-> IF live = "none" THEN "none" ELSE volumes[t].snap]]
    BY DEF TenantChanges
  <1>6. [live |-> live, snap |-> IF live = "none" THEN "none" ELSE volumes[t].snap] \in VolumeRecords
    BY <1>4 DEF VolumeRecords, Lives
  <1>7. volumes' \in [TenantSet -> [live : Lives, snap : {"none", "whole"}]]
    BY <1>5, <1>6, OneVolume, RestoreTyped DEF VolumeRecords
  <1>8. QED
    BY <1>1, <1>2, <1>3, <1>7, OperationOver, NothingRuns

\* The master dies.
LEMMA BkCrashKeeps ==
    ASSUME BkInv, BkCrash
    PROVE  BkInv'
  <1>1. importer' = [s \in Streams |-> NoImport] /\ bk' = NoBk /\ exporter' = NoExport
          /\ UNCHANGED <<archive, volumes>>
    BY DEF BkCrash
  <1>2. importer' \in [Streams -> [at : {"off", "begin", "read", "eof", "send"}, n : Nat, failed : BOOLEAN]]
        /\ \A s \in Streams : importer'[s] = NoImport
    BY <1>1, ImportRecordFacts DEF ImportRecords
  <1>3. QED
    BY <1>1, <1>2, OperationOver, NothingRuns

\* The initial states.
LEMMA BkInitHolds ==
    ASSUME bkInit
    PROVE  BkInv
  <1>1. importer \in [Streams -> ImportRecords] /\ \A s \in Streams : importer[s] = NoImport
    BY ImportRecordFacts DEF bkInit
  <1>2. volumes \in [TenantSet -> VolumeRecords]
    BY DEF bkInit, VolumeRecords, Lives
  <1>3. bk = NoBk /\ BkRecord(bk) /\ bk.at = "off"
    BY DEF bkInit, NoBk, BkRecord
  <1>4. exporter = NoExport /\ ExporterRecord(exporter) /\ exporter.at = "off"
    BY BackupAssumption DEF bkInit, NoExport, ExporterRecord
  <1>5. FileRecord(archive) /\ (archive.closed => archive.version = 0)
    <2>1. FileRecord(NoFile) /\ ~NoFile.closed
      BY DEF NoFile, FileRecord
    <2>2. FileRecord(OldArchive) /\ OldArchive.version = 0
      <3>1. Exports \in Seq(Streams)
        BY ExportsFacts
      <3>2. QED
        BY <3>1 DEF OldArchive, FileRecord
    <2>3. QED
      BY <2>1, <2>2 DEF bkInit
  <1>6. BkTyped
    BY <1>1, <1>2, <1>3, <1>4, <1>5 DEF BkTyped, BkRecord, ExporterRecord, FileRecord, ImportRecords,
       VolumeRecords
  <1>7. Goroutines /\ Copied /\ Dealt
    BY <1>1, <1>3, <1>4, ImportRecordFacts DEF Goroutines, Copied, Dealt
  <1>8. Restored
    <2>1. TenantSet \subseteq Streams
      BY DEF Streams
    <2>2. NoImport.at = "off"
      BY DEF NoImport
    <2>3. \A t \in TenantSet : importer[t] = NoImport
      BY <1>1, <2>1
    <2>4. \A t \in TenantSet : importer[t].at = "off"
      BY ONLY <2>2, <2>3
    <2>5. QED
      BY <1>3, <2>4 DEF Restored
  <1>9. ClosedIsWhole
    BY <1>5 DEF ClosedIsWhole
  <1>10. QED
    BY <1>6, <1>7, <1>8, <1>9 DEF BkInv

\* What the invariant is for.
LEMMA BkInvIsSound ==
    ASSUME BkInv
    PROVE  BackupsSound
  <1>1. NoStrayStream
    BY NothingRuns DEF NoStrayStream, NoBk, DealPlaces
  <1>2. \A t \in TenantSet : volumes[t].snap # "part" /\ volumes[t].live # "part"
    BY RestoreTyped DEF VolumeRecords, Lives
  <1>3. ASSUME bk.at = "rollback", bk.i > Len(Tenants), NEW t \in TenantSet
        PROVE  volumes[t].live = "whole"
    <2>1. PICK j \in 1 .. Len(Tenants) : Tenants[j] = t
      BY ExportsApart
    <2>2. j < bk.i
      BY <1>3, <2>1, ExportsFacts, RestoreTyped DEF BkRecord
    <2>3. IF j < bk.i THEN volumes[Tenants[j]].live = "whole" ELSE volumes[Tenants[j]].snap = "whole"
      BY <1>3 DEF BkInv, Restored
    <2>4. QED
      BY <2>1, <2>2, <2>3
  <1>4. QED
    BY <1>1, <1>2, <1>3 DEF BackupsSound, NothingHalf, BkInv, ClosedIsWhole

\* A restore step of which the importers' part is given stream by stream.
LEMMA RestoreStepKeeps ==
    ASSUME BkInv, bk.at \in RestorePlaces, BkRecord(bk'), bk'.kind = "restore", bk'.at \in RestorePlaces,
           UNCHANGED <<archive, exporter>>, importer' \in [Streams -> ImportRecords],
           volumes' \in [TenantSet -> VolumeRecords],
           \A s \in Streams :
              /\ importer'[s].at = "off" => importer'[s] = NoImport
              /\ importer'[s] # NoImport => \/ bk'.at \in DealPlaces \cup {"abort"} /\ s \in bk'.open
                                            \/ bk'.at = "await" /\ s = bk'.on
              /\ importer'[s].at = "eof" => bk'.at = "await" /\ s = bk'.on,
           Dealt', Restored'
    PROVE  BkInv'
  <1>1. importer' \in [Streams -> [at : {"off", "begin", "read", "eof", "send"}, n : Nat, failed : BOOLEAN]]
    BY DEF ImportRecords
  <1>2. volumes' \in [TenantSet -> [live : Lives, snap : {"none", "whole"}]]
    BY DEF VolumeRecords
  <1>3. QED
    BY <1>1, <1>2, RestoreGoes

\* The archive of a restore does not change.
LEMMA CountsStay ==
    ASSUME UNCHANGED archive
    PROVE  \A s, k : CountTo(s, k)' = CountTo(s, k)
  BY DEF CountTo

\* An importer moves on while the operation stays where it is.
LEMMA ImporterGoes ==
    ASSUME BkInv, NEW s \in Streams, importer[s].at # "off", NEW v \in ImportRecords, v.at \in {"read", "send"},
           UNCHANGED <<bk, archive, exporter>>, importer' = [importer EXCEPT ![s] = v],
           volumes' \in [TenantSet -> VolumeRecords],
           v.at = "read" => importer[s].at = "begin" /\ v.n = importer[s].n,
           \A t \in TenantSet \ {s} : volumes'[t].snap = volumes[t].snap,
           s \in TenantSet => volumes'[s].snap \in {volumes[s].snap, "whole"},
           s \in TenantSet /\ v.at = "send" /\ ~v.failed => volumes'[s].snap = "whole"
    PROVE  BkInv'
  <1>1. bk.at \in RestorePlaces /\ bk.at \in DealPlaces \cup {"abort"}
          /\ (s \in bk.open \/ (bk.at = "await" /\ s = bk.on))
    BY ImporterRuns
  <1>2. /\ importer' \in [Streams -> ImportRecords]
        /\ importer'[s] = v /\ \A q \in Streams \ {s} : importer'[q] = importer[q]
    BY OneImporter, RestoreTyped
  <1>3. \A q \in Streams :
          /\ importer'[q].at = "off" => importer'[q] = NoImport
          /\ importer'[q] # NoImport => \/ bk'.at \in DealPlaces \cup {"abort"} /\ q \in bk'.open
                                        \/ bk'.at = "await" /\ q = bk'.on
          /\ importer'[q].at = "eof" => bk'.at = "await" /\ q = bk'.on
    <2>1. TAKE q \in Streams
    <2>2. CASE q = s
      <3>1. bk.at # "abort" => bk.at \in DealPlaces
        BY <1>1
      <3>2. QED
        BY <1>1, <1>2, <2>2
    <2>3. CASE q # s
      BY <1>2, <2>3 DEF BkInv, Goroutines
    <2>4. QED
      BY <2>2, <2>3
  <1>4. Dealt'
    <2>1. \A q \in Streams : importer'[q].at \in {"begin", "read", "eof"} =>
              importer[q].n = importer'[q].n
                /\ (importer'[q].at = importer[q].at \/ (importer'[q].at = "read" /\ importer[q].at = "begin"))
      BY <1>2
    <2>2. QED
      BY <2>1, CountsStay DEF BkInv, Dealt
  <1>5. Restored'
    <2>1. \A t \in TenantSet : importer'[t].at = "send" /\ ~importer'[t].failed => volumes'[t].snap = "whole"
      BY <1>2, RestoreTyped DEF BkInv, Restored
    <2>2. \A t \in TenantSet : volumes[t].snap = "whole" => volumes'[t].snap = "whole"
      OBVIOUS
    <2>3. bk'.at \notin {"read0", "templates", "rollback"}
      BY <1>1 DEF DealPlaces
    <2>4. QED
      BY <2>1, <2>2, <2>3 DEF BkInv, Restored
  <1>6. QED
    BY <1>1, <1>2, <1>3, <1>4, <1>5, RestoreStepKeeps, RestoreTyped, RestoreHolds

\* The importers begin, fail and end.
LEMMA ImportBeginsKeeps ==
    ASSUME BkInv, NEW s \in Streams, ImportBegins(s)
    PROVE  BkInv'
  <1>1. importer[s].at = "begin" /\ UNCHANGED <<bk, archive, exporter>> /\ importer[s] \in ImportRecords
    BY RestoreTyped DEF ImportBegins
  <1>2. CASE s = "images"
    <2>1. importer' = [importer EXCEPT ![s] = [importer[s] EXCEPT !.at = "read"]] /\ UNCHANGED volumes
      BY <1>2 DEF ImportBegins
    <2>2. [importer[s] EXCEPT !.at = "read"] \in ImportRecords /\ [importer[s] EXCEPT !.at = "read"].at = "read"
          /\ [importer[s] EXCEPT !.at = "read"].n = importer[s].n
      BY <1>1, ImportRecordFacts
    <2>3. QED
      BY <1>1, <1>2, <2>1, <2>2, ImporterGoes, RestoreTyped
  <1>3. CASE s # "images"
    <2>1. s \in TenantSet /\ volumes[s] \in VolumeRecords
      BY <1>3, RestoreTyped
    <2>2. PICK a \in {"read", "send"} : a = IF volumes[s].snap = "whole" THEN "send" ELSE "read"
      OBVIOUS
    <2>3. importer' = [importer EXCEPT ![s] = [importer[s] EXCEPT !.at = a]]
            /\ volumes' = [volumes EXCEPT ![s] = CreateVolume(volumes[s])]
      BY <1>3, <2>2 DEF ImportBegins
    <2>4. [importer[s] EXCEPT !.at = a] \in ImportRecords /\ [importer[s] EXCEPT !.at = a].at = a
          /\ [importer[s] EXCEPT !.at = a].n = importer[s].n
      <3>1. a \in {"read", "send", "eof"}
        OBVIOUS
      <3>2. QED
        BY <1>1, <3>1, ImporterAt
    <2>5. /\ volumes' \in [TenantSet -> VolumeRecords] /\ volumes'[s] = CreateVolume(volumes[s])
          /\ \A q \in TenantSet \ {s} : volumes'[q] = volumes[q]
      BY <2>1, <2>3, VolumeRecordFacts, OneVolume, RestoreTyped
    <2>6. volumes'[s].snap = volumes[s].snap
      BY <2>1, <2>5, VolumeRecordFacts
    <2>7. a = "send" => volumes'[s].snap = "whole"
      BY <2>2, <2>6
    <2>8. PICK v \in ImportRecords : v = [importer[s] EXCEPT !.at = a]
      BY <2>4
    <2>9. v.at = a /\ v.n = importer[s].n /\ importer' = [importer EXCEPT ![s] = v]
      BY <2>3, <2>4, <2>8
    <2>10. QED
      BY <1>1, <2>1, <2>5, <2>6, <2>7, <2>9, ImporterGoes
  <1>4. QED
    BY <1>2, <1>3

\* An import that fails leaves the snapshot as it was.
LEMMA ImportFailsKeeps ==
    ASSUME BkInv, NEW s \in Streams, importer[s].at # "off", UNCHANGED <<bk, archive, exporter>>,
           importer' = [importer EXCEPT ![s] = [importer[s] EXCEPT !.at = "send", !.failed = TRUE]],
           volumes' = IF s = "images" THEN volumes ELSE [volumes EXCEPT ![s] = RemoveNew(volumes[s])]
    PROVE  BkInv'
  <1>1. importer[s] \in ImportRecords
    BY RestoreTyped
  <1>2. [importer[s] EXCEPT !.at = "send", !.failed = TRUE] \in ImportRecords
        /\ [importer[s] EXCEPT !.at = "send", !.failed = TRUE].at = "send"
             /\ [importer[s] EXCEPT !.at = "send", !.failed = TRUE].failed
    BY <1>1, ImportRecordFacts
  <1>3. CASE s = "images"
    <2>1. UNCHANGED volumes
      BY <1>3
    <2>2. QED
      BY <1>2, <1>3, <2>1, ImporterGoes, RestoreTyped
  <1>4. CASE s # "images"
    <2>1. s \in TenantSet /\ volumes[s] \in VolumeRecords
            /\ volumes' = [volumes EXCEPT ![s] = RemoveNew(volumes[s])]
      BY <1>4, RestoreTyped
    <2>2. /\ volumes' \in [TenantSet -> VolumeRecords] /\ volumes'[s] = RemoveNew(volumes[s])
          /\ \A q \in TenantSet \ {s} : volumes'[q] = volumes[q]
      BY <2>1, VolumeRecordFacts, OneVolume, RestoreTyped
    <2>3. volumes'[s].snap = volumes[s].snap
      BY <2>1, <2>2, VolumeRecordFacts
    <2>4. QED
      BY <1>2, <2>1, <2>2, <2>3, ImporterGoes
  <1>5. QED
    BY <1>3, <1>4

\* An import that has seen the end of its pipe has had every entry.
LEMMA ImportEndsKeeps ==
    ASSUME BkInv, NEW s \in Streams, ImportEnds(s)
    PROVE  BkInv'
  <1>1. importer[s].at = "eof" /\ UNCHANGED <<bk, archive, exporter>> /\ importer[s] \in ImportRecords
        /\ importer' = [importer EXCEPT ![s] = [importer[s] EXCEPT !.at = "send"]]
    BY RestoreTyped DEF ImportEnds
  <1>2. [importer[s] EXCEPT !.at = "send"] \in ImportRecords /\ [importer[s] EXCEPT !.at = "send"].at = "send"
    BY <1>1, ImportRecordFacts
  <1>3. importer[s].n = EntriesEach
    <2>1. bk.at = "await"
      BY <1>1 DEF BkInv, Goroutines
    <2>2. QED
      BY <1>1, <2>1 DEF BkInv, Dealt
  <1>4. CASE s = "images"
    <2>1. UNCHANGED volumes
      BY <1>4 DEF ImportEnds
    <2>2. QED
      BY <1>1, <1>2, <1>4, <2>1, ImporterGoes, RestoreTyped
  <1>5. CASE s # "images"
    <2>1. s \in TenantSet /\ volumes[s] \in VolumeRecords
      BY <1>5, RestoreTyped
    <2>2. volumes' = [volumes EXCEPT ![s] = [volumes[s] EXCEPT !.snap = "whole"]]
      BY <1>3, <1>5 DEF ImportEnds
    <2>3. [volumes[s] EXCEPT !.snap = "whole"] \in VolumeRecords
            /\ [volumes[s] EXCEPT !.snap = "whole"].snap = "whole"
      BY <2>1, VolumeRecordFacts DEF VolumeRecords
    <2>4. /\ volumes' \in [TenantSet -> VolumeRecords] /\ volumes'[s] = [volumes[s] EXCEPT !.snap = "whole"]
          /\ \A q \in TenantSet \ {s} : volumes'[q] = volumes[q]
      BY <2>1, <2>2, <2>3, OneVolume, RestoreTyped
    <2>5. QED
      BY <1>1, <1>2, <2>1, <2>3, <2>4, ImporterGoes
  <1>6. QED
    BY <1>4, <1>5

\* How many entries a stream has had before the next one.
LEMMA CountToNext ==
    ASSUME NEW s, NEW k \in Nat
    PROVE  /\ CountTo(s, k + 1) = IF archive.entries[k + 1] = s THEN CountTo(s, k) + 1 ELSE CountTo(s, k)
           /\ CountTo(s, k) \in Nat
           /\ (\A j \in 1 .. k : archive.entries[j] # s) => CountTo(s, k) = 0
  <1>1. \A j : CountTo(s, j) = Cardinality(At(archive.entries, s, j))
    BY DEF CountTo, At
  <1>2. ASSUME \A j \in 1 .. k : archive.entries[j] # s PROVE At(archive.entries, s, k) = {}
    BY <1>2 DEF At
  <1>3. QED
    BY <1>1, <1>2, AtNext, FS_EmptySet

\* The restore gives up: the streams that are open are left to AbortStreams.
LEMMA RestoreAborts ==
    ASSUME BkInv, bk.at \in {"read", "pass"}, bk' = [bk EXCEPT !.at = "abort", !.failed = TRUE],
           UNCHANGED <<archive, exporter, importer, volumes>>
    PROVE  BkInv'
  <1>1. bk.at \in RestorePlaces /\ bk.at \notin {"await"}
    BY DEF RestorePlaces, DealPlaces
  <1>2. BkRecord(bk') /\ bk'.kind = "restore" /\ bk'.at = "abort" /\ bk'.open = bk.open
    BY <1>1, RestoreHolds, RestoreTyped DEF BkRecord
  <1>3. Dealt'
    BY <1>2 DEF Dealt
  <1>4. Restored'
    BY <1>2 DEF BkInv, Restored
  <1>5. \A s \in Streams :
          /\ importer'[s].at = "off" => importer'[s] = NoImport
          /\ importer'[s] # NoImport => bk'.at \in DealPlaces \cup {"abort"} /\ s \in bk'.open
          /\ importer'[s].at # "eof"
    BY <1>1, <1>2 DEF BkInv, Goroutines
  <1>6. bk'.at \in RestorePlaces
    BY <1>2 DEF RestorePlaces
  <1>7. QED
    BY <1>1, <1>2, <1>3, <1>4, <1>5, <1>6, RestoreStepKeeps, RestoreTyped

\* The archive cannot be read.
LEMMA ReadFailsKeeps ==
    ASSUME BkInv, ReadFails
    PROVE  BkInv'
  BY RestoreAborts DEF ReadFails

\* What has been dealt out while the archive is read.
LEMMA ReadFacts ==
    ASSUME BkInv, bk.at \in {"read", "pass"}
    PROVE  /\ bk.i \in Nat \ {0} /\ bk.i <= Len(archive.entries) + 1 /\ archive.version = 1 /\ ~bk.failed
           /\ archive.entries \in Seq(Streams) /\ Len(archive.entries) \in Nat
           /\ \A j \in 1 .. bk.i - 1 : archive.entries[j] \in bk.open
           /\ \A s \in Streams : /\ importer[s].at \in {"begin", "read"} => importer[s].n = CountTo(s, bk.i - 1)
                                 /\ importer[s].at # "eof" /\ (importer[s].at = "off" => importer[s] = NoImport)
                                 /\ importer[s] # NoImport => s \in bk.open
           /\ \A t \in TenantSet : importer[t].at = "send" /\ ~importer[t].failed => volumes[t].snap = "whole"
           /\ bk.kind = "restore" /\ bk.at \in RestorePlaces /\ exporter = NoExport
  <1>1. bk.at \in RestorePlaces
    BY DEF RestorePlaces, DealPlaces
  <1>2. bk.i \in Nat /\ archive.entries \in Seq(Streams) /\ Len(archive.entries) \in Nat
    BY NothingRuns DEF BkRecord, FileRecord
  <1>3. bk.i > 0 /\ bk.i <= Len(archive.entries) + 1 /\ archive.version = 1 /\ ~bk.failed
        /\ (\A j \in 1 .. bk.i - 1 : archive.entries[j] \in bk.open)
        /\ \A s \in Streams : importer[s].at \in {"begin", "read"} => importer[s].n = CountTo(s, bk.i - 1)
    BY DEF BkInv, Dealt
  <1>4. \A s \in Streams : importer[s].at # "eof" /\ (importer[s].at = "off" => importer[s] = NoImport)
          /\ (importer[s] # NoImport => s \in bk.open)
    BY DEF BkInv, Goroutines
  <1>5. \A t \in TenantSet : importer[t].at = "send" /\ ~importer[t].failed => volumes[t].snap = "whole"
    BY DEF BkInv, Restored
  <1>6. QED
    BY <1>1, <1>2, <1>3, <1>4, <1>5, RestoreHolds

\* The next entry is read or handed on: the streams' part of the invariant gives the rest.
LEMMA ReadGoes ==
    ASSUME BkInv, bk.at \in {"read", "pass"}, BkRecord(bk'), bk'.kind = "restore", bk'.at \in {"read", "pass"},
           UNCHANGED <<archive, exporter, volumes>>,
           importer' \in [Streams -> ImportRecords], bk.open \subseteq bk'.open, ~bk'.failed,
           bk'.i > 0, bk'.i <= Len(archive.entries) + 1,
           \A j \in 1 .. bk'.i - 1 : archive.entries[j] \in bk'.open,
           bk'.at = "pass" => bk'.i <= Len(archive.entries) /\ archive.entries[bk'.i] \in bk'.open,
           \A s \in Streams : /\ importer'[s].at \in {"begin", "read"} => importer'[s].n = CountTo(s, bk'.i - 1)
                              /\ importer'[s].at # "eof" /\ (importer'[s].at = "off" => importer'[s] = NoImport)
                              /\ importer'[s] # NoImport => s \in bk'.open
                              /\ importer'[s].at = "send" => importer[s].at = "send"
                                   /\ importer'[s].failed = importer[s].failed
    PROVE  BkInv'
  <1>1. Dealt'
    BY CountsStay, ReadFacts DEF Dealt
  <1>2. Restored'
    <2>1. \A t \in TenantSet : importer'[t].at = "send" /\ ~importer'[t].failed => volumes'[t].snap = "whole"
      BY ReadFacts, RestoreTyped
    <2>2. QED
      BY <2>1 DEF Restored
  <1>3. bk'.at \in RestorePlaces /\ bk'.at \in DealPlaces
    BY DEF RestorePlaces, DealPlaces
  <1>4. QED
    BY <1>1, <1>2, <1>3, RestoreStepKeeps, ReadFacts, RestoreTyped

\* The first entry of a stream starts its importer, which has had none.
LEMMA ReadHeaderKeeps ==
    ASSUME BkInv, ReadHeader
    PROVE  BkInv'
  <1>1. bk.at = "read" /\ bk.i <= Len(archive.entries) /\ UNCHANGED <<archive, exporter, volumes>>
    BY DEF ReadHeader
  <1>2. PICK s : s = archive.entries[bk.i]
    OBVIOUS
  <1>3. bk' = [bk EXCEPT !.at = "pass", !.open = bk.open \cup {s}]
        /\ importer' = IF s \in bk.open THEN importer ELSE [importer EXCEPT ![s] = [NoImport EXCEPT !.at = "begin"]]
    BY <1>2 DEF ReadHeader
  <1>4. s \in Streams
    BY <1>1, <1>2, ReadFacts
  <1>5. BkRecord(bk') /\ bk'.kind = "restore" /\ bk'.at = "pass" /\ bk'.open = bk.open \cup {s} /\ bk'.i = bk.i
          /\ bk'.failed = bk.failed
    <2>1. BkRecord(bk)
      BY RestoreTyped
    <2>2. bk' = [kind |-> bk.kind, at |-> "pass", i |-> bk.i, failed |-> bk.failed, open |-> bk.open \cup {s}, on |-> bk.on]
      BY <1>3, <2>1 DEF BkRecord
    <2>3. bk.kind = "restore"
      BY <1>1, ReadFacts
    <2>4. QED
      BY <1>4, <2>1, <2>2, <2>3 DEF BkRecord
  <1>6. importer' \in [Streams -> ImportRecords]
        /\ \A q \in Streams : importer'[q] = IF q = s
             /\ s \notin bk.open THEN [NoImport EXCEPT !.at = "begin"] ELSE importer[q]
    <2>1. CASE s \in bk.open
      BY <1>3, <2>1, RestoreTyped
    <2>2. CASE s \notin bk.open
      BY <1>3, <1>4, <2>2, OneImporter, ImportRecordFacts, RestoreTyped
    <2>3. QED
      BY <2>1, <2>2
  <1>7. \A q \in Streams : /\ importer'[q].at \in {"begin", "read"} => importer'[q].n = CountTo(q, bk.i - 1)
                           /\ importer'[q].at # "eof" /\ (importer'[q].at = "off" => importer'[q] = NoImport)
                           /\ importer'[q] # NoImport => q \in bk'.open
                           /\ importer'[q].at = "send" => importer[q].at = "send"
                                /\ importer'[q].failed = importer[q].failed
    <2>1. TAKE q \in Streams
    <2>2. CASE q = s /\ s \notin bk.open
      <3>1. importer'[q].at = "begin" /\ importer'[q].n = 0
        BY <1>6, <2>2, ImportRecordFacts
      <3>2. bk.i - 1 \in Nat /\ \A j \in 1 .. bk.i - 1 : archive.entries[j] # s
        BY <1>1, <2>2, ReadFacts
      <3>3. CountTo(q, bk.i - 1) = 0
        BY <2>2, <3>2, CountToNext
      <3>4. QED
        BY <1>5, <2>2, <3>1, <3>3
    <2>3. CASE ~(q = s /\ s \notin bk.open)
      <3>1. importer'[q] = importer[q]
        BY <1>6, <2>3
      <3>2. QED
        BY <1>1, <1>5, <3>1, ReadFacts
    <2>4. QED
      BY <2>2, <2>3
  <1>8. ~bk'.failed /\ bk'.i > 0 /\ bk'.i <= Len(archive.entries) + 1
          /\ (\A j \in 1 .. bk'.i - 1 : archive.entries[j] \in bk'.open)
        /\ bk'.i <= Len(archive.entries) /\ archive.entries[bk'.i] \in bk'.open
    BY <1>1, <1>2, <1>5, ReadFacts
  <1>9. QED
    BY <1>1, <1>5, <1>6, <1>7, <1>8, ReadGoes

\* The importer of the entry takes it, or has closed its pipe.
LEMMA PassEntryKeeps ==
    ASSUME BkInv, PassEntry
    PROVE  BkInv'
  <1>1. bk.at = "pass" /\ UNCHANGED <<archive, exporter, volumes>>
    BY DEF PassEntry
  <1>2. PICK s : s = archive.entries[bk.i]
    OBVIOUS
  <1>3. bk.i <= Len(archive.entries) /\ s \in bk.open
    BY <1>1, <1>2 DEF BkInv, Dealt
  <1>4. s \in Streams
    BY <1>1, <1>2, <1>3, ReadFacts
  <1>5. PICK k \in Nat : bk.i = k + 1
    <2>1. bk.i \in Nat \ {0}
      BY <1>1, ReadFacts
    <2>2. bk.i - 1 \in Nat /\ bk.i = (bk.i - 1) + 1
      BY <2>1
    <2>3. QED
      BY <2>2
  <1>6. \A q \in Streams : CountTo(q, bk.i) = IF q = s THEN CountTo(q, bk.i - 1) + 1 ELSE CountTo(q, bk.i - 1)
    BY <1>2, <1>5, CountToNext
  <1>7. ASSUME bk' = [bk EXCEPT !.at = "read", !.i = bk.i + 1], importer' \in [Streams -> ImportRecords],
               \A q \in Streams \ {s} : importer'[q] = importer[q],
               \/ importer[s].at = "send" /\ importer'[s] = importer[s]
               \/ importer[s].at = "read" /\ importer'[s] = [importer[s] EXCEPT !.n = importer[s].n + 1]
        PROVE  BkInv'
    <2>1. BkRecord(bk') /\ bk'.kind = "restore" /\ bk'.at = "read" /\ bk'.open = bk.open /\ bk'.i = bk.i + 1
            /\ bk'.failed = bk.failed
      <3>1. BkRecord(bk)
        BY RestoreTyped
      <3>2. bk' = [kind |-> bk.kind, at |-> "read", i |-> bk.i + 1, failed |-> bk.failed, open |-> bk.open, on |-> bk.on]
        BY <1>7, <3>1 DEF BkRecord
      <3>3. bk.kind = "restore"
        BY <1>1, ReadFacts
      <3>4. QED
        BY <3>1, <3>2, <3>3 DEF BkRecord
    <2>2. \A q \in Streams : /\ importer'[q].at \in {"begin", "read"} => importer'[q].n = CountTo(q, bk.i)
                             /\ importer'[q].at # "eof" /\ (importer'[q].at = "off" => importer'[q] = NoImport)
                             /\ importer'[q] # NoImport => q \in bk'.open
                             /\ importer'[q].at = "send" => importer[q].at = "send"
                                  /\ importer'[q].failed = importer[q].failed
      <3>1. TAKE q \in Streams
      <3>2. CASE q # s
        <4>1. importer'[q] = importer[q] /\ CountTo(q, bk.i) = CountTo(q, bk.i - 1)
          BY <1>6, <1>7, <3>2
        <4>2. QED
          BY <1>1, <2>1, <4>1, ReadFacts
      <3>3. CASE q = s /\ importer[s].at = "send" /\ importer'[s] = importer[s]
        BY <1>3, <2>1, <3>3
      <3>4. CASE q = s /\ importer[s].at = "read" /\ importer'[s] = [importer[s] EXCEPT !.n = importer[s].n + 1]
        <4>1. importer'[q].at = "read" /\ importer'[q].n = importer[q].n + 1
          <5>1. importer[s] \in ImportRecords
            BY <1>4, RestoreTyped
          <5>2. [importer[s] EXCEPT !.n = importer[s].n + 1].at = importer[s].at
                /\ [importer[s] EXCEPT !.n = importer[s].n + 1].n = importer[s].n + 1
            BY <5>1, ImportRecordFacts
          <5>3. QED
            BY <3>4, <5>2
        <4>2. importer[q].n = CountTo(q, bk.i - 1)
          BY <1>1, <3>4, ReadFacts
        <4>3. QED
          BY <1>3, <1>6, <2>1, <3>4, <4>1, <4>2
      <3>5. QED
        BY <1>7, <3>2, <3>3, <3>4
    <2>3. ~bk'.failed /\ bk'.i > 0 /\ bk'.i <= Len(archive.entries) + 1 /\ bk'.i - 1 = bk.i
      BY <1>1, <1>3, <2>1, ReadFacts
    <2>4. \A j \in 1 .. bk.i : archive.entries[j] \in bk'.open
      <3>1. \A j \in 1 .. bk.i : j = bk.i \/ j \in 1 .. bk.i - 1
        BY <1>5
      <3>2. QED
        BY <1>1, <1>2, <1>3, <2>1, <3>1, ReadFacts
    <2>5. QED
      BY <1>1, <1>7, <2>1, <2>2, <2>3, <2>4, ReadGoes
  <1>8. ASSUME importer[s].at = "read",
               importer' = [importer EXCEPT ![s] = [importer[s] EXCEPT !.n = importer[s].n + 1]],
               bk' = [bk EXCEPT !.at = "read", !.i = bk.i + 1]
        PROVE  BkInv'
    <2>1. importer[s] \in ImportRecords /\ [importer[s] EXCEPT !.n = importer[s].n + 1] \in ImportRecords
      BY <1>4, ImportRecordFacts, RestoreTyped
    <2>2. importer' \in [Streams -> ImportRecords]
            /\ importer'[s] = [importer[s] EXCEPT !.n = importer[s].n + 1]
          /\ \A q \in Streams \ {s} : importer'[q] = importer[q]
      BY <1>4, <1>8, <2>1, OneImporter, RestoreTyped
    <2>3. QED
      BY <1>7, <1>8, <2>2
  <1>9. ASSUME importer[s].at = "send", UNCHANGED importer, bk' = [bk EXCEPT !.at = "read", !.i = bk.i + 1]
        PROVE  BkInv'
    BY <1>4, <1>7, <1>9, RestoreTyped
  <1>10. ASSUME UNCHANGED importer, bk' = [bk EXCEPT !.at = "abort", !.failed = TRUE]
         PROVE  BkInv'
    BY <1>1, <1>10, RestoreAborts
  <1>11. \/ importer[s].at = "read"
              /\ importer' = [importer EXCEPT ![s] = [importer[s] EXCEPT !.n = importer[s].n + 1]]
            /\ bk' = [bk EXCEPT !.at = "read", !.i = bk.i + 1]
         \/ importer[s].at = "send" /\ UNCHANGED importer
            /\ (bk' = [bk EXCEPT !.at = "read", !.i = bk.i + 1] \/ bk' = [bk EXCEPT !.at = "abort", !.failed = TRUE])
    BY <1>2 DEF PassEntry
  <1>12. QED
    BY <1>8, <1>9, <1>10, <1>11

\* At the end of a whole archive every stream is open and has had all its entries.
LEMMA ReadEndKeeps ==
    ASSUME BkInv, ReadEnd
    PROVE  BkInv'
  <1>1. bk.at = "read" /\ bk.i > Len(archive.entries) /\ UNCHANGED <<archive, exporter, importer, volumes>>
    BY DEF ReadEnd
  <1>2. ASSUME bk' = [bk EXCEPT !.at = "abort", !.failed = TRUE] PROVE BkInv'
    BY <1>1, <1>2, RestoreAborts
  <1>3. ASSUME archive.closed, bk' = [bk EXCEPT !.at = "close"] PROVE BkInv'
    <2>1. BkRecord(bk') /\ bk'.kind = "restore" /\ bk'.at = "close" /\ bk'.open = bk.open
      BY <1>1, <1>3, ReadFacts, RestoreTyped DEF BkRecord
    <2>2. \A s \in Streams : Count(s) = EntriesEach
      BY <1>1, <1>3, ReadFacts DEF BkInv, ClosedIsWhole
    <2>3. PICK n \in Nat : n = Len(archive.entries)
      BY <1>1, ReadFacts
    <2>4. bk.i - 1 = n
      BY <1>1, <2>3, ReadFacts
    <2>5. \A s \in Streams : CountTo(s, n) = EntriesEach
      BY <1>1, <2>2, <2>3, ReadFacts, CountIsAt
    <2>6. \A s \in Streams : s \in bk.open
      <3>1. SUFFICES ASSUME NEW s \in Streams, s \notin bk.open PROVE FALSE
        OBVIOUS
      <3>2. \A j \in 1 .. n : archive.entries[j] # s
        BY <1>1, <2>4, <3>1, ReadFacts
      <3>3. CountTo(s, n) = 0
        BY <3>2, CountToNext
      <3>4. QED
        BY <2>5, <3>1, <3>3, BackupAssumption
    <2>7. Dealt'
      BY <1>1, <2>1, <2>4, <2>5, ReadFacts DEF Dealt
    <2>8. Restored'
      BY <1>1, <2>1, <2>6, ReadFacts, RestoreTyped DEF Restored
    <2>9. bk'.at \in RestorePlaces /\ bk'.at \in DealPlaces
      BY <2>1 DEF RestorePlaces, DealPlaces
    <2>10. QED
      BY <1>1, <2>1, <2>7, <2>8, <2>9, RestoreStepKeeps, ReadFacts, RestoreTyped
  <1>4. QED
    BY <1>2, <1>3 DEF ReadEnd

\* What is known while the streams are closed.
LEMMA CloseFacts ==
    ASSUME BkInv, bk.at \in {"close", "await", "push"}
    PROVE  /\ bk.kind = "restore" /\ bk.at \in RestorePlaces /\ exporter = NoExport
           /\ \A s \in Streams : /\ importer[s].at \in {"begin", "read", "eof"} => importer[s].n = EntriesEach
                                 /\ importer[s].at = "off" => importer[s] = NoImport
                                 /\ importer[s] # NoImport => s \in bk.open \/ (bk.at = "await" /\ s = bk.on)
                                 /\ importer[s].at = "eof" => bk.at = "await" /\ s = bk.on
           /\ \A t \in TenantSet : importer[t].at = "send" /\ ~importer[t].failed => volumes[t].snap = "whole"
           /\ ~bk.failed => \A t \in TenantSet : t \in bk.open \/ (bk.at = "await" /\ t = bk.on)
                \/ volumes[t].snap = "whole"
           /\ bk.at = "push" => bk.on \in TenantSet
           /\ bk.at = "await" => bk.on \in Streams
           /\ bk.at \in {"await", "push"} => bk.on \notin bk.open
  <1>1. bk.at \in RestorePlaces
    BY DEF RestorePlaces, DealPlaces
  <1>2. \A s \in Streams : importer[s].at \in {"begin", "read", "eof"} => importer[s].n = EntriesEach
    BY DEF BkInv, Dealt
  <1>3. \A s \in Streams : /\ importer[s].at = "off" => importer[s] = NoImport
                           /\ importer[s] # NoImport => s \in bk.open \/ (bk.at = "await" /\ s = bk.on)
                           /\ importer[s].at = "eof" => bk.at = "await" /\ s = bk.on
    BY DEF BkInv, Goroutines
  <1>4. /\ \A t \in TenantSet : importer[t].at = "send" /\ ~importer[t].failed => volumes[t].snap = "whole"
        /\ ~bk.failed => \A t \in TenantSet : t \in bk.open \/ (bk.at = "await" /\ t = bk.on)
             \/ volumes[t].snap = "whole"
        /\ bk.at = "push" => bk.on \in TenantSet
        /\ bk.at = "await" => bk.on \in Streams
        /\ bk.at \in {"await", "push"} => bk.on \notin bk.open
    BY DEF BkInv, Restored
  <1>5. QED
    BY <1>1, <1>2, <1>3, <1>4, RestoreHolds

\* One step of closing the streams.
LEMMA CloseGoes ==
    ASSUME BkInv, bk.at \in {"close", "await", "push"}, BkRecord(bk'), bk'.kind = "restore",
           bk'.at \in {"close", "await", "push", "abort"},
           UNCHANGED <<archive, exporter>>, importer' \in [Streams -> ImportRecords],
           volumes' \in [TenantSet -> VolumeRecords],
           \A s \in Streams : /\ importer'[s].at \in {"begin", "read", "eof"} => importer'[s].n = EntriesEach
                              /\ importer'[s].at = "off" => importer'[s] = NoImport
                              /\ importer'[s] # NoImport => s \in bk'.open \/ (bk'.at = "await" /\ s = bk'.on)
                              /\ importer'[s].at = "eof" => bk'.at = "await" /\ s = bk'.on,
           \A t \in TenantSet : importer'[t].at = "send" /\ ~importer'[t].failed => volumes'[t].snap = "whole",
           bk'.at # "abort" /\ ~bk'.failed => \A t \in TenantSet : t \in bk'.open
             \/ (bk'.at = "await" /\ t = bk'.on) \/ volumes'[t].snap = "whole",
           bk'.at = "push" => bk'.on \in TenantSet,
           bk'.at = "await" => bk'.on \in Streams,
           bk'.at \in {"await", "push"} => bk'.on \notin bk'.open
    PROVE  BkInv'
  <1>1. Dealt'
    BY DEF Dealt
  <1>2. Restored'
    BY DEF Restored
  <1>3. bk'.at \in RestorePlaces /\ bk'.at \in DealPlaces \cup {"abort"}
    BY DEF RestorePlaces, DealPlaces
  <1>4. QED
    BY <1>1, <1>2, <1>3, RestoreStepKeeps, CloseFacts

\* A stream is closed.
LEMMA CloseStreamKeeps ==
    ASSUME BkInv, NEW s \in Streams, CloseStream(s)
    PROVE  BkInv'
  <1>1. bk.at = "close" /\ s \in bk.open /\ importer[s].at \in {"read", "send"}
          /\ UNCHANGED <<archive, exporter, volumes>>
    BY DEF CloseStream
  <1>2. PICK a \in {"eof", "send"} : a = IF importer[s].at = "read" THEN "eof" ELSE "send"
    OBVIOUS
  <1>3. importer[s] \in ImportRecords
    BY RestoreTyped
  <1>4. PICK v \in ImportRecords : v = [importer[s] EXCEPT !.at = a] /\ v.at = a /\ v.n = importer[s].n
          /\ v.failed = importer[s].failed
    <2>1. a \in {"read", "send", "eof"}
      OBVIOUS
    <2>2. /\ [importer[s] EXCEPT !.at = a] \in ImportRecords /\ [importer[s] EXCEPT !.at = a].at = a
          /\ [importer[s] EXCEPT !.at = a].n = importer[s].n
               /\ [importer[s] EXCEPT !.at = a].failed = importer[s].failed
      BY <1>3, <2>1, ImporterAt
    <2>3. QED
      BY <2>2
  <1>5. importer' = [importer EXCEPT ![s] = v]
    BY <1>1, <1>2, <1>4 DEF CloseStream
  <1>6. importer' \in [Streams -> ImportRecords] /\ importer'[s] = v
          /\ \A q \in Streams \ {s} : importer'[q] = importer[q]
    BY <1>5, OneImporter, RestoreTyped
  <1>7. bk' = [kind |-> bk.kind, at |-> "await", i |-> bk.i, failed |-> bk.failed, open |-> bk.open \ {s}, on |-> s]
    BY RestoreTyped DEF CloseStream, BkRecord
  <1>8. BkRecord(bk') /\ bk'.kind = "restore" /\ bk'.at = "await" /\ bk'.open = bk.open \ {s} /\ bk'.on = s
          /\ bk'.failed = bk.failed
    <2>1. BkRecord(bk) /\ bk.kind = "restore"
      BY <1>1, RestoreTyped, CloseFacts
    <2>2. QED
      BY <1>7, <2>1 DEF BkRecord
  <1>9. \A q \in Streams : /\ importer'[q].at \in {"begin", "read", "eof"} => importer'[q].n = EntriesEach
                           /\ importer'[q].at = "off" => importer'[q] = NoImport
                           /\ importer'[q] # NoImport => q \in bk'.open \/ (bk'.at = "await" /\ q = bk'.on)
                           /\ importer'[q].at = "eof" => bk'.at = "await" /\ q = bk'.on
    <2>1. TAKE q \in Streams
    <2>2. CASE q = s
      BY <1>1, <1>2, <1>4, <1>6, <1>8, <2>2, CloseFacts
    <2>3. CASE q # s
      <3>1. importer'[q] = importer[q] /\ bk.at # "await"
        BY <1>1, <1>6, <2>3
      <3>2. QED
        BY <1>1, <1>8, <2>3, <3>1, CloseFacts
    <2>4. QED
      BY <2>2, <2>3
  <1>10. \A t \in TenantSet : importer'[t].at = "send" /\ ~importer'[t].failed => volumes'[t].snap = "whole"
    <2>1. TAKE t \in TenantSet
    <2>2. CASE t = s
      BY <1>1, <1>2, <1>4, <1>6, <2>2, CloseFacts
    <2>3. CASE t # s
      BY <1>1, <1>6, <2>3, CloseFacts, RestoreTyped
    <2>4. QED
      BY <2>2, <2>3
  <1>11. ~bk'.failed => \A t \in TenantSet : t \in bk'.open \/ (bk'.at = "await" /\ t = bk'.on)
           \/ volumes'[t].snap = "whole"
    BY <1>1, <1>8, CloseFacts
  <1>12. QED
    BY <1>1, <1>6, <1>8, <1>9, <1>10, <1>11, CloseGoes, RestoreTyped

\* The error of its importer decides.
LEMMA AwaitStreamKeeps ==
    ASSUME BkInv, NEW s \in Streams, AwaitStream(s)
    PROVE  BkInv'
  <1>1. bk.at = "await" /\ s = bk.on /\ importer[s].at = "send" /\ UNCHANGED <<archive, exporter, volumes>>
        /\ importer' = [importer EXCEPT ![s] = NoImport]
    BY DEF AwaitStream
  <1>2. importer' \in [Streams -> ImportRecords] /\ importer'[s] = NoImport
          /\ \A q \in Streams \ {s} : importer'[q] = importer[q]
    BY <1>1, OneImporter, ImportRecordFacts, RestoreTyped
  <1>3. PICK a \in {"abort", "push", "close"} :
           /\ a = CASE importer[s].failed /\ s = "images" -> "abort"
                    [] ~importer[s].failed /\ s # "images" -> "push"
                    [] OTHER -> "close"
           /\ a = "push" => s # "images"
           /\ a = "close" => importer[s].failed \/ s = "images"
    <2>1. CASE importer[s].failed /\ s = "images"
      BY <2>1
    <2>2. CASE ~importer[s].failed /\ s # "images"
      BY <2>2
    <2>3. CASE ~(importer[s].failed /\ s = "images") /\ ~(~importer[s].failed /\ s # "images")
      BY <2>3
    <2>4. QED
      BY <2>1, <2>2, <2>3
  <1>4. PICK f \in BOOLEAN : f = (bk.failed \/ importer[s].failed)
    OBVIOUS
  <1>5. bk' = [kind |-> bk.kind, at |-> a, i |-> bk.i, failed |-> f, open |-> bk.open, on |-> bk.on]
    BY <1>3, <1>4, RestoreTyped DEF AwaitStream, BkRecord
  <1>6. BkRecord(bk') /\ bk'.kind = "restore" /\ bk'.at = a /\ bk'.open = bk.open /\ bk'.on = s
          /\ bk'.failed = f
    <2>1. BkRecord(bk) /\ bk.kind = "restore"
      BY <1>1, RestoreTyped, CloseFacts
    <2>2. QED
      BY <1>1, <1>5, <2>1 DEF BkRecord
  <1>7. \A q \in Streams : /\ importer'[q].at \in {"begin", "read", "eof"} => importer'[q].n = EntriesEach
                           /\ importer'[q].at = "off" => importer'[q] = NoImport
                           /\ importer'[q] # NoImport => q \in bk'.open \/ (bk'.at = "await" /\ q = bk'.on)
                           /\ importer'[q].at = "eof" => bk'.at = "await" /\ q = bk'.on
    <2>1. TAKE q \in Streams
    <2>2. CASE q = s
      BY <1>2, <2>2, ImportRecordFacts
    <2>3. CASE q # s
      BY <1>1, <1>2, <1>6, <2>3, CloseFacts
    <2>4. QED
      BY <2>2, <2>3
  <1>8. \A t \in TenantSet : importer'[t].at = "send" /\ ~importer'[t].failed => volumes'[t].snap = "whole"
    <2>1. TAKE t \in TenantSet
    <2>2. CASE t = s
      BY <1>2, <2>2, ImportRecordFacts
    <2>3. CASE t # s
      BY <1>1, <1>2, <2>3, CloseFacts, RestoreTyped
    <2>4. QED
      BY <2>2, <2>3
  <1>9. bk'.at # "abort" /\ ~bk'.failed => \A t \in TenantSet : t \in bk'.open \/ volumes'[t].snap = "whole"
    <2>1. SUFFICES ASSUME ~bk'.failed, NEW t \in TenantSet, t \notin bk'.open PROVE volumes'[t].snap = "whole"
      BY <1>3
    <2>2. ~bk.failed /\ ~importer[s].failed
      BY <1>4, <1>6, <2>1
    <2>3. t = s \/ volumes[t].snap = "whole"
      BY <1>1, <1>6, <2>1, <2>2, CloseFacts
    <2>4. t = s => volumes[t].snap = "whole"
      BY <1>1, <2>2, CloseFacts
    <2>5. QED
      BY <1>1, <2>3, <2>4
  <1>10. (bk'.at = "push" => bk'.on \in TenantSet) /\ bk'.at # "await" /\ bk'.on \notin bk'.open
    BY <1>1, <1>3, <1>6, CloseFacts, RestoreTyped
  <1>11. QED
    BY <1>1, <1>2, <1>6, <1>7, <1>8, <1>9, <1>10, CloseGoes, RestoreTyped

\* The images of a snapshot go to the registry.
LEMMA LoadSnapshotImagesKeeps ==
    ASSUME BkInv, LoadSnapshotImages
    PROVE  BkInv'
  <1>1. bk.at = "push" /\ UNCHANGED <<archive, exporter, importer>> /\ bk.on \in TenantSet
          /\ bk.on \notin bk.open
    BY CloseFacts DEF LoadSnapshotImages
  <1>2. importer[bk.on] = NoImport /\ importer[bk.on].at = "off"
    BY <1>1, CloseFacts, ImportRecordFacts, RestoreTyped
  <1>3. ASSUME BkAt("close"), UNCHANGED volumes PROVE BkInv'
    <2>1. BkRecord(bk') /\ bk'.kind = "restore" /\ bk'.at = "close" /\ bk'.open = bk.open
            /\ bk'.failed = bk.failed
      BY <1>1, <1>3, CloseFacts, RestoreTyped DEF BkAt, BkRecord
    <2>2. QED
      BY <1>1, <1>3, <2>1, CloseFacts, CloseGoes, RestoreTyped
  <1>4. ASSUME bk' = [bk EXCEPT !.at = "close", !.failed = TRUE],
               UNCHANGED volumes
                 \/ volumes' = [volumes EXCEPT ![bk.on] = [volumes[bk.on] EXCEPT !.snap = "none"]]
        PROVE  BkInv'
    <2>1. BkRecord(bk') /\ bk'.kind = "restore" /\ bk'.at = "close" /\ bk'.open = bk.open /\ bk'.failed = TRUE
      BY <1>1, <1>4, CloseFacts, RestoreTyped DEF BkRecord
    <2>2. volumes' \in [TenantSet -> VolumeRecords] /\ \A q \in TenantSet \ {bk.on} : volumes'[q] = volumes[q]
      BY <1>1, <1>4, OneVolume, VolumeRecordFacts, RestoreTyped
    <2>3. \A t \in TenantSet : importer'[t].at = "send" /\ ~importer'[t].failed => volumes'[t].snap = "whole"
      BY <1>1, <1>2, <2>2, CloseFacts
    <2>4. QED
      BY <1>1, <2>1, <2>2, <2>3, CloseFacts, CloseGoes, RestoreTyped
  <1>5. QED
    BY <1>3, <1>4 DEF LoadSnapshotImages

\* The streams that are left are closed one after another.
LEMMA AbortStreamsKeeps ==
    ASSUME BkInv, AbortStreams
    PROVE  BkInv'
  <1>1. bk.at = "abort" /\ UNCHANGED exporter /\ bk.at \in RestorePlaces /\ exporter = NoExport
    BY RestoreHolds DEF AbortStreams, RestorePlaces
  <1>2. \A s \in Streams : (importer[s].at = "off" => importer[s] = NoImport)
          /\ (importer[s] # NoImport => s \in bk.open) /\ importer[s].at # "eof"
    BY <1>1 DEF BkInv, Goroutines
  <1>3. ASSUME \A s \in bk.open : importer[s].at = "off", Finish(TRUE), UNCHANGED <<importer, volumes>>
        PROVE BkInv'
    <2>1. \A s \in Streams : importer[s] = NoImport
      BY <1>2, <1>3
    <2>2. QED
      BY <1>1, <1>3, <2>1, FinishOver, NothingRuns
  <1>4. ASSUME NEW s \in bk.open, importer[s].at = "read", UNCHANGED <<bk, archive>>,
               importer' = [importer EXCEPT ![s] = [importer[s] EXCEPT !.at = "send", !.failed = TRUE]],
               volumes' = IF s = "images" THEN volumes ELSE [volumes EXCEPT ![s] = RemoveNew(volumes[s])]
        PROVE  BkInv'
    <2>1. s \in Streams
      BY RestoreTyped DEF BkRecord
    <2>2. QED
      BY <1>1, <1>4, <2>1, ImportFailsKeeps
  <1>5. ASSUME NEW s \in bk.open, importer[s].at = "send", UNCHANGED <<bk, archive, volumes>>,
               importer' = [importer EXCEPT ![s] = NoImport]
        PROVE  BkInv'
    <2>1. s \in Streams
      BY RestoreTyped DEF BkRecord
    <2>2. importer' \in [Streams -> ImportRecords] /\ importer'[s] = NoImport
            /\ \A q \in Streams \ {s} : importer'[q] = importer[q]
      BY <1>5, <2>1, OneImporter, ImportRecordFacts, RestoreTyped
    <2>3. Dealt'
      BY <1>1, <1>5 DEF Dealt
    <2>4. Restored'
      <3>1. \A t \in TenantSet : importer'[t].at = "send" => importer'[t] = importer[t]
        <4>1. NoImport.at = "off"
          BY ImportRecordFacts
        <4>2. TenantSet \subseteq Streams
          BY RestoreTyped
        <4>3. QED
          BY <2>2, <4>1, <4>2
      <3>2. QED
        BY <1>1, <1>5, <3>1 DEF BkInv, Restored
    <2>5. \A q \in Streams : (importer'[q].at = "off" => importer'[q] = NoImport)
            /\ (importer'[q] # NoImport => q \in bk'.open) /\ importer'[q].at # "eof"
      BY <1>2, <1>5, <2>2, ImportRecordFacts
    <2>6. QED
      BY <1>1, <1>5, <2>2, <2>3, <2>4, <2>5, RestoreStepKeeps, RestoreTyped, RestoreHolds
  <1>6. QED
    BY <1>3, <1>4, <1>5 DEF AbortStreams

\* Every step keeps the invariant.
LEMMA BkStep ==
    ASSUME BkInv, [bkNext]_bkVars
    PROVE  BkInv'
  <1>1. ASSUME NEW kind \in {"backup", "restore"}, NEW async \in BOOLEAN, Request(kind, async) PROVE BkInv'
    BY <1>1, BkStays DEF Request
  <1>2. ASSUME NEW kind \in {"backup", "restore"}, ResetAsync(kind) PROVE BkInv'
    BY <1>2, BkStays DEF ResetAsync
  <1>3. ASSUME NEW kind \in {"backup", "restore"}, LockFor(kind) PROVE BkInv'
    BY <1>3, LockForKeeps
  <1>4. ASSUME StatusReads \/ StatusResets PROVE BkInv'
    BY <1>4, BkStays DEF StatusReads, StatusResets
  <1>5. ASSUME BackupStep PROVE BkInv'
    BY <1>5, EstimateKeeps, CreateFileKeeps, CollectKeeps, NextExportKeeps, CopyEntryKeeps, CopyEndsKeeps,
       TakeExportErrorKeeps DEF BackupStep
  <1>6. ASSUME ExportEnds \/ CopyFails PROVE BkInv'
    BY <1>6, ExportEndsKeeps, CopyFailsKeeps
  <1>7. ASSUME RestoreStep PROVE BkInv'
    <2>1. ASSUME NEW s \in Streams, CloseStream(s) \/ AwaitStream(s) PROVE BkInv'
      BY <2>1, CloseStreamKeeps, AwaitStreamKeeps
    <2>2. QED
      BY <1>7, <2>1, OpenArchiveKeeps, RestoreV0EntryKeeps, ReadHeaderKeeps, ReadEndKeeps, PassEntryKeeps,
         LoadSnapshotImagesKeeps,
         StreamsClosedKeeps, AbortStreamsKeeps, RestoreTemplatesKeeps, RollbackTenantKeeps, RestoreFinishesKeeps DEF RestoreStep
  <1>8. ASSUME ReadFails PROVE BkInv'
    BY <1>8, ReadFailsKeeps
  <1>9. ASSUME NEW s \in Streams, ImportBegins(s) \/ ImportEnds(s) PROVE BkInv'
    BY <1>9, ImportBeginsKeeps, ImportEndsKeeps
  <1>10. ASSUME NEW s \in Streams, ImportFails(s) PROVE BkInv'
    BY <1>10, ImportFailsKeeps DEF ImportFails
  <1>11. ASSUME NEW t \in TenantSet, TenantChanges(t) PROVE BkInv'
    BY <1>11, TenantChangesKeeps
  <1>12. ASSUME BkCrash PROVE BkInv'
    BY <1>12, BkCrashKeeps
  <1>13. ASSUME UNCHANGED bkVars PROVE BkInv'
    BY <1>13, BkStays DEF bkVars
  <1>14. QED
    BY <1>1, <1>2, <1>3, <1>4, <1>5, <1>6, <1>7, <1>8, <1>9, <1>10, <1>11, <1>12, <1>13 DEF bkNext, ImportStep

\* Whatever breaks off or dies: no goroutine of a backup or restore outlives it, an archive that was
\* closed is whole, only whole snapshots are listed, and a restore that reports success has rolled
\* every tenant back to one (dfs.Backup, dfs.Restore, Facade.Restore).
THEOREM BackupsStaySound == bkSpec => []BackupsSound
  <1>1. bkInit => BkInv
    BY BkInitHolds
  <1>2. BkInv /\ [bkNext]_bkVars => BkInv'
    BY BkStep
  <1>3. BkInv => BackupsSound
    BY BkInvIsSound
  <1>4. QED
    BY <1>1, <1>2, <1>3, PTL DEF bkSpec
=============================================================================
