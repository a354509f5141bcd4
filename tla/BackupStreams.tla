--------------------------- MODULE BackupStreams ---------------------------
(***************************************************************************)
(* Backup and restore of the tenants (dao/elasticsearch/filesystem.go,     *)
(* facade/dfs.go, dfs/backup.go, dfs/restore.go).                          *)
(*                                                                         *)
(* A backup copies one export after another into the archive: a goroutine  *)
(* writes the export into a pipe, the operation reads the pipe, and at the *)
(* end takes the goroutine's error from a channel.  A restore reads the    *)
(* archive once and deals its entries out to one importing goroutine for   *)
(* each tenant and one for the images, each behind a pipe of its own.  A   *)
(* pipe has no buffer: a write waits for the read, or for its end.         *)
(*                                                                         *)
(* A snapshot or the images are a few entries; what an import has received *)
(* is their number.  The operations hold the lock of the file system.      *)
(***************************************************************************)
EXTENDS Integers, FiniteSets, Sequences

CONSTANTS
    Tenants,         \* the tenants, in the order of the archive
    EntriesEach,     \* the number of entries of a snapshot and of the images
    MaxBackupOps,    \* bound on the requests
    MaxBackupFaults  \* bound on failing calls and crashes of the master

TenantSet == {Tenants[i] : i \in DOMAIN Tenants}

ASSUME BackupAssumption ==
    /\ Tenants \in Seq(TenantSet) /\ "images" \notin TenantSet
    /\ \A i, j \in DOMAIN Tenants : Tenants[i] = Tenants[j] => i = j
    /\ EntriesEach \in Nat \ {0} /\ {MaxBackupOps, MaxBackupFaults} \subseteq Nat

VARIABLES
    bk,        \* the operation that holds the lock: its kind and where it is
    waiting,   \* the requests that wait for the lock, [kind, async]
    progress,  \* the InProgress record: running, op, err
    bkAsked,     \* BackupStatus has read the record, and what it saw
    archive,   \* the file: the entries, and whether the tar was closed
    exporter,  \* the goroutine of savePipe
    importer,  \* stream -> the goroutine of loadPipe
    volumes,   \* tenant -> what is live, and the snapshot of the archive
    bkLeft     \* requests and faults that may still happen

bkVars == <<bk, waiting, progress, bkAsked, archive, exporter, importer, volumes, bkLeft>>

Streams == TenantSet \cup {"images"}
NoBk == [kind |-> "none", at |-> "off", i |-> 0, failed |-> FALSE, open |-> {}, on |-> "none"]
NoExport == [at |-> "off", of |-> "none", n |-> 0, failed |-> FALSE]
NoImport == [at |-> "off", n |-> 0, failed |-> FALSE]
NoFile == [entries |-> <<>>, closed |-> FALSE, version |-> 1, exists |-> FALSE]
NoStatus == [running |-> FALSE, op |-> "none", failed |-> FALSE]

\* The exports of a backup in their order: the snapshots, then the images.
Exports == Append(Tenants, "images")

\* An archive that an older release wrote: a snapshot is one entry in it.
OldArchive == [entries |-> Exports, closed |-> TRUE, version |-> 0, exists |-> TRUE]

bkInit ==
    /\ bk = NoBk /\ waiting = {} /\ progress = NoStatus /\ bkAsked = "no"
    /\ archive \in {NoFile, OldArchive}
    /\ exporter = NoExport /\ importer = [s \in Streams |-> NoImport]
    /\ volumes = [t \in TenantSet |-> [live |-> "old", snap |-> "none"]]
    /\ bkLeft = [ops |-> MaxBackupOps, faults |-> MaxBackupFaults]

BkAt(at) == bk' = [bk EXCEPT !.at = at]
BkSpend == bkLeft.faults > 0 /\ bkLeft' = [bkLeft EXCEPT !.faults = @ - 1]
SetProgress(op) == progress' = [progress EXCEPT !.running = TRUE, !.op = op]
SetError(failed) == progress' = [progress EXCEPT !.running = FALSE, !.failed = failed]
-----------------------------------------------------------------------------
(* Requests and the status                                                 *)

\* Backup and Restore, AsyncBackup and AsyncRestore.
Request(kind, async) ==
    /\ bkLeft.ops > 0 /\ [kind |-> kind, async |-> async] \notin waiting
    /\ kind = "restore" => archive.exists
    /\ waiting' = waiting \cup {[kind |-> kind, async |-> async]}
    /\ bkLeft' = [bkLeft EXCEPT !.ops = @ - 1]
    /\ UNCHANGED <<bk, progress, bkAsked, archive, exporter, importer, volumes>>

\* The asynchronous calls take the lock to reset the progress, give it back, and leave
\* the rest to a goroutine that has to wait for the lock again.
ResetAsync(kind) ==
    /\ bk = NoBk /\ [kind |-> kind, async |-> TRUE] \in waiting
    /\ waiting' = (waiting \ {[kind |-> kind, async |-> TRUE]}) \cup {[kind |-> kind, async |-> FALSE]}
    /\ progress' = NoStatus
    /\ UNCHANGED <<bk, bkAsked, archive, exporter, importer, volumes, bkLeft>>

LockFor(kind) ==
    /\ bk = NoBk /\ [kind |-> kind, async |-> FALSE] \in waiting
    /\ waiting' = waiting \ {[kind |-> kind, async |-> FALSE]}
    /\ bk' = [NoBk EXCEPT !.kind = kind, !.at = IF kind = "backup" THEN "estimate" ELSE "open"]
    /\ (IF kind = "restore" THEN SetProgress("restore") ELSE UNCHANGED progress)
    /\ UNCHANGED <<bkAsked, archive, exporter, importer, volumes, bkLeft>>

\* BackupStatus reads the record, and resets it when it saw neither a running operation
\* nor an error; the two are not one step.
StatusReads ==
    /\ bkAsked = "no" /\ bkLeft.ops > 0
    /\ bkAsked' = IF progress.running \/ progress.failed THEN "no" ELSE "idle"
    /\ bkLeft' = [bkLeft EXCEPT !.ops = @ - 1]
    /\ UNCHANGED <<bk, waiting, progress, archive, exporter, importer, volumes>>
StatusResets ==
    /\ bkAsked = "idle" /\ bkAsked' = "no" /\ progress' = NoStatus
    /\ UNCHANGED <<bk, waiting, archive, exporter, importer, volumes, bkLeft>>

\* The deferred functions of Backup and Restore: a failed backup loses its file, the
\* progress gets the error, the lock is given back.
Finish(failed) ==
    /\ bk' = NoBk
    /\ SetError(failed)
    /\ archive' = IF bk.kind = "backup" /\ failed THEN NoFile ELSE archive
-----------------------------------------------------------------------------
(* The backup                                                              *)

\* The estimate fails or asks for too much space: no file, and the progress is not touched.
Estimate ==
    /\ bk.at = "estimate"
    /\ \/ BkSpend /\ bk' = NoBk
       \/ BkAt("create") /\ UNCHANGED bkLeft
    /\ UNCHANGED <<waiting, progress, bkAsked, archive, exporter, importer, volumes>>

\* The file is created and the metadata written; the templates, pools, snapshots and
\* base images are collected, any of which may fail.
CreateFile ==
    /\ bk.at = "create"
    /\ SetProgress("backup") /\ BkAt("collect")
    /\ archive' = [NoFile EXCEPT !.exists = TRUE]
    /\ UNCHANGED <<waiting, bkAsked, exporter, importer, volumes, bkLeft>>

Collect ==
    /\ bk.at = "collect"
    /\ \/ BkSpend /\ Finish(TRUE)
       \/ bk' = [bk EXCEPT !.at = "next", !.i = 1] /\ UNCHANGED <<archive, progress, bkLeft>>
    /\ UNCHANGED <<waiting, bkAsked, exporter, importer, volumes>>

\* snapshotSavePipe or dockerSavePipe for the next export; without one the tar is closed.
\* The images of the tenant are pulled from the registry first, which may fail.
NextExport ==
    /\ bk.at = "next"
    /\ \/ /\ bk.i > Len(Exports) /\ bk' = NoBk /\ SetError(FALSE)
          /\ archive' = [archive EXCEPT !.closed = TRUE]
          /\ UNCHANGED <<exporter, bkLeft>>
       \/ /\ bk.i <= Len(Exports) /\ BkAt("copy")
          /\ exporter' = [at |-> "write", of |-> Exports[bk.i], n |-> 0, failed |-> FALSE]
          /\ UNCHANGED <<progress, archive, bkLeft>>
       \/ bk.i < Len(Exports) /\ BkSpend /\ Finish(TRUE) /\ UNCHANGED exporter
    /\ UNCHANGED <<waiting, bkAsked, importer, volumes>>

\* rewriteTar: an entry that the goroutine writes into the pipe goes into the archive.
CopyEntry ==
    /\ bk.at = "copy" /\ exporter.at = "write" /\ exporter.n < EntriesEach
    /\ exporter' = [exporter EXCEPT !.n = @ + 1]
    /\ archive' = [archive EXCEPT !.entries = Append(@, exporter.of)]
    /\ UNCHANGED <<bk, waiting, progress, bkAsked, importer, volumes, bkLeft>>

\* The export is complete or breaks off; either way the pipe is closed without an error,
\* and the error goes to the channel.
ExportEnds ==
    /\ exporter.at = "write"
    /\ \/ exporter.n = EntriesEach /\ exporter' = [exporter EXCEPT !.at = "send"] /\ UNCHANGED bkLeft
       \/ exporter.n < EntriesEach /\ BkSpend /\ exporter' = [exporter EXCEPT !.at = "send", !.failed = TRUE]
    /\ UNCHANGED <<bk, waiting, progress, bkAsked, archive, importer, volumes>>

\* Mutant: the reader of the pipe stays open.
CopyFailsReaderOpen ==
    /\ bk.at = "copy" /\ exporter.at = "write" /\ BkSpend
    /\ bk' = [bk EXCEPT !.at = "drain", !.failed = TRUE]
    /\ UNCHANGED <<waiting, progress, bkAsked, archive, exporter, importer, volumes>>

\* The write into the archive fails: rewriteTar closes the reader, so that the
\* goroutine's write fails too.
CopyFails ==
    /\ bk.at = "copy" /\ exporter.at = "write" /\ BkSpend
    /\ exporter' = [exporter EXCEPT !.at = "send", !.failed = TRUE]
    /\ bk' = [bk EXCEPT !.at = "drain", !.failed = TRUE]
    /\ UNCHANGED <<waiting, progress, bkAsked, archive, importer, volumes>>

\* rewriteTar has seen the end of the export.
CopyEnds ==
    /\ bk.at = "copy" /\ exporter.at = "send" /\ BkAt("drain")
    /\ UNCHANGED <<waiting, progress, bkAsked, archive, exporter, importer, volumes, bkLeft>>

\* Mutant: the end of the stream is taken for the end of the export.
TakeNoError ==
    /\ bk.at = "drain" /\ exporter.at = "send"
    /\ exporter' = NoExport
    /\ IF bk.failed THEN Finish(TRUE)
                    ELSE bk' = [bk EXCEPT !.at = "next", !.i = @ + 1] /\ UNCHANGED <<progress, archive>>
    /\ UNCHANGED <<waiting, bkAsked, importer, volumes, bkLeft>>

\* The receive from the channel.
TakeExportError ==
    /\ bk.at = "drain" /\ exporter.at = "send"
    /\ exporter' = NoExport
    /\ IF bk.failed \/ exporter.failed
         THEN Finish(TRUE)
         ELSE bk' = [bk EXCEPT !.at = "next", !.i = @ + 1] /\ UNCHANGED <<progress, archive>>
    /\ UNCHANGED <<waiting, bkAsked, importer, volumes, bkLeft>>
-----------------------------------------------------------------------------
(* The restore                                                             *)

\* ExtractBackupInfo and the choice of the version.
OpenArchive ==
    /\ bk.at = "open"
    /\ \/ /\ archive.exists /\ archive.entries # <<>>
          /\ bk' = [bk EXCEPT !.at = IF archive.version = 0 THEN "read0" ELSE "read", !.i = 1]
          /\ UNCHANGED <<archive, progress, bkLeft>>
       \/ archive.entries = <<>> /\ Finish(TRUE) /\ UNCHANGED bkLeft
       \/ BkSpend /\ Finish(TRUE)
    /\ UNCHANGED <<waiting, bkAsked, exporter, importer, volumes>>

\* restoreSnapshot begins: a tenant without a volume gets one.
CreateVolume(v) == IF v.live = "none" THEN [v EXCEPT !.live = "empty"] ELSE v

\* An import that fails takes the volume with it if it has made it.
RemoveNew(v) == IF v.live = "empty" /\ v.snap = "none" THEN [v EXCEPT !.live = "none"] ELSE v

\* restoreV0: each entry is handed to its import in place, after all of them the images
\* of the snapshots go to the registry.
RestoreV0Entry ==
    /\ bk.at = "read0"
    /\ IF bk.i > Len(archive.entries)
         THEN BkAt("templates") /\ UNCHANGED <<volumes, progress, bkLeft, archive>>
         ELSE LET s == archive.entries[bk.i] IN
              \/ /\ bk' = [bk EXCEPT !.i = @ + 1]
                 /\ volumes' = IF s = "images" THEN volumes
                               ELSE [volumes EXCEPT ![s] = [live |-> CreateVolume(@).live, snap |-> "whole"]]
                 /\ UNCHANGED <<progress, bkLeft, archive>>
              \/ /\ BkSpend /\ Finish(TRUE)
                 /\ volumes' = IF s = "images" THEN volumes
                               ELSE [volumes EXCEPT ![s] = RemoveNew(CreateVolume(@))]
    /\ UNCHANGED <<waiting, bkAsked, exporter, importer>>

\* restoreV1 reads the header of an entry; the first of a stream starts its importer.
ReadHeader ==
    /\ bk.at = "read" /\ bk.i <= Len(archive.entries)
    /\ LET s == archive.entries[bk.i] IN
         /\ bk' = [bk EXCEPT !.at = "pass", !.open = @ \cup {s}]
         /\ importer' = IF s \in bk.open THEN importer
                        ELSE [importer EXCEPT ![s] = [NoImport EXCEPT !.at = "begin"]]
    /\ UNCHANGED <<waiting, progress, bkAsked, archive, exporter, volumes, bkLeft>>

\* The end of the archive; one that was cut off ends with an error of the decompression.
ReadEnd ==
    /\ bk.at = "read" /\ bk.i > Len(archive.entries)
    /\ bk' = IF archive.closed THEN [bk EXCEPT !.at = "close"]
             ELSE [bk EXCEPT !.at = "abort", !.failed = TRUE]
    /\ UNCHANGED <<waiting, progress, bkAsked, archive, exporter, importer, volumes, bkLeft>>

ReadFails ==
    /\ bk.at = "read" /\ BkSpend
    /\ bk' = [bk EXCEPT !.at = "abort", !.failed = TRUE]
    /\ UNCHANGED <<waiting, progress, bkAsked, archive, exporter, importer, volumes>>

\* The goroutine of loadPipe begins.  Import of a snapshot that exists returns at once.
ImportBegins(s) ==
    /\ importer[s].at = "begin"
    /\ IF s = "images"
         THEN importer' = [importer EXCEPT ![s].at = "read"] /\ UNCHANGED volumes
         ELSE /\ volumes' = [volumes EXCEPT ![s] = CreateVolume(@)]
              /\ importer' = [importer EXCEPT ![s].at = IF volumes[s].snap = "whole" THEN "send" ELSE "read"]
    /\ UNCHANGED <<bk, waiting, progress, bkAsked, archive, exporter, bkLeft>>

\* The write of the entry meets the importer's read, or the pipe that it has closed: a
\* closed pipe is skipped for a snapshot, whose import was not needed, and ends the
\* restore for the images or when the import has failed.
PassEntry ==
    /\ bk.at = "pass"
    /\ LET s == archive.entries[bk.i] IN
         \/ /\ importer[s].at = "read"
            /\ importer' = [importer EXCEPT ![s].n = @ + 1]
            /\ bk' = [bk EXCEPT !.at = "read", !.i = @ + 1]
         \/ /\ importer[s].at = "send" /\ UNCHANGED importer
            /\ bk' = IF importer[s].failed \/ s = "images"
                     THEN [bk EXCEPT !.at = "abort", !.failed = TRUE]
                     ELSE [bk EXCEPT !.at = "read", !.i = @ + 1]
    /\ UNCHANGED <<waiting, progress, bkAsked, archive, exporter, volumes, bkLeft>>

\* The import breaks off: a volume that it has made goes.
ImportFails(s) ==
    /\ importer[s].at \in {"begin", "read", "eof"} /\ BkSpend
    /\ importer' = [importer EXCEPT ![s] = [@ EXCEPT !.at = "send", !.failed = TRUE]]
    /\ volumes' = IF s = "images" THEN volumes ELSE [volumes EXCEPT ![s] = RemoveNew(@)]
    /\ UNCHANGED <<bk, waiting, progress, bkAsked, archive, exporter>>

\* It has seen the end of its pipe: the snapshot is listed.
ImportEnds(s) ==
    /\ importer[s].at = "eof"
    /\ importer' = [importer EXCEPT ![s].at = "send"]
    /\ volumes' = IF s = "images" THEN volumes
                  ELSE [volumes EXCEPT ![s].snap = IF importer[s].n = EntriesEach THEN "whole" ELSE "part"]
    /\ UNCHANGED <<bk, waiting, progress, bkAsked, archive, exporter, bkLeft>>

\* A stream of the map is closed, the images first; the operation waits for its error.
CloseStream(s) ==
    /\ bk.at = "close" /\ s \in bk.open /\ (s # "images" => "images" \notin bk.open)
    /\ importer[s].at \in {"read", "send"}
    /\ importer' = [importer EXCEPT ![s].at = IF @ = "read" THEN "eof" ELSE @]
    /\ bk' = [bk EXCEPT !.at = "await", !.open = @ \ {s}, !.on = s]
    /\ UNCHANGED <<waiting, progress, bkAsked, archive, exporter, volumes, bkLeft>>

\* The images must load; a snapshot that does not is remembered and the others go on.
AwaitStream(s) ==
    /\ bk.at = "await" /\ s = bk.on /\ importer[s].at = "send"
    /\ importer' = [importer EXCEPT ![s] = NoImport]
    /\ bk' = [bk EXCEPT !.failed = @ \/ importer[s].failed,
                       !.at = CASE importer[s].failed /\ s = "images" -> "abort"
                                [] ~importer[s].failed /\ s # "images" -> "push"
                                [] OTHER -> "close"]
    /\ UNCHANGED <<waiting, progress, bkAsked, archive, exporter, volumes, bkLeft>>

\* loadSnapshotImages: the images that the snapshot names go into the registry.  A snapshot
\* whose list of images cannot be read is removed again.
LoadSnapshotImages ==
    /\ bk.at = "push"
    /\ \/ BkAt("close") /\ UNCHANGED <<volumes, bkLeft>>
       \/ /\ BkSpend /\ bk' = [bk EXCEPT !.at = "close", !.failed = TRUE]
          /\ (UNCHANGED volumes \/ volumes' = [volumes EXCEPT ![bk.on].snap = "none"])
    /\ UNCHANGED <<waiting, progress, bkAsked, archive, exporter, importer>>

StreamsClosed ==
    /\ bk.at = "close" /\ bk.open = {}
    /\ IF bk.failed THEN Finish(TRUE)
                    ELSE BkAt("templates") /\ UNCHANGED <<archive, progress>>
    /\ UNCHANGED <<waiting, bkAsked, exporter, importer, volumes, bkLeft>>

\* The deferred function of restoreV1: each stream that is left gets the error, and its
\* goroutine is waited for.
AbortStreams ==
    /\ bk.at = "abort"
    /\ IF \A s \in bk.open : importer[s].at = "off"
         THEN Finish(TRUE) /\ UNCHANGED <<importer, volumes>>
         ELSE /\ \E s \in bk.open :
                   \/ /\ importer[s].at = "read"
                      /\ importer' = [importer EXCEPT ![s] = [@ EXCEPT !.at = "send", !.failed = TRUE]]
                      /\ volumes' = IF s = "images" THEN volumes ELSE [volumes EXCEPT ![s] = RemoveNew(@)]
                   \/ importer[s].at = "send" /\ importer' = [importer EXCEPT ![s] = NoImport] /\ UNCHANGED volumes
              /\ UNCHANGED <<bk, progress, archive>>
    /\ UNCHANGED <<waiting, bkAsked, exporter, bkLeft>>

\* Facade.Restore: the templates and the pools, then each snapshot of the backup is rolled
\* back to and deleted, or at least untagged.  The first error ends it.
RestoreTemplates ==
    /\ bk.at = "templates"
    /\ \/ bk' = [bk EXCEPT !.at = "rollback", !.i = 1] /\ UNCHANGED <<archive, progress, bkLeft>>
       \/ BkSpend /\ Finish(TRUE)
    /\ UNCHANGED <<waiting, bkAsked, exporter, importer, volumes>>

RollbackTenant ==
    /\ bk.at = "rollback" /\ bk.i <= Len(Tenants)
    /\ LET t == Tenants[bk.i] IN
         \/ /\ bk' = [bk EXCEPT !.i = @ + 1]
            /\ volumes' = [volumes EXCEPT ![t] = [live |-> @.snap, snap |-> "none"]]
            /\ UNCHANGED <<archive, progress, bkLeft>>
         \/ BkSpend /\ Finish(TRUE) /\ UNCHANGED volumes
    /\ UNCHANGED <<waiting, bkAsked, exporter, importer>>

RestoreFinishes ==
    /\ bk.at = "rollback" /\ bk.i > Len(Tenants) /\ Finish(FALSE)
    /\ UNCHANGED <<waiting, bkAsked, exporter, importer, volumes, bkLeft>>
-----------------------------------------------------------------------------
\* The services write new data, and a tenant is removed, while nothing holds the lock.
TenantChanges(t) ==
    /\ bk = NoBk /\ bkLeft.ops > 0
    /\ \E live \in {"old", "none"} : /\ volumes[t].live # live
                                     /\ volumes' = [volumes EXCEPT ![t] = [live |-> live, snap |-> IF live = "none" THEN "none" ELSE @.snap]]
    /\ bkLeft' = [bkLeft EXCEPT !.ops = @ - 1]
    /\ UNCHANGED <<bk, waiting, progress, bkAsked, archive, exporter, importer>>

\* The master dies: its goroutines go with it, the file stays as it is.
BkCrash ==
    /\ bk # NoBk /\ BkSpend
    /\ bk' = NoBk /\ waiting' = {} /\ progress' = NoStatus /\ bkAsked' = "no"
    /\ exporter' = NoExport /\ importer' = [s \in Streams |-> NoImport]
    /\ UNCHANGED <<archive, volumes>>

BackupStep ==
    \/ Estimate \/ CreateFile \/ Collect \/ NextExport \/ CopyEntry \/ CopyEnds \/ TakeExportError
RestoreStep ==
    \/ OpenArchive \/ RestoreV0Entry \/ ReadHeader \/ ReadEnd \/ PassEntry \/ LoadSnapshotImages \/ StreamsClosed
    \/ AbortStreams \/ RestoreTemplates \/ RollbackTenant \/ RestoreFinishes
    \/ \E s \in Streams : CloseStream(s) \/ AwaitStream(s)
ImportStep == \E s \in Streams : ImportBegins(s) \/ ImportEnds(s)

bkNext ==
    \/ \E kind \in {"backup", "restore"} : \/ \E async \in BOOLEAN : Request(kind, async)
                                           \/ ResetAsync(kind) \/ LockFor(kind)
    \/ StatusReads \/ StatusResets
    \/ BackupStep \/ ExportEnds \/ CopyFails
    \/ RestoreStep \/ ReadFails \/ ImportStep \/ \E s \in Streams : ImportFails(s)
    \/ \E t \in TenantSet : TenantChanges(t)
    \/ BkCrash

\* The goroutines run; the lock is granted in the end.
bkFairness ==
    /\ WF_bkVars(BackupStep \/ RestoreStep) /\ WF_bkVars(ExportEnds) /\ WF_bkVars(ImportStep)
    /\ WF_bkVars(\E kind \in {"backup", "restore"} : ResetAsync(kind) \/ LockFor(kind))

bkSpec == bkInit /\ [][bkNext]_bkVars /\ bkFairness
-----------------------------------------------------------------------------
\* When the operation is over and the lock of the file system is given back, no goroutine
\* of it is left that could still write into a volume or wait on its channel for ever.
NoStrayStream ==
    bk = NoBk => exporter = NoExport /\ \A s \in Streams : importer[s] = NoImport

\* Whatever breaks off: an archive that was closed has every export as a whole, only whole
\* snapshots are listed, and a restore that reports success has rolled every tenant back
\* to a whole one.
Count(s) == Cardinality({i \in DOMAIN archive.entries : archive.entries[i] = s})
NothingHalf ==
    /\ archive.closed /\ archive.version = 1 => \A s \in Streams : Count(s) = EntriesEach
    /\ \A t \in TenantSet : volumes[t].snap # "part" /\ volumes[t].live # "part"
    /\ bk.at = "rollback" /\ bk.i > Len(Tenants) => \A t \in TenantSet : volumes[t].live = "whole"

\* Every operation ends and gives the lock back: no side of a pipe waits for one that
\* is gone.
BackupsEnd == []<>(bk = NoBk)

\* What backups and restores keep to (dfs.Backup and dfs.Restore).
BackupsSound == NoStrayStream /\ NothingHalf

=============================================================================
