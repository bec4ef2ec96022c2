---------------------------- MODULE FolderStore ----------------------------
(***************************************************************************)
(* The private-data store of the worker: relationships.db, held in an OPFS *)
(* slot that SQLite edits in place, and mirrored after every commit into a *)
(* file of a folder the member picked.  Translated from                    *)
(* app/static/vendor/sqlite-worker.js.                                     *)
(*                                                                         *)
(* The worker runs one JavaScript thread, but its dispatcher awaits each   *)
(* handler separately: a handler that awaits (a permission query, a lock,  *)
(* a file write, an IndexedDB put) lets every other one run.  An action    *)
(* here is one stretch of a handler between two awaits; pc[o] names the    *)
(* await that call o is suspended at and frame[o] holds its local          *)
(* variables.  SQL transactions never await, so a commit is part of one    *)
(* action.                                                                 *)
(*                                                                         *)
(* A database is abstracted to the set of committed edits whose effect it  *)
(* contains, with the token Identity for the workspace identity rows.      *)
(***************************************************************************)
EXTENDS Integers, FiniteSets

CONSTANTS
  Ops,         \* slots for calls in flight: the page may have that many
  Stores,      \* the Fellows* subfolders of the picked parent folder
  Edits,       \* one token for each mutating RPC the page may issue
  Imports,     \* contents of the backup files the member may restore from
  Kinds,       \* the page flows of this instance (CallKinds below)
  Faults,      \* what the environment may do to us (FaultKinds below)
  Keep,        \* BACKUP_KEEP
  InitFile,    \* relationships.db of each store before the first start
  InitSub,     \* the store an earlier session left connected, or None
  MaxBoots,    \* bound: how often the worker dies and starts again
  MaxCalls,    \* bound: how many calls other than edits the page makes
  Opfs,        \* the place of the backup ring outside any folder
  NoDb,        \* a file or slot that does not exist
  None,
  Identity     \* the workspace identity rows minted on the first folder write

CallKinds  == {"mutate", "import", "restore", "create", "open", "lock"}
FaultKinds == {"crash", "write", "backup", "read", "missing", "lapse", "open",
               "replace", "schema"}

Content == SUBSET (Edits \cup {Identity})
Db      == {NoDb} \cup Content
Places  == Stores \cup {Opfs}

ASSUME KindsAssumption == Kinds \subseteq CallKinds /\ Faults \subseteq FaultKinds
ASSUME BoundsAssumption == MaxBoots \in Nat /\ MaxCalls \in Nat /\ Keep \in Nat \ {0}
ASSUME TokensAssumption ==
  /\ Opfs \notin Stores
  /\ None \notin Stores \cup Ops
  /\ \A c \in Content : c # NoDb
  /\ Identity \notin Edits
ASSUME StartAssumption ==
  /\ Imports \subseteq Content
  /\ InitFile \in [Stores -> Db]
  /\ InitSub \in Stores \cup {None}

VARIABLES
  slot,      \* OPFS slot '/relationships.db', the live database
  relOpen,   \* relDb is open on the slot
  file,      \* relationships.db in each store
  rings,     \* the backup files relationships.db.bak.* in each place
  now,       \* names of backup files so far: they sort by time of writing
  rec,       \* folderRecord: the connected store and what the badge shows
  idb,       \* the copy of folderRecord in IndexedDB
  granted,   \* queryPermission answers 'granted' for the folder handle
  mode,      \* _storageMode
  lock,      \* holder of the Web Lock on folder writes
  boot,      \* where handlers.init is suspended
  pc, frame, \* the calls in flight
  issued,    \* edits the page has asked for (each is asked for once)
  trusted,   \* edits acknowledged while the badge read 'saved'
  calls, boots

vars == <<slot, relOpen, file, rings, now, rec, idb, granted, mode, lock, boot,
          pc, frame, issued, trusted, calls, boots>>

disk   == <<slot, relOpen, file, rings, now>>
record == <<rec, idb, granted>>
power  == <<mode, boot, boots>>
budget == <<issued, calls>>

(***************************************************************************)
(* folderRecord.  `saved' stands for a lastSavedAt that is set, `err' for  *)
(* a lastError newer than it, `pivot' for a pivotMigratedAt that is set.   *)
(***************************************************************************)
Record == [sub : Stores \cup {None}, saved : BOOLEAN, err : BOOLEAN, pivot : BOOLEAN]
NoRecord == [sub |-> None, saved |-> FALSE, err |-> FALSE, pivot |-> FALSE]

Connected(r) == r.sub # None

Backup == [at : Nat, pre : BOOLEAN, data : Content]

Frame == [kind : Kinds \cup {"none"}, arg : Content, buf : Content,
          dest : Stores \cup {None}]
NoFrame == [kind |-> "none", arg |-> {}, buf |-> {}, dest |-> None]

(* The awaits at which a handler can be suspended.                         *)
LockedPcs == {"enter", "write", "wrote", "release",
              "bakEnter", "bakWrite", "bakDone", "bakFailed"}
Pcs == LockedPcs \cup {"idle", "guard", "postCommit", "lockFailed", "snapshot",
                       "rotate", "replace", "probe", "saveQuery", "plainWrite",
                       "plainWrote", "readQuery", "read", "readTail"}
BootPcs == {"down", "pivot", "pivotFlag", "migrate", "hydrate", "backup",
            "rotateBoot", "open", "firstWrite", "ready"}

Empty == {{}, NoDb}    \* contents in which the pivot migration counts no rows

(* FOLDER_CONTROLLER.badge: what the page tells the member.                *)
SavedBadge(r) == Connected(r) /\ granted /\ r.saved /\ ~r.err

(***************************************************************************)
(* Steps that several handlers share.                                      *)
(***************************************************************************)
Goto(o, p) == pc' = [pc EXCEPT ![o] = p]

Return(o) ==
  /\ Goto(o, "idle")
  /\ frame' = [frame EXCEPT ![o] = NoFrame]

(* _folderRecordPersist: the put is skipped when no folder is connected.   *)
SetRecord(r) ==
  /\ rec' = r
  /\ idb' = IF Connected(r) THEN r ELSE idb

Succeeded(r) == [r EXCEPT !.saved = TRUE, !.err = FALSE]
FailedUnnoticed(r) == r    \* mutant of Failed: lastError is not set
Failed(r)    == [r EXCEPT !.err = TRUE]

LockIgnored == TRUE    \* mutant of LockFree: the write does not ask

(* navigator.locks.request with ifAvailable.  The lock manager serves      *)
(* requests in the order they are made, so whether this one is granted is  *)
(* settled when it is made; only its callback runs later.                  *)
LockFree == lock = None

(* The name order of the backup files: a date after the prefix, so by age, *)
(* but 'pre-pivot-' sorts after every digit.                               *)
SortsAfter(e, f) == \/ e.pre /\ ~f.pre
                    \/ e.pre = f.pre /\ e.at > f.at

(* Mutant of Rotated: pop() where the code has shift().                    *)
RotatedFromTheWrongEnd(ring) ==
  {e \in ring : Cardinality({f \in ring : SortsAfter(e, f)}) < Keep}

Rotated(ring) == {e \in ring : Cardinality({f \in ring : SortsAfter(f, e)}) < Keep}

Added(place, pre, data) ==
  /\ rings' = [rings EXCEPT ![place] = @ \cup {[at |-> now + 1, pre |-> pre, data |-> data]}]
  /\ now' = now + 1

(* _isFolderBackupActive and the place it selects.                         *)
ActivePlace == IF Connected(rec) /\ granted THEN rec.sub ELSE Opfs

(* What is handed to a folder write: the whole database, as it is now.     *)
Export == slot

(* The folder refuses us when the permission is gone, or on its own.       *)
WriteFault == "write" \in Faults \/ ~granted
BackupFault == "backup" \in Faults \/ ~granted
ReadFault  == "read" \in Faults \/ ~granted
MissingFault == "missing" \in Faults \/ ~granted    \* its handle cannot be had

(***************************************************************************)
(* Calls arrive.  Without a connected folder the worker refuses a mutation *)
(* or an import at once and nothing changes, so those starts have no       *)
(* action.                                                                 *)
(***************************************************************************)
Start(o, p, k, arg, dest) ==
  /\ boot = "ready"
  /\ pc[o] = "idle"
  /\ k \in Kinds
  /\ Goto(o, p)
  /\ frame' = [frame EXCEPT ![o] = [kind |-> k, arg |-> arg, buf |-> {}, dest |-> dest]]
  /\ UNCHANGED <<disk, record, power, lock, trusted>>

StartMutate(o) ==
  /\ Connected(rec)
  /\ \E e \in Edits \ issued :
       /\ Start(o, "guard", "mutate", {e}, None)
       /\ issued' = issued \cup {e}
  /\ UNCHANGED calls

OneMoreCall ==
  /\ calls < MaxCalls
  /\ calls' = calls + 1
  /\ UNCHANGED issued

StartImport(o) ==
  /\ Connected(rec)
  /\ \E c \in Imports : Start(o, "guard", "import", c, None)
  /\ OneMoreCall

(* The name comes from the list of the ring's files; its bytes are read    *)
(* before the import begins.                                               *)
StartRestore(o) ==
  /\ Connected(rec)
  /\ \E b \in rings[ActivePlace] : Start(o, "guard", "restore", b.data, None)
  /\ OneMoreCall

(* Mutant of StartPick: a store with a file is saved over, not loaded.     *)
StartPickAlwaysCreates(o) ==
  /\ \A p \in Ops : frame[p].kind \notin {"create", "open"}
  /\ \E s \in Stores : Start(o, "probe", "create", {}, s)
  /\ OneMoreCall

(* The picker flow of the page: probe the store, then save into a new one  *)
(* or load an existing one.  Its button is disabled until the flow ends.   *)
StartPick(o) ==
  /\ \A p \in Ops : frame[p].kind \notin {"create", "open"}
  /\ \E s \in Stores :
       Start(o, "probe", IF file[s] = NoDb THEN "create" ELSE "open", {}, s)
  /\ OneMoreCall

(* clearFolderHandle, behind 'Lock your private data'.                     *)
ClearFolderHandle ==
  /\ boot = "ready"
  /\ "lock" \in Kinds
  /\ Connected(rec)
  /\ rec' = NoRecord
  /\ idb' = NoRecord
  /\ OneMoreCall
  /\ UNCHANGED <<disk, granted, power, lock, pc, frame, trusted>>

(***************************************************************************)
(* _refuseDurablePrivateWriteOffFolder has asked for the permission of the *)
(* handle it saw; the answer arrives.                                      *)
(***************************************************************************)
GuardRefuses(o) ==
  /\ pc[o] = "guard"
  /\ ~granted
  /\ Return(o)
  /\ UNCHANGED <<disk, record, power, lock, trusted, budget>>

NotOpen(o) ==
  /\ pc[o] = "guard"
  /\ granted
  /\ frame[o].kind = "mutate"
  /\ ~relOpen
  /\ Return(o)
  /\ UNCHANGED <<disk, record, power, lock, trusted, budget>>

(* BEGIN .. COMMIT, then on to _maybeWriteFolderAfterCommit, which returns *)
(* at once when the folder has been disconnected meanwhile.                *)
Commit(o) ==
  /\ pc[o] = "guard"
  /\ granted
  /\ frame[o].kind = "mutate"
  /\ relOpen
  /\ slot' = slot \cup frame[o].arg
  /\ IF Connected(rec) THEN Goto(o, "postCommit") /\ UNCHANGED frame ELSE Return(o)
  /\ UNCHANGED <<relOpen, file, rings, now, record, power, lock, trusted, budget>>

(* importRelationshipsBytes: the bytes pass inspection, and the database   *)
(* they replace is exported for the pre-restore snapshot.                  *)
ImportInspected(o) ==
  /\ pc[o] = "guard"
  /\ granted
  /\ frame[o].kind # "mutate"
  /\ IF slot = NoDb
     THEN Goto(o, "replace") /\ UNCHANGED frame
     ELSE /\ Goto(o, "snapshot")
          /\ frame' = [frame EXCEPT ![o].buf = Export]
  /\ UNCHANGED <<disk, record, power, lock, trusted, budget>>

(***************************************************************************)
(* snapshotRelationshipsDbToBackup.  A snapshot that fails is reported to  *)
(* its caller, which goes on.                                              *)
(***************************************************************************)
SnapshotToFolder(o) ==
  /\ pc[o] = "snapshot"
  /\ ActivePlace # Opfs
  /\ IF LockFree
     THEN /\ lock' = o
          /\ Goto(o, "bakEnter")
          /\ UNCHANGED <<rec, idb>>
     ELSE /\ SetRecord(Failed(rec))
          /\ Goto(o, "replace")
          /\ UNCHANGED lock
  /\ UNCHANGED <<disk, granted, power, frame, trusted, budget>>

SnapshotToOpfs(o) ==
  /\ pc[o] = "snapshot"
  /\ ActivePlace = Opfs
  /\ \/ Added(Opfs, FALSE, frame[o].buf) /\ Goto(o, "rotate")
     \/ "backup" \in Faults /\ Goto(o, "replace") /\ UNCHANGED <<rings, now>>
  /\ UNCHANGED <<slot, relOpen, file, record, power, lock, frame, trusted, budget>>

BackupWritten(o) ==
  /\ pc[o] = "bakWrite"
  /\ granted
  /\ Added(frame[o].dest, FALSE, frame[o].buf)
  /\ Goto(o, "bakDone")
  /\ UNCHANGED <<slot, relOpen, file, record, power, lock, frame, trusted, budget>>

BackupFails(o) ==
  /\ pc[o] = "bakWrite"
  /\ BackupFault
  /\ SetRecord(Failed(rec))
  /\ Goto(o, "bakFailed")
  /\ UNCHANGED <<disk, granted, power, lock, frame, trusted, budget>>

BackupSettles(o) ==
  /\ pc[o] \in {"bakDone", "bakFailed"}
  /\ lock' = None
  /\ Goto(o, IF pc[o] = "bakDone" THEN "rotate" ELSE "replace")
  /\ UNCHANGED <<disk, record, power, frame, trusted, budget>>

Rotate(o) ==
  /\ pc[o] = "rotate"
  /\ rings' = [rings EXCEPT ![ActivePlace] = Rotated(@)]
  /\ Goto(o, "replace")
  /\ UNCHANGED <<slot, relOpen, file, now, record, power, lock, frame, trusted, budget>>

(* relDb is closed, the bytes replace the slot, relDb is opened on it.     *)
Replace(o) ==
  /\ pc[o] = "replace"
  /\ slot' = frame[o].arg
  /\ relOpen' = TRUE
  /\ Goto(o, IF Connected(rec) THEN "postCommit"
             ELSE IF frame[o].kind = "open" THEN "readTail" ELSE "idle")
  /\ frame' = IF Connected(rec) \/ frame[o].kind = "open" THEN frame
              ELSE [frame EXCEPT ![o] = NoFrame]
  /\ UNCHANGED <<file, rings, now, record, power, lock, trusted, budget>>

(* The import or the reopening throws: relDb stays closed, over the old    *)
(* database, the new one, or none (a torn import counts as none); or the   *)
(* schema step throws after it.  The call fails and nothing is recorded.   *)
ReplaceFails(o) ==
  /\ pc[o] = "replace"
  /\ \/ /\ "replace" \in Faults
        /\ slot' \in {slot, NoDb, frame[o].arg}
        /\ relOpen' = FALSE
     \/ /\ "schema" \in Faults
        /\ slot' = frame[o].arg
        /\ relOpen' = TRUE
  /\ Return(o)
  /\ UNCHANGED <<file, rings, now, record, power, lock, trusted, budget>>

(***************************************************************************)
(* _maybeWriteFolderAfterCommit.  Its failures stay in folderRecord: the   *)
(* call that made the commit succeeds all the same.                        *)
(***************************************************************************)
Acknowledged(o, r) ==
  IF frame[o].kind = "mutate" /\ SavedBadge(r) THEN trusted \cup frame[o].arg ELSE trusted

(* The handler's own tail, after the hook has returned.                    *)
CommitReturns(o, r) ==
  IF frame[o].kind = "open"
  THEN Goto(o, "readTail") /\ UNCHANGED <<frame, trusted>>
  ELSE Return(o) /\ trusted' = Acknowledged(o, r)

PostCommitSkips(o) ==
  /\ pc[o] = "postCommit"
  /\ ~granted
  /\ CommitReturns(o, rec)
  /\ UNCHANGED <<disk, record, power, lock, budget>>

(* Mint the identity, export the database and request the lock; a          *)
(* connection that is gone by now ends the hook with no trace but a log.   *)
Stamped == IF relOpen THEN slot \cup {Identity} ELSE slot

PostCommitExports(o) ==
  /\ pc[o] = "postCommit"
  /\ granted
  /\ slot # NoDb
  /\ slot' = Stamped
  /\ \/ /\ ~Connected(rec)
        /\ CommitReturns(o, rec)
        /\ UNCHANGED <<rec, idb, lock>>
     \/ /\ Connected(rec)
        /\ LockFree
        /\ lock' = o
        /\ Goto(o, "enter")
        /\ frame' = [frame EXCEPT ![o].buf = Stamped]
        /\ UNCHANGED <<rec, idb, trusted>>
     \/ /\ Connected(rec)
        /\ ~LockFree
        /\ SetRecord(Failed(rec))
        /\ Goto(o, "lockFailed")
        /\ UNCHANGED <<lock, frame, trusted>>
  /\ UNCHANGED <<relOpen, file, rings, now, granted, power, budget>>

(* Another call lost the database meanwhile: the failure is noted in the   *)
(* worker's record only, not in the copy that outlives it.                 *)
ExportFails(o) ==
  /\ pc[o] = "postCommit"
  /\ granted
  /\ slot = NoDb
  /\ rec' = Failed(rec)
  /\ CommitReturns(o, Failed(rec))
  /\ UNCHANGED <<disk, idb, granted, power, lock, budget>>

(* The put has landed; the hook catches folder_locked_by_another_tab and   *)
(* records the failure once more, in the member's words.                   *)
LockFailed(o) ==
  /\ pc[o] = "lockFailed"
  /\ SetRecord(Failed(rec))
  /\ CommitReturns(o, Failed(rec))
  /\ UNCHANGED <<disk, granted, power, lock, budget>>

(* The lock callback opens the subfolder connected at that moment.         *)
EnterLocked(o) ==
  /\ pc[o] \in {"enter", "bakEnter"}
  /\ IF Connected(rec)
     THEN /\ frame' = [frame EXCEPT ![o].dest = rec.sub]
          /\ Goto(o, IF pc[o] = "enter" THEN "write" ELSE "bakWrite")
          /\ UNCHANGED <<rec, idb>>
     ELSE /\ SetRecord(Failed(rec))
          /\ Goto(o, IF pc[o] = "enter" THEN "release" ELSE "bakFailed")
          /\ UNCHANGED frame
  /\ UNCHANGED <<disk, granted, power, lock, trusted, budget>>

(* Mutant of FileReplaced: only the change is written.                     *)
FileTakesDelta(o) ==
  /\ pc[o] \in {"write", "plainWrite"}
  /\ granted
  /\ file' = [file EXCEPT ![frame[o].dest] = frame[o].arg \cup {Identity}]
  /\ Goto(o, IF pc[o] = "write" THEN "wrote" ELSE "plainWrote")
  /\ UNCHANGED <<slot, relOpen, rings, now, record, power, lock, frame, trusted, budget>>

(* createWritable, write, close: the file is replaced at once or not at    *)
(* all.  The handler learns of it in its next step.                        *)
FileReplaced(o) ==
  /\ pc[o] \in {"write", "plainWrite"}
  /\ granted
  /\ file' = [file EXCEPT ![frame[o].dest] = frame[o].buf]
  /\ Goto(o, IF pc[o] = "write" THEN "wrote" ELSE "plainWrote")
  /\ UNCHANGED <<slot, relOpen, rings, now, record, power, lock, frame, trusted, budget>>

(* Mutant of WriteFails: the write is tried again until it succeeds.       *)
WriteRetried(o) ==
  /\ pc[o] = "write"
  /\ WriteFault
  /\ SetRecord(Failed(rec))
  /\ Goto(o, "enter")
  /\ UNCHANGED <<disk, granted, power, lock, frame, trusted, budget>>

WriteFails(o) ==
  /\ pc[o] = "write"
  /\ WriteFault
  /\ SetRecord(Failed(rec))
  /\ Goto(o, "release")
  /\ UNCHANGED <<disk, granted, power, lock, frame, trusted, budget>>

WriteRecorded(o) ==
  /\ pc[o] = "wrote"
  /\ SetRecord(Succeeded(rec))
  /\ Goto(o, "release")
  /\ UNCHANGED <<disk, granted, power, lock, frame, trusted, budget>>

(* The lock goes when the callback's last promise settles.                 *)
Release(o) ==
  /\ pc[o] = "release"
  /\ lock' = None
  /\ CommitReturns(o, rec)
  /\ UNCHANGED <<disk, record, power, budget>>

(***************************************************************************)
(* probeFolderWritable, then what the page chains to it.                   *)
(***************************************************************************)
ProbeFails(o) ==
  /\ pc[o] = "probe"
  /\ "write" \in Faults
  /\ Return(o)
  /\ UNCHANGED <<disk, record, power, lock, trusted, budget>>

(* A first store of an empty parent is picked with mode 'auto', which      *)
(* keeps lastSavedAt; a further one with 'create-new', which clears it.    *)
ProbeConnects(o) ==
  /\ pc[o] = "probe"
  /\ LET further == frame[o].kind = "create" /\ \E s \in Stores : file[s] # NoDb
     IN SetRecord([rec EXCEPT !.sub = frame[o].dest, !.err = FALSE,
                              !.saved = @ /\ ~further])
  /\ granted' = TRUE
  /\ Goto(o, IF frame[o].kind = "create" THEN "saveQuery" ELSE "readQuery")
  /\ UNCHANGED <<disk, power, lock, frame, trusted, budget>>

SaveNowOfNothing(o) ==    \* mutant of SaveNow: no check that there is a database
  /\ pc[o] = "saveQuery"
  /\ IF ActivePlace # Opfs
     THEN /\ Goto(o, "plainWrite")
          /\ frame' = [frame EXCEPT ![o].buf = Export, ![o].dest = rec.sub]
     ELSE Return(o)
  /\ UNCHANGED <<disk, record, power, lock, trusted, budget>>

(* writeRelationshipsToFolder: exports and writes without the Web Lock.    *)
SaveNow(o) ==
  /\ pc[o] = "saveQuery"
  /\ IF ActivePlace # Opfs /\ slot # NoDb
     THEN /\ Goto(o, "plainWrite")
          /\ frame' = [frame EXCEPT ![o].buf = Export, ![o].dest = rec.sub]
     ELSE Return(o)
  /\ UNCHANGED <<disk, record, power, lock, trusted, budget>>

SaveNowFails(o) ==
  /\ pc[o] = "plainWrite"
  /\ WriteFault
  /\ SetRecord(Failed(rec))
  /\ Return(o)
  /\ UNCHANGED <<disk, granted, power, lock, trusted, budget>>

SaveNowRecorded(o) ==
  /\ pc[o] = "plainWrote"
  /\ SetRecord(Succeeded(rec))
  /\ Return(o)
  /\ UNCHANGED <<disk, granted, power, lock, trusted, budget>>

(* readRelationshipsFromFolder: the file becomes an import.                *)
ReadNow(o) ==
  /\ pc[o] = "readQuery"
  /\ IF ActivePlace # Opfs
     THEN /\ Goto(o, "read")
          /\ frame' = [frame EXCEPT ![o].dest = rec.sub]
     ELSE Return(o)
  /\ UNCHANGED <<disk, record, power, lock, trusted, budget>>

ReadArrives(o) ==
  /\ pc[o] = "read"
  /\ granted
  /\ IF file[frame[o].dest] # NoDb /\ Connected(rec)
     THEN /\ Goto(o, "guard")
          /\ frame' = [frame EXCEPT ![o].arg = file[frame[o].dest]]
     ELSE Return(o)
  /\ UNCHANGED <<disk, record, power, lock, trusted, budget>>

ReadFails(o) ==
  /\ pc[o] = "read"
  /\ ReadFault
  /\ SetRecord(Failed(rec))
  /\ Return(o)
  /\ UNCHANGED <<disk, granted, power, lock, trusted, budget>>

(* getFileHandle fails though the store has a file: the call fails as if   *)
(* there were none, and nothing is recorded.                               *)
ReadMissing(o) ==
  /\ pc[o] = "read"
  /\ MissingFault
  /\ Return(o)
  /\ UNCHANGED <<disk, record, power, lock, trusted, budget>>

(* The tail of readRelationshipsFromFolder clears lastError, whatever the  *)
(* import's own write-back to the folder came to.                          *)
ReadRecorded(o) ==
  /\ pc[o] = "readTail"
  /\ SetRecord(Succeeded(rec))
  /\ Return(o)
  /\ UNCHANGED <<disk, granted, power, lock, trusted, budget>>

(***************************************************************************)
(* handlers.init.  The page sends nothing else until it has answered, so   *)
(* the only steps it meets are a crash and a change of permission.         *)
(***************************************************************************)
BootGoto(p) ==
  /\ boot' = p
  /\ UNCHANGED <<lock, pc, frame, trusted, budget, boots>>

(* _hydrateFolderRecord, and the storage mode of this session.             *)
BootResolveMode ==
  /\ boot = "down"
  /\ rec' = idb
  /\ LET folder == Connected(idb) /\ granted
     IN /\ mode' = IF folder THEN "folder" ELSE "opfs"
        /\ BootGoto(IF folder THEN "pivot" ELSE "backup")
  /\ UNCHANGED <<disk, idb, granted>>

(* A folder file that cannot be read counts as no data.                    *)
FolderData ==
  (IF granted THEN {file[rec.sub]} ELSE {}) \cup (IF ReadFault \/ MissingFault THEN {NoDb} ELSE {})

BootWriteFails ==
  /\ WriteFault
  /\ SetRecord(Failed(rec))

(* _maybeRunPivotMigration decides between the slot and the folder file:   *)
(* only the slot has data: it is written to the folder, and a failure ends *)
(* the migration; both have and they differ: the slot is kept as a         *)
(* pre-pivot backup, and a failure is tolerated; else nothing is written.  *)
PivotWrites ==
  /\ granted
  /\ file' = [file EXCEPT ![rec.sub] = slot]
  /\ SetRecord(Succeeded(rec))
  /\ BootGoto("pivotFlag")
  /\ UNCHANGED <<rings, now>>

PivotGivesUp ==
  /\ BootWriteFails
  /\ BootGoto("migrate")
  /\ UNCHANGED <<file, rings, now>>

PivotPreserves ==
  /\ \/ granted /\ Added(rec.sub, TRUE, slot) /\ UNCHANGED <<rec, idb>>
     \/ BootWriteFails /\ UNCHANGED <<rings, now>>
  /\ BootGoto("pivotFlag")
  /\ UNCHANGED file

PivotKeeps ==
  /\ BootGoto("pivotFlag")
  /\ UNCHANGED <<file, rings, now, rec, idb>>

BootPivot ==
  /\ boot = "pivot"
  /\ ~rec.pivot
  /\ \E data \in FolderData :
       \/ slot \notin Empty /\ data \in Empty /\ (PivotWrites \/ PivotGivesUp)
       \/ slot \notin Empty /\ data \notin Empty /\ data # slot /\ PivotPreserves
       \/ (slot \in Empty \/ data = slot) /\ PivotKeeps
  /\ UNCHANGED <<slot, relOpen, granted, mode>>

BootPivotFlag ==
  /\ boot = "pivotFlag"
  /\ SetRecord([rec EXCEPT !.pivot = TRUE])
  /\ BootGoto("migrate")
  /\ UNCHANGED <<disk, granted, mode>>

BootPivotDone ==
  /\ boot = "pivot"
  /\ rec.pivot
  /\ BootGoto("migrate")
  /\ UNCHANGED <<disk, record, mode>>

(* _maybeMigrateOpfsBackupsToFolder: each OPFS backup is copied, then      *)
(* removed; one that cannot be copied stays.                               *)
BootMigrateBackups ==
  /\ boot = "migrate"
  /\ LET place == ActivePlace
     IN \E moved \in SUBSET rings[Opfs] :
          /\ moved = rings[Opfs] \/ place = Opfs \/ "backup" \in Faults
          /\ IF place = Opfs \/ moved = {}
             THEN UNCHANGED rings
             ELSE rings' = [rings EXCEPT ![Opfs] = @ \ moved,
                                         ![place] = Rotated(@ \cup moved)]
          /\ IF place = Opfs \/ moved = rings[Opfs]
             THEN UNCHANGED <<rec, idb>>
             ELSE SetRecord(Failed(rec))
  /\ BootGoto("hydrate")
  /\ UNCHANGED <<slot, relOpen, file, now, granted, mode>>

(* _hydrateOpfsBufferFromFolder: the folder file replaces the slot.  With  *)
(* no file the slot stays; with an unreadable one it stays too, and the    *)
(* failure is recorded; with a subfolder or a file that cannot be opened   *)
(* it stays as if there were none, and nothing is recorded.                *)
Hydrated(bytes) == IF bytes = NoDb THEN slot ELSE bytes

BootHydrate ==
  /\ boot = "hydrate"
  /\ \/ granted /\ slot' = Hydrated(file[rec.sub]) /\ UNCHANGED <<rec, idb>>
     \/ /\ ReadFault
        /\ SetRecord(Failed(rec))
        /\ UNCHANGED slot
     \/ MissingFault /\ UNCHANGED <<slot, rec, idb>>
  /\ BootGoto("backup")
  /\ UNCHANGED <<relOpen, file, rings, now, granted, mode>>

(* maybeBackupRelationshipsDb.  The clock is not modelled: a ring that     *)
(* holds a backup may hold a recent one, and then none is written.         *)
BootBackup ==
  /\ boot = "backup"
  /\ slot # NoDb
  /\ Added(ActivePlace, FALSE, slot)
  /\ BootGoto("rotateBoot")
  /\ UNCHANGED <<slot, relOpen, file, record, mode>>

BootNoBackup ==
  /\ boot = "backup"
  /\ \/ /\ slot = NoDb \/ rings[ActivePlace] # {}
        /\ UNCHANGED <<rec, idb>>
     \/ /\ slot # NoDb
        /\ ActivePlace # Opfs
        /\ BootWriteFails
     \/ /\ slot # NoDb
        /\ ActivePlace = Opfs
        /\ "backup" \in Faults
        /\ UNCHANGED <<rec, idb>>
  /\ BootGoto("open")
  /\ UNCHANGED <<disk, granted, mode>>

BootRotate ==
  /\ boot = "rotateBoot"
  /\ rings' = [rings EXCEPT ![ActivePlace] = Rotated(@)]
  /\ BootGoto("open")
  /\ UNCHANGED <<slot, relOpen, file, now, record, mode>>

(* Opening the slot creates it, with the empty schema, when it is missing. *)
BootOpen ==
  /\ boot = "open"
  /\ \/ /\ slot' = IF slot = NoDb THEN {} ELSE slot
        /\ relOpen' = TRUE
        /\ BootGoto(IF mode = "folder" /\ ~rec.saved THEN "firstWrite" ELSE "ready")
     \/ /\ "open" \in Faults
        /\ BootGoto("ready")
        /\ UNCHANGED <<slot, relOpen>>
  /\ UNCHANGED <<file, rings, now, record, mode>>

(* A folder store that was never saved gets its file before the app is up. *)
BootFirstWrite ==
  /\ boot = "firstWrite"
  /\ \/ /\ granted
        /\ slot' = Stamped
        /\ \/ file' = [file EXCEPT ![rec.sub] = Stamped] /\ SetRecord(Succeeded(rec))
           \/ BootWriteFails /\ UNCHANGED file
     \/ ~granted /\ UNCHANGED <<slot, file, rec, idb>>
  /\ BootGoto("ready")
  /\ UNCHANGED <<relOpen, rings, now, granted, mode>>

(***************************************************************************)
(* The environment: the tab is closed or the worker dies, and the browser  *)
(* or the member takes the folder permission back or gives it again.       *)
(***************************************************************************)
Crash ==
  /\ "crash" \in Faults
  /\ boot # "down"
  /\ boots < MaxBoots
  /\ boots' = boots + 1
  /\ boot' = "down"
  /\ relOpen' = FALSE
  /\ rec' = NoRecord
  /\ mode' = "opfs"
  /\ lock' = None
  /\ pc' = [o \in Ops |-> "idle"]
  /\ frame' = [o \in Ops |-> NoFrame]
  /\ UNCHANGED <<slot, file, rings, now, idb, granted, trusted, budget>>

PermissionChanges ==
  /\ "lapse" \in Faults
  /\ granted' = ~granted
  /\ UNCHANGED <<disk, rec, idb, power, lock, pc, frame, trusted, budget>>

Init ==
  /\ slot = IF InitSub = None THEN NoDb ELSE InitFile[InitSub]
  /\ relOpen = FALSE
  /\ file = InitFile
  /\ rings = [p \in Places |-> {}]
  /\ now = 0
  /\ rec = NoRecord
  /\ idb = IF InitSub = None THEN NoRecord
           ELSE [sub |-> InitSub, saved |-> TRUE, err |-> FALSE, pivot |-> TRUE]
  /\ granted = (InitSub # None)
  /\ mode = "opfs"
  /\ lock = None
  /\ boot = "down"
  /\ pc = [o \in Ops |-> "idle"]
  /\ frame = [o \in Ops |-> NoFrame]
  /\ issued = Edits \cap UNION ((Imports \cup {InitFile[s] : s \in Stores}) \ {NoDb})
  /\ trusted = {}
  /\ calls = 0
  /\ boots = 0

CallArrives(o) == StartMutate(o) \/ StartImport(o) \/ StartRestore(o) \/ StartPick(o)

CommitSteps(o) ==
  \/ GuardRefuses(o) \/ NotOpen(o) \/ Commit(o)
  \/ PostCommitSkips(o) \/ PostCommitExports(o) \/ ExportFails(o) \/ LockFailed(o)
  \/ EnterLocked(o) \/ FileReplaced(o) \/ WriteFails(o) \/ WriteRecorded(o) \/ Release(o)

ImportSteps(o) ==
  \/ ImportInspected(o) \/ SnapshotToFolder(o) \/ SnapshotToOpfs(o)
  \/ BackupWritten(o) \/ BackupFails(o) \/ BackupSettles(o) \/ Rotate(o)
  \/ Replace(o) \/ ReplaceFails(o)

PickSteps(o) ==
  \/ ProbeFails(o) \/ ProbeConnects(o)
  \/ SaveNow(o) \/ SaveNowFails(o) \/ SaveNowRecorded(o)
  \/ ReadNow(o) \/ ReadArrives(o) \/ ReadFails(o) \/ ReadMissing(o) \/ ReadRecorded(o)

CallStep(o) == CommitSteps(o) \/ ImportSteps(o) \/ PickSteps(o)

BootStep ==
  \/ BootResolveMode \/ BootPivot \/ BootPivotFlag \/ BootPivotDone
  \/ BootMigrateBackups \/ BootHydrate \/ BootBackup \/ BootNoBackup \/ BootRotate
  \/ BootOpen \/ BootFirstWrite

Next ==
  \/ \E o \in Ops : CallArrives(o) \/ CallStep(o)
  \/ ClearFolderHandle
  \/ BootStep
  \/ Crash
  \/ PermissionChanges

Spec == Init /\ [][Next]_vars

(* The browser answers every query, lock request, write and put, and runs  *)
(* the worker's continuations; it owes us neither a crash nor a call.      *)
Fairness == /\ \A o \in Ops : WF_vars(CallStep(o))
            /\ WF_vars(BootStep)

FairSpec == Spec /\ Fairness

(***************************************************************************)
(* Properties.  Each is checked by the runs that name it: several hold     *)
(* only for some flows and faults, and those bounds are part of the claim. *)
(***************************************************************************)

VarsTyped ==
  /\ slot \in Db
  /\ relOpen \in BOOLEAN
  /\ file \in [Stores -> Db]
  /\ rings \in [Places -> SUBSET Backup]
  /\ now \in Nat
  /\ rec \in Record /\ idb \in Record
  /\ granted \in BOOLEAN
  /\ mode \in {"opfs", "folder"}
  /\ lock \in Ops \cup {None}
  /\ boot \in BootPcs
  /\ pc \in [Ops -> Pcs]
  /\ frame \in [Ops -> Frame]
  /\ issued \in SUBSET Edits /\ trusted \in Content
  /\ calls \in Nat /\ boots \in Nat

(* Every variable has its type: in particular no folder write is ever made *)
(* of a database that does not exist.                                      *)
TypeOK == (\A o \in Ops : frame[o].buf # NoDb) /\ VarsTyped

(* The Web Lock is held exactly while a guarded folder write is under way, *)
(* by the call that makes it: no two guarded writes overlap, and none      *)
(* leaves the lock behind whichever way it ends.                           *)
LockDiscipline == \A o \in Ops : pc[o] \in LockedPcs <=> lock = o

(* However commits interleave, fail or die half-way, a write after a       *)
(* commit never puts a store's file back to one that lacks an edit it had. *)
FolderNeverRegresses ==
  [][\A s \in Stores : file[s] # NoDb => file'[s] # NoDb /\ file[s] \subseteq file'[s]]_vars

Quiet == boot = "ready" /\ \A o \in Ops : pc[o] = "idle"

(* When nothing is under way, the badge reads 'saved' and the app has a    *)
(* database to show, the folder file holds exactly the edits of that one.  *)
(* A permission that lapses, a handle that cannot be had ("missing") and a *)
(* schema step that throws after an import are failures the code does not  *)
(* record: with those the badge may lie.                                   *)
BadgeHonest ==
  Quiet /\ relOpen /\ SavedBadge(rec) =>
    file[rec.sub] # NoDb /\ file[rec.sub] \cap Edits = slot \cap Edits

(* An edit acknowledged under a badge that read 'saved' is in the file the *)
(* next start will read, at every moment, a crash included.                *)
TrustedEditsOnDisk ==
  Connected(idb) /\ file[idb.sub] # NoDb => trusted \subseteq file[idb.sub]

(* A slot or file that does not exist contains nothing.                    *)
Contents(db) == IF db = NoDb THEN {} ELSE db

(* While the app runs, nothing takes edits out of the database, a replace  *)
(* that fails half-way included, unless the database they were in is among *)
(* the backups.                                                            *)
ReplaceIsUndoable ==
  [][(boot = "ready" /\ ~(Contents(slot) \subseteq Contents(slot')))
     => \E p \in Places : \E b \in rings[p] : b.data = slot]_vars

(* Every call the page makes is answered, and every start ends in an app   *)
(* that is up: nothing waits for another's lock, for a failed write or for *)
(* a folder that cannot be read.                                           *)
EveryCallReturns ==
  /\ \A o \in Ops : pc[o] # "idle" ~> pc[o] = "idle"
  /\ boot # "ready" ~> boot = "ready"

(* The folder file and the live slot keep the promise of DurableStore: see *)
(* there.                                                                  *)
Durable == INSTANCE DurableStore WITH
  Tokens <- Edits \cup {Identity},
  working <- Contents(slot),
  durable <- Contents(IF InitSub = None THEN NoDb ELSE file[InitSub])

ImplementsDurableStore == Durable!Spec
=============================================================================
