------------------------- MODULE FolderStoreProofs -------------------------
(***************************************************************************)
(* What holds of FolderStore for every set of calls, stores, edits, flows  *)
(* and faults: its typing and its lock; then, under the hypotheses each    *)
(* theorem names, what commits do to one folder file, where edits may      *)
(* land, when the badge tells the truth, what a store keeps of the edits   *)
(* it was trusted with, and what a replacement leaves behind.              *)
(***************************************************************************)
EXTENDS FolderStore, FiniteSetTheorems, TLAPS

(***************************************************************************)
(* Typing.  An edit is typed only because the database exists by then: an  *)
(* open relDb has a slot.                                                  *)
(***************************************************************************)
SlotThere == relOpen => slot # NoDb

(* A read of a folder file knows which store it reads.                     *)
ReadsSomewhere == \A o \in Ops : pc[o] = "read" => frame[o].dest \in Stores

Typed == VarsTyped /\ SlotThere /\ ReadsSomewhere

(* No call comes to the read of a folder file in this step.                *)
Steady == \A p \in Ops : pc'[p] = "read" => pc[p] = "read" /\ frame'[p] = frame[p]

LEMMA ContentFacts ==
  /\ {} \in Content
  /\ \A c \in Content : c # NoDb
  /\ \A c, d \in Content : c \cup d \in Content
  /\ \A c \in Content : c \cup {Identity} \in Content
  /\ \A d \in Db : d # NoDb => d \in Content
  /\ NoDb \in Db
  /\ \A c \in Content : c \in Db
BY TokensAssumption DEF Content, Db

LEMMA RecordFacts ==
  /\ NoRecord \in Record
  /\ NoFrame \in Frame
  /\ \A r \in Record : Succeeded(r) \in Record /\ Failed(r) \in Record
  /\ \A r \in Record : Connected(r) => r.sub \in Stores
BY ContentFacts DEF Record, NoRecord, Frame, NoFrame, Succeeded, Failed, Connected

(* Returning a call and going to a named await keep the control typed.     *)
LEMMA ReturnTyped ==
  ASSUME NEW o \in Ops, pc \in [Ops -> Pcs], frame \in [Ops -> Frame], Return(o)
  PROVE  pc' \in [Ops -> Pcs] /\ frame' \in [Ops -> Frame] /\ Steady
BY RecordFacts DEF Return, Goto, Pcs, LockedPcs, Steady

LEMMA SetRecordTyped ==
  ASSUME NEW r \in Record, rec \in Record, idb \in Record, SetRecord(r)
  PROVE  rec' \in Record /\ idb' \in Record
BY DEF SetRecord

LEMMA AddedTyped ==
  ASSUME NEW place, NEW pre \in BOOLEAN, NEW data \in Content,
         now \in Nat, rings \in [Places -> SUBSET Backup], Added(place, pre, data)
  PROVE  now' \in Nat /\ rings' \in [Places -> SUBSET Backup]
<1>1. [at |-> now + 1, pre |-> pre, data |-> data] \in Backup
  BY DEF Backup
<1>2. now' \in Nat
  BY DEF Added
<1>3. rings' \in [Places -> SUBSET Backup]
  <2>1. CASE place \in Places
    BY <1>1, <2>1, rings[place] \in SUBSET Backup DEF Added
  <2>2. CASE place \notin Places
    BY <2>2, rings' = rings DEF Added
  <2> QED BY <2>1, <2>2
<1> QED BY <1>2, <1>3

LEMMA RotatedSubset == \A ring : Rotated(ring) \subseteq ring
BY DEF Rotated

(* The tail of a commit keeps the control and the acknowledgements typed.  *)
LEMMA CommitReturnsTyped ==
  ASSUME NEW o \in Ops, NEW r, pc \in [Ops -> Pcs], frame \in [Ops -> Frame],
         trusted \in Content, CommitReturns(o, r)
  PROVE  /\ pc' \in [Ops -> Pcs]
         /\ frame' \in [Ops -> Frame]
         /\ trusted' \in Content
         /\ pc'[o] \in {"idle", "readTail"}
         /\ \A p \in Ops : p # o => pc'[p] = pc[p] /\ frame'[p] = frame[p]
<1>1. frame[o].arg \in Content
  BY DEF Frame
<1>2. CASE frame[o].kind = "open"
  BY <1>2 DEF CommitReturns, Goto, Pcs
<1>3. CASE frame[o].kind # "open"
  BY <1>1, <1>3, ContentFacts, RecordFacts DEF CommitReturns, Return, Goto, Acknowledged, Pcs
<1> QED BY <1>2, <1>3

LEMMA StartTyped ==
  ASSUME NEW o \in Ops, NEW p \in Pcs \ {"read"}, NEW k, NEW arg \in Content,
         NEW dest \in Stores \cup {None}, Typed, Start(o, p, k, arg, dest),
         issued' \in SUBSET Edits, calls' \in Nat
  PROVE  Typed'
<1> USE DEF Typed, VarsTyped, SlotThere, ReadsSomewhere, Start, disk, record, power
<1>1. pc' \in [Ops -> Pcs] /\ Steady
  BY DEF Goto, Steady
<1>2. frame' \in [Ops -> Frame]
  BY ContentFacts DEF Frame
<1> QED BY <1>1, <1>2 DEF Steady

LEMMA CallArrivesTyped ==
  ASSUME NEW o \in Ops, Typed, CallArrives(o)
  PROVE  Typed'
<1>1. {"guard", "probe"} \subseteq Pcs \ {"read"}
  BY DEF Pcs, LockedPcs
<1>2. calls \in Nat /\ issued \in SUBSET Edits
  BY DEF Typed, VarsTyped
<1>3. OneMoreCall => issued' \in SUBSET Edits /\ calls' \in Nat
  BY <1>2 DEF OneMoreCall
<1>4. CASE StartMutate(o)
  <2>1. PICK e \in Edits \ issued :
          Start(o, "guard", "mutate", {e}, None) /\ issued' = issued \cup {e}
    BY <1>4 DEF StartMutate
  <2>2. {e} \in Content
    BY DEF Content
  <2>3. issued' \in SUBSET Edits /\ calls' \in Nat
    BY <1>2, <1>4, <2>1 DEF StartMutate
  <2> QED BY <1>1, <2>1, <2>2, <2>3, StartTyped
<1>5. CASE StartImport(o)
  <2>1. PICK c \in Imports : Start(o, "guard", "import", c, None)
    BY <1>5 DEF StartImport
  <2>2. c \in Content
    BY StartAssumption
  <2> QED BY <1>1, <1>3, <1>5, <2>1, <2>2, StartTyped DEF StartImport
<1>6. CASE StartRestore(o)
  <2>1. PICK b \in rings[ActivePlace] : Start(o, "guard", "restore", b.data, None)
    BY <1>6 DEF StartRestore
  <2>2. b.data \in Content
    BY <2>1, RecordFacts DEF Typed, VarsTyped, ActivePlace, Places, Backup
  <2> QED BY <1>1, <1>3, <1>6, <2>1, <2>2, StartTyped DEF StartRestore
<1>7. CASE StartPick(o)
  <2>1. PICK s \in Stores :
          Start(o, "probe", IF file[s] = NoDb THEN "create" ELSE "open", {}, s)
    BY <1>7 DEF StartPick
  <2> QED BY <1>1, <1>3, <1>7, <2>1, ContentFacts, StartTyped DEF StartPick
<1> QED BY <1>4, <1>5, <1>6, <1>7 DEF CallArrives

LEMMA CommitStepsTyped ==
  ASSUME NEW o \in Ops, Typed, CommitSteps(o)
  PROVE  Typed'
<1> USE DEF Typed, VarsTyped, SlotThere, ReadsSomewhere, disk, record, power, budget
<1>0. frame[o] \in Frame /\ frame[o].arg \in Content /\ frame[o].buf \in Content
  BY DEF Frame
<1>1. CASE GuardRefuses(o)
  BY <1>1, ReturnTyped DEF GuardRefuses, Return, Goto
<1>2. CASE NotOpen(o)
  BY <1>2, ReturnTyped DEF NotOpen, Return, Goto
<1>3. CASE Commit(o)
  <2>1. slot' \in Content
    BY <1>0, <1>3, ContentFacts DEF Commit
  <2>2. pc' \in [Ops -> Pcs] /\ frame' \in [Ops -> Frame]
    BY <1>3, ReturnTyped DEF Commit, Goto, Pcs
  <2>3. \A p \in Ops : pc'[p] = "read" => pc[p] = "read" /\ frame'[p] = frame[p]
    BY <1>3 DEF Commit, Return, Goto
  <2>4. ReadsSomewhere'
    BY <2>3
  <2> QED BY <1>3, <2>1, <2>2, <2>4, ContentFacts DEF Commit
<1>4. CASE PostCommitSkips(o)
  BY <1>4, CommitReturnsTyped DEF PostCommitSkips
<1>5. CASE PostCommitExports(o)
  <2>1. slot' \in Content /\ Stamped \in Content
    BY <1>5, ContentFacts DEF PostCommitExports, Stamped
  <2>2. CASE CommitReturns(o, rec) /\ UNCHANGED <<rec, idb, lock>>
    BY <1>5, <2>1, <2>2, ContentFacts, CommitReturnsTyped DEF PostCommitExports
  <2>3. CASE lock' = o /\ Goto(o, "enter") /\ frame' = [frame EXCEPT ![o].buf = Stamped]
             /\ UNCHANGED <<rec, idb, trusted>>
    <3>1. frame' \in [Ops -> Frame]
      BY <2>1, <2>3 DEF Frame
    <3>2. pc' \in [Ops -> Pcs] /\ Steady
      BY <2>3 DEF Goto, Pcs, LockedPcs, Steady
    <3> QED BY <1>5, <2>1, <2>3, <3>1, <3>2, ContentFacts DEF PostCommitExports, Steady
  <2>4. CASE SetRecord(Failed(rec)) /\ Goto(o, "lockFailed") /\ UNCHANGED <<lock, frame, trusted>>
    <3>1. rec' \in Record /\ idb' \in Record
      BY <2>4, RecordFacts, SetRecordTyped
    <3>2. pc' \in [Ops -> Pcs] /\ Steady
      BY <2>4 DEF Goto, Pcs, Steady
    <3> QED BY <1>5, <2>1, <2>4, <3>1, <3>2, ContentFacts DEF PostCommitExports, Steady
  <2> QED BY <1>5, <2>2, <2>3, <2>4 DEF PostCommitExports
<1>6. CASE LockFailed(o)
  <2>1. rec' \in Record /\ idb' \in Record
    BY <1>6, RecordFacts, SetRecordTyped DEF LockFailed
  <2> QED BY <1>6, <2>1, CommitReturnsTyped DEF LockFailed
<1>7. CASE EnterLocked(o)
  <2>1. rec' \in Record /\ idb' \in Record
    BY <1>7, RecordFacts, SetRecordTyped DEF EnterLocked
  <2>2. pc' \in [Ops -> Pcs] /\ Steady
    BY <1>7 DEF Steady, EnterLocked, Goto, Pcs, LockedPcs
  <2>3. frame' \in [Ops -> Frame]
    BY <1>7 DEF EnterLocked, Frame, Record
  <2> QED BY <1>7, <2>1, <2>2, <2>3 DEF EnterLocked, Steady
<1>8. CASE FileReplaced(o)
  <2>1. file' \in [Stores -> Db]
    BY <1>0, <1>8, ContentFacts DEF FileReplaced
  <2>2. pc' \in [Ops -> Pcs] /\ Steady
    BY <1>8 DEF Steady, FileReplaced, Goto, Pcs, LockedPcs
  <2> QED BY <1>8, <2>1, <2>2 DEF FileReplaced, Steady
<1>9. CASE WriteFails(o) \/ WriteRecorded(o)
  <2>1. rec' \in Record /\ idb' \in Record
    BY <1>9, RecordFacts, SetRecordTyped DEF WriteFails, WriteRecorded
  <2>2. pc' \in [Ops -> Pcs] /\ Steady
    BY <1>9 DEF Steady, WriteFails, WriteRecorded, Goto, Pcs, LockedPcs
  <2> QED BY <1>9, <2>1, <2>2 DEF WriteFails, WriteRecorded, Steady
<1>10. CASE Release(o)
  BY <1>10, CommitReturnsTyped DEF Release
<1>11. CASE ExportFails(o)
  <2>1. rec' \in Record
    BY <1>11, RecordFacts DEF ExportFails
  <2> QED BY <1>11, <2>1, CommitReturnsTyped DEF ExportFails
<1> QED
  BY <1>1, <1>2, <1>3, <1>4, <1>5, <1>6, <1>7, <1>8, <1>9, <1>10, <1>11 DEF CommitSteps

LEMMA ImportStepsTyped ==
  ASSUME NEW o \in Ops, Typed, ImportSteps(o)
  PROVE  Typed'
<1> USE DEF Typed, VarsTyped, SlotThere, ReadsSomewhere, disk, record, power, budget
<1>0. frame[o] \in Frame /\ frame[o].arg \in Content /\ frame[o].buf \in Content
  BY DEF Frame
<1>1. CASE ImportInspected(o)
  <2>1. frame' \in [Ops -> Frame]
    BY <1>1, ContentFacts DEF ImportInspected, Frame, Export
  <2>2. pc' \in [Ops -> Pcs] /\ Steady
    BY <1>1 DEF Steady, ImportInspected, Goto, Pcs, LockedPcs
  <2> QED BY <1>1, <2>1, <2>2 DEF ImportInspected, Steady
<1>2. CASE SnapshotToFolder(o)
  <2>1. rec' \in Record /\ idb' \in Record
    BY <1>2, RecordFacts, SetRecordTyped DEF SnapshotToFolder
  <2>2. pc' \in [Ops -> Pcs] /\ Steady
    BY <1>2 DEF Steady, SnapshotToFolder, Goto, Pcs, LockedPcs
  <2> QED BY <1>2, <2>1, <2>2 DEF SnapshotToFolder, Steady
<1>3. CASE SnapshotToOpfs(o)
  <2>1. now' \in Nat /\ rings' \in [Places -> SUBSET Backup]
    BY <1>0, <1>3, AddedTyped DEF SnapshotToOpfs
  <2>2. pc' \in [Ops -> Pcs] /\ Steady
    BY <1>3 DEF Steady, SnapshotToOpfs, Goto, Pcs, LockedPcs
  <2> QED BY <1>3, <2>1, <2>2 DEF SnapshotToOpfs, Steady
<1>4. CASE BackupWritten(o)
  <2>1. now' \in Nat /\ rings' \in [Places -> SUBSET Backup]
    BY <1>0, <1>4, AddedTyped DEF BackupWritten
  <2>2. pc' \in [Ops -> Pcs] /\ Steady
    BY <1>4 DEF Steady, BackupWritten, Goto, Pcs, LockedPcs
  <2> QED BY <1>4, <2>1, <2>2 DEF BackupWritten, Steady
<1>5. CASE BackupFails(o)
  <2>1. rec' \in Record /\ idb' \in Record
    BY <1>5, RecordFacts, SetRecordTyped DEF BackupFails
  <2>2. pc' \in [Ops -> Pcs] /\ Steady
    BY <1>5 DEF Steady, BackupFails, Goto, Pcs, LockedPcs
  <2> QED BY <1>5, <2>1, <2>2 DEF BackupFails, Steady
<1>6. CASE BackupSettles(o)
  <2>1. pc' \in [Ops -> Pcs] /\ Steady
    BY <1>6 DEF Steady, BackupSettles, Goto, Pcs, LockedPcs
  <2> QED BY <1>6, <2>1 DEF BackupSettles, Steady
<1>7. CASE Rotate(o)
  <2>1. rings' \in [Places -> SUBSET Backup]
    BY <1>7, RotatedSubset DEF Rotate
  <2>2. pc' \in [Ops -> Pcs] /\ Steady
    BY <1>7 DEF Steady, Rotate, Goto, Pcs, LockedPcs
  <2> QED BY <1>7, <2>1, <2>2 DEF Rotate, Steady
<1>8. CASE Replace(o)
  <2>1. slot' \in Content
    BY <1>0, <1>8 DEF Replace
  <2>2. frame' \in [Ops -> Frame]
    BY <1>8, RecordFacts DEF Replace
  <2>3. pc' \in [Ops -> Pcs]
    BY <1>8 DEF Replace, Goto, Pcs, LockedPcs
  <2>4. \A p \in Ops : pc'[p] = "read" => pc[p] = "read" /\ frame'[p] = frame[p]
    BY <1>8 DEF Replace, Goto
  <2>5. ReadsSomewhere'
    BY <2>4
  <2> QED BY <1>8, <2>1, <2>2, <2>3, <2>5, ContentFacts DEF Replace
<1>9. CASE ReplaceFails(o)
  <2>1. slot' \in Db /\ (relOpen' => slot' # NoDb) /\ relOpen' \in BOOLEAN
    BY <1>0, <1>9, ContentFacts DEF ReplaceFails
  <2> QED BY <1>9, <2>1, ReturnTyped DEF ReplaceFails, Steady
<1> QED BY <1>1, <1>2, <1>3, <1>4, <1>5, <1>6, <1>7, <1>8, <1>9 DEF ImportSteps

LEMMA PickStepsTyped ==
  ASSUME NEW o \in Ops, Typed, PickSteps(o)
  PROVE  Typed'
<1> USE DEF Typed, VarsTyped, SlotThere, ReadsSomewhere, disk, record, power, budget
<1> DEFINE Control == pc' \in [Ops -> Pcs] /\ frame' \in [Ops -> Frame] /\ Steady
<1>0. frame[o] \in Frame /\ frame[o].dest \in Stores \cup {None}
  BY DEF Frame
<1>1. Return(o) => Control
  BY ReturnTyped DEF Return, Goto
<1>2. CASE ProbeFails(o) \/ ReadMissing(o)
  BY <1>1, <1>2 DEF ProbeFails, ReadMissing, Steady
<1>3. CASE ProbeConnects(o)
  <2>1. rec' \in Record /\ idb' \in Record
    BY <1>0, <1>3, SetRecordTyped DEF ProbeConnects, Record
  <2>2. Control
    BY <1>3 DEF ProbeConnects, Goto, Pcs, Steady
  <2> QED BY <1>3, <2>1, <2>2 DEF ProbeConnects, Steady
<1>4. CASE SaveNow(o)
  <2>1. Control
    <3>1. CASE Return(o)
      BY <1>1, <3>1
    <3>2. CASE /\ slot # NoDb
               /\ Goto(o, "plainWrite")
               /\ frame' = [frame EXCEPT ![o].buf = Export, ![o].dest = rec.sub]
      BY <1>0, <3>2, ContentFacts DEF Goto, Pcs, Frame, Export, Record, Steady
    <3> QED BY <1>4, <3>1, <3>2 DEF SaveNow
  <2> QED BY <1>4, <2>1 DEF SaveNow, Steady
<1>5. CASE SaveNowFails(o) \/ SaveNowRecorded(o) \/ ReadFails(o) \/ ReadRecorded(o)
  <2>1. rec' \in Record /\ idb' \in Record
    BY <1>5, RecordFacts, SetRecordTyped DEF SaveNowFails, SaveNowRecorded, ReadFails, ReadRecorded
  <2>2. Return(o) /\ UNCHANGED <<disk, granted, power, lock, trusted, budget>>
    BY <1>5 DEF SaveNowFails, SaveNowRecorded, ReadFails, ReadRecorded
  <2> QED BY <1>1, <2>1, <2>2 DEF Steady
<1>6. CASE ReadNow(o)
  <2>1. pc' \in [Ops -> Pcs] /\ frame' \in [Ops -> Frame]
    <3>1. CASE Return(o)
      BY <1>1, <3>1
    <3>2. CASE Goto(o, "read") /\ frame' = [frame EXCEPT ![o].dest = rec.sub]
      BY <1>0, <3>2 DEF Goto, Pcs, Frame, Record
    <3> QED BY <1>6, <3>1, <3>2 DEF ReadNow
  <2>2. ReadsSomewhere'
    <3>1. CASE Return(o)
      BY <1>1, <3>1 DEF Steady
    <3>2. CASE /\ ActivePlace # Opfs
               /\ Goto(o, "read")
               /\ frame' = [frame EXCEPT ![o].dest = rec.sub]
      BY <1>0, <3>2, RecordFacts DEF Goto, ActivePlace, Frame
    <3> QED BY <1>6, <3>1, <3>2 DEF ReadNow
  <2> QED BY <1>6, <2>1, <2>2 DEF ReadNow
<1>7. CASE ReadArrives(o)
  <2>1. Control
    <3>1. CASE Return(o)
      BY <1>1, <3>1
    <3>2. CASE /\ file[frame[o].dest] # NoDb
               /\ Goto(o, "guard")
               /\ frame' = [frame EXCEPT ![o].arg = file[frame[o].dest]]
      <4>1. file[frame[o].dest] \in Content
        BY <1>7, <3>2, ContentFacts DEF ReadArrives
      <4> QED BY <1>0, <3>2, <4>1 DEF Goto, Pcs, Frame, Steady
    <3> QED BY <1>7, <3>1, <3>2 DEF ReadArrives
  <2> QED BY <1>7, <2>1 DEF ReadArrives, Steady
<1> QED BY <1>2, <1>3, <1>4, <1>5, <1>6, <1>7 DEF PickSteps

(* The page waits for the start to end, and only a start with a connected  *)
(* folder comes to the steps that read it.                                 *)
BootOrder ==
  /\ boot # "ready" => \A o \in Ops : pc[o] = "idle"
  /\ boot \in {"pivot", "pivotFlag", "migrate", "hydrate"} => Connected(rec)

LEMMA CallsKeepBootOrder ==
  ASSUME NEW o \in Ops, BootOrder, CallArrives(o) \/ CallStep(o)
  PROVE  BootOrder' /\ boot = "ready" /\ boot' = "ready"
<1>1. CASE CallArrives(o)
  BY <1>1 DEF CallArrives, StartMutate, StartImport, StartRestore, StartPick, Start, power,
              BootOrder
<1>2. CASE CommitSteps(o)
  BY <1>2
  DEF CommitSteps, GuardRefuses, NotOpen, Commit, PostCommitSkips, ExportFails, PostCommitExports,
      LockFailed,
      EnterLocked, FileReplaced, WriteFails, WriteRecorded, Release, power, BootOrder
<1>3. CASE ImportSteps(o)
  BY <1>3
  DEF ImportSteps, ImportInspected, SnapshotToFolder, SnapshotToOpfs, BackupWritten, BackupFails,
      BackupSettles, Rotate, ReplaceFails, Replace, power, BootOrder
<1>4. CASE PickSteps(o)
  BY <1>4
  DEF PickSteps, ProbeFails, ProbeConnects, SaveNow, SaveNowFails, SaveNowRecorded, ReadNow,
      ReadArrives, ReadFails, ReadMissing, ReadRecorded, power, BootOrder
<1> QED BY <1>1, <1>2, <1>3, <1>4 DEF CallStep

LEMMA RecordingKeepsConnection ==
  ASSUME rec \in Record
  PROVE  /\ Connected(Failed(rec)) <=> Connected(rec)
         /\ Connected(Succeeded(rec)) <=> Connected(rec)
         /\ Connected([rec EXCEPT !.pivot = TRUE]) <=> Connected(rec)
BY DEF Record, Connected, Failed, Succeeded

LEMMA BootKeepsBootOrder ==
  ASSUME rec \in Record, BootOrder, BootStep
  PROVE  BootOrder'
<1> USE RecordingKeepsConnection DEF BootOrder, BootGoto, SetRecord, BootWriteFails, disk, record
<1>1. CASE BootResolveMode \/ BootPivotDone \/ BootPivotFlag
  BY <1>1 DEF BootResolveMode, BootPivotDone, BootPivotFlag
<1>2. CASE BootPivot
  BY <1>2 DEF BootPivot, PivotWrites, PivotGivesUp, PivotPreserves, PivotKeeps
<1>3. CASE BootMigrateBackups
  BY <1>3 DEF BootMigrateBackups
<1>4. CASE BootHydrate \/ BootBackup \/ BootNoBackup \/ BootRotate
  BY <1>4 DEF BootHydrate, BootBackup, BootNoBackup, BootRotate
<1>5. CASE BootOpen \/ BootFirstWrite
  BY <1>5 DEF BootOpen, BootFirstWrite
<1> QED BY <1>1, <1>2, <1>3, <1>4, <1>5 DEF BootStep

LEMMA BootStepTyped ==
  ASSUME Typed, BootOrder, BootStep
  PROVE  Typed'
<1> USE DEF Typed, VarsTyped, SlotThere, ReadsSomewhere, disk, record, BootGoto, BootPcs, budget
<1>1. CASE BootResolveMode
  BY <1>1 DEF BootResolveMode
<1>2. CASE BootPivot
  <2>1. slot \notin Empty => slot \in Content
    BY ContentFacts DEF Empty
  <2>2. PICK data \in FolderData :
          \/ slot \notin Empty /\ data \in Empty /\ (PivotWrites \/ PivotGivesUp)
          \/ slot \notin Empty /\ data \notin Empty /\ data # slot /\ PivotPreserves
          \/ PivotKeeps
    BY <1>2 DEF BootPivot
  <2>3. UNCHANGED <<slot, relOpen, granted, mode>>
    BY <1>2 DEF BootPivot
  <2>4. CASE PivotWrites
    BY <2>3, <2>4, RecordFacts, SetRecordTyped DEF PivotWrites
  <2>5. CASE PivotGivesUp
    BY <2>3, <2>5, RecordFacts, SetRecordTyped DEF PivotGivesUp, BootWriteFails
  <2>6. CASE slot \notin Empty /\ PivotPreserves
    <3>1. CASE Added(rec.sub, TRUE, slot) /\ UNCHANGED <<rec, idb>>
      <4>1. now' \in Nat /\ rings' \in [Places -> SUBSET Backup]
        BY <2>1, <2>6, <3>1, AddedTyped
      <4> QED BY <2>3, <2>6, <3>1, <4>1 DEF PivotPreserves
    <3>2. CASE BootWriteFails /\ UNCHANGED <<rings, now>>
      BY <2>3, <2>6, <3>2, RecordFacts, SetRecordTyped DEF PivotPreserves, BootWriteFails
    <3> QED BY <2>6, <3>1, <3>2 DEF PivotPreserves
  <2>7. CASE PivotKeeps
    BY <2>3, <2>7 DEF PivotKeeps
  <2> QED BY <2>2, <2>4, <2>5, <2>6, <2>7
<1>3. CASE BootPivotFlag
  <2>1. rec' \in Record /\ idb' \in Record
    BY <1>3, SetRecordTyped DEF BootPivotFlag, Record
  <2> QED BY <1>3, <2>1 DEF BootPivotFlag
<1>4. CASE BootPivotDone
  BY <1>4 DEF BootPivotDone
<1>5. CASE BootMigrateBackups
  <2>1. PICK moved \in SUBSET rings[Opfs] :
          /\ IF ActivePlace = Opfs \/ moved = {}
             THEN UNCHANGED rings
             ELSE rings' = [rings EXCEPT ![Opfs] = @ \ moved,
                                         ![ActivePlace] = Rotated(@ \cup moved)]
          /\ IF ActivePlace = Opfs \/ moved = rings[Opfs]
             THEN UNCHANGED <<rec, idb>>
             ELSE SetRecord(Failed(rec))
    BY <1>5 DEF BootMigrateBackups
  <2>2. rec' \in Record /\ idb' \in Record
    BY <2>1, RecordFacts, SetRecordTyped
  <2>3. rings' \in [Places -> SUBSET Backup]
    BY <2>1, RotatedSubset DEF Places
  <2> QED BY <1>5, <2>2, <2>3 DEF BootMigrateBackups
<1>6. CASE BootHydrate
  <2>1. rec' \in Record /\ idb' \in Record
    BY <1>6, RecordFacts, SetRecordTyped DEF BootHydrate
  <2>2. slot' \in Db /\ (slot # NoDb => slot' # NoDb)
    BY <1>6, RecordFacts DEF BootHydrate, Hydrated, BootOrder
  <2> QED BY <1>6, <2>1, <2>2 DEF BootHydrate
<1>7. CASE BootBackup
  <2>1. now' \in Nat /\ rings' \in [Places -> SUBSET Backup]
    BY <1>7, ContentFacts, AddedTyped DEF BootBackup
  <2> QED BY <1>7, <2>1 DEF BootBackup
<1>8. CASE BootNoBackup
  <2>1. rec' \in Record /\ idb' \in Record
    BY <1>8, RecordFacts, SetRecordTyped DEF BootNoBackup, BootWriteFails
  <2> QED BY <1>8, <2>1 DEF BootNoBackup
<1>9. CASE BootRotate
  <2>1. rings' \in [Places -> SUBSET Backup]
    BY <1>9, RotatedSubset DEF BootRotate
  <2> QED BY <1>9, <2>1 DEF BootRotate
<1>10. CASE BootOpen
  <2>1. slot' \in Db /\ (slot # NoDb => slot' = slot) /\ relOpen' \in BOOLEAN
    BY <1>10, ContentFacts DEF BootOpen
  <2>2. relOpen' => slot' # NoDb
    BY <1>10, ContentFacts DEF BootOpen
  <2> QED BY <1>10, <2>1, <2>2 DEF BootOpen
<1>11. CASE BootFirstWrite
  <2>1. Stamped \in Db /\ (slot # NoDb => Stamped # NoDb)
    BY ContentFacts DEF Stamped
  <2>2. slot' \in Db /\ (slot # NoDb => slot' # NoDb) /\ file' \in [Stores -> Db]
    BY <1>11, <2>1 DEF BootFirstWrite, BootWriteFails
  <2>3. rec' \in Record /\ idb' \in Record
    BY <1>11, RecordFacts, SetRecordTyped DEF BootFirstWrite, BootWriteFails
  <2> QED BY <1>11, <2>2, <2>3 DEF BootFirstWrite
<1> QED
  BY <1>1, <1>2, <1>3, <1>4, <1>5, <1>6, <1>7, <1>8, <1>9, <1>10, <1>11 DEF BootStep

LEMMA InitTyped == Init => Typed
<1> SUFFICES ASSUME Init PROVE Typed
  OBVIOUS
<1>1. slot \in Db /\ file \in [Stores -> Db]
  BY StartAssumption, ContentFacts DEF Init
<1>2. idb \in Record /\ rec \in Record
  BY RecordFacts, StartAssumption DEF Init, Record
<1>3. pc \in [Ops -> Pcs] /\ frame \in [Ops -> Frame]
  BY RecordFacts DEF Init, Pcs
<1>4. rings \in [Places -> SUBSET Backup]
  BY DEF Init
<1> QED
  BY <1>1, <1>2, <1>3, <1>4, ContentFacts
  DEF Init, Typed, VarsTyped, SlotThere, ReadsSomewhere, BootPcs

LEMMA NextTyped == Typed /\ BootOrder /\ [Next]_vars => (Typed /\ BootOrder)'
<1> SUFFICES ASSUME Typed, BootOrder, [Next]_vars PROVE (Typed /\ BootOrder)'
  OBVIOUS
<1>1. CASE \E o \in Ops : CallArrives(o) \/ CallStep(o)
  BY <1>1, CallsKeepBootOrder, CallArrivesTyped, CommitStepsTyped, ImportStepsTyped, PickStepsTyped
  DEF CallStep
<1>2. CASE ClearFolderHandle
  BY <1>2, RecordFacts
  DEF ClearFolderHandle, OneMoreCall, Typed, VarsTyped, SlotThere, ReadsSomewhere, BootOrder,
      disk, power
<1>3. CASE BootStep
  BY <1>3, BootStepTyped, BootKeepsBootOrder DEF Typed, VarsTyped
<1>4. CASE Crash
  <2>1. pc' \in [Ops -> Pcs] /\ frame' \in [Ops -> Frame] /\ \A o \in Ops : pc'[o] = "idle"
    BY <1>4, RecordFacts DEF Crash, Pcs
  <2>2. VarsTyped'
    <3>1. boots' \in Nat /\ boot' \in BootPcs
      BY <1>4 DEF Crash, Typed, VarsTyped, BootPcs
    <3>2. rec' \in Record /\ relOpen' \in BOOLEAN /\ mode' \in {"opfs", "folder"} /\ lock' = None
      BY <1>4, RecordFacts DEF Crash
    <3>3. UNCHANGED <<slot, file, rings, now, idb, granted, trusted, issued, calls>>
      BY <1>4 DEF Crash, budget
    <3> QED BY <2>1, <3>1, <3>2, <3>3 DEF Typed, VarsTyped
  <2>3. relOpen' = FALSE /\ boot' = "down"
    BY <1>4 DEF Crash
  <2> QED
    BY <2>1, <2>2, <2>3 DEF Typed, SlotThere, ReadsSomewhere, BootOrder
<1>5. CASE PermissionChanges
  BY <1>5
  DEF PermissionChanges, Typed, VarsTyped, SlotThere, ReadsSomewhere, BootOrder, disk, power, budget
<1>6. CASE UNCHANGED vars
  BY <1>6 DEF vars, Typed, VarsTyped, SlotThere, ReadsSomewhere, BootOrder
<1> QED BY <1>1, <1>2, <1>3, <1>4, <1>5, <1>6 DEF Next

LEMMA Typing == Spec => [](Typed /\ BootOrder)
<1>1. Init => Typed /\ BootOrder
  BY InitTyped DEF Init, BootOrder
<1> QED BY <1>1, NextTyped, PTL DEF Spec

(* Every variable keeps its type: in particular no folder write is ever    *)
(* handed a database that does not exist, whatever fails and whenever the  *)
(* worker dies.                                                            *)
THEOREM TypeCorrect == Spec => []TypeOK
<1>1. Typed => TypeOK
  BY ContentFacts DEF Typed, TypeOK, VarsTyped, Frame
<1> QED BY <1>1, Typing, PTL

(***************************************************************************)
(* The Web Lock.  The invariant is inductive by itself once pc is typed:   *)
(* a call takes the lock only when it is free, and every way out of the    *)
(* locked stretch passes through a step that gives it back.                *)
(***************************************************************************)
LEMMA CallKeepsLock ==
  ASSUME NEW o \in Ops, VarsTyped, LockDiscipline, CallStep(o)
  PROVE  LockDiscipline'
<1> USE TokensAssumption DEF LockDiscipline, LockedPcs
<1>0. pc \in [Ops -> Pcs] /\ lock \in Ops \cup {None} /\ None \notin Ops
  BY DEF VarsTyped
<1>1. CASE CommitSteps(o)
  <2>1. CASE UNCHANGED lock
    <3>1. /\ \A p \in Ops : p # o => pc'[p] = pc[p]
          /\ pc[o] \in LockedPcs <=> pc'[o] \in LockedPcs
      BY <1>0, <1>1, <2>1
      DEF CommitSteps, GuardRefuses, NotOpen, Commit, PostCommitSkips, ExportFails,
          PostCommitExports, LockFailed,
          EnterLocked, FileReplaced, WriteFails, WriteRecorded, Release, Goto, Return,
          CommitReturns, LockFree
    <3> QED BY <2>1, <3>1
  <2>2. CASE PostCommitExports(o) /\ LockFree /\ lock' = o /\ Goto(o, "enter")
    BY <1>0, <2>2 DEF LockFree, Goto
  <2>3. CASE Release(o)
    BY <1>0, <2>3 DEF Release, CommitReturns, Return, Goto
  <2> QED
    BY <1>1, <2>1, <2>2, <2>3
    DEF CommitSteps, GuardRefuses, NotOpen, Commit, PostCommitSkips, ExportFails,
        PostCommitExports, LockFailed,
        EnterLocked, FileReplaced, WriteFails, WriteRecorded
<1>2. CASE ImportSteps(o)
  <2>1. CASE ImportInspected(o) \/ SnapshotToOpfs(o) \/ BackupWritten(o) \/ BackupFails(o)
    BY <1>0, <2>1 DEF ImportInspected, SnapshotToOpfs, BackupWritten, BackupFails, Goto
  <2>2. CASE SnapshotToFolder(o)
    BY <1>0, <2>2 DEF SnapshotToFolder, LockFree, Goto
  <2>3. CASE BackupSettles(o)
    BY <1>0, <2>3 DEF BackupSettles, Goto
  <2>4. CASE Rotate(o) \/ Replace(o) \/ ReplaceFails(o)
    BY <1>0, <2>4 DEF Rotate, Replace, ReplaceFails, Goto, Return
  <2> QED BY <1>2, <2>1, <2>2, <2>3, <2>4 DEF ImportSteps
<1>3. CASE PickSteps(o)
  BY <1>0, <1>3
  DEF PickSteps, ProbeFails, ProbeConnects, SaveNow, SaveNowFails, SaveNowRecorded, ReadNow,
      ReadArrives, ReadFails, ReadMissing, ReadRecorded, Goto, Return
<1> QED BY <1>1, <1>2, <1>3 DEF CallStep

LEMMA NextKeepsLock == VarsTyped /\ LockDiscipline /\ [Next]_vars => LockDiscipline'
<1> SUFFICES ASSUME VarsTyped, LockDiscipline, [Next]_vars PROVE LockDiscipline'
  OBVIOUS
<1>1. CASE \E o \in Ops : CallStep(o)
  BY <1>1, CallKeepsLock
<1>2. CASE \E o \in Ops : CallArrives(o)
  BY <1>2
  DEF CallArrives, StartMutate, StartImport, StartRestore, StartPick, Start, Goto,
      LockDiscipline, LockedPcs, VarsTyped
<1>3. CASE ClearFolderHandle \/ PermissionChanges
  BY <1>3 DEF ClearFolderHandle, PermissionChanges, LockDiscipline
<1>4. CASE BootStep
  BY <1>4
  DEF BootStep, BootResolveMode, BootPivot, PivotWrites, PivotGivesUp, PivotPreserves, PivotKeeps,
      BootPivotFlag, BootPivotDone, BootMigrateBackups, BootHydrate, BootBackup, BootNoBackup,
      BootRotate, BootOpen, BootFirstWrite, BootGoto, LockDiscipline
<1>5. CASE Crash
  BY <1>5, TokensAssumption DEF Crash, LockDiscipline, LockedPcs
<1>6. CASE UNCHANGED vars
  BY <1>6 DEF vars, LockDiscipline
<1> QED BY <1>1, <1>2, <1>3, <1>4, <1>5, <1>6 DEF Next

(* No two guarded folder writes overlap and none leaves the lock behind,   *)
(* for any number of calls of any flow, whatever fails.                    *)
THEOREM LockDisciplined == Spec => []LockDiscipline
<1>1. Init => LockDiscipline
  BY TokensAssumption DEF Init, LockDiscipline, LockedPcs
<1>2. TypeOK => VarsTyped
  BY DEF TypeOK
<1> QED BY <1>1, <1>2, NextKeepsLock, TypeCorrect, PTL DEF Spec

(***************************************************************************)
(* Edits on one connected store.  What makes the file move forward only:   *)
(* the export waiting to be written lies between the file and the slot,    *)
(* and the lock lets no other write come between it and the file.          *)
(***************************************************************************)
CommitPcs == {"idle", "guard", "postCommit", "lockFailed", "enter", "write", "wrote", "release"}

(* The store is connected throughout, saved once, and past its migration.  *)
OneStore ==
  /\ \A r \in {rec, idb} : r.sub \in {None, InitSub} /\ (Connected(r) => r.saved /\ r.pivot)
  /\ mode = "folder" => Connected(rec)
  /\ boot # "firstWrite"

OnlyEdits ==
  \A o \in Ops : /\ pc[o] \in CommitPcs
                 /\ pc[o] # "idle" => frame[o].kind = "mutate"
                 /\ pc[o] = "guard" => \E e \in Edits : frame[o].arg = {e}
                 /\ frame[o].dest \in {None, InitSub}

(* Database d is there and lacks nothing that c has.                       *)
Covers(d, c) == c # NoDb => d # NoDb /\ c \subseteq d

ExportsBetween ==
  \A o \in Ops : pc[o] \in {"enter", "write"} =>
    Covers(slot, frame[o].buf) /\ Covers(frame[o].buf, file[InitSub])

CommitInv ==
  /\ Typed /\ BootOrder /\ LockDiscipline
  /\ OneStore /\ OnlyEdits /\ ExportsBetween
  /\ Covers(slot, file[InitSub])

(* One step of the system, seen by DurableStore.                           *)
DurableStep == [Durable!Next]_(Durable!vars)

Forward == \A s \in Stores : Covers(file'[s], file[s])

LEMMA CoversFacts ==
  /\ \A d : Covers(d, d)
  /\ \A b, c, d : Covers(d, c) /\ Covers(c, b) => Covers(d, b)
  /\ \A d \in Content : \A c : Covers(d, c) => Covers(d \cup {Identity}, c)
  /\ \A d \in Db, c \in Db : Covers(d, c) => Contents(c) \subseteq Contents(d)
BY ContentFacts DEF Covers, Contents

(* An export never takes anything out of the slot.                         *)
LEMMA StampedCovers ==
  ASSUME Typed
  PROVE  /\ Covers(Stamped, slot)
         /\ slot # NoDb => Stamped \in Content
         /\ Contents(Stamped) \in {Contents(slot), Contents(slot) \cup {Identity}}
BY ContentFacts DEF Typed, VarsTyped, SlotThere, Stamped, Covers, Contents

LEMMA OneStoreStays ==
  ASSUME Kinds = {"mutate"}, Typed, BootOrder, OneStore, OnlyEdits, [Next]_vars
  PROVE  OneStore'
<1> DEFINE Good(r) == r.sub \in {None, InitSub} /\ (Connected(r) => r.saved /\ r.pivot)
<1>1. \A r \in Record : Good(r) =>
        Good(Failed(r)) /\ Good(Succeeded(r)) /\ Good([r EXCEPT !.pivot = TRUE])
  BY DEF Record, Connected, Failed, Succeeded
<1>2. \A r \in Record : (Connected(r) <=> Connected(Failed(r))) /\ (Connected(r) <=> Connected(Succeeded(r)))
  BY DEF Record, Connected, Failed, Succeeded
<1>3. rec \in Record /\ idb \in Record /\ Good(rec) /\ Good(idb)
  BY DEF Typed, VarsTyped, OneStore
<1>4. ASSUME NEW o \in Ops, CallArrives(o) \/ CallStep(o)
      PROVE  OneStore'
  <2>1. /\ UNCHANGED <<mode, boot>>
        /\ \/ UNCHANGED <<rec, idb>>
           \/ SetRecord(Failed(rec))
           \/ SetRecord(Succeeded(rec))
           \/ rec' = Failed(rec) /\ idb' = idb
    <3>1. CASE CallArrives(o)
      BY <3>1
      DEF CallArrives, StartMutate, StartImport, StartRestore, StartPick, Start, power, record
    <3>2. CASE CommitSteps(o)
      BY <3>2
      DEF CommitSteps, GuardRefuses, NotOpen, Commit, PostCommitSkips, ExportFails,
          PostCommitExports, LockFailed,
          EnterLocked, FileReplaced, WriteFails, WriteRecorded, Release, power, record
    <3>3. ~ImportSteps(o) /\ ~PickSteps(o)
      BY DEF ImportSteps, ImportInspected, SnapshotToFolder, SnapshotToOpfs, BackupWritten,
             BackupFails, BackupSettles, Rotate, ReplaceFails, Replace, PickSteps, ProbeFails,
             ProbeConnects,
             SaveNow, SaveNowFails, SaveNowRecorded, ReadNow, ReadArrives, ReadFails, ReadMissing,
             ReadRecorded, OnlyEdits, CommitPcs
    <3> QED BY <1>4, <3>1, <3>2, <3>3 DEF CallStep
  <2>2. CASE rec' = Failed(rec) /\ idb' = idb
    <3>1. Good(rec') /\ Good(idb') /\ (Connected(rec) <=> Connected(rec'))
      BY <1>1, <1>2, <1>3, <2>2
    <3> QED BY <2>1, <3>1 DEF OneStore
  <2> QED BY <1>1, <1>2, <1>3, <2>1, <2>2 DEF SetRecord, OneStore
<1>5. CASE BootResolveMode
  BY <1>3, <1>5 DEF BootResolveMode, BootGoto, OneStore
<1>6. CASE BootPivotFlag \/ BootPivotDone \/ BootMigrateBackups \/ BootHydrate \/ BootBackup
           \/ BootNoBackup \/ BootRotate
  <2>1. /\ \/ UNCHANGED <<rec, idb>>
           \/ SetRecord(Failed(rec))
           \/ SetRecord([rec EXCEPT !.pivot = TRUE])
        /\ mode' = mode
        /\ boot' # "firstWrite"
    BY <1>6
    DEF BootPivotFlag, BootPivotDone, BootMigrateBackups, BootHydrate, BootBackup, BootNoBackup,
        BootRotate, BootWriteFails, BootGoto, record
  <2>2. Connected([rec EXCEPT !.pivot = TRUE]) <=> Connected(rec)
    BY <1>3, RecordingKeepsConnection
  <2> QED BY <1>1, <1>2, <1>3, <2>1, <2>2 DEF SetRecord, OneStore
<1>7. CASE BootOpen
  BY <1>7 DEF BootOpen, BootGoto, OneStore, record
<1>8. ~BootPivot /\ ~BootFirstWrite
  BY DEF BootPivot, BootFirstWrite, OneStore, BootOrder
<1>9. ~ClearFolderHandle
  BY DEF ClearFolderHandle
<1>10. CASE Crash
  BY <1>10 DEF Crash, NoRecord, Connected, OneStore
<1>11. CASE PermissionChanges
  BY <1>11 DEF PermissionChanges, power, OneStore
<1>12. CASE UNCHANGED vars
  BY <1>12 DEF vars, OneStore
<1> QED
  BY <1>4, <1>5, <1>6, <1>7, <1>8, <1>9, <1>10, <1>11, <1>12 DEF Next, BootStep

LEMMA OnlyEditsStays ==
  ASSUME Kinds = {"mutate"}, Typed, OneStore, OnlyEdits, [Next]_vars
  PROVE  OnlyEdits'
<1> USE DEF OnlyEdits, CommitPcs
<1>0. /\ pc \in [Ops -> Pcs] /\ frame \in [Ops -> Frame]
      /\ None \notin Ops
      /\ \A o \in Ops : frame[o].dest \in {None, InitSub} /\ frame[o].kind \in {"mutate", "none"}
      /\ rec.sub \in {None, InitSub}
  BY TokensAssumption DEF Typed, VarsTyped, Frame, OneStore
<1>1. ASSUME NEW o \in Ops, CallArrives(o)
      PROVE  OnlyEdits'
  <2>1. PICK e \in Edits : Start(o, "guard", "mutate", {e}, None)
    BY <1>1 DEF CallArrives, StartMutate, StartImport, StartRestore, StartPick, Start
  <2> QED BY <1>0, <2>1 DEF Start, Goto
<1>2. ASSUME NEW o \in Ops, CallStep(o)
      PROVE  OnlyEdits'
  <2>1. ~ImportSteps(o) /\ ~PickSteps(o)
    BY DEF ImportSteps, ImportInspected, SnapshotToFolder, SnapshotToOpfs, BackupWritten,
           BackupFails, BackupSettles, Rotate, ReplaceFails, Replace, PickSteps, ProbeFails,
           ProbeConnects,
           SaveNow, SaveNowFails, SaveNowRecorded, ReadNow, ReadArrives, ReadFails, ReadMissing,
           ReadRecorded
  <2>2. /\ \A p \in Ops : p # o => pc'[p] = pc[p] /\ frame'[p] = frame[p]
        /\ pc'[o] \in CommitPcs \ {"guard"}
        /\ pc'[o] # "idle" => frame'[o].kind = "mutate"
        /\ frame'[o].dest \in {None, InitSub}
    <3>1. CASE GuardRefuses(o) \/ NotOpen(o) \/ Commit(o)
      BY <1>0, <3>1 DEF GuardRefuses, NotOpen, Commit, Return, Goto, NoFrame
    <3>2. CASE PostCommitSkips(o) \/ ExportFails(o) \/ LockFailed(o) \/ Release(o)
      BY <1>0, <3>2
      DEF PostCommitSkips, ExportFails, LockFailed, Release, CommitReturns, Return, Goto, NoFrame
    <3>3. CASE PostCommitExports(o)
      BY <1>0, <3>3 DEF PostCommitExports, CommitReturns, Return, Goto, NoFrame, Frame
    <3>4. CASE EnterLocked(o)
      BY <1>0, <3>4 DEF EnterLocked, Goto, Frame
    <3>5. CASE FileReplaced(o) \/ WriteFails(o) \/ WriteRecorded(o)
      BY <1>0, <3>5 DEF FileReplaced, WriteFails, WriteRecorded, Goto
    <3> QED BY <1>2, <2>1, <3>1, <3>2, <3>3, <3>4, <3>5 DEF CallStep, CommitSteps
  <2> QED BY <2>2
<1>3. CASE BootStep
  BY <1>3
  DEF BootStep, BootResolveMode, BootPivot, PivotWrites, PivotGivesUp, PivotPreserves, PivotKeeps,
      BootPivotFlag, BootPivotDone, BootMigrateBackups, BootHydrate, BootBackup, BootNoBackup,
      BootRotate, BootOpen, BootFirstWrite, BootGoto
<1>4. CASE ClearFolderHandle \/ PermissionChanges
  BY <1>4 DEF ClearFolderHandle, PermissionChanges
<1>5. CASE Crash
  BY <1>5 DEF Crash, NoFrame
<1>6. CASE UNCHANGED vars
  BY <1>6 DEF vars
<1> QED BY <1>1, <1>2, <1>3, <1>4, <1>5, <1>6 DEF Next

(* The steps DurableStore allows, in terms of the slot and the file.       *)
LEMMA DurableSteps ==
  ASSUME InitSub \in Stores, slot \in Db, file \in [Stores -> Db],
         file' \in [Stores -> Db]
  PROVE  /\ (Contents(slot') = Contents(slot) /\ file'[InitSub] = file[InitSub]) => DurableStep
         /\ \A e \in Edits \cup {Identity} :
              (Contents(slot') = Contents(slot) \cup {e} /\ file'[InitSub] = file[InitSub])
                => DurableStep
         /\ (/\ slot' = slot
             /\ Covers(slot, file'[InitSub])
             /\ Covers(file'[InitSub], file[InitSub])) => DurableStep
         /\ (/\ slot' = file[InitSub]
             /\ Covers(slot, file[InitSub])
             /\ file'[InitSub] = file[InitSub]) => DurableStep
<1> DEFINE w == Contents(slot)
           d == Contents(file[InitSub])
<1>1. InitSub # None
  BY TokensAssumption
<1>2. Durable!vars = <<w, d>> /\ Durable!vars' = <<Contents(slot'), Contents(file'[InitSub])>>
  BY <1>1 DEF Durable!vars
<1>3. w \in SUBSET (Edits \cup {Identity}) /\ Contents(file'[InitSub]) \in SUBSET (Edits \cup {Identity})
  BY DEF Contents, Db, Content
<1>4. Contents(slot') = Contents(slot) /\ file'[InitSub] = file[InitSub] => DurableStep
  BY <1>2 DEF DurableStep
<1>5. \A e \in Edits \cup {Identity} :
        Contents(slot') = Contents(slot) \cup {e} /\ file'[InitSub] = file[InitSub] => DurableStep
  BY <1>1 DEF DurableStep, Durable!Next, Durable!Commit
<1>6. slot' = slot /\ Covers(slot, file'[InitSub]) /\ Covers(file'[InitSub], file[InitSub]) => DurableStep
  BY <1>1, <1>3 DEF DurableStep, Durable!Next, Durable!Save, Covers, Contents
<1>7. slot' = file[InitSub] /\ Covers(slot, file[InitSub]) /\ file'[InitSub] = file[InitSub] => DurableStep
  BY <1>1, <1>3 DEF DurableStep, Durable!Next, Durable!Restart, Covers, Contents
<1> HIDE DEF w, d
<1> QED BY <1>4, <1>5, <1>6, <1>7

LEMMA CallStepMoves ==
  ASSUME Kinds = {"mutate"}, InitSub \in Stores, CommitInv, Typed', NEW o \in Ops, CallStep(o)
  PROVE  ExportsBetween' /\ Covers(slot, file[InitSub])' /\ Forward /\ DurableStep
<1> DEFINE Waits(p) == pc[p] \in {"enter", "write"}
           Kept(p) == pc'[p] \in {"enter", "write"} => Waits(p) /\ frame'[p].buf = frame[p].buf
<1>1. /\ slot \in Db /\ file \in [Stores -> Db]
      /\ slot' \in Db /\ file' \in [Stores -> Db]
      /\ pc \in [Ops -> Pcs] /\ frame \in [Ops -> Frame]
      /\ Covers(slot, file[InitSub])
  BY DEF CommitInv, Typed, VarsTyped
<1>2. \A p \in Ops : Waits(p) => Covers(slot, frame[p].buf) /\ Covers(frame[p].buf, file[InitSub])
  BY DEF CommitInv, ExportsBetween
<1>3. CASE GuardRefuses(o) \/ NotOpen(o) \/ PostCommitSkips(o) \/ ExportFails(o) \/ LockFailed(o)
           \/ EnterLocked(o) \/ WriteFails(o) \/ WriteRecorded(o) \/ Release(o)
  <2>1. slot' = slot /\ file' = file
    BY <1>3
    DEF GuardRefuses, NotOpen, PostCommitSkips, ExportFails, LockFailed, EnterLocked, WriteFails,
        WriteRecorded, Release, disk
  <2>2. \A p \in Ops : Kept(p)
    <3>1. CASE GuardRefuses(o) \/ NotOpen(o) \/ PostCommitSkips(o) \/ ExportFails(o)
               \/ LockFailed(o) \/ Release(o)
      BY <1>1, <3>1
      DEF GuardRefuses, NotOpen, PostCommitSkips, ExportFails, LockFailed, Release, CommitReturns,
          Return, Goto
    <3>2. CASE EnterLocked(o)
      BY <1>1, <3>2 DEF EnterLocked, Goto, Frame, CommitInv, OnlyEdits, CommitPcs
    <3>3. CASE WriteFails(o) \/ WriteRecorded(o)
      BY <1>1, <3>3 DEF WriteFails, WriteRecorded, Goto
    <3> QED BY <1>3, <3>1, <3>2, <3>3
  <2> QED BY <1>1, <1>2, <2>1, <2>2, CoversFacts, DurableSteps DEF ExportsBetween, Forward
<1>4. CASE Commit(o)
  <2>1. PICK e \in Edits : slot' = slot \cup {e}
    BY <1>4 DEF Commit, CommitInv, OnlyEdits
  <2>2. slot \in Content /\ slot' # NoDb
    BY <1>1, <1>4, <2>1, ContentFacts DEF Commit, CommitInv, Typed, SlotThere, Content
  <2>3. Covers(slot', slot) /\ Contents(slot') = Contents(slot) \cup {e}
    BY <2>1, <2>2, ContentFacts DEF Covers, Contents
  <2>4. file' = file /\ \A p \in Ops : Kept(p)
    BY <1>1, <1>4 DEF Commit, Return, Goto
  <2> QED BY <1>1, <1>2, <2>3, <2>4, CoversFacts, DurableSteps DEF ExportsBetween, Forward
<1>5. CASE PostCommitExports(o)
  <2>1. slot' = Stamped /\ file' = file
    BY <1>5 DEF PostCommitExports
  <2>2. Covers(slot', slot)
    BY <2>1, StampedCovers DEF CommitInv
  <2>3. Contents(slot') \in {Contents(slot), Contents(slot) \cup {Identity}}
    BY <2>1, StampedCovers DEF CommitInv
  <2>4. \A p \in Ops : Kept(p) \/ frame'[p].buf = slot'
    BY <1>1, <1>5, <2>1 DEF PostCommitExports, CommitReturns, Return, Goto, Frame
  <2>5. ExportsBetween'
    BY <1>1, <1>2, <2>1, <2>2, <2>4, CoversFacts DEF ExportsBetween
  <2> QED BY <1>1, <2>1, <2>2, <2>3, <2>5, CoversFacts, DurableSteps DEF Forward
<1>6. CASE FileReplaced(o)
  <2>1. pc[o] = "write" /\ pc'[o] = "wrote" /\ UNCHANGED <<slot, frame>>
        /\ \A p \in Ops : p # o => pc'[p] = pc[p]
    BY <1>1, <1>6 DEF FileReplaced, Goto, CommitInv, OnlyEdits, CommitPcs
  <2>2. \A p \in Ops : p # o => ~Waits(p)
    BY <2>1 DEF CommitInv, LockDiscipline, LockedPcs
  <2>3. ExportsBetween'
    BY <2>1, <2>2 DEF ExportsBetween
  <2>4. frame[o].dest \in {None, InitSub} /\ None \notin Stores
    BY TokensAssumption DEF CommitInv, OnlyEdits
  <2>5. \A s \in Stores : file'[s] = file[s] \/ (s = InitSub /\ file'[s] = frame[o].buf)
    BY <1>1, <1>6, <2>4 DEF FileReplaced
  <2>6. Covers(slot, file'[InitSub]) /\ Covers(file'[InitSub], file[InitSub])
    BY <1>1, <1>2, <2>1, <2>5, CoversFacts
  <2>7. Forward
    BY <2>5, <2>6, CoversFacts DEF Forward
  <2> QED BY <1>1, <2>1, <2>3, <2>6, <2>7, DurableSteps
<1>7. ~ImportSteps(o) /\ ~PickSteps(o)
  BY DEF ImportSteps, ImportInspected, SnapshotToFolder, SnapshotToOpfs, BackupWritten,
         BackupFails, BackupSettles, Rotate, ReplaceFails, Replace, PickSteps, ProbeFails,
         ProbeConnects,
         SaveNow, SaveNowFails, SaveNowRecorded, ReadNow, ReadArrives, ReadFails, ReadMissing,
         ReadRecorded,
         CommitInv, OnlyEdits, CommitPcs
<1> QED BY <1>3, <1>4, <1>5, <1>6, <1>7 DEF CallStep, CommitSteps

LEMMA BootStepMoves ==
  ASSUME InitSub \in Stores, CommitInv, Typed', BootStep
  PROVE  ExportsBetween' /\ Covers(slot, file[InitSub])' /\ Forward /\ DurableStep
<1>1. /\ slot \in Db /\ file \in [Stores -> Db]
      /\ slot' \in Db /\ file' \in [Stores -> Db]
      /\ Covers(slot, file[InitSub])
  BY DEF CommitInv, Typed, VarsTyped
<1>2. \A o \in Ops : pc'[o] = "idle"
  BY DEF CommitInv, BootOrder, BootStep, BootResolveMode, BootPivot, PivotWrites, PivotGivesUp,
         PivotPreserves, PivotKeeps, BootPivotFlag, BootPivotDone, BootMigrateBackups, BootHydrate,
         BootBackup, BootNoBackup, BootRotate, BootOpen, BootFirstWrite, BootGoto
<1>3. ExportsBetween'
  BY <1>2 DEF ExportsBetween
<1>4. ~BootPivot /\ ~BootFirstWrite
  BY DEF BootPivot, BootFirstWrite, CommitInv, OneStore, BootOrder
<1>5. CASE BootResolveMode \/ BootPivotFlag \/ BootPivotDone \/ BootMigrateBackups \/ BootBackup
           \/ BootNoBackup \/ BootRotate
  <2>1. slot' = slot /\ file' = file
    BY <1>5
    DEF BootResolveMode, BootPivotFlag, BootPivotDone, BootMigrateBackups, BootBackup, BootNoBackup,
        BootRotate, disk
  <2> QED BY <1>1, <1>3, <2>1, CoversFacts, DurableSteps DEF Forward
<1>6. CASE BootHydrate
  <2>1. rec.sub = InitSub
    BY <1>6 DEF BootHydrate, CommitInv, BootOrder, OneStore, Connected
  <2>2. file' = file /\ (slot' = slot \/ (slot' = file[InitSub] /\ file[InitSub] # NoDb))
    BY <1>6, <2>1 DEF BootHydrate, Hydrated
  <2> QED BY <1>1, <1>3, <2>2, CoversFacts, DurableSteps DEF Forward
<1>7. CASE BootOpen
  <2>1. file' = file /\ (slot' = slot \/ (slot = NoDb /\ slot' = {}))
    BY <1>7 DEF BootOpen
  <2>2. Contents(slot') = Contents(slot) /\ Covers(slot', file[InitSub])
    BY <1>1, <2>1 DEF Contents, Covers
  <2> QED BY <1>1, <1>3, <2>1, <2>2, CoversFacts, DurableSteps DEF Forward
<1> QED BY <1>4, <1>5, <1>6, <1>7 DEF BootStep

LEMMA NextMoves ==
  ASSUME Kinds = {"mutate"}, InitSub \in Stores, CommitInv, [Next]_vars
  PROVE  CommitInv' /\ Forward /\ DurableStep
<1>1. (Typed /\ BootOrder /\ LockDiscipline /\ OneStore /\ OnlyEdits)'
  BY NextTyped, NextKeepsLock, OneStoreStays, OnlyEditsStays DEF CommitInv, Typed
<1>2. /\ slot \in Db /\ file \in [Stores -> Db]
      /\ slot' \in Db /\ file' \in [Stores -> Db]
      /\ Covers(slot, file[InitSub])
  BY <1>1 DEF CommitInv, Typed, VarsTyped
<1>3. ASSUME slot' = slot, file' = file,
             \A o \in Ops : pc'[o] \in {"enter", "write"} => pc'[o] = pc[o] /\ frame'[o] = frame[o]
      PROVE  ExportsBetween' /\ Covers(slot, file[InitSub])' /\ Forward /\ DurableStep
  BY <1>2, <1>3, CoversFacts, DurableSteps DEF CommitInv, ExportsBetween, Forward
<1>4. CASE \E o \in Ops : CallArrives(o)
  <2>1. PICK o \in Ops : CallArrives(o)
    BY <1>4
  <2>2. pc \in [Ops -> Pcs] /\ frame \in [Ops -> Frame]
    BY DEF CommitInv, Typed, VarsTyped
  <2>3. /\ slot' = slot /\ file' = file
        /\ \A p \in Ops : pc'[p] \in {"enter", "write"} => pc'[p] = pc[p] /\ frame'[p] = frame[p]
    BY <2>1, <2>2
    DEF CallArrives, StartMutate, StartImport, StartRestore, StartPick, Start, Goto, disk
  <2> QED BY <1>1, <1>3, <2>3 DEF CommitInv
<1>5. CASE \E o \in Ops : CallStep(o)
  BY <1>1, <1>5, CallStepMoves DEF CommitInv
<1>6. CASE BootStep
  BY <1>1, <1>6, BootStepMoves DEF CommitInv
<1>7. CASE ClearFolderHandle \/ Crash \/ PermissionChanges \/ UNCHANGED vars
  <2>1. /\ slot' = slot /\ file' = file
        /\ \A p \in Ops : pc'[p] \in {"enter", "write"} => pc'[p] = pc[p] /\ frame'[p] = frame[p]
    BY <1>7 DEF ClearFolderHandle, Crash, PermissionChanges, vars, disk
  <2> QED BY <1>1, <1>3, <2>1 DEF CommitInv
<1> QED BY <1>4, <1>5, <1>6, <1>7 DEF Next

LEMMA InitCommitInv ==
  ASSUME InitSub \in Stores, Init
  PROVE  CommitInv
<1>1. Typed /\ BootOrder /\ LockDiscipline
  BY InitTyped, TokensAssumption DEF Init, BootOrder, LockDiscipline, LockedPcs
<1>2. InitSub # None
  BY TokensAssumption
<1>3. OneStore
  BY <1>2 DEF Init, OneStore, NoRecord, Connected
<1>4. OnlyEdits /\ ExportsBetween
  BY DEF Init, OnlyEdits, CommitPcs, ExportsBetween, NoFrame
<1>5. Covers(slot, file[InitSub])
  BY <1>2, CoversFacts DEF Init
<1> QED BY <1>1, <1>3, <1>4, <1>5 DEF CommitInv

(* However edits interleave, fail, lose their permission or die half-way,  *)
(* and however often the worker starts again, the folder file never goes   *)
(* back to one that lacks an edit it had.                                  *)
THEOREM CommitsMoveForward ==
  ASSUME Kinds = {"mutate"}, InitSub \in Stores
  PROVE  Spec => FolderNeverRegresses
<1>1. Init => CommitInv
  BY InitCommitInv
<1>2. CommitInv /\ [Next]_vars => CommitInv'
  BY NextMoves
<1>3. CommitInv /\ [Next]_vars =>
        [\A s \in Stores : file[s] # NoDb => file'[s] # NoDb /\ file[s] \subseteq file'[s]]_vars
  BY NextMoves DEF Forward, Covers
<1> QED BY <1>1, <1>2, <1>3, PTL DEF Spec, FolderNeverRegresses

(* Edits on one connected store implement DurableStore: each edit enters   *)
(* the database once, each folder write moves the file forward to          *)
(* something committed, and a restart loses only what no write covered.    *)
THEOREM CommitsAreDurable ==
  ASSUME Kinds = {"mutate"}, InitSub \in Stores
  PROVE  Spec => ImplementsDurableStore
<1>1. Init => CommitInv /\ Durable!Init
  <2>1. SUFFICES ASSUME Init PROVE CommitInv /\ Durable!Init
    OBVIOUS
  <2>2. CommitInv
    BY <2>1, InitCommitInv
  <2>3. InitSub # None /\ slot \in Db /\ file[InitSub] \in Db /\ Covers(slot, file[InitSub])
    BY <2>2, TokensAssumption DEF CommitInv, Typed, VarsTyped
  <2>4. Durable!Init
    BY <2>3 DEF Durable!Init, Covers, Contents, Db, Content
  <2> QED BY <2>2, <2>4
<1>2. CommitInv /\ [Next]_vars => CommitInv'
  BY NextMoves
<1>3. CommitInv /\ [Next]_vars => [Durable!Next]_(Durable!vars)
  BY NextMoves DEF DurableStep
<1> QED
  BY <1>1, <1>2, <1>3, PTL DEF Spec, ImplementsDurableStore, Durable!Spec

(***************************************************************************)
(* The flow a call is in, by where it is suspended: no handler runs into   *)
(* the stretch of another one, and none writes a file or reads one before  *)
(* it knows the store.                                                     *)
(***************************************************************************)
Importing == {"snapshot", "bakEnter", "bakWrite", "bakDone", "bakFailed", "rotate", "replace"}
Writing   == {"postCommit", "lockFailed", "enter", "write", "wrote", "release"}
Aimed     == {"probe", "write", "wrote", "plainWrite", "plainWrote", "read", "bakWrite"}

InFlow(p, k) ==
  \/ p = "idle"
  \/ p = "probe" /\ k \in {"create", "open"}
  \/ p \in {"saveQuery", "plainWrite", "plainWrote"} /\ k = "create"
  \/ p \in {"readQuery", "read", "readTail"} /\ k = "open"
  \/ p \in Importing /\ k \in {"import", "restore", "open"}
  \/ p \in {"guard"} \cup Writing /\ k \in {"mutate", "import", "restore", "open"}

FlowOf(p, c) == InFlow(p, c.kind) /\ (p \in Aimed => c.dest \in Stores)

Flows == \A o \in Ops : FlowOf(pc[o], frame[o])

(* Only o moves in this step.                                              *)
Alone(o) == \A p \in Ops : p # o => pc'[p] = pc[p] /\ frame'[p] = frame[p]

LEMMA ReturnFlows ==
  ASSUME NEW o \in Ops, pc \in [Ops -> Pcs], frame \in [Ops -> Frame], Return(o)
  PROVE  Alone(o) /\ pc'[o] = "idle" /\ frame'[o] = NoFrame /\ FlowOf(pc'[o], frame'[o])
BY DEF Return, Goto, Alone, FlowOf, InFlow, Aimed

LEMMA GotoFlows ==
  ASSUME NEW o \in Ops, NEW p, pc \in [Ops -> Pcs], Goto(o, p)
  PROVE  pc'[o] = p /\ \A q \in Ops : q # o => pc'[q] = pc[q]
BY DEF Goto

LEMMA CommitReturnFlows ==
  ASSUME NEW o \in Ops, NEW r, pc \in [Ops -> Pcs], frame \in [Ops -> Frame], CommitReturns(o, r)
  PROVE  /\ Alone(o) /\ FlowOf(pc'[o], frame'[o])
         /\ frame[o].kind = "open" => pc'[o] = "readTail" /\ frame'[o] = frame[o] /\ trusted' = trusted
         /\ frame[o].kind # "open" => pc'[o] = "idle" /\ frame'[o] = NoFrame /\ trusted' = Acknowledged(o, r)
<1>1. CASE frame[o].kind = "open"
  BY <1>1, GotoFlows DEF CommitReturns, Alone, FlowOf, InFlow, Aimed
<1>2. CASE frame[o].kind # "open"
  BY <1>2, ReturnFlows DEF CommitReturns
<1> QED BY <1>1, <1>2

LEMMA CallArrivesFlows ==
  ASSUME NEW o \in Ops, Typed, CallArrives(o)
  PROVE  /\ Alone(o) /\ FlowOf(pc'[o], frame'[o])
         /\ pc[o] = "idle" /\ pc'[o] \in {"guard", "probe"}
         /\ UNCHANGED <<disk, record, power, lock, trusted>>
         /\ pc'[o] = "guard" => frame'[o].kind # "open" /\ Connected(rec)
         /\ pc'[o] = "probe" => /\ frame'[o].dest \in Stores
                                /\ frame'[o].kind \in {"create", "open"} \cap Kinds
                                /\ frame'[o].kind = "open" <=> file[frame'[o].dest] # NoDb
<1>0. pc \in [Ops -> Pcs] /\ frame \in [Ops -> Frame]
  BY DEF Typed, VarsTyped
<1> USE <1>0 DEF Alone, FlowOf, InFlow, Aimed, Start, Goto
<1>1. CASE StartMutate(o)
  BY <1>1 DEF StartMutate
<1>2. CASE StartImport(o)
  BY <1>2 DEF StartImport
<1>3. CASE StartRestore(o)
  BY <1>3 DEF StartRestore
<1>4. CASE StartPick(o)
  BY <1>4 DEF StartPick
<1> QED BY <1>1, <1>2, <1>3, <1>4 DEF CallArrives

LEMMA CallStepFlows ==
  ASSUME NEW o \in Ops, Typed, Flows, CallStep(o)
  PROVE  Alone(o) /\ FlowOf(pc'[o], frame'[o])
<1>0. /\ pc \in [Ops -> Pcs] /\ frame \in [Ops -> Frame] /\ rec \in Record
      /\ FlowOf(pc[o], frame[o])
  BY DEF Typed, VarsTyped, Flows
<1>1. CASE CommitSteps(o)
  <2>1. CASE GuardRefuses(o) \/ NotOpen(o)
    BY <1>0, <2>1, ReturnFlows DEF GuardRefuses, NotOpen
  <2>2. CASE Commit(o)
    BY <1>0, <2>2, ReturnFlows, GotoFlows DEF Commit, Alone, FlowOf, InFlow, Aimed, Writing
  <2>3. CASE PostCommitSkips(o) \/ ExportFails(o) \/ LockFailed(o) \/ Release(o)
    BY <1>0, <2>3, CommitReturnFlows DEF PostCommitSkips, ExportFails, LockFailed, Release
  <2>4. CASE PostCommitExports(o)
    <3>1. CASE lock' = o /\ Goto(o, "enter") /\ frame' = [frame EXCEPT ![o].buf = Stamped]
      BY <1>0, <2>4, <3>1, GotoFlows
      DEF PostCommitExports, Alone, FlowOf, InFlow, Aimed, Writing, Importing, Frame
    <3>2. CASE Goto(o, "lockFailed") /\ UNCHANGED frame
      BY <1>0, <2>4, <3>2, GotoFlows
      DEF PostCommitExports, Alone, FlowOf, InFlow, Aimed, Writing, Importing
    <3> QED BY <1>0, <2>4, <3>1, <3>2, CommitReturnFlows DEF PostCommitExports
  <2>5. CASE EnterLocked(o)
    <3>1. CASE Connected(rec)
      BY <1>0, <2>5, <3>1, GotoFlows, RecordFacts
      DEF EnterLocked, Alone, FlowOf, InFlow, Aimed, Writing, Importing, Frame
    <3>2. CASE ~Connected(rec)
      BY <1>0, <2>5, <3>2, GotoFlows DEF EnterLocked, Alone, FlowOf, InFlow, Aimed, Writing,
                                         Importing
    <3> QED BY <3>1, <3>2
  <2>6. CASE FileReplaced(o)
    BY <1>0, <2>6, GotoFlows DEF FileReplaced, Alone, FlowOf, InFlow, Aimed, Writing, Importing
  <2>7. CASE WriteFails(o) \/ WriteRecorded(o)
    BY <1>0, <2>7, GotoFlows DEF WriteFails, WriteRecorded, Alone, FlowOf, InFlow, Aimed, Writing,
                                 Importing
  <2> QED BY <1>1, <2>1, <2>2, <2>3, <2>4, <2>5, <2>6, <2>7 DEF CommitSteps
<1>2. CASE ImportSteps(o)
  <2> USE DEF Alone, FlowOf, InFlow, Aimed, Writing, Importing
  <2>1. CASE ImportInspected(o)
    BY <1>0, <2>1, GotoFlows DEF ImportInspected, Frame
  <2>2. CASE SnapshotToFolder(o) \/ SnapshotToOpfs(o)
    <3>1. /\ pc[o] = "snapshot" /\ frame' = frame
          /\ Goto(o, "bakEnter") \/ Goto(o, "rotate") \/ Goto(o, "replace")
      BY <2>2 DEF SnapshotToFolder, SnapshotToOpfs
    <3>2. pc'[o] \in {"bakEnter", "rotate", "replace"} /\ \A q \in Ops : q # o => pc'[q] = pc[q]
      BY <1>0, <3>1, GotoFlows
    <3> QED BY <1>0, <3>1, <3>2
  <2>3. CASE BackupWritten(o) \/ BackupFails(o)
    BY <1>0, <2>3, GotoFlows DEF BackupWritten, BackupFails
  <2>4. CASE BackupSettles(o) \/ Rotate(o)
    BY <1>0, <2>4, GotoFlows DEF BackupSettles, Rotate
  <2>5. CASE Replace(o)
    <3> DEFINE next == IF Connected(rec) THEN "postCommit"
                       ELSE IF frame[o].kind = "open" THEN "readTail" ELSE "idle"
    <3>1. Goto(o, next) /\ pc[o] = "replace"
      BY <2>5 DEF Replace
    <3>2. CASE Connected(rec) \/ frame[o].kind = "open"
      BY <1>0, <2>5, <3>1, <3>2, GotoFlows DEF Replace
    <3>3. CASE ~(Connected(rec) \/ frame[o].kind = "open")
      BY <1>0, <2>5, <3>1, <3>3, GotoFlows DEF Replace
    <3> QED BY <3>2, <3>3
  <2>6. CASE ReplaceFails(o)
    BY <1>0, <2>6, ReturnFlows DEF ReplaceFails
  <2> QED BY <1>2, <2>1, <2>2, <2>3, <2>4, <2>5, <2>6 DEF ImportSteps
<1>3. CASE PickSteps(o)
  <2>1. CASE \/ ProbeFails(o) \/ SaveNowFails(o) \/ SaveNowRecorded(o)
             \/ ReadFails(o) \/ ReadMissing(o) \/ ReadRecorded(o)
    BY <1>0, <2>1, ReturnFlows
    DEF ProbeFails, SaveNowFails, SaveNowRecorded, ReadFails, ReadMissing, ReadRecorded
  <2>2. CASE ProbeConnects(o)
    BY <1>0, <2>2, GotoFlows DEF ProbeConnects, Alone, FlowOf, InFlow, Aimed, Writing, Importing
  <2>3. CASE SaveNow(o)
    BY <1>0, <2>3, GotoFlows, ReturnFlows, RecordFacts
    DEF SaveNow, ActivePlace, Alone, FlowOf, InFlow, Aimed, Writing, Importing, Frame
  <2>4. CASE ReadNow(o)
    BY <1>0, <2>4, GotoFlows, ReturnFlows, RecordFacts
    DEF ReadNow, ActivePlace, Alone, FlowOf, InFlow, Aimed, Writing, Importing, Frame
  <2>5. CASE ReadArrives(o)
    BY <1>0, <2>5, GotoFlows, ReturnFlows
    DEF ReadArrives, Alone, FlowOf, InFlow, Aimed, Writing, Importing, Frame
  <2> QED BY <1>3, <2>1, <2>2, <2>3, <2>4, <2>5 DEF PickSteps
<1> QED BY <1>1, <1>2, <1>3 DEF CallStep

(* What no call does: the page's disconnect, the start, a crash, the       *)
(* browser.  The calls stay where they are, or all end.                    *)
Outside == ClearFolderHandle \/ BootStep \/ Crash \/ PermissionChanges \/ UNCHANGED vars

LEMMA OutsideFlows ==
  ASSUME Outside
  PROVE  \/ UNCHANGED <<pc, frame>>
         \/ Crash /\ \A o \in Ops : pc'[o] = "idle" /\ frame'[o] = NoFrame
BY DEF Outside, ClearFolderHandle, BootStep, BootResolveMode, BootPivot, PivotWrites, PivotGivesUp,
       PivotPreserves, PivotKeeps, BootPivotFlag, BootPivotDone, BootMigrateBackups, BootHydrate,
       BootBackup, BootNoBackup, BootRotate, BootOpen, BootFirstWrite, BootGoto, Crash,
       PermissionChanges, vars

LEMMA NextCases ==
  ASSUME [Next]_vars
  PROVE  (\E o \in Ops : CallArrives(o) \/ CallStep(o)) \/ Outside
BY DEF Next, Outside

LEMMA NextFlows == Typed /\ Flows /\ [Next]_vars => Flows'
<1> SUFFICES ASSUME Typed, Flows, [Next]_vars PROVE Flows'
  OBVIOUS
<1>1. ASSUME NEW o \in Ops, CallArrives(o) \/ CallStep(o) PROVE Flows'
  BY <1>1, CallArrivesFlows, CallStepFlows DEF Flows, Alone
<1>2. CASE Outside
  BY <1>2, OutsideFlows DEF Flows, FlowOf, InFlow, Aimed
<1> QED BY <1>1, <1>2, NextCases

(***************************************************************************)
(* The record of the folder, its copy, and the start.                      *)
(***************************************************************************)
BootFolder ==
  /\ boot # "ready" /\ mode = "folder" => Connected(rec)
  /\ boot = "firstWrite" => relOpen /\ mode = "folder"
  /\ boot = "down" => rec = NoRecord /\ mode = "opfs"
  /\ boot # "down" => rec.sub = idb.sub

LEMMA RecordedFacts ==
  ASSUME rec \in Record
  PROVE  /\ Failed(rec).sub = rec.sub /\ Failed(rec).err /\ Failed(rec).saved = rec.saved
         /\ Failed(rec).pivot = rec.pivot
         /\ Succeeded(rec).sub = rec.sub /\ ~Succeeded(rec).err /\ Succeeded(rec).saved
         /\ Succeeded(rec).pivot = rec.pivot
BY DEF Record, Failed, Succeeded

(* What a step of a call does to the record.                               *)
LEMMA CallRecords ==
  ASSUME NEW o \in Ops, CallStep(o)
  PROVE  /\ UNCHANGED <<power, budget>>
         /\ \/ UNCHANGED <<rec, idb, granted>>
            \/ SetRecord(Failed(rec)) /\ granted' = granted
            \/ SetRecord(Succeeded(rec)) /\ granted' = granted
            \/ rec' = Failed(rec) /\ UNCHANGED <<idb, granted>>
            \/ ProbeConnects(o)
<1>1. CASE CommitSteps(o)
  BY <1>1
  DEF CommitSteps, GuardRefuses, NotOpen, Commit, PostCommitSkips, ExportFails, PostCommitExports,
      LockFailed,
      EnterLocked, FileReplaced, WriteFails, WriteRecorded, Release, record, power, budget
<1>2. CASE ImportSteps(o)
  BY <1>2
  DEF ImportSteps, ImportInspected, SnapshotToFolder, SnapshotToOpfs, BackupWritten, BackupFails,
      BackupSettles, Rotate, ReplaceFails, Replace, record, power, budget
<1>3. CASE PickSteps(o)
  BY <1>3
  DEF PickSteps, ProbeFails, ProbeConnects, SaveNow, SaveNowFails, SaveNowRecorded, ReadNow,
      ReadArrives, ReadFails, ReadMissing, ReadRecorded, record, power, budget
<1> QED BY <1>1, <1>2, <1>3 DEF CallStep

LEMMA ConnectedTo ==
  ASSUME NEW o \in Ops, Typed, Flows, ProbeConnects(o)
  PROVE  /\ rec'.sub = frame[o].dest /\ frame[o].dest \in Stores /\ ~rec'.err /\ idb' = rec'
         /\ rec'.pivot = rec.pivot /\ Connected(rec') /\ granted'
         /\ rec'.saved <=> rec.saved /\ ~(frame[o].kind = "create" /\ \E s \in Stores : file[s] # NoDb)
<1>1. rec \in Record /\ FlowOf(pc[o], frame[o]) /\ pc[o] = "probe" /\ granted'
  BY DEF Typed, VarsTyped, Flows, ProbeConnects
<1>2. frame[o].dest \in Stores /\ frame[o].dest # None
  BY <1>1, TokensAssumption DEF FlowOf, Aimed
<1> DEFINE further == frame[o].kind = "create" /\ \E s \in Stores : file[s] # NoDb
           r == [rec EXCEPT !.sub = frame[o].dest, !.err = FALSE, !.saved = @ /\ ~further]
<1>3. SetRecord(r)
  BY DEF ProbeConnects
<1>4. r.sub = frame[o].dest /\ ~r.err /\ r.pivot = rec.pivot /\ r.saved = (rec.saved /\ ~further)
  BY <1>1 DEF Record
<1> HIDE DEF r
<1>5. rec' = r /\ idb' = r
  BY <1>2, <1>3, <1>4 DEF SetRecord, Connected
<1> QED BY <1>1, <1>2, <1>4, <1>5 DEF Connected

LEMMA CallKeepsBootFolder ==
  ASSUME NEW o \in Ops, Typed, BootOrder, Flows, BootFolder, CallArrives(o) \/ CallStep(o)
  PROVE  BootFolder'
<1>0. boot = "ready" /\ boot' = "ready" /\ rec \in Record
  BY CallsKeepBootOrder DEF Typed, VarsTyped
<1>1. rec'.sub = idb'.sub
  <2>1. CASE CallArrives(o)
    BY <1>0, <2>1, CallArrivesFlows DEF BootFolder, record
  <2>2. CASE ProbeConnects(o)
    BY <2>2, ConnectedTo
  <2>3. CASE CallStep(o) /\ ~ProbeConnects(o)
    BY <1>0, <2>3, CallRecords, RecordedFacts DEF BootFolder, SetRecord
  <2> QED BY <2>1, <2>2, <2>3
<1> QED BY <1>0, <1>1 DEF BootFolder

LEMMA OutsideKeepsBootFolder ==
  ASSUME Typed, BootOrder, BootFolder, Outside
  PROVE  BootFolder'
<1>0. rec \in Record /\ idb \in Record /\ NoRecord.sub = None
  BY DEF Typed, VarsTyped, NoRecord
<1>1. CASE ClearFolderHandle
  BY <1>1 DEF ClearFolderHandle, BootFolder, power
<1>2. CASE BootStep
  <2>1. CASE BootResolveMode
    BY <2>1 DEF BootResolveMode, BootFolder, BootGoto
  <2>2. ASSUME ~BootResolveMode
        PROVE  /\ \/ UNCHANGED <<rec, idb>>
                  \/ SetRecord(Failed(rec))
                  \/ SetRecord(Succeeded(rec))
                  \/ SetRecord([rec EXCEPT !.pivot = TRUE])
               /\ mode' = mode /\ boot # "down" /\ boot' # "down"
               /\ boot # "ready"
               /\ boot' = "firstWrite" => relOpen' /\ mode = "folder"
    <3>1. CASE BootPivot
      BY <3>1 DEF BootPivot, PivotWrites, PivotGivesUp, PivotPreserves, PivotKeeps,
                  BootWriteFails, BootGoto
    <3>2. CASE BootPivotFlag \/ BootPivotDone \/ BootMigrateBackups \/ BootHydrate
      BY <3>2 DEF BootPivotFlag, BootPivotDone, BootMigrateBackups, BootHydrate, BootGoto, record
    <3>3. CASE BootBackup \/ BootNoBackup \/ BootRotate \/ BootOpen \/ BootFirstWrite
      BY <3>3 DEF BootBackup, BootNoBackup, BootRotate, BootOpen, BootFirstWrite, BootWriteFails,
                  BootGoto, record
    <3> QED BY <1>2, <2>2, <3>1, <3>2, <3>3 DEF BootStep
  <2>3. [rec EXCEPT !.pivot = TRUE].sub = rec.sub
    BY <1>0 DEF Record
  <2>4. CASE ~BootResolveMode
    <3>1. rec'.sub = rec.sub /\ rec'.sub = idb'.sub
      BY <1>0, <2>2, <2>3, <2>4, RecordedFacts DEF BootFolder, SetRecord
    <3> QED BY <2>2, <2>4, <3>1 DEF BootFolder, Connected
  <2> QED BY <2>1, <2>4
<1>3. CASE Crash
  BY <1>3 DEF Crash, BootFolder
<1>4. CASE PermissionChanges \/ UNCHANGED vars
  BY <1>4 DEF PermissionChanges, BootFolder, vars, disk, power
<1> QED BY <1>1, <1>2, <1>3, <1>4 DEF Outside

(* The permission, when nothing takes it back.                             *)
KeptGrant == Connected(idb) => granted

LEMMA NextKeepsGrant ==
  ASSUME "lapse" \notin Faults, Typed, BootOrder, Flows, BootFolder, KeptGrant, [Next]_vars
  PROVE  KeptGrant'
<1>0. rec \in Record /\ idb \in Record
  BY DEF Typed, VarsTyped
<1>1. ASSUME NEW o \in Ops, CallArrives(o) \/ CallStep(o) PROVE KeptGrant'
  <2>0. boot = "ready"
    BY <1>1, CallsKeepBootOrder
  <2>1. CASE CallArrives(o)
    BY <2>1, CallArrivesFlows DEF KeptGrant, record
  <2>2. CASE ProbeConnects(o)
    BY <2>2, ConnectedTo DEF KeptGrant
  <2>3. CASE CallStep(o) /\ ~ProbeConnects(o)
    BY <1>0, <2>0, <2>3, CallRecords, RecordedFacts DEF KeptGrant, SetRecord, BootFolder, Connected
  <2> QED BY <1>1, <2>1, <2>2, <2>3
<1>2. CASE Outside
  <2>1. CASE ClearFolderHandle
    BY <2>1 DEF ClearFolderHandle, KeptGrant, NoRecord, Connected
  <2>2. CASE BootStep
    <3>1. granted' = granted
      BY <2>2
      DEF BootStep, BootResolveMode, BootPivot, BootPivotFlag, BootPivotDone, BootMigrateBackups,
          BootHydrate, BootBackup, BootNoBackup, BootRotate, BootOpen, BootFirstWrite, record
    <3>2. idb'.sub = idb.sub
      <4>1. CASE BootResolveMode
        BY <4>1 DEF BootResolveMode
      <4>2. CASE boot # "down"
        <5>1. \/ UNCHANGED <<rec, idb>>
              \/ SetRecord(Failed(rec))
              \/ SetRecord(Succeeded(rec))
              \/ SetRecord([rec EXCEPT !.pivot = TRUE])
          BY <2>2, <4>2
          DEF BootStep, BootResolveMode, BootPivot, PivotWrites, PivotGivesUp, PivotPreserves,
              PivotKeeps, BootPivotFlag, BootPivotDone, BootMigrateBackups, BootHydrate, BootBackup,
              BootNoBackup, BootRotate, BootOpen, BootFirstWrite, BootWriteFails, record
        <5>2. [rec EXCEPT !.pivot = TRUE].sub = rec.sub
          BY <1>0 DEF Record
        <5> QED BY <1>0, <4>2, <5>1, <5>2, RecordedFacts DEF BootFolder, SetRecord
      <4> QED
        BY <2>2, <4>1, <4>2
        DEF BootStep, BootPivot, BootPivotFlag, BootPivotDone, BootMigrateBackups, BootHydrate,
            BootBackup, BootNoBackup, BootRotate, BootOpen, BootFirstWrite
    <3> QED BY <3>1, <3>2 DEF KeptGrant, Connected
  <2>3. CASE Crash \/ UNCHANGED vars
    BY <2>3 DEF Crash, vars, KeptGrant
  <2>4. ~PermissionChanges
    BY DEF PermissionChanges
  <2> QED BY <1>2, <2>1, <2>2, <2>3, <2>4 DEF Outside
<1> QED BY <1>1, <1>2, NextCases

(* A call past its probe has a folder behind it, when the member does not  *)
(* disconnect it.                                                          *)
OnFolder == \A o \in Ops : pc[o] \notin {"idle", "probe"} => Connected(rec)

LEMMA NextKeepsFolder ==
  ASSUME "lock" \notin Kinds, Typed, BootOrder, Flows, OnFolder, [Next]_vars
  PROVE  OnFolder'
<1>0. rec \in Record
  BY DEF Typed, VarsTyped
<1>1. ASSUME NEW o \in Ops, CallArrives(o) PROVE OnFolder'
  BY <1>1, CallArrivesFlows DEF OnFolder, Alone, record
<1>2. ASSUME NEW o \in Ops, CallStep(o) PROVE OnFolder'
  <2>1. Connected(rec) => Connected(rec')
    BY <1>0, <1>2, CallRecords, RecordedFacts, ConnectedTo DEF SetRecord, Connected
  <2>2. Alone(o)
    BY <1>2, CallStepFlows
  <2>3. pc'[o] \notin {"idle", "probe"} => Connected(rec')
    <3>1. CASE ProbeConnects(o)
      BY <3>1, ConnectedTo
    <3>2. CASE pc[o] = "probe" /\ ~ProbeConnects(o)
      <4>1. ProbeFails(o)
        BY <1>2, <3>2
        DEF CallStep, CommitSteps, GuardRefuses, NotOpen, Commit, PostCommitSkips, ExportFails,
            PostCommitExports,
            LockFailed, EnterLocked, FileReplaced, WriteFails, WriteRecorded, Release, ImportSteps,
            ImportInspected, SnapshotToFolder, SnapshotToOpfs, BackupWritten, BackupFails,
            BackupSettles, Rotate, ReplaceFails, Replace, PickSteps, SaveNow, SaveNowFails,
            SaveNowRecorded,
            ReadNow, ReadArrives, ReadFails, ReadMissing, ReadRecorded
      <4> QED BY <4>1, ReturnFlows DEF ProbeFails, Typed, VarsTyped
    <3>3. CASE pc[o] # "probe"
      <4>1. pc[o] # "idle"
        BY <1>2
        DEF CallStep, CommitSteps, GuardRefuses, NotOpen, Commit, PostCommitSkips, ExportFails,
            PostCommitExports,
            LockFailed, EnterLocked, FileReplaced, WriteFails, WriteRecorded, Release, ImportSteps,
            ImportInspected, SnapshotToFolder, SnapshotToOpfs, BackupWritten, BackupFails,
            BackupSettles, Rotate, ReplaceFails, Replace, PickSteps, ProbeFails, ProbeConnects,
            SaveNow,
            SaveNowFails, SaveNowRecorded, ReadNow, ReadArrives, ReadFails, ReadMissing,
            ReadRecorded
      <4> QED BY <2>1, <3>3, <4>1 DEF OnFolder
    <3> QED BY <3>1, <3>2, <3>3
  <2> QED BY <2>1, <2>2, <2>3 DEF OnFolder, Alone
<1>3. CASE Outside
  <2>1. CASE BootStep
    BY <2>1, BootKeepsBootOrder, OutsideFlows, <1>3
    DEF BootOrder, OnFolder, Crash, BootStep, BootResolveMode, BootPivot, BootPivotFlag,
        BootPivotDone, BootMigrateBackups, BootHydrate, BootBackup, BootNoBackup, BootRotate,
        BootOpen, BootFirstWrite
  <2>2. CASE Crash
    BY <2>2 DEF Crash, OnFolder
  <2>3. CASE PermissionChanges \/ UNCHANGED vars
    BY <2>3 DEF PermissionChanges, vars, OnFolder
  <2>4. ~ClearFolderHandle
    BY DEF ClearFolderHandle
  <2> QED BY <1>3, <2>1, <2>2, <2>3, <2>4 DEF Outside
<1> QED BY <1>1, <1>2, <1>3, NextCases

StoreInv == Typed /\ BootOrder /\ LockDiscipline /\ Flows /\ BootFolder

LEMMA InitStoreInv == Init => StoreInv
<1> SUFFICES ASSUME Init PROVE StoreInv
  OBVIOUS
<1>1. Typed /\ BootOrder /\ LockDiscipline
  BY InitTyped, TokensAssumption DEF Init, BootOrder, LockDiscipline, LockedPcs
<1>2. Flows /\ BootFolder
  BY DEF Init, Flows, FlowOf, InFlow, Aimed, BootFolder
<1> QED BY <1>1, <1>2 DEF StoreInv

LEMMA InitKeepsGrant == Init => KeptGrant
<1> SUFFICES ASSUME Init PROVE KeptGrant
  OBVIOUS
<1>1. CASE InitSub = None
  BY <1>1 DEF Init, KeptGrant, NoRecord, Connected
<1>2. CASE InitSub # None
  BY <1>2 DEF Init, KeptGrant
<1> QED BY <1>1, <1>2

LEMMA NextStoreInv == StoreInv /\ [Next]_vars => StoreInv'
<1> SUFFICES ASSUME StoreInv, [Next]_vars PROVE StoreInv'
  OBVIOUS
<1>1. (Typed /\ BootOrder /\ LockDiscipline /\ Flows)'
  BY NextTyped, NextKeepsLock, NextFlows DEF StoreInv, Typed
<1>2. BootFolder'
  BY NextCases, CallKeepsBootFolder, OutsideKeepsBootFolder DEF StoreInv
<1> QED BY <1>1, <1>2 DEF StoreInv

(* The record and its copy name the same folder once the start has read    *)
(* the copy, and only they do.                                             *)
LEMMA SameFolder ==
  ASSUME StoreInv
  PROVE  Connected(rec) => Connected(idb) /\ rec.sub = idb.sub /\ rec.sub \in Stores
BY RecordFacts DEF StoreInv, Typed, VarsTyped, BootFolder, Connected, NoRecord

(***************************************************************************)
(* Edits of a store that was saved: what was acknowledged as saved is in   *)
(* the file.  A call's own edit is on its way there from the commit on,    *)
(* and the lock keeps a failure recorded until its call has returned.      *)
(***************************************************************************)
Claims(r) == Connected(r) /\ r.saved /\ ~r.err

EditOnItsWay(o) ==
  /\ pc[o] \in {"postCommit", "enter", "write"} => frame[o].arg \subseteq Contents(slot)
  /\ pc[o] \in {"enter", "write"} => frame[o].arg \subseteq frame[o].buf
  /\ pc[o] = "wrote" => frame[o].arg \subseteq Contents(file[InitSub])
  /\ pc[o] = "release" /\ Claims(rec) => frame[o].arg \subseteq Contents(file[InitSub])

CommitTrust ==
  /\ trusted \subseteq Contents(file[InitSub])
  /\ \A o \in Ops : EditOnItsWay(o)

LEMMA CallKeepsTrust ==
  ASSUME Kinds = {"mutate"}, InitSub \in Stores, CommitInv, Flows, CommitInv', Forward,
         CommitTrust, NEW o \in Ops, CallStep(o)
  PROVE  CommitTrust'
<1>0. /\ pc \in [Ops -> Pcs] /\ frame \in [Ops -> Frame] /\ rec \in Record
      /\ slot \in Db /\ file \in [Stores -> Db] /\ slot' \in Db /\ file' \in [Stores -> Db]
      /\ pc[o] # "idle" => frame[o].kind = "mutate"
  BY DEF CommitInv, Typed, VarsTyped, OnlyEdits
<1>1. Contents(file[InitSub]) \subseteq Contents(file'[InitSub])
  BY <1>0, CoversFacts DEF Forward
<1> DEFINE Rest == \A p \in Ops : p # o => pc'[p] = pc[p] /\ frame'[p] = frame[p]
<1>2. ASSUME Rest, Contents(slot) \subseteq Contents(slot'), Claims(rec') => Claims(rec), NEW p \in Ops, p # o
      PROVE  EditOnItsWay(p)'
  BY <1>1, <1>2 DEF CommitTrust, EditOnItsWay
<1>3. CASE GuardRefuses(o) \/ NotOpen(o) \/ PostCommitSkips(o) \/ ExportFails(o)
           \/ LockFailed(o) \/ Release(o)
  <2>1. /\ Rest /\ pc'[o] = "idle" /\ slot' = slot /\ file' = file
        /\ Claims(rec') => Claims(rec)
        /\ trusted' = trusted \/ (Claims(rec) /\ pc[o] = "release" /\ trusted' = trusted \cup frame[o].arg)
    <3>1. CASE GuardRefuses(o) \/ NotOpen(o)
      BY <1>0, <3>1 DEF GuardRefuses, NotOpen, Return, Goto, disk, record
    <3>2. CASE PostCommitSkips(o)
      BY <1>0, <3>2 DEF PostCommitSkips, CommitReturns, Return, Goto, Acknowledged, SavedBadge,
                        disk, record
    <3>3. CASE ExportFails(o) \/ LockFailed(o)
      <4>1. rec' = Failed(rec) /\ ~Claims(Failed(rec)) /\ ~SavedBadge(Failed(rec))
        BY <1>0, <3>3, RecordedFacts DEF ExportFails, LockFailed, SetRecord, Claims, SavedBadge
      <4> QED BY <1>0, <3>3, <4>1 DEF ExportFails, LockFailed, CommitReturns, Return, Goto,
                                      Acknowledged, disk
    <3>4. CASE Release(o)
      BY <1>0, <3>4 DEF Release, CommitReturns, Return, Goto, Acknowledged, SavedBadge, Claims,
                        disk, record
    <3> QED BY <1>3, <3>1, <3>2, <3>3, <3>4
  <2>2. trusted' \subseteq Contents(file'[InitSub])
    BY <1>1, <2>1 DEF CommitTrust, EditOnItsWay
  <2>3. EditOnItsWay(o)'
    BY <2>1 DEF EditOnItsWay
  <2> QED BY <1>2, <2>1, <2>2, <2>3 DEF CommitTrust
<1>4. CASE Commit(o)
  <2>1. /\ Rest /\ file' = file /\ rec' = rec /\ trusted' = trusted
        /\ slot' = slot \cup frame[o].arg /\ pc'[o] \in {"idle", "postCommit"}
        /\ pc'[o] = "postCommit" => frame'[o] = frame[o]
    BY <1>0, <1>4 DEF Commit, Return, Goto, record
  <2>2. slot \in Content /\ slot' \in Content
    BY <1>0, <1>4, <2>1, ContentFacts DEF Commit, CommitInv, Typed, SlotThere, Frame
  <2>3. Contents(slot') = slot \cup frame[o].arg /\ Contents(slot) = slot
    BY <2>1, <2>2, ContentFacts DEF Contents
  <2>4. EditOnItsWay(o)'
    BY <2>1, <2>3 DEF EditOnItsWay
  <2> QED BY <1>1, <1>2, <2>1, <2>3, <2>4 DEF CommitTrust
<1>5. CASE PostCommitExports(o)
  <2>1. slot' = Stamped /\ file' = file /\ pc[o] = "postCommit" /\ slot # NoDb
    BY <1>5 DEF PostCommitExports
  <2>2. slot \in Content /\ slot' \in Content /\ Contents(slot) = slot /\ Contents(slot') = slot' /\ slot \subseteq slot'
    BY <1>0, <1>5, <2>1, ContentFacts, StampedCovers
    DEF CommitInv, Typed, SlotThere, Contents, Stamped
  <2>3. /\ Rest /\ trusted' = trusted /\ (Claims(rec') => Claims(rec))
        /\ \/ pc'[o] \in {"idle", "lockFailed"}
           \/ pc'[o] = "enter" /\ frame'[o].buf = slot' /\ frame'[o].arg = frame[o].arg
    <3>1. CASE CommitReturns(o, rec) /\ ~Connected(rec) /\ UNCHANGED rec
      BY <1>0, <3>1, <2>1 DEF CommitReturns, Return, Goto, Acknowledged, SavedBadge
    <3>2. CASE Goto(o, "enter") /\ frame' = [frame EXCEPT ![o].buf = Stamped] /\ UNCHANGED <<rec, trusted>>
      BY <1>0, <2>1, <3>2 DEF Goto, Frame
    <3>3. CASE SetRecord(Failed(rec)) /\ Goto(o, "lockFailed") /\ UNCHANGED <<frame, trusted>>
      BY <1>0, <3>3, RecordedFacts DEF Goto, SetRecord, Claims
    <3> QED BY <1>5, <3>1, <3>2, <3>3 DEF PostCommitExports
  <2>4. frame[o].arg \subseteq slot
    BY <2>1, <2>2 DEF CommitTrust, EditOnItsWay
  <2>5. EditOnItsWay(o)'
    BY <2>2, <2>3, <2>4 DEF EditOnItsWay
  <2> QED BY <1>1, <1>2, <2>1, <2>2, <2>3, <2>5 DEF CommitTrust
<1>6. CASE EnterLocked(o) \/ FileReplaced(o) \/ WriteFails(o)
  <2>1. /\ Rest /\ slot' = slot /\ trusted' = trusted
        /\ Claims(rec') => Claims(rec)
        /\ \/ pc[o] = "enter" /\ pc'[o] = "write" /\ frame'[o].arg = frame[o].arg /\ frame'[o].buf = frame[o].buf
           \/ pc[o] = "write" /\ pc'[o] = "wrote" /\ frame'[o] = frame[o] /\ file' = [file EXCEPT ![frame[o].dest] = frame[o].buf]
           \/ pc'[o] = "release" /\ ~Claims(rec')
    <3>1. CASE EnterLocked(o)
      BY <1>0, <3>1, RecordedFacts DEF EnterLocked, Goto, Frame, SetRecord, Claims, CommitInv,
                                       OnlyEdits, CommitPcs, disk
    <3>2. CASE FileReplaced(o)
      BY <1>0, <3>2 DEF FileReplaced, Goto, CommitInv, OnlyEdits, CommitPcs, record
    <3>3. CASE WriteFails(o)
      BY <1>0, <3>3, RecordedFacts DEF WriteFails, Goto, SetRecord, Claims, disk
    <3> QED BY <1>6, <3>1, <3>2, <3>3
  <2>2. EditOnItsWay(o)'
    <3>1. CASE pc[o] = "write" /\ pc'[o] = "wrote" /\ file' = [file EXCEPT ![frame[o].dest] = frame[o].buf] /\ frame'[o] = frame[o]
      <4>1. frame[o].dest = InitSub
        BY <3>1, TokensAssumption DEF CommitInv, OnlyEdits, Flows, FlowOf, Aimed
      <4>2. file'[InitSub] = frame[o].buf /\ Contents(frame[o].buf) = frame[o].buf
        BY <1>0, <3>1, <4>1, ContentFacts DEF Contents, Frame
      <4> QED BY <3>1, <4>2 DEF CommitTrust, EditOnItsWay
    <3> QED BY <2>1, <3>1 DEF CommitTrust, EditOnItsWay
  <2> QED BY <1>1, <1>2, <2>1, <2>2 DEF CommitTrust
<1>7. CASE WriteRecorded(o)
  <2>1. /\ Rest /\ slot' = slot /\ file' = file /\ trusted' = trusted
        /\ pc[o] = "wrote" /\ pc'[o] = "release" /\ frame'[o] = frame[o]
    BY <1>0, <1>7 DEF WriteRecorded, Goto, disk
  <2>2. \A p \in Ops : p # o => pc[p] # "release"
    BY <2>1 DEF CommitInv, LockDiscipline, LockedPcs
  <2>3. \A p \in Ops : EditOnItsWay(p)'
    BY <2>1, <2>2 DEF CommitTrust, EditOnItsWay
  <2> QED BY <2>1, <2>3 DEF CommitTrust
<1>8. ~ImportSteps(o) /\ ~PickSteps(o)
  BY DEF ImportSteps, ImportInspected, SnapshotToFolder, SnapshotToOpfs, BackupWritten,
         BackupFails, BackupSettles, Rotate, ReplaceFails, Replace, PickSteps, ProbeFails,
         ProbeConnects,
         SaveNow, SaveNowFails, SaveNowRecorded, ReadNow, ReadArrives, ReadFails, ReadMissing,
         ReadRecorded,
         CommitInv, OnlyEdits, CommitPcs
<1> QED BY <1>3, <1>4, <1>5, <1>6, <1>7, <1>8 DEF CallStep, CommitSteps

LEMMA OthersKeepTrust ==
  ASSUME Kinds = {"mutate"}, InitSub \in Stores, CommitInv, CommitInv', Forward, CommitTrust,
         (\E o \in Ops : CallArrives(o)) \/ Outside
  PROVE  CommitTrust'
<1>0. /\ file \in [Stores -> Db] /\ file' \in [Stores -> Db]
  BY DEF CommitInv, Typed, VarsTyped
<1>1. Contents(file[InitSub]) \subseteq Contents(file'[InitSub])
  BY <1>0, CoversFacts DEF Forward
<1>2. ASSUME NEW o \in Ops, CallArrives(o) PROVE CommitTrust'
  <2>1. /\ Alone(o) /\ UNCHANGED <<slot, file, rec, trusted>> /\ pc'[o] \in {"guard", "probe"}
    BY <1>2, CallArrivesFlows DEF CommitInv, disk, record
  <2> QED BY <2>1 DEF CommitTrust, EditOnItsWay, Alone
<1>3. CASE Outside
  <2>1. trusted' = trusted
    BY <1>3
    DEF Outside, ClearFolderHandle, BootStep, BootResolveMode, BootPivot, PivotWrites, PivotGivesUp,
        PivotPreserves, PivotKeeps, BootPivotFlag, BootPivotDone, BootMigrateBackups, BootHydrate,
        BootBackup, BootNoBackup, BootRotate, BootOpen, BootFirstWrite, BootGoto, Crash,
        PermissionChanges, vars
  <2>2. CASE BootStep \/ Crash
    <3>1. \A o \in Ops : pc'[o] = "idle"
      <4>1. CASE BootStep
        BY <1>3, <4>1, OutsideFlows
        DEF CommitInv, BootOrder, Crash, BootStep, BootResolveMode, BootPivot, BootPivotFlag,
            BootPivotDone, BootMigrateBackups, BootHydrate, BootBackup, BootNoBackup, BootRotate,
            BootOpen, BootFirstWrite
      <4>2. CASE Crash
        BY <4>2 DEF Crash
      <4> QED BY <2>2, <4>1, <4>2
    <3> QED BY <1>1, <2>1, <3>1 DEF CommitTrust, EditOnItsWay
  <2>3. CASE PermissionChanges \/ UNCHANGED vars
    <3>1. UNCHANGED <<slot, file, rec, pc, frame>>
      BY <2>3 DEF PermissionChanges, vars, disk
    <3> QED BY <2>1, <3>1 DEF CommitTrust, EditOnItsWay
  <2>4. ~ClearFolderHandle
    BY DEF ClearFolderHandle
  <2> QED BY <1>3, <2>2, <2>3, <2>4 DEF Outside
<1> QED BY <1>2, <1>3

(* An edit acknowledged under a badge that read 'saved' is in the file the *)
(* next start reads, for any number of edits in flight, whatever fails: an *)
(* edit whose write lost the lock to another's is never acknowledged so.   *)
THEOREM SavedEditsAreOnDisk ==
  ASSUME Kinds = {"mutate"}, InitSub \in Stores
  PROVE  Spec => []TrustedEditsOnDisk
<1> DEFINE Inv == CommitInv /\ Flows /\ CommitTrust
<1>1. Init => Inv
  BY InitCommitInv, InitStoreInv DEF Init, StoreInv, CommitTrust, EditOnItsWay
<1>2. Inv /\ [Next]_vars => Inv'
  <2> SUFFICES ASSUME Inv, [Next]_vars PROVE Inv'
    OBVIOUS
  <2>1. CommitInv' /\ Forward
    BY NextMoves
  <2>2. Flows'
    BY NextFlows DEF CommitInv
  <2>3. CommitTrust'
    BY <2>1, NextCases, CallKeepsTrust, OthersKeepTrust
  <2> QED BY <2>1, <2>2, <2>3
<1>3. Inv => TrustedEditsOnDisk
  BY DEF CommitInv, OneStore, CommitTrust, TrustedEditsOnDisk, Contents, Connected
<1> HIDE DEF Inv
<1> QED BY <1>1, <1>2, <1>3, PTL DEF Spec

(***************************************************************************)
(* The badge, when the member waits for each call to end.  Before a call   *)
(* has changed anything, and once its folder write is over, the badge is   *)
(* true; a store that is being loaded is known by what its file holds.     *)
(***************************************************************************)
Agree(d, c) == d # NoDb /\ c # NoDb /\ d \cap Edits = c \cap Edits

BadgeTrue == Claims(rec) /\ (boot = "ready" => relOpen) => Agree(file[rec.sub], slot)
Loaded    == Connected(rec) => Agree(file[rec.sub], slot)

(* A record that was saved is one of a store with a file.                  *)
SavedThere ==
  \A r \in {rec, idb} :
    r.saved => (\E s \in Stores : file[s] # NoDb) /\ (Connected(r) => file[r.sub] # NoDb)

AtRest(o) ==
  \/ pc[o] \in {"idle", "probe"}
  \/ pc[o] \in {"guard", "release"} \cup Importing /\ frame[o].kind # "open"

BadgeHolds ==
  boot \notin {"pivot", "pivotFlag", "migrate", "hydrate"} /\ (\A o \in Ops : AtRest(o)) => BadgeTrue

CallOk(o) ==
  LET p == pc[o]
      c == frame[o]
  IN  /\ p # "lockFailed"
      /\ p = "postCommit" => slot # NoDb
      /\ p = "probe" => (c.kind = "open" <=> file[c.dest] # NoDb)
      /\ p # "idle" /\ c.kind = "open" => \E s \in Stores : file[s] # NoDb
      /\ p \in {"enter", "write", "wrote", "plainWrite", "plainWrote"} => c.buf = slot
      /\ p \in {"write", "wrote", "plainWrite", "plainWrote", "read"} /\ Connected(rec) => c.dest = rec.sub
      /\ p \in {"wrote", "plainWrote"} => file[c.dest] = slot
      /\ p \in {"saveQuery", "plainWrite"} /\ Connected(rec) => ~rec.saved
      /\ p \in {"readQuery", "read"} /\ Connected(rec) => file[rec.sub] # NoDb
      /\ p \in {"guard"} \cup Importing /\ c.kind = "open" /\ Connected(rec) => c.arg = file[rec.sub]
      /\ p \in Writing \cup {"readTail"} /\ c.kind = "open" => Loaded

BadgeInv == StoreInv /\ KeptGrant /\ SavedThere /\ BadgeHolds /\ \A o \in Ops : CallOk(o)

FilesStay == \A s \in Stores : file[s] # NoDb => file'[s] # NoDb

LEMMA SavedKept ==
  ASSUME rec \in Record, idb \in Record, SavedThere, FilesStay,
         UNCHANGED <<rec, idb>> \/ SetRecord(Failed(rec)) \/ SetRecord([rec EXCEPT !.pivot = TRUE])
  PROVE  SavedThere'
<1>1. \A r \in {Failed(rec), [rec EXCEPT !.pivot = TRUE]} : r.saved = rec.saved /\ r.sub = rec.sub
  BY DEF Failed, Record
<1>2. \A r \in {rec', idb'} : \E q \in {rec, idb} : r.saved = q.saved /\ r.sub = q.sub
  BY <1>1 DEF SetRecord
<1>3. \A q \in {rec, idb} : Connected(q) => q.sub \in Stores
  BY RecordFacts
<1> QED BY <1>2, <1>3 DEF SavedThere, FilesStay, Connected

LEMMA SavedSet ==
  ASSUME rec \in Record, idb \in Record, SavedThere, FilesStay, SetRecord(Succeeded(rec)),
         \E s \in Stores : file'[s] # NoDb,
         Connected(rec) => file'[rec.sub] # NoDb
  PROVE  SavedThere'
<1>1. \A r \in {rec', idb'} : r = idb \/ r.sub = rec.sub
  BY RecordedFacts DEF SetRecord
<1>2. Connected(idb) => idb.sub \in Stores
  BY RecordFacts
<1> QED BY <1>1, <1>2 DEF SavedThere, FilesStay, Connected

(* No failure of which the code keeps no record.                           *)
Recorded == Faults \cap {"lapse", "missing", "schema"} = {}

(* Only a replacement opens or closes the database of the running app.     *)
LEMMA OpenStays ==
  ASSUME NEW o \in Ops, CommitSteps(o) \/ PickSteps(o) \/ CallArrives(o)
  PROVE  UNCHANGED <<relOpen, boot>>
BY DEF CommitSteps, GuardRefuses, NotOpen, Commit, PostCommitSkips, ExportFails, PostCommitExports,
       LockFailed, EnterLocked, FileReplaced, WriteFails, WriteRecorded, Release, PickSteps,
       ProbeFails,
       ProbeConnects, SaveNow, SaveNowFails, SaveNowRecorded, ReadNow, ReadArrives, ReadFails,
       ReadMissing, ReadRecorded, CallArrives, StartMutate, StartImport, StartRestore, StartPick,
       Start,
       disk, power

(* With one call at a time, what a step of a call must establish.          *)
LEMMA OneCallSteps ==
  ASSUME NEW o \in Ops, \A p \in Ops : p = o,
         CallOk(o)', AtRest(o)' => BadgeTrue'
  PROVE  BadgeHolds' /\ \A p \in Ops : CallOk(p)'
BY DEF BadgeHolds

LEMMA ClaimFacts ==
  ASSUME rec \in Record
  PROVE  /\ ~Claims(Failed(rec))
         /\ Claims(Succeeded(rec)) <=> Connected(rec)
         /\ Connected(Failed(rec)) <=> Connected(rec)
         /\ Connected(Succeeded(rec)) <=> Connected(rec)
BY RecordedFacts DEF Claims, Connected

LEMMA AgreeFacts ==
  /\ \A c \in Content : Agree(c, c)
  /\ \A d : \A c \in Content : Agree(d, c) => Agree(d, c \cup {Identity})
BY ContentFacts, TokensAssumption DEF Agree, Content

LEMMA CommitStepsKeepBadge ==
  ASSUME Recorded, NEW o \in Ops, \A p \in Ops : p = o,
         BadgeInv, Typed', CommitSteps(o)
  PROVE  SavedThere' /\ CallOk(o)' /\ (AtRest(o)' => BadgeTrue')
<1>0. /\ pc \in [Ops -> Pcs] /\ frame \in [Ops -> Frame] /\ rec \in Record /\ idb \in Record
      /\ slot \in Db /\ file \in [Stores -> Db] /\ slot' \in Db /\ file' \in [Stores -> Db]
      /\ FlowOf(pc[o], frame[o]) /\ CallOk(o) /\ SavedThere /\ Typed
      /\ frame[o].arg \in Content /\ frame[o].buf \in Content
  BY DEF BadgeInv, StoreInv, Typed, VarsTyped, Flows, Frame
<1>1. AtRest(o) => BadgeTrue
  BY CallsKeepBootOrder DEF BadgeInv, StoreInv, BadgeHolds, CallStep
<1>2. Connected(rec) => granted /\ rec.sub \in Stores
  BY SameFolder DEF BadgeInv, KeptGrant
<1>o. UNCHANGED <<relOpen, boot>>
  BY OpenStays
<1>3. CASE GuardRefuses(o) \/ NotOpen(o)
  <2>1. pc'[o] = "idle" /\ UNCHANGED <<file, slot, rec, idb>> /\ BadgeTrue
    <3>1. CASE GuardRefuses(o)
      BY <1>0, <1>2, <3>1, ReturnFlows DEF GuardRefuses, disk, record, BadgeTrue, Claims
    <3>2. CASE NotOpen(o)
      BY <1>0, <1>1, <3>2, ReturnFlows DEF NotOpen, disk, record, AtRest
    <3> QED BY <1>3, <3>1, <3>2
  <2>2. SavedThere'
    BY <1>0, <2>1, SavedKept DEF FilesStay
  <2>3. CallOk(o)'
    BY <2>1 DEF CallOk, Writing, Importing
  <2>4. BadgeTrue'
    BY <1>o, <2>1 DEF BadgeTrue, Claims
  <2> QED BY <2>2, <2>3, <2>4
<1>4. CASE Commit(o)
  <2>1. UNCHANGED <<file, rec, idb>> /\ frame[o].kind = "mutate"
    BY <1>4 DEF Commit, record
  <2>2. SavedThere'
    BY <1>0, <2>1, SavedKept DEF FilesStay
  <2>3. \/ pc'[o] = "idle" /\ ~Connected(rec)
        \/ pc'[o] = "postCommit" /\ frame'[o] = frame[o]
    BY <1>0, <1>4, ReturnFlows, GotoFlows DEF Commit
  <2>4. CallOk(o)'
    <3>1. slot' # NoDb
      BY <1>0, <1>4, ContentFacts DEF Commit, Typed, SlotThere
    <3> QED BY <2>1, <2>3, <3>1 DEF CallOk, Importing, Writing
  <2>5. AtRest(o)' => ~Connected(rec)
    BY <2>3 DEF AtRest, Importing
  <2> QED BY <2>1, <2>2, <2>4, <2>5 DEF BadgeTrue, Claims
<1>5. CASE PostCommitSkips(o)
  <2>1. ~Connected(rec) /\ UNCHANGED <<file, slot, rec, idb>> /\ CommitReturns(o, rec)
        /\ pc[o] = "postCommit"
    BY <1>2, <1>5 DEF PostCommitSkips, disk, record
  <2>2. SavedThere'
    BY <1>0, <2>1, SavedKept DEF FilesStay
  <2>3. \/ pc'[o] = "idle"
        \/ pc'[o] = "readTail" /\ frame'[o] = frame[o] /\ frame[o].kind = "open"
    BY <1>0, <2>1, CommitReturnFlows
  <2>4. CallOk(o)'
    BY <1>0, <2>1, <2>3 DEF CallOk, Loaded, Importing, Writing
  <2> QED BY <2>1, <2>2, <2>4 DEF BadgeTrue, Claims
<1>6. CASE PostCommitExports(o)
  <2>1. slot' = Stamped /\ file' = file /\ pc[o] = "postCommit"
    BY <1>6 DEF PostCommitExports
  <2>2. slot \in Content /\ slot' \in Content
    BY <1>0, <2>1, StampedCovers, ContentFacts DEF CallOk, Db, Stamped
  <2>3. frame[o].kind = "open" /\ Connected(rec) => Agree(file'[rec.sub], slot')
    BY <1>0, <2>1, <2>2, AgreeFacts DEF CallOk, Loaded, Writing, Stamped
  <2>4. LockFree
    BY <2>1 DEF BadgeInv, StoreInv, LockDiscipline, LockedPcs, LockFree, Typed, VarsTyped
  <2>5. UNCHANGED <<rec, idb>>
    BY <1>6, <2>4 DEF PostCommitExports
  <2>6. SavedThere'
    BY <1>0, <2>1, <2>5, SavedKept DEF FilesStay
  <2>7. CASE ~Connected(rec) /\ CommitReturns(o, rec)
    <3>1. \/ pc'[o] = "idle"
          \/ pc'[o] = "readTail" /\ frame'[o] = frame[o] /\ frame[o].kind = "open"
      BY <1>0, <2>7, CommitReturnFlows
    <3>2. CallOk(o)'
      BY <1>0, <2>1, <2>5, <2>7, <3>1 DEF CallOk, Loaded, Importing, Writing
    <3> QED BY <2>5, <2>6, <2>7, <3>2 DEF BadgeTrue, Claims
  <2>8. CASE Connected(rec) /\ Goto(o, "enter") /\ frame' = [frame EXCEPT ![o].buf = Stamped]
    <3>1. /\ pc'[o] = "enter" /\ frame'[o].buf = slot' /\ frame'[o].kind = frame[o].kind
          /\ frame'[o].arg = frame[o].arg /\ frame'[o].dest = frame[o].dest
      BY <1>0, <2>1, <2>8, GotoFlows DEF Frame
    <3>2. CallOk(o)'
      BY <1>0, <2>1, <2>3, <2>5, <2>8, <3>1 DEF CallOk, Loaded, Importing, Writing
    <3>3. ~AtRest(o)'
      BY <3>1 DEF AtRest, Importing
    <3> QED BY <2>6, <3>2, <3>3
  <2> QED BY <1>6, <2>4, <2>7, <2>8 DEF PostCommitExports
<1>7. ~LockFailed(o) /\ ~ExportFails(o)
  BY <1>0 DEF LockFailed, ExportFails, CallOk
<1>8. CASE EnterLocked(o) /\ pc[o] = "enter"
  <2>1. UNCHANGED <<slot, file>> /\ frame'[o].kind = frame[o].kind /\ frame'[o].buf = frame[o].buf
    BY <1>0, <1>8 DEF EnterLocked, disk, Frame
  <2>2. CASE Connected(rec)
    <3>1. UNCHANGED <<rec, idb>> /\ pc'[o] = "write" /\ frame'[o].dest = rec.sub
      BY <1>0, <1>8, <2>2, GotoFlows DEF EnterLocked, Frame
    <3>2. SavedThere'
      BY <1>0, <2>1, <3>1, SavedKept DEF FilesStay
    <3>3. CallOk(o)'
      BY <1>0, <1>8, <2>1, <3>1 DEF CallOk, Loaded, Importing, Writing
    <3>4. ~AtRest(o)'
      BY <3>1 DEF AtRest, Importing
    <3> QED BY <3>2, <3>3, <3>4
  <2>3. CASE ~Connected(rec)
    <3>1. SetRecord(Failed(rec)) /\ pc'[o] = "release" /\ ~Connected(rec')
      BY <1>0, <1>8, <2>3, GotoFlows, ClaimFacts DEF EnterLocked, SetRecord
    <3>2. SavedThere'
      BY <1>0, <2>1, <3>1, SavedKept DEF FilesStay
    <3>3. CallOk(o)'
      BY <1>0, <1>8, <2>1, <3>1 DEF CallOk, Loaded, Importing, Writing
    <3> QED BY <3>1, <3>2, <3>3 DEF BadgeTrue, Claims
  <2> QED BY <2>2, <2>3
<1>9. CASE EnterLocked(o) /\ pc[o] = "bakEnter"
  <2>1. /\ UNCHANGED <<slot, file>> /\ frame'[o].kind = frame[o].kind /\ frame'[o].arg = frame[o].arg
        /\ pc'[o] \in {"bakWrite", "bakFailed"}
        /\ UNCHANGED <<rec, idb>> \/ SetRecord(Failed(rec))
    BY <1>0, <1>9 DEF EnterLocked, disk, Frame, Goto
  <2>2. SavedThere'
    BY <1>0, <2>1, SavedKept DEF FilesStay
  <2>3. rec'.sub = rec.sub /\ (Connected(rec') <=> Connected(rec)) /\ (Claims(rec') => Claims(rec))
    BY <1>0, <2>1, RecordedFacts, ClaimFacts DEF SetRecord
  <2>4. CallOk(o)'
    BY <1>0, <1>9, <2>1, <2>3 DEF CallOk, Importing, Writing
  <2>5. AtRest(o)' => AtRest(o)
    BY <1>9, <2>1 DEF AtRest, Importing
  <2> QED BY <1>1, <1>o, <2>1, <2>2, <2>3, <2>4, <2>5 DEF BadgeTrue
<1>10. CASE FileReplaced(o)
  <2>1. /\ UNCHANGED <<slot, rec, idb>> /\ frame'[o] = frame[o] /\ frame[o].buf = slot
        /\ pc[o] \in {"write", "plainWrite"} /\ frame[o].dest \in Stores
        /\ file' = [file EXCEPT ![frame[o].dest] = slot]
        /\ pc'[o] = IF pc[o] = "write" THEN "wrote" ELSE "plainWrote"
    BY <1>0, <1>10, GotoFlows DEF FileReplaced, record, CallOk, FlowOf, Aimed
  <2>2. slot # NoDb /\ file'[frame[o].dest] = slot /\ FilesStay
    BY <1>0, <2>1, ContentFacts DEF FilesStay
  <2>3. SavedThere'
    BY <1>0, <2>1, <2>2, SavedKept
  <2>4. Connected(rec) => file'[rec.sub] = slot /\ frame[o].dest = rec.sub
    BY <1>0, <2>1, <2>2 DEF CallOk
  <2>5. CallOk(o)'
    BY <1>0, <2>1, <2>2, <2>4, AgreeFacts DEF CallOk, Loaded, Importing, Writing, FilesStay
  <2>6. ~AtRest(o)'
    BY <2>1 DEF AtRest, Importing
  <2> QED BY <2>3, <2>5, <2>6
<1>11. CASE WriteFails(o)
  <2>1. /\ UNCHANGED <<slot, file>> /\ frame'[o] = frame[o] /\ pc[o] = "write" /\ pc'[o] = "release"
        /\ SetRecord(Failed(rec))
    BY <1>0, <1>11, GotoFlows DEF WriteFails, disk
  <2>2. SavedThere'
    BY <1>0, <2>1, SavedKept DEF FilesStay
  <2>3. rec'.sub = rec.sub /\ (Connected(rec') <=> Connected(rec)) /\ ~Claims(rec')
    BY <1>0, <2>1, RecordedFacts, ClaimFacts DEF SetRecord
  <2>4. CallOk(o)'
    BY <1>0, <2>1, <2>3 DEF CallOk, Importing, Writing, Loaded
  <2> QED BY <2>2, <2>3, <2>4 DEF BadgeTrue
<1>12. CASE WriteRecorded(o)
  <2>1. /\ UNCHANGED <<slot, file>> /\ frame'[o] = frame[o] /\ pc[o] = "wrote" /\ pc'[o] = "release"
        /\ SetRecord(Succeeded(rec))
    BY <1>0, <1>12, GotoFlows DEF WriteRecorded, disk
  <2>2. rec'.sub = rec.sub /\ (Connected(rec') <=> Connected(rec))
    BY <1>0, <2>1, RecordedFacts, ClaimFacts DEF SetRecord
  <2>3. /\ file[frame[o].dest] = slot /\ slot \in Content /\ frame[o].dest \in Stores
        /\ Connected(rec) => Agree(file[rec.sub], slot)
    BY <1>0, <2>1, AgreeFacts DEF CallOk, FlowOf, Aimed
  <2>4. SavedThere'
    BY <1>0, <2>1, <2>3, SavedSet, ContentFacts DEF FilesStay, Agree
  <2>5. CallOk(o)'
    BY <1>0, <2>1, <2>2, <2>3 DEF CallOk, Importing, Writing, Loaded
  <2> QED BY <2>1, <2>2, <2>3, <2>4, <2>5 DEF BadgeTrue, Claims
<1>13. CASE Release(o)
  <2>1. UNCHANGED <<slot, file, rec, idb>> /\ pc[o] = "release" /\ CommitReturns(o, rec)
    BY <1>13 DEF Release, disk, record
  <2>2. SavedThere'
    BY <1>0, <2>1, SavedKept DEF FilesStay
  <2>3. \/ pc'[o] = "idle" /\ frame[o].kind # "open"
        \/ pc'[o] = "readTail" /\ frame'[o] = frame[o] /\ frame[o].kind = "open"
    BY <1>0, <2>1, CommitReturnFlows
  <2>4. CallOk(o)'
    BY <1>0, <2>1, <2>3 DEF CallOk, Loaded, Importing, Writing
  <2>5. AtRest(o)' => AtRest(o)
    BY <2>1, <2>3 DEF AtRest, Importing
  <2> QED BY <1>1, <1>o, <2>1, <2>2, <2>4, <2>5 DEF BadgeTrue
<1> QED
  BY <1>3, <1>4, <1>5, <1>6, <1>7, <1>8, <1>9, <1>10, <1>11, <1>12, <1>13
  DEF CommitSteps, EnterLocked

LEMMA ImportStepsKeepBadge ==
  ASSUME Recorded, NEW o \in Ops, \A p \in Ops : p = o,
         BadgeInv, Typed', ImportSteps(o)
  PROVE  SavedThere' /\ CallOk(o)' /\ (AtRest(o)' => BadgeTrue')
<1>0. /\ pc \in [Ops -> Pcs] /\ frame \in [Ops -> Frame] /\ rec \in Record /\ idb \in Record
      /\ FlowOf(pc[o], frame[o]) /\ CallOk(o) /\ SavedThere
      /\ frame[o].arg \in Content
  BY DEF BadgeInv, StoreInv, Typed, VarsTyped, Flows, Frame
<1>1. AtRest(o) => BadgeTrue
  BY CallsKeepBootOrder DEF BadgeInv, StoreInv, BadgeHolds, CallStep
<1>2. CASE Replace(o)
  <2>1. UNCHANGED <<file, rec, idb>> /\ slot' = frame[o].arg /\ pc[o] = "replace"
    BY <1>2 DEF Replace, record
  <2>2. SavedThere'
    BY <1>0, <2>1, SavedKept DEF FilesStay
  <2>3. CASE Connected(rec)
    <3>1. pc'[o] = "postCommit" /\ frame'[o] = frame[o]
      BY <1>0, <1>2, <2>3, GotoFlows DEF Replace
    <3>2. frame[o].kind = "open" => Agree(file[rec.sub], slot')
      BY <1>0, <2>1, <2>3, AgreeFacts DEF CallOk, Importing
    <3>3. CallOk(o)'
      BY <1>0, <2>1, <3>1, <3>2, ContentFacts DEF CallOk, Importing, Writing, Loaded
    <3>4. ~AtRest(o)'
      BY <3>1 DEF AtRest, Importing
    <3> QED BY <2>2, <3>3, <3>4
  <2>4. CASE ~Connected(rec)
    <3>1. \/ pc'[o] = "idle"
          \/ pc'[o] = "readTail" /\ frame'[o] = frame[o] /\ frame[o].kind = "open"
      BY <1>0, <1>2, <2>4, GotoFlows DEF Replace
    <3>2. CallOk(o)'
      BY <1>0, <2>1, <2>4, <3>1 DEF CallOk, Loaded, Importing, Writing
    <3> QED BY <2>1, <2>2, <2>4, <3>2 DEF BadgeTrue, Claims
  <2> QED BY <2>3, <2>4
<1>3. CASE ReplaceFails(o)
  <2>1. UNCHANGED <<file, rec, idb>> /\ ~relOpen' /\ boot' = "ready" /\ pc'[o] = "idle"
    <3>1. boot' = "ready"
      BY <1>3, CallsKeepBootOrder DEF BadgeInv, StoreInv, CallStep
    <3> QED BY <1>0, <1>3, <3>1, ReturnFlows DEF ReplaceFails, record, Recorded
  <2>2. SavedThere'
    BY <1>0, <2>1, SavedKept DEF FilesStay
  <2>3. CallOk(o)'
    BY <2>1 DEF CallOk, Writing, Importing
  <2> QED BY <2>1, <2>2, <2>3 DEF BadgeTrue
<1>4. CASE ~(Replace(o) \/ ReplaceFails(o))
  <2>0. boot = "ready" /\ boot' = "ready"
    BY CallsKeepBootOrder DEF BadgeInv, StoreInv, CallStep
  <2>1. /\ UNCHANGED <<slot, file, relOpen>> /\ frame'[o].kind = frame[o].kind /\ frame'[o].arg = frame[o].arg
        /\ pc[o] \in {"guard"} \cup Importing /\ pc'[o] \in Importing
        /\ UNCHANGED <<rec, idb>> \/ SetRecord(Failed(rec))
    <3>1. CASE ImportInspected(o)
      BY <1>0, <3>1, GotoFlows DEF ImportInspected, disk, record, Importing, Frame
    <3>2. CASE SnapshotToFolder(o) \/ SnapshotToOpfs(o)
      <4>1. /\ pc[o] = "snapshot" /\ frame' = frame /\ UNCHANGED <<slot, file, relOpen>>
            /\ Goto(o, "bakEnter") \/ Goto(o, "rotate") \/ Goto(o, "replace")
            /\ UNCHANGED <<rec, idb>> \/ SetRecord(Failed(rec))
        BY <3>2 DEF SnapshotToFolder, SnapshotToOpfs, disk, record
      <4>2. pc'[o] \in {"bakEnter", "rotate", "replace"}
        BY <1>0, <4>1, GotoFlows
      <4> QED BY <4>1, <4>2 DEF Importing
    <3>3. CASE BackupWritten(o) \/ BackupFails(o)
      BY <1>0, <3>3, GotoFlows DEF BackupWritten, BackupFails, disk, record, Importing
    <3>4. CASE BackupSettles(o) \/ Rotate(o)
      BY <1>0, <3>4, GotoFlows DEF BackupSettles, Rotate, disk, record, Importing
    <3> QED BY <1>4, <3>1, <3>2, <3>3, <3>4 DEF ImportSteps
  <2>2. SavedThere'
    BY <1>0, <2>1, SavedKept DEF FilesStay
  <2>3. rec'.sub = rec.sub /\ (Connected(rec') <=> Connected(rec)) /\ (Claims(rec') => Claims(rec))
    BY <1>0, <2>1, RecordedFacts, ClaimFacts DEF SetRecord
  <2>4. CallOk(o)'
    BY <1>0, <2>1, <2>3 DEF CallOk, Importing, Writing
  <2>5. AtRest(o)' => AtRest(o)
    BY <2>1 DEF AtRest, Importing
  <2> QED BY <1>1, <2>0, <2>1, <2>2, <2>3, <2>4, <2>5 DEF BadgeTrue
<1> QED BY <1>2, <1>3, <1>4

LEMMA PickStepsKeepBadge ==
  ASSUME Recorded, NEW o \in Ops, \A p \in Ops : p = o,
         BadgeInv, Typed', PickSteps(o)
  PROVE  SavedThere' /\ CallOk(o)' /\ (AtRest(o)' => BadgeTrue')
<1>0. /\ pc \in [Ops -> Pcs] /\ frame \in [Ops -> Frame] /\ rec \in Record /\ idb \in Record
      /\ slot \in Db /\ file \in [Stores -> Db]
      /\ FlowOf(pc[o], frame[o]) /\ CallOk(o) /\ SavedThere /\ Typed /\ Flows
      /\ frame[o].buf \in Content
  BY DEF BadgeInv, StoreInv, Typed, VarsTyped, Flows, Frame
<1>1. AtRest(o) => BadgeTrue
  BY CallsKeepBootOrder DEF BadgeInv, StoreInv, BadgeHolds, CallStep
<1>2. Connected(rec) => granted /\ rec.sub \in Stores /\ rec.sub # Opfs
  BY SameFolder, TokensAssumption DEF BadgeInv, KeptGrant
<1>3. UNCHANGED <<slot, file, relOpen, boot>>
  BY OpenStays DEF PickSteps, ProbeFails, ProbeConnects, SaveNow, SaveNowFails, SaveNowRecorded,
                   ReadNow,
         ReadArrives, ReadFails, ReadMissing, ReadRecorded, disk
<1>4. ASSUME UNCHANGED <<rec, idb>>, pc'[o] = "idle", BadgeTrue
      PROVE  SavedThere' /\ CallOk(o)' /\ BadgeTrue'
  <2>1. SavedThere'
    BY <1>0, <1>3, <1>4, SavedKept DEF FilesStay
  <2>2. CallOk(o)'
    BY <1>4 DEF CallOk, Writing, Importing
  <2> QED BY <1>3, <1>4, <2>1, <2>2 DEF BadgeTrue
<1>5. ASSUME SetRecord(Failed(rec)), pc'[o] = "idle"
      PROVE  SavedThere' /\ CallOk(o)' /\ BadgeTrue'
  <2>1. SavedThere'
    BY <1>0, <1>3, <1>5, SavedKept DEF FilesStay
  <2>2. CallOk(o)'
    BY <1>5 DEF CallOk, Writing, Importing
  <2> QED BY <1>0, <1>5, <2>1, <2>2, ClaimFacts DEF BadgeTrue, SetRecord
<1>6. ASSUME SetRecord(Succeeded(rec)), pc'[o] = "idle", Loaded, \E s \in Stores : file[s] # NoDb
      PROVE  SavedThere' /\ CallOk(o)' /\ BadgeTrue'
  <2>1. SavedThere'
    BY <1>0, <1>3, <1>6, SavedSet DEF FilesStay, Loaded, Agree
  <2>2. CallOk(o)'
    BY <1>6 DEF CallOk, Writing, Importing
  <2> QED BY <1>0, <1>3, <1>6, <2>1, <2>2, ClaimFacts, RecordedFacts
  DEF BadgeTrue, SetRecord, Loaded
<1>7. CASE ProbeFails(o)
  BY <1>0, <1>1, <1>4, <1>7, ReturnFlows DEF ProbeFails, record, AtRest
<1>8. CASE ProbeConnects(o)
  <2>1. /\ rec'.sub = frame[o].dest /\ frame[o].dest \in Stores /\ idb' = rec'
        /\ rec'.saved <=> rec.saved /\ ~(frame[o].kind = "create" /\ \E s \in Stores : file[s] # NoDb)
    BY <1>0, <1>8, ConnectedTo
  <2>2. /\ pc[o] = "probe" /\ frame'[o] = frame[o]
        /\ pc'[o] = IF frame[o].kind = "create" THEN "saveQuery" ELSE "readQuery"
    BY <1>0, <1>8, GotoFlows DEF ProbeConnects
  <2>3. frame[o].kind = "open" <=> file[frame[o].dest] # NoDb
    BY <1>0, <2>2 DEF CallOk
  <2>4. frame[o].kind \in {"create", "open"}
    BY <1>0, <2>2 DEF FlowOf, InFlow, Importing, Writing
  <2>5. rec'.saved => frame[o].kind = "open"
    BY <1>0, <2>1, <2>4 DEF SavedThere
  <2>6. SavedThere'
    BY <1>3, <2>1, <2>3, <2>5 DEF SavedThere
  <2>7. CallOk(o)'
    BY <1>0, <1>3, <2>1, <2>2, <2>3, <2>4, <2>5 DEF CallOk, Writing, Importing
  <2>8. ~AtRest(o)'
    BY <2>2 DEF AtRest, Importing
  <2> QED BY <2>6, <2>7, <2>8
<1>9. CASE SaveNow(o)
  <2>1. pc[o] = "saveQuery" /\ UNCHANGED <<rec, idb>>
    BY <1>9 DEF SaveNow, record
  <2>2. Connected(rec) => ~rec.saved
    BY <1>0, <2>1 DEF CallOk
  <2>3. CASE Return(o)
    BY <1>0, <1>4, <2>1, <2>2, <2>3, ReturnFlows DEF BadgeTrue, Claims
  <2>4. CASE /\ slot # NoDb /\ Goto(o, "plainWrite")
             /\ frame' = [frame EXCEPT ![o].buf = Export, ![o].dest = rec.sub]
    <3>1. pc'[o] = "plainWrite" /\ frame'[o].buf = slot /\ frame'[o].dest = rec.sub /\ frame'[o].kind = frame[o].kind
      BY <1>0, <2>4, GotoFlows DEF Frame, Export
    <3>2. frame[o].kind = "create"
      BY <1>0, <2>1 DEF FlowOf, InFlow, Importing, Writing
    <3>3. SavedThere'
      BY <1>0, <1>3, <2>1, SavedKept DEF FilesStay
    <3>4. CallOk(o)'
      BY <1>3, <2>1, <2>2, <3>1, <3>2 DEF CallOk, Writing, Importing
    <3>5. ~AtRest(o)'
      BY <3>1 DEF AtRest, Importing
    <3> QED BY <3>3, <3>4, <3>5
  <2> QED BY <1>9, <2>3, <2>4 DEF SaveNow
<1>10. CASE SaveNowFails(o) \/ ReadFails(o)
  BY <1>0, <1>5, <1>10, ReturnFlows DEF SaveNowFails, ReadFails
<1>11. CASE SaveNowRecorded(o)
  <2>1. pc[o] = "plainWrote" /\ SetRecord(Succeeded(rec)) /\ pc'[o] = "idle"
    BY <1>0, <1>11, ReturnFlows DEF SaveNowRecorded
  <2>2. file[frame[o].dest] = slot /\ slot \in Content /\ frame[o].dest \in Stores /\ Loaded
    BY <1>0, <2>1, AgreeFacts DEF CallOk, FlowOf, Aimed, Loaded
  <2> QED BY <1>6, <2>1, <2>2, ContentFacts
<1>12. CASE ReadNow(o)
  <2>1. pc[o] = "readQuery" /\ UNCHANGED <<rec, idb>>
    BY <1>12 DEF ReadNow, record
  <2>2. CASE ActivePlace = Opfs
    <3>1. ~Connected(rec) /\ pc'[o] = "idle"
      BY <1>0, <1>2, <1>12, <2>2, ReturnFlows DEF ReadNow, ActivePlace
    <3> QED BY <1>4, <2>1, <3>1 DEF BadgeTrue, Claims
  <2>3. CASE ActivePlace # Opfs
    <3>1. pc'[o] = "read" /\ frame'[o].dest = rec.sub /\ frame'[o].kind = frame[o].kind
      BY <1>0, <1>12, <2>3, GotoFlows DEF ReadNow, Frame
    <3>2. SavedThere'
      BY <1>0, <1>3, <2>1, SavedKept DEF FilesStay
    <3>3. CallOk(o)'
      BY <1>0, <1>3, <2>1, <3>1 DEF CallOk, Writing, Importing
    <3>4. ~AtRest(o)'
      BY <3>1 DEF AtRest, Importing
    <3> QED BY <3>2, <3>3, <3>4
  <2> QED BY <2>2, <2>3
<1>13. CASE ReadArrives(o)
  <2>1. /\ pc[o] = "read" /\ UNCHANGED <<rec, idb>> /\ frame[o].kind = "open"
        /\ Connected(rec) => frame[o].dest = rec.sub /\ file[rec.sub] # NoDb
    BY <1>0, <1>13 DEF ReadArrives, record, CallOk, FlowOf, InFlow, Importing, Writing
  <2>2. CASE Connected(rec)
    <3>1. /\ pc'[o] = "guard" /\ frame'[o].kind = frame[o].kind /\ frame'[o].arg = file[rec.sub]
      BY <1>0, <1>13, <2>1, <2>2, GotoFlows DEF ReadArrives, Frame
    <3>2. SavedThere'
      BY <1>0, <1>3, <2>1, SavedKept DEF FilesStay
    <3>3. CallOk(o)'
      BY <1>0, <1>3, <2>1, <3>1 DEF CallOk, Writing, Importing
    <3>4. ~AtRest(o)'
      BY <2>1, <3>1 DEF AtRest, Importing
    <3> QED BY <3>2, <3>3, <3>4
  <2>3. CASE ~Connected(rec)
    <3>1. pc'[o] = "idle"
      BY <1>0, <1>13, <2>3, ReturnFlows DEF ReadArrives
    <3> QED BY <1>4, <2>1, <2>3, <3>1 DEF BadgeTrue, Claims
  <2> QED BY <2>2, <2>3
<1>14. CASE ReadRecorded(o)
  <2>1. pc[o] = "readTail" /\ SetRecord(Succeeded(rec)) /\ pc'[o] = "idle"
    BY <1>0, <1>14, ReturnFlows DEF ReadRecorded
  <2>2. frame[o].kind = "open"
    BY <1>0, <2>1 DEF FlowOf, InFlow, Importing, Writing
  <2>3. Loaded /\ \E s \in Stores : file[s] # NoDb
    BY <1>0, <2>1, <2>2 DEF CallOk, Writing
  <2> QED BY <1>6, <2>1, <2>3
<1>15. CASE ReadMissing(o)
  <2>1. ~Connected(rec) /\ UNCHANGED <<rec, idb>> /\ pc'[o] = "idle"
    BY <1>0, <1>2, <1>15, ReturnFlows DEF ReadMissing, MissingFault, Recorded, record
  <2> QED BY <1>4, <2>1 DEF BadgeTrue, Claims
<1> QED
  BY <1>7, <1>8, <1>9, <1>10, <1>11, <1>12, <1>13, <1>14, <1>15 DEF PickSteps

LEMMA CallsKeepBadge ==
  ASSUME Recorded, NEW o \in Ops, \A p \in Ops : p = o,
         BadgeInv, StoreInv', CallArrives(o) \/ CallStep(o)
  PROVE  SavedThere' /\ BadgeHolds' /\ \A p \in Ops : CallOk(p)'
<1>1. CASE CallStep(o)
  BY <1>1, OneCallSteps, CommitStepsKeepBadge, ImportStepsKeepBadge, PickStepsKeepBadge
  DEF CallStep, StoreInv
<1>2. CASE CallArrives(o)
  <2>1. /\ UNCHANGED <<slot, file, rec, idb>> /\ pc[o] = "idle" /\ pc'[o] \in {"guard", "probe"}
        /\ pc'[o] = "guard" => frame'[o].kind # "open"
        /\ pc'[o] = "probe" => /\ frame'[o].dest \in Stores
                               /\ frame'[o].kind = "open" <=> file[frame'[o].dest] # NoDb
    BY <1>2, CallArrivesFlows DEF BadgeInv, StoreInv, disk, record
  <2>2. SavedThere'
    BY <2>1, SavedKept DEF BadgeInv, StoreInv, Typed, VarsTyped, FilesStay
  <2>3. BadgeTrue
    BY <1>2, <2>1, CallsKeepBootOrder DEF BadgeInv, StoreInv, BadgeHolds, AtRest
  <2>4. BadgeTrue'
    BY <1>2, <2>1, <2>3, OpenStays DEF BadgeTrue
  <2>5. CallOk(o)'
    BY <2>1 DEF CallOk, Writing, Importing
  <2> QED BY <2>2, <2>4, <2>5, OneCallSteps
<1> QED BY <1>1, <1>2

LEMMA BootKeepsBadge ==
  ASSUME Recorded, BadgeInv, StoreInv', BootStep
  PROVE  SavedThere' /\ BadgeHolds' /\ \A p \in Ops : CallOk(p)'
<1>0. /\ rec \in Record /\ idb \in Record /\ slot \in Db /\ file \in [Stores -> Db]
      /\ SavedThere /\ Typed /\ boot # "ready"
      /\ \A p \in Ops : pc[p] = "idle" /\ pc'[p] = "idle"
      /\ Connected(rec) => rec.sub \in Stores
  <2>1. boot # "ready" /\ UNCHANGED pc
    BY DEF BootStep, BootResolveMode, BootPivot, PivotWrites, PivotGivesUp, PivotPreserves,
           PivotKeeps,
           BootPivotFlag, BootPivotDone, BootMigrateBackups, BootHydrate, BootBackup, BootNoBackup,
           BootRotate, BootOpen, BootFirstWrite, BootGoto
  <2> QED BY <2>1, RecordFacts DEF BadgeInv, StoreInv, BootOrder, Typed, VarsTyped
<1>1. \A p \in Ops : CallOk(p)'
  BY <1>0 DEF CallOk, Writing, Importing
<1>2. boot \notin {"pivot", "pivotFlag", "migrate", "hydrate"} => BadgeTrue
  BY <1>0 DEF BadgeInv, BadgeHolds, AtRest
<1>3. CASE BootResolveMode
  <2>1. rec' = idb /\ idb' = idb /\ UNCHANGED <<slot, file>>
    BY <1>3 DEF BootResolveMode, disk
  <2>2. SavedThere'
    BY <1>0, <2>1 DEF SavedThere
  <2>3. boot' \notin {"pivot", "pivotFlag", "migrate", "hydrate"} => ~Connected(idb)
    BY <1>3 DEF BootResolveMode, BootGoto, BadgeInv, KeptGrant
  <2> QED BY <1>1, <2>1, <2>2, <2>3 DEF BadgeHolds, BadgeTrue, Claims
<1>4. CASE BootPivot \/ BootPivotFlag \/ BootPivotDone \/ BootMigrateBackups
  <2>1. boot' \in {"pivot", "pivotFlag", "migrate", "hydrate"}
    BY <1>4
    DEF BootPivot, PivotWrites, PivotGivesUp, PivotPreserves, PivotKeeps, BootPivotFlag,
        BootPivotDone,
        BootMigrateBackups, BootGoto
  <2>2. SavedThere'
    <3>1. CASE /\ file' = file
               /\ \/ UNCHANGED <<rec, idb>> \/ SetRecord(Failed(rec))
                  \/ SetRecord([rec EXCEPT !.pivot = TRUE])
      BY <1>0, <3>1, SavedKept DEF FilesStay
    <3>2. CASE BootPivot /\ slot \notin Empty /\ PivotWrites
      <4>1. slot # NoDb /\ Connected(rec)
        BY <3>2 DEF Empty, BootPivot, BadgeInv, StoreInv, BootOrder
      <4>2. SetRecord(Succeeded(rec)) /\ file' = [file EXCEPT ![rec.sub] = slot]
        BY <3>2 DEF PivotWrites
      <4>3. FilesStay /\ file'[rec.sub] # NoDb
        BY <1>0, <4>1, <4>2 DEF FilesStay
      <4> QED BY <1>0, <4>1, <4>2, <4>3, SavedSet
    <3>3. BootPivot => \/ slot \notin Empty /\ PivotWrites
                       \/ file' = file /\ (UNCHANGED <<rec, idb>> \/ SetRecord(Failed(rec)))
      BY DEF BootPivot, PivotWrites, PivotGivesUp, PivotPreserves, PivotKeeps, BootWriteFails
    <3> QED
      BY <1>4, <3>1, <3>2, <3>3
      DEF BootPivotFlag, BootPivotDone, BootMigrateBackups, disk, record
  <2> QED BY <1>1, <2>1, <2>2 DEF BadgeHolds
<1>5. CASE BootHydrate
  <2>1. file' = file /\ boot = "hydrate"
    BY <1>5 DEF BootHydrate
  <2>2. CASE slot' = Hydrated(file[rec.sub]) /\ UNCHANGED <<rec, idb>>
    <3>1. SavedThere'
      BY <1>0, <2>1, <2>2, SavedKept DEF FilesStay
    <3>2. Claims(rec) => file[rec.sub] \in Content /\ slot' = file[rec.sub]
      BY <1>0, <2>2 DEF Claims, SavedThere, Hydrated, Db
    <3>3. BadgeTrue'
      BY <2>1, <2>2, <3>2, AgreeFacts DEF BadgeTrue
    <3> QED BY <1>1, <3>1, <3>3 DEF BadgeHolds
  <2>3. CASE SetRecord(Failed(rec))
    <3>1. SavedThere'
      BY <1>0, <2>1, <2>3, SavedKept DEF FilesStay
    <3>2. BadgeTrue'
      BY <1>0, <2>3, ClaimFacts DEF BadgeTrue, SetRecord
    <3> QED BY <1>1, <3>1, <3>2 DEF BadgeHolds
  <2>4. ~MissingFault
    BY <1>0, <2>1 DEF MissingFault, Recorded, BadgeInv, StoreInv, BootFolder, BootOrder,
                      KeptGrant, Connected
  <2> QED BY <1>5, <2>2, <2>3, <2>4 DEF BootHydrate
<1>6. CASE BootBackup \/ BootNoBackup \/ BootRotate
  <2>1. /\ UNCHANGED <<slot, file>>
        /\ UNCHANGED <<rec, idb>> \/ SetRecord(Failed(rec))
        /\ boot \notin {"pivot", "pivotFlag", "migrate", "hydrate"}
    BY <1>6 DEF BootBackup, BootNoBackup, BootRotate, BootWriteFails, disk, record
  <2>2. SavedThere'
    BY <1>0, <2>1, SavedKept DEF FilesStay
  <2>3. BadgeTrue'
    BY <1>0, <1>2, <2>1, ClaimFacts DEF BadgeTrue, SetRecord
  <2> QED BY <1>1, <2>2, <2>3 DEF BadgeHolds
<1>7. CASE BootOpen
  <2>1. /\ file' = file /\ UNCHANGED <<rec, idb>> /\ boot \notin {"pivot", "pivotFlag", "migrate", "hydrate"}
        /\ slot' = slot \/ slot = NoDb
    BY <1>7 DEF BootOpen, record
  <2>2. SavedThere'
    BY <1>0, <2>1, SavedKept DEF FilesStay
  <2>3. BadgeTrue'
    BY <1>0, <1>2, <2>1 DEF BadgeTrue, Agree
  <2> QED BY <1>1, <2>2, <2>3 DEF BadgeHolds
<1>8. CASE BootFirstWrite
  <2>1. boot = "firstWrite" /\ relOpen /\ Connected(rec) /\ granted
    BY <1>0, <1>8, SameFolder DEF BootFirstWrite, BadgeInv, StoreInv, BootFolder, KeptGrant
  <2>2. slot' = Stamped /\ Stamped \in Content /\ Stamped # NoDb
    BY <1>0, <1>8, <2>1, StampedCovers, ContentFacts DEF BootFirstWrite, Typed, SlotThere
  <2>3. CASE file' = [file EXCEPT ![rec.sub] = Stamped] /\ SetRecord(Succeeded(rec))
    <3>1. FilesStay /\ file'[rec.sub] = Stamped
      BY <1>0, <2>1, <2>2, <2>3 DEF FilesStay
    <3>2. SavedThere'
      BY <1>0, <2>1, <2>2, <2>3, <3>1, SavedSet
    <3>3. BadgeTrue'
      BY <1>0, <2>2, <2>3, <3>1, RecordedFacts, AgreeFacts DEF BadgeTrue, SetRecord
    <3> QED BY <1>1, <3>2, <3>3 DEF BadgeHolds
  <2>4. CASE file' = file /\ SetRecord(Failed(rec))
    <3>1. SavedThere'
      BY <1>0, <2>4, SavedKept DEF FilesStay
    <3>2. BadgeTrue'
      BY <1>0, <2>4, ClaimFacts DEF BadgeTrue, SetRecord
    <3> QED BY <1>1, <3>1, <3>2 DEF BadgeHolds
  <2> QED BY <1>8, <2>1, <2>3, <2>4 DEF BootFirstWrite, BootWriteFails
<1> QED BY <1>3, <1>4, <1>5, <1>6, <1>7, <1>8 DEF BootStep

LEMMA OthersKeepBadge ==
  ASSUME Recorded, BadgeInv, Crash \/ ClearFolderHandle \/ UNCHANGED vars
  PROVE  SavedThere' /\ BadgeHolds' /\ \A p \in Ops : CallOk(p)'
<1>1. CASE UNCHANGED vars
  BY <1>1 DEF vars, BadgeInv, SavedThere, BadgeHolds, BadgeTrue, AtRest, CallOk, Loaded
<1>2. CASE Crash \/ ClearFolderHandle
  <2>1. /\ UNCHANGED <<slot, file>> /\ rec' = NoRecord /\ idb' \in {idb, NoRecord}
        /\ \A p \in Ops : pc'[p] = "idle" \/ (pc'[p] = pc[p] /\ frame'[p] = frame[p])
    BY <1>2 DEF Crash, ClearFolderHandle, disk
  <2>2. ~Connected(rec') /\ ~NoRecord.saved
    BY <2>1 DEF NoRecord, Connected
  <2>3. SavedThere'
    BY <2>1, <2>2 DEF BadgeInv, SavedThere
  <2>4. \A p \in Ops : CallOk(p)'
    BY <2>1, <2>2 DEF BadgeInv, CallOk, Loaded, Writing, Importing
  <2> QED BY <2>2, <2>3, <2>4 DEF BadgeHolds, BadgeTrue, Claims
<1> QED BY <1>1, <1>2

(* The member who waits for each call to end can trust the badge: whatever *)
(* the flow, whichever write, read, backup or start failed and wherever    *)
(* the worker died, a badge that reads 'saved' at rest speaks of a file    *)
(* with exactly the edits shown.                                           *)
THEOREM BadgeIsHonest ==
  ASSUME \A o, p \in Ops : o = p, Faults \cap {"lapse", "missing", "schema"} = {},
         InitSub # None => InitFile[InitSub] # NoDb
  PROVE  Spec => []BadgeHonest
<1>1. Init => BadgeInv
  <2> SUFFICES ASSUME Init PROVE BadgeInv
    OBVIOUS
  <2>1. StoreInv /\ KeptGrant
    BY InitStoreInv, InitKeepsGrant
  <2>2. SavedThere
    <3>1. ~rec.saved /\ file = InitFile
      BY DEF Init, NoRecord
    <3>2. idb.saved => idb.sub = InitSub /\ InitSub # None
      BY DEF Init, NoRecord
    <3> QED BY <3>1, <3>2, StartAssumption DEF SavedThere
  <2>3. BadgeHolds
    BY DEF Init, BadgeHolds, BadgeTrue, Claims, Connected, NoRecord
  <2>4. \A p \in Ops : CallOk(p)
    BY DEF Init, CallOk, Writing, Importing
  <2> QED BY <2>1, <2>2, <2>3, <2>4 DEF BadgeInv
<1>2. BadgeInv /\ [Next]_vars => BadgeInv'
  <2> SUFFICES ASSUME BadgeInv, [Next]_vars PROVE BadgeInv'
    OBVIOUS
  <2>1. StoreInv' /\ KeptGrant'
    BY NextStoreInv, NextKeepsGrant DEF BadgeInv, StoreInv
  <2>0. Recorded
    BY DEF Recorded
  <2>2. ASSUME NEW o \in Ops, CallArrives(o) \/ CallStep(o) PROVE BadgeInv'
    <3>1. \A p \in Ops : p = o
      OBVIOUS
    <3> QED BY <2>0, <2>1, <2>2, <3>1, CallsKeepBadge DEF BadgeInv
  <2>3. ~PermissionChanges
    BY DEF PermissionChanges
  <2>4. CASE Outside
    BY <2>0, <2>1, <2>3, <2>4, BootKeepsBadge, OthersKeepBadge DEF Outside, BadgeInv
  <2> QED BY <2>2, <2>4, NextCases
<1>3. BadgeInv => BadgeHonest
  BY DEF BadgeInv, BadgeHolds, AtRest, BadgeHonest, Quiet, SavedBadge, BadgeTrue, Claims, Agree
<1> QED BY <1>1, <1>2, <1>3, PTL DEF Spec

(***************************************************************************)
(* New stores beside the edits, one call at a time, under every fault: the *)
(* database only grows while it has a folder, and a file that is written   *)
(* is either new or one that it has covered ever since it was connected.   *)
(***************************************************************************)
FileTrusted ==
  /\ trusted \subseteq Contents(slot)
  /\ Connected(idb) => /\ Covers(slot, file[idb.sub])
                       /\ file[idb.sub] # NoDb => trusted \subseteq file[idb.sub]

WriteCovers(o) ==
  LET p == pc[o]
      c == frame[o]
  IN  /\ p = "probe" => file[c.dest] = NoDb
      /\ p \in {"enter", "write", "plainWrite"} => c.buf = slot
      /\ p \in {"write", "plainWrite"} => Covers(slot, file[c.dest])
      /\ p \in {"write", "wrote", "plainWrite"} /\ Connected(rec) => c.dest = rec.sub
      /\ p \in Writing => c.arg \subseteq Contents(slot)
      /\ p = "wrote" => file[c.dest] = slot
      /\ p = "release" /\ Claims(rec) => file[rec.sub] = slot

TrustInv == StoreInv /\ FileTrusted /\ \A o \in Ops : WriteCovers(o)

(* The calls of this instance.                                             *)
LEMMA NoLoading ==
  ASSUME Kinds \subseteq {"mutate", "create", "lock"}, Typed, Flows, NEW o \in Ops
  PROVE  /\ pc[o] \notin {"readQuery", "read", "readTail"} \cup Importing
         /\ frame[o].kind \in {"mutate", "create", "lock", "none"}
         /\ pc[o] \in {"guard"} \cup Writing => frame[o].kind = "mutate"
BY DEF Typed, VarsTyped, Frame, Flows, FlowOf, InFlow, Importing, Writing

(* A step that leaves the files and the database alone, and takes no       *)
(* folder but a new one.                                                   *)
LEMMA TrustKept ==
  ASSUME FileTrusted, UNCHANGED <<slot, file>>,
         trusted' = trusted, idb'.sub \in {idb.sub, None} \/ file[idb'.sub] = NoDb
  PROVE  FileTrusted'
BY DEF FileTrusted, Connected, Covers

LEMMA CallStepsKeepTrust ==
  ASSUME Kinds \subseteq {"mutate", "create", "lock"}, NEW o \in Ops, \A p \in Ops : p = o,
         TrustInv, StoreInv', CallStep(o)
  PROVE  FileTrusted' /\ WriteCovers(o)' /\ Forward
<1>0. /\ pc \in [Ops -> Pcs] /\ frame \in [Ops -> Frame] /\ rec \in Record /\ idb \in Record
      /\ slot \in Db /\ file \in [Stores -> Db] /\ slot' \in Db /\ file' \in [Stores -> Db]
      /\ FlowOf(pc[o], frame[o]) /\ WriteCovers(o) /\ FileTrusted /\ Typed /\ Flows
      /\ frame[o].arg \in Content /\ frame[o].buf \in Content
      /\ rec.sub = idb.sub
      /\ Connected(rec) => rec.sub \in Stores
  BY CallsKeepBootOrder, RecordFacts
  DEF TrustInv, StoreInv, Typed, VarsTyped, Flows, Frame, BootFolder
<1>1. ~ImportSteps(o) /\ ~ReadNow(o) /\ ~ReadArrives(o) /\ ~ReadFails(o) /\ ~ReadMissing(o) /\ ~ReadRecorded(o)
  <2>1. pc[o] \notin {"readQuery", "read", "readTail"} \cup Importing
        /\ (pc[o] = "guard" => frame[o].kind = "mutate")
    BY <1>0, NoLoading
  <2> QED
    BY <2>1
    DEF ImportSteps, ImportInspected, SnapshotToFolder, SnapshotToOpfs, BackupWritten, BackupFails,
        BackupSettles, Rotate, ReplaceFails, Replace, ReadNow, ReadArrives, ReadFails,
        ReadMissing, ReadRecorded, Importing
<1>2. pc[o] \in Writing \cup {"guard"} => frame[o].kind = "mutate"
  BY <1>0, NoLoading
<1>3. file' = file => Forward
  BY CoversFacts DEF Forward
<1>4. ASSUME UNCHANGED <<slot, file, trusted>>, UNCHANGED <<rec, idb>> \/ SetRecord(Failed(rec)) \/ SetRecord(Succeeded(rec))
      PROVE  FileTrusted' /\ Forward /\ (pc'[o] = "idle" => WriteCovers(o)')
  <2>1. idb'.sub = idb.sub
    BY <1>0, <1>4, RecordedFacts DEF SetRecord
  <2>2. FileTrusted'
    BY <1>0, <1>4, <2>1, TrustKept
  <2>3. pc'[o] = "idle" => WriteCovers(o)'
    BY DEF WriteCovers, Writing
  <2> QED BY <1>3, <1>4, <2>2, <2>3
<1>5. CASE \/ GuardRefuses(o) \/ NotOpen(o) \/ ProbeFails(o) \/ SaveNowFails(o) \/ SaveNowRecorded(o)
  <2>1. Return(o)
    BY <1>5 DEF GuardRefuses, NotOpen, ProbeFails, SaveNowFails, SaveNowRecorded
  <2>2. pc'[o] = "idle"
    BY <1>0, <2>1, ReturnFlows
  <2>3. /\ UNCHANGED <<slot, file, trusted>>
        /\ UNCHANGED <<rec, idb>> \/ SetRecord(Failed(rec)) \/ SetRecord(Succeeded(rec))
    BY <1>5 DEF GuardRefuses, NotOpen, ProbeFails, SaveNowFails, SaveNowRecorded, disk, record
  <2> QED BY <1>4, <2>2, <2>3
<1>6. CASE PostCommitSkips(o) \/ LockFailed(o)
  <2>1. /\ pc'[o] = "idle" /\ UNCHANGED <<slot, file>>
        /\ UNCHANGED <<rec, idb>> \/ SetRecord(Failed(rec))
        /\ \/ trusted' = Acknowledged(o, rec) /\ ~granted
           \/ trusted' = Acknowledged(o, Failed(rec))
    BY <1>0, <1>2, <1>6, CommitReturnFlows DEF PostCommitSkips, LockFailed, disk, record, Writing
  <2>2. trusted' = trusted
    BY <1>0, <2>1, RecordedFacts DEF Acknowledged, SavedBadge
  <2> QED BY <1>4, <2>1, <2>2
<1>15. CASE ExportFails(o)
  <2>1. /\ pc'[o] = "idle" /\ UNCHANGED <<slot, file, idb>>
        /\ trusted' = Acknowledged(o, Failed(rec))
    BY <1>0, <1>2, <1>15, CommitReturnFlows DEF ExportFails, disk, Writing
  <2>2. trusted' = trusted
    BY <1>0, <2>1, RecordedFacts DEF Acknowledged, SavedBadge
  <2>3. FileTrusted'
    BY <1>0, <2>1, <2>2, TrustKept
  <2>4. WriteCovers(o)'
    BY <2>1 DEF WriteCovers, Writing
  <2> QED BY <1>3, <2>1, <2>3, <2>4
<1>7. CASE Commit(o)
  <2>1. /\ UNCHANGED <<file, rec, idb, trusted>> /\ slot' = slot \cup frame[o].arg
        /\ slot \in Content
    BY <1>0, <1>7, ContentFacts DEF Commit, record, Typed, SlotThere, Db
  <2>2. slot' \in Content /\ Contents(slot') = slot' /\ Contents(slot) = slot
    BY <1>0, <2>1, ContentFacts DEF Contents
  <2>3. FileTrusted'
    BY <1>0, <2>1, <2>2, ContentFacts DEF FileTrusted, Covers
  <2>4. \/ pc'[o] = "idle"
        \/ pc'[o] = "postCommit" /\ frame'[o] = frame[o]
    BY <1>0, <1>7, ReturnFlows, GotoFlows DEF Commit
  <2>5. WriteCovers(o)'
    BY <2>1, <2>2, <2>4 DEF WriteCovers, Writing
  <2> QED BY <1>3, <2>1, <2>3, <2>5
<1>8. CASE PostCommitExports(o)
  <2>1. slot' = Stamped /\ file' = file /\ pc[o] = "postCommit" /\ slot # NoDb
    BY <1>8 DEF PostCommitExports
  <2>2. /\ slot \in Content /\ slot' \in Content /\ slot \subseteq slot'
        /\ Contents(slot') = slot' /\ Contents(slot) = slot
    BY <1>0, <2>1, ContentFacts DEF Typed, SlotThere, Contents, Stamped, Db
  <2>3. frame[o].arg \subseteq slot'
    BY <1>0, <2>1, <2>2 DEF WriteCovers, Writing
  <2>4. LockFree
    BY <2>1 DEF TrustInv, StoreInv, LockDiscipline, LockedPcs, LockFree, Typed, VarsTyped
  <2>5. UNCHANGED <<rec, idb>>
    BY <1>8, <2>4 DEF PostCommitExports
  <2>6. trusted' = trusted
    BY <1>0, <1>2, <1>8, <2>1, <2>4, CommitReturnFlows
    DEF PostCommitExports, Acknowledged, SavedBadge, Writing
  <2>7. FileTrusted'
    BY <1>0, <2>1, <2>2, <2>5, <2>6, ContentFacts DEF FileTrusted, Covers
  <2>8. WriteCovers(o)'
    <3>1. CASE CommitReturns(o, rec)
      <4>1. pc'[o] = "idle"
        BY <1>0, <1>2, <2>1, <3>1, CommitReturnFlows DEF Writing
      <4> QED BY <4>1 DEF WriteCovers, Writing
    <3>2. CASE Goto(o, "enter") /\ frame' = [frame EXCEPT ![o].buf = Stamped]
      <4>1. pc'[o] = "enter" /\ frame'[o].buf = slot' /\ frame'[o].arg = frame[o].arg
        BY <1>0, <2>1, <3>2, GotoFlows DEF Frame
      <4> QED BY <2>2, <2>3, <4>1 DEF WriteCovers, Writing
    <3> QED BY <1>8, <2>4, <3>1, <3>2 DEF PostCommitExports
  <2> QED BY <1>3, <2>1, <2>7, <2>8
<1>9. CASE EnterLocked(o)
  <2>0. pc[o] = "enter" /\ UNCHANGED <<slot, file, trusted>>
    BY <1>0, <1>9, NoLoading DEF EnterLocked, Importing, disk
  <2>1. CASE Connected(rec)
    <3>1. /\ UNCHANGED <<rec, idb>> /\ pc'[o] = "write" /\ frame'[o].dest = rec.sub
          /\ frame'[o].buf = frame[o].buf /\ frame'[o].arg = frame[o].arg
      BY <1>0, <1>9, <2>0, <2>1, GotoFlows DEF EnterLocked, Frame
    <3>2. Covers(slot, file[rec.sub])
      BY <1>0, <2>1 DEF FileTrusted, Connected
    <3>3. WriteCovers(o)'
      BY <1>0, <2>0, <3>1, <3>2 DEF WriteCovers, Writing
    <3> QED BY <1>4, <2>0, <3>1, <3>3
  <2>2. CASE ~Connected(rec)
    <3>1. SetRecord(Failed(rec)) /\ pc'[o] = "release" /\ frame'[o] = frame[o]
      BY <1>0, <1>9, <2>0, <2>2, GotoFlows DEF EnterLocked
    <3>2. ~Claims(rec')
      BY <1>0, <3>1, ClaimFacts DEF SetRecord
    <3>3. WriteCovers(o)'
      BY <1>0, <2>0, <3>1, <3>2 DEF WriteCovers, Writing
    <3> QED BY <1>4, <2>0, <3>1, <3>3
  <2> QED BY <2>1, <2>2
<1>10. CASE FileReplaced(o)
  <2>1. /\ UNCHANGED <<slot, rec, idb, trusted>> /\ frame'[o] = frame[o] /\ frame[o].buf = slot
        /\ pc[o] \in {"write", "plainWrite"} /\ frame[o].dest \in Stores
        /\ file' = [file EXCEPT ![frame[o].dest] = slot]
        /\ pc'[o] = IF pc[o] = "write" THEN "wrote" ELSE "plainWrote"
    BY <1>0, <1>10, GotoFlows DEF FileReplaced, record, WriteCovers, FlowOf, Aimed
  <2>2. slot \in Content /\ file'[frame[o].dest] = slot /\ Covers(slot, file[frame[o].dest])
    BY <1>0, <2>1 DEF WriteCovers
  <2>3. Forward
    BY <1>0, <2>1, <2>2, CoversFacts DEF Forward
  <2>4. Connected(rec) => frame[o].dest = rec.sub
    BY <1>0, <2>1 DEF WriteCovers
  <2>5. FileTrusted'
    BY <1>0, <2>1, <2>2, <2>4, ContentFacts DEF FileTrusted, Connected, Covers, Contents
  <2>6. WriteCovers(o)'
    BY <1>0, <2>1, <2>2, <2>4 DEF WriteCovers, Writing
  <2> QED BY <2>3, <2>5, <2>6
<1>11. CASE WriteFails(o) \/ WriteRecorded(o)
  <2>1. /\ UNCHANGED <<slot, file, trusted>> /\ frame'[o] = frame[o] /\ pc'[o] = "release"
        /\ pc[o] \in Writing
        /\ \/ SetRecord(Failed(rec))
           \/ SetRecord(Succeeded(rec)) /\ pc[o] = "wrote"
    BY <1>0, <1>11, GotoFlows DEF WriteFails, WriteRecorded, disk, Writing
  <2>2. Claims(rec') => rec'.sub = rec.sub /\ file[rec.sub] = slot
    BY <1>0, <2>1, ClaimFacts, RecordedFacts DEF SetRecord, WriteCovers
  <2>3. WriteCovers(o)'
    BY <1>0, <2>1, <2>2 DEF WriteCovers, Writing
  <2> QED BY <1>4, <2>1, <2>3
<1>12. CASE Release(o)
  <2>1. /\ UNCHANGED <<slot, file, rec, idb>> /\ pc[o] = "release" /\ pc'[o] = "idle"
        /\ trusted' = Acknowledged(o, rec)
    BY <1>0, <1>2, <1>12, CommitReturnFlows DEF Release, disk, record, Writing
  <2>2. WriteCovers(o)'
    BY <2>1 DEF WriteCovers, Writing
  <2>3. CASE trusted' = trusted
    BY <1>4, <2>1, <2>2, <2>3
  <2>4. CASE Claims(rec) /\ trusted' = trusted \cup frame[o].arg
    <3>1. file[rec.sub] = slot /\ frame[o].arg \subseteq Contents(slot)
      BY <1>0, <2>1, <2>4 DEF WriteCovers, Writing
    <3>2. FileTrusted'
      BY <1>0, <2>1, <2>4, <3>1 DEF FileTrusted, Contents, Claims
    <3> QED BY <1>3, <2>1, <2>2, <3>2
  <2> QED BY <2>1, <2>3, <2>4 DEF Acknowledged, SavedBadge, Claims
<1>13. CASE ProbeConnects(o)
  <2>1. /\ UNCHANGED <<slot, file, trusted>> /\ pc[o] = "probe" /\ pc'[o] \in {"saveQuery", "readQuery"}
    BY <1>0, <1>13, GotoFlows DEF ProbeConnects, disk
  <2>2. idb'.sub = frame[o].dest /\ file[frame[o].dest] = NoDb
    BY <1>0, <1>13, <2>1, ConnectedTo DEF WriteCovers
  <2>3. FileTrusted'
    BY <1>0, <2>1, <2>2, TrustKept
  <2>4. WriteCovers(o)'
    BY <2>1 DEF WriteCovers, Writing
  <2> QED BY <1>3, <2>1, <2>3, <2>4
<1>14. CASE SaveNow(o)
  <2>1. UNCHANGED <<slot, file, trusted, rec, idb>>
    BY <1>14 DEF SaveNow, disk, record
  <2>2. CASE Return(o)
    BY <1>0, <1>4, <2>1, <2>2, ReturnFlows
  <2>3. CASE /\ ActivePlace # Opfs /\ slot # NoDb /\ Goto(o, "plainWrite")
             /\ frame' = [frame EXCEPT ![o].buf = Export, ![o].dest = rec.sub]
    <3>1. pc'[o] = "plainWrite" /\ frame'[o].buf = slot /\ frame'[o].dest = rec.sub
      BY <1>0, <2>3, GotoFlows DEF Frame, Export
    <3>2. Covers(slot, file[rec.sub])
      BY <1>0, <2>3 DEF FileTrusted, Connected, ActivePlace
    <3>3. WriteCovers(o)'
      BY <2>1, <3>1, <3>2 DEF WriteCovers, Writing
    <3> QED BY <1>4, <2>1, <3>3
  <2> QED BY <1>14, <2>2, <2>3 DEF SaveNow
<1> QED
  BY <1>1, <1>5, <1>6, <1>7, <1>8, <1>9, <1>10, <1>11, <1>12, <1>13, <1>14, <1>15
  DEF CallStep, CommitSteps, PickSteps

LEMMA BootKeepsTrust ==
  ASSUME TrustInv, StoreInv', BootStep
  PROVE  FileTrusted' /\ Forward /\ \A p \in Ops : WriteCovers(p)'
<1>0. /\ rec \in Record /\ idb \in Record /\ slot \in Db /\ file \in [Stores -> Db]
      /\ FileTrusted /\ Typed /\ trusted' = trusted /\ idb'.sub \in {idb.sub, None}
      /\ \A p \in Ops : pc'[p] = "idle"
      /\ Connected(rec) => Connected(idb) /\ rec.sub \in Stores /\ idb.sub = rec.sub
  <2>1. boot # "ready" /\ UNCHANGED <<pc, trusted>>
    BY DEF BootStep, BootResolveMode, BootPivot, PivotWrites, PivotGivesUp, PivotPreserves,
           PivotKeeps,
           BootPivotFlag, BootPivotDone, BootMigrateBackups, BootHydrate, BootBackup, BootNoBackup,
           BootRotate, BootOpen, BootFirstWrite, BootGoto
  <2>2. CASE BootResolveMode
    BY <2>1, <2>2, SameFolder DEF BootResolveMode, TrustInv, StoreInv, BootOrder, Typed, VarsTyped
  <2>3. CASE ~BootResolveMode
    <3>1. rec.sub = idb.sub
      BY <2>3
      DEF BootStep, BootPivot, BootPivotFlag, BootPivotDone, BootMigrateBackups, BootHydrate,
          BootBackup,
          BootNoBackup, BootRotate, BootOpen, BootFirstWrite, TrustInv, StoreInv, BootFolder
    <3>2. \/ UNCHANGED <<rec, idb>>
          \/ SetRecord(Failed(rec))
          \/ SetRecord(Succeeded(rec))
          \/ SetRecord([rec EXCEPT !.pivot = TRUE])
      BY <2>3
      DEF BootStep, BootPivot, PivotWrites, PivotGivesUp, PivotPreserves, PivotKeeps, BootPivotFlag,
          BootPivotDone, BootMigrateBackups, BootHydrate, BootBackup, BootNoBackup, BootRotate,
          BootOpen, BootFirstWrite, BootWriteFails, record
    <3>3. rec \in Record /\ [rec EXCEPT !.pivot = TRUE].sub = rec.sub
      BY DEF TrustInv, StoreInv, Typed, VarsTyped, Record
    <3>4. idb'.sub = idb.sub
      BY <3>1, <3>2, <3>3, RecordedFacts DEF SetRecord
    <3> QED BY <2>1, <3>4, SameFolder DEF TrustInv, StoreInv, BootOrder, Typed, VarsTyped
  <2> QED BY <2>2, <2>3
<1>1. \A p \in Ops : WriteCovers(p)'
  BY <1>0 DEF WriteCovers, Writing
<1>2. ASSUME UNCHANGED <<slot, file>> PROVE FileTrusted' /\ Forward
  BY <1>0, <1>2, TrustKept, CoversFacts DEF Forward
<1>3. CASE UNCHANGED <<slot, file>>
  BY <1>1, <1>2, <1>3
<1>4. CASE BootPivot /\ slot \notin Empty /\ PivotWrites
  <2>1. Connected(rec) /\ slot \in Content
    BY <1>0, <1>4, ContentFacts DEF BootPivot, TrustInv, StoreInv, BootOrder, Empty, Db
  <2>2. slot' = slot /\ file' = [file EXCEPT ![rec.sub] = slot]
    BY <1>4 DEF BootPivot, PivotWrites
  <2>3. Covers(slot, file[rec.sub])
    BY <1>0, <2>1 DEF FileTrusted
  <2>4. Forward
    BY <1>0, <2>2, <2>3, CoversFacts DEF Forward
  <2>5. file'[rec.sub] = slot
    BY <1>0, <2>1, <2>2
  <2>6. FileTrusted'
    BY <1>0, <2>1, <2>2, <2>5, ContentFacts, CoversFacts DEF FileTrusted, Connected, Contents
  <2> QED BY <1>1, <2>4, <2>6
<1>5. CASE BootHydrate
  <2>1. file' = file /\ (slot' = slot \/ (slot' = file[rec.sub] /\ file[rec.sub] # NoDb /\ Connected(rec)))
    BY <1>5 DEF BootHydrate, Hydrated, TrustInv, StoreInv, BootOrder
  <2>2. CASE slot' = file[rec.sub] /\ file[rec.sub] # NoDb /\ Connected(rec)
    <3>1. FileTrusted'
      BY <1>0, <2>1, <2>2, CoversFacts DEF FileTrusted, Connected, Contents
    <3> QED BY <1>1, <2>1, <3>1, CoversFacts DEF Forward
  <2> QED BY <1>3, <2>1, <2>2
<1>6. CASE BootOpen
  <2>1. file' = file /\ (slot' = slot \/ (slot = NoDb /\ slot' = {}))
    BY <1>6 DEF BootOpen
  <2>2. CASE slot = NoDb /\ slot' = {}
    <3>1. FileTrusted'
      BY <1>0, <2>1, <2>2, ContentFacts DEF FileTrusted, Connected, Contents, Covers
    <3> QED BY <1>1, <2>1, <3>1, CoversFacts DEF Forward
  <2> QED BY <1>3, <2>1, <2>2
<1>7. CASE BootFirstWrite /\ granted
  <2>1. Connected(rec) /\ relOpen
    BY <1>7 DEF BootFirstWrite, TrustInv, StoreInv, BootFolder
  <2>2. /\ slot' = Stamped /\ slot \in Content /\ slot' \in Content /\ slot \subseteq slot'
        /\ Contents(slot') = slot' /\ Contents(slot) = slot
    BY <1>0, <1>7, <2>1, ContentFacts DEF BootFirstWrite, Typed, SlotThere, Contents, Stamped, Db
  <2>3. file' = file \/ file' = [file EXCEPT ![rec.sub] = slot']
    BY <1>7, <2>2 DEF BootFirstWrite
  <2>4. Covers(slot, file[rec.sub])
    BY <1>0, <2>1 DEF FileTrusted
  <2>5. Covers(slot', file[rec.sub])
    BY <2>2, <2>4, ContentFacts DEF Covers
  <2>6. Forward
    BY <1>0, <2>3, <2>5, CoversFacts DEF Forward
  <2>7. file'[rec.sub] \in {file[rec.sub], slot'}
    BY <1>0, <2>1, <2>3
  <2>8. FileTrusted'
    BY <1>0, <2>1, <2>2, <2>5, <2>7, ContentFacts, CoversFacts DEF FileTrusted, Connected
  <2> QED BY <1>1, <2>6, <2>8
<1>8. BootPivot => \/ slot \notin Empty /\ PivotWrites
                  \/ UNCHANGED <<slot, file>>
  BY DEF BootPivot, PivotWrites, PivotGivesUp, PivotPreserves, PivotKeeps
<1>9. (BootFirstWrite /\ ~granted) => UNCHANGED <<slot, file>>
  BY DEF BootFirstWrite
<1>10. BootResolveMode \/ BootPivotFlag \/ BootPivotDone \/ BootMigrateBackups \/ BootBackup
         \/ BootNoBackup \/ BootRotate => UNCHANGED <<slot, file>>
  BY DEF BootResolveMode, BootPivotFlag, BootPivotDone, BootMigrateBackups, BootBackup,
         BootNoBackup,
         BootRotate, disk
<1> QED BY <1>3, <1>4, <1>5, <1>6, <1>7, <1>8, <1>9, <1>10 DEF BootStep

LEMMA NextKeepsTrust ==
  ASSUME Kinds \subseteq {"mutate", "create", "lock"}, \A o, p \in Ops : o = p,
         TrustInv, [Next]_vars
  PROVE  TrustInv' /\ Forward
<1>1. StoreInv'
  BY NextStoreInv DEF TrustInv
<1>2. ASSUME NEW o \in Ops, CallStep(o) PROVE TrustInv' /\ Forward
  <2>1. \A p \in Ops : p = o
    OBVIOUS
  <2>2. FileTrusted' /\ WriteCovers(o)' /\ Forward
    BY <1>1, <1>2, <2>1, CallStepsKeepTrust
  <2> QED BY <1>1, <2>1, <2>2 DEF TrustInv
<1>3. ASSUME NEW o \in Ops, CallArrives(o) PROVE TrustInv' /\ Forward
  <2>1. \A p \in Ops : p = o
    OBVIOUS
  <2>2. /\ UNCHANGED <<slot, file, rec, idb, trusted>> /\ pc'[o] \in {"guard", "probe"}
        /\ pc'[o] = "probe" => /\ frame'[o].kind \in {"create", "open"} \cap Kinds
                               /\ frame'[o].kind = "open" <=> file[frame'[o].dest] # NoDb
    BY <1>3, CallArrivesFlows DEF TrustInv, StoreInv, disk, record
  <2>3. FileTrusted'
    BY <2>2, TrustKept DEF TrustInv
  <2>4. WriteCovers(o)'
    BY <2>2 DEF WriteCovers, Writing
  <2> QED BY <1>1, <2>1, <2>2, <2>3, <2>4, CoversFacts DEF TrustInv, Forward
<1>4. CASE Outside
  <2>1. CASE BootStep
    BY <1>1, <2>1, BootKeepsTrust DEF TrustInv
  <2>2. CASE ~BootStep
    <3>1. /\ UNCHANGED <<slot, file, trusted>> /\ idb' \in {idb, NoRecord} /\ rec' \in {rec, NoRecord}
          /\ \A p \in Ops : pc'[p] = "idle" \/ (pc'[p] = pc[p] /\ frame'[p] = frame[p])
      BY <1>4, <2>2 DEF Outside, Crash, ClearFolderHandle, PermissionChanges, vars, disk
    <3>2. NoRecord.sub = None /\ ~Connected(NoRecord) /\ ~Claims(NoRecord)
      BY DEF NoRecord, Connected, Claims
    <3>3. FileTrusted'
      BY <3>1, <3>2, TrustKept DEF TrustInv
    <3>4. \A p \in Ops : WriteCovers(p)'
      BY <3>1, <3>2 DEF TrustInv, WriteCovers, Writing
    <3> QED BY <1>1, <3>1, <3>3, <3>4, CoversFacts DEF TrustInv, Forward
  <2> QED BY <2>1, <2>2
<1> QED BY <1>2, <1>3, <1>4, NextCases

LEMMA InitTrust == Init => TrustInv
<1> SUFFICES ASSUME Init PROVE TrustInv
  OBVIOUS
<1>1. FileTrusted
  <2>1. Connected(idb) => idb.sub = InitSub /\ InitSub # None
    BY DEF Init, NoRecord, Connected
  <2> QED BY <2>1, CoversFacts DEF Init, FileTrusted
<1>2. \A o \in Ops : WriteCovers(o)
  BY DEF Init, WriteCovers, Writing
<1> QED BY <1>1, <1>2, InitStoreInv DEF TrustInv

(* With new stores picked and folders disconnected beside the edits, one   *)
(* call at a time, no file ever loses an edit, under every fault.          *)
THEOREM NewStoresMoveForward ==
  ASSUME Kinds \subseteq {"mutate", "create", "lock"}, \A o, p \in Ops : o = p
  PROVE  Spec => FolderNeverRegresses
<1>1. TrustInv /\ [Next]_vars => TrustInv'
  BY NextKeepsTrust
<1>2. TrustInv /\ [Next]_vars =>
        [\A s \in Stores : file[s] # NoDb => file'[s] # NoDb /\ file[s] \subseteq file'[s]]_vars
  BY NextKeepsTrust DEF Forward, Covers
<1> QED BY <1>1, <1>2, InitTrust, PTL DEF Spec, FolderNeverRegresses

(* And what was acknowledged under a badge that read 'saved' is in the     *)
(* file of whichever store the next start will read.                       *)
THEOREM NewStoresKeepEdits ==
  ASSUME Kinds \subseteq {"mutate", "create", "lock"}, \A o, p \in Ops : o = p
  PROVE  Spec => []TrustedEditsOnDisk
<1>1. TrustInv /\ [Next]_vars => TrustInv'
  BY NextKeepsTrust
<1>2. TrustInv => TrustedEditsOnDisk
  BY DEF TrustInv, FileTrusted, TrustedEditsOnDisk
<1> QED BY <1>1, <1>2, InitTrust, PTL DEF Spec

(***************************************************************************)
(* The snapshot before a replacement.  It is the newest dated backup when  *)
(* the ring is rotated, so only the pre-pivot backups sort after it: they  *)
(* are no more than the starts that may have written one, and while the    *)
(* ring keeps more than that the snapshot stays.                           *)
(***************************************************************************)
PrePivot(ring) == {b \in ring : b.pre}

Few(ring, n) == IsFiniteSet(PrePivot(ring)) /\ Cardinality(PrePivot(ring)) <= n

RingOk(p) ==
  /\ \A b \in rings[p] : b.at <= now /\ (p = Opfs => ~b.pre)
  /\ Few(rings[p], boots)

(* A start that may still run the pivot migration has one of its own.      *)
PivotToCome ==
  boot \in {"down", "pivot"} =>
    \/ boots = 0 /\ \A r \in {rec, idb} : Connected(r) => r.pivot
    \/ boots > 0 /\ \A p \in Places : Few(rings[p], boots - 1)

Rings == boots <= MaxBoots /\ (\A p \in Places : RingOk(p)) /\ PivotToCome

Newest(b) == b.at = now /\ ~b.pre /\ b.data = slot

SnapshotOk(o) ==
  /\ pc[o] \in Importing \ {"replace"} => slot # NoDb /\ frame[o].buf = slot
  /\ pc[o] # "bakFailed"
  /\ pc[o] = "bakWrite" => frame[o].dest = rec.sub
  /\ pc[o] \in {"bakDone", "rotate"} => \E b \in rings[rec.sub] : Newest(b)
  /\ pc[o] = "replace" => slot = NoDb \/ \E b \in rings[rec.sub] : b.data = slot

UndoInv == StoreInv /\ KeptGrant /\ OnFolder /\ Rings /\ \A o \in Ops : SnapshotOk(o)

(* A step that writes no pre-pivot backup leaves their number as it was.   *)
Dated ==
  /\ now' \in Nat
  /\ \A p \in Places : \A b \in rings'[p] : /\ b.at <= now'
                                            /\ p = Opfs => ~b.pre
                                            /\ b.pre => b \in rings[p]

LEMMA FewFacts ==
  ASSUME NEW ring, NEW n \in Int, Few(ring, n)
  PROVE  /\ \A part : PrePivot(part) \subseteq PrePivot(ring) => Few(part, n)
         /\ \A b : Few(ring \cup {b}, n + 1)
         /\ Few(ring, n + 1)
<1>1. IsFiniteSet(PrePivot(ring)) /\ Cardinality(PrePivot(ring)) \in Nat
      /\ Cardinality(PrePivot(ring)) <= n
  BY FS_CardinalityType DEF Few
<1>2. ASSUME NEW part, PrePivot(part) \subseteq PrePivot(ring) PROVE Few(part, n)
  <2>1. IsFiniteSet(PrePivot(part)) /\ Cardinality(PrePivot(part)) <= Cardinality(PrePivot(ring))
    BY <1>1, <1>2, FS_Subset
  <2>2. Cardinality(PrePivot(part)) \in Nat
    BY <2>1, FS_CardinalityType
  <2> QED BY <1>1, <2>1, <2>2 DEF Few
<1>3. ASSUME NEW b PROVE Few(ring \cup {b}, n + 1)
  <2> DEFINE more == PrePivot(ring) \cup {b}
  <2>1. IsFiniteSet(more) /\ Cardinality(more) \in Nat /\ Cardinality(more) <= n + 1
    <3>1. IsFiniteSet(more) /\ (Cardinality(more) = Cardinality(PrePivot(ring))
                                \/ Cardinality(more) = Cardinality(PrePivot(ring)) + 1)
      BY <1>1, FS_AddElement
    <3> QED BY <1>1, <3>1
  <2>2. PrePivot(ring \cup {b}) \subseteq more
    BY DEF PrePivot
  <2>3. /\ IsFiniteSet(PrePivot(ring \cup {b}))
        /\ Cardinality(PrePivot(ring \cup {b})) <= Cardinality(more)
    BY <2>1, <2>2, FS_Subset
  <2>4. Cardinality(PrePivot(ring \cup {b})) \in Nat
    BY <2>3, FS_CardinalityType
  <2> QED BY <2>1, <2>3, <2>4 DEF Few
<1>4. Few(ring, n + 1)
  BY <1>1 DEF Few
<1> QED BY <1>2, <1>3, <1>4

LEMMA FewInNone ==
  ASSUME NEW n \in Nat
  PROVE  Few({}, n)
<1>1. PrePivot({}) = {}
  BY DEF PrePivot
<1> QED BY <1>1, FS_EmptySet DEF Few

LEMMA DatedKeepsFew ==
  ASSUME Typed, Dated, NEW n \in Int, NEW p \in Places, Few(rings[p], n)
  PROVE  Few(rings'[p], n)
<1>1. PrePivot(rings'[p]) \subseteq PrePivot(rings[p])
  BY DEF Dated, PrePivot
<1> QED BY <1>1, FewFacts

LEMMA DatedKeepsRings ==
  ASSUME Typed, Rings, Dated, boots' = boots,
         \/ boot' \notin {"down", "pivot"}
         \/ boot \in {"down", "pivot"} /\ {rec', idb'} \subseteq {rec, idb}
  PROVE  Rings'
<1>0. boots \in Nat
  BY DEF Typed, VarsTyped
<1>1. \A p \in Places : RingOk(p)'
  <2> TAKE p \in Places
  <2>1. Few(rings'[p], boots)
    BY <1>0, DatedKeepsFew DEF Rings, RingOk
  <2> QED BY <2>1 DEF Dated, RingOk
<1>2. PivotToCome'
  <2>1. CASE boot' \notin {"down", "pivot"}
    BY <2>1 DEF PivotToCome
  <2>2. CASE boot \in {"down", "pivot"} /\ {rec', idb'} \subseteq {rec, idb}
    <3>1. CASE boots = 0 /\ \A r \in {rec, idb} : Connected(r) => r.pivot
      BY <2>2, <3>1 DEF PivotToCome
    <3>2. CASE boots > 0 /\ \A p \in Places : Few(rings[p], boots - 1)
      <4>1. \A p \in Places : Few(rings'[p], boots - 1)
        BY <1>0, <3>2, DatedKeepsFew
      <4> QED BY <3>2, <4>1 DEF PivotToCome
    <3> QED BY <2>2, <3>1, <3>2 DEF Rings, PivotToCome
  <2> QED BY <2>1, <2>2
<1> QED BY <1>1, <1>2 DEF Rings

LEMMA RingsAreDated ==
  ASSUME Typed, Rings
  PROVE  /\ UNCHANGED <<rings, now>> => Dated
         /\ \A place \in Places, data \in Content : Added(place, FALSE, data) => Dated
<1>0. now \in Nat /\ rings \in [Places -> SUBSET Backup]
      /\ \A p \in Places : \A b \in rings[p] : b.at <= now /\ b.at \in Nat /\ (p = Opfs => ~b.pre)
  BY DEF Typed, VarsTyped, Rings, RingOk, Backup
<1>1. UNCHANGED <<rings, now>> => Dated
  BY <1>0 DEF Dated
<1>2. ASSUME NEW place \in Places, NEW data \in Content, Added(place, FALSE, data) PROVE Dated
  <2> DEFINE new == [at |-> now + 1, pre |-> FALSE, data |-> data]
  <2>1. now' = now + 1 /\ rings' = [rings EXCEPT ![place] = @ \cup {new}]
    BY <1>2 DEF Added
  <2>2. \A p \in Places : rings'[p] \subseteq rings[p] \cup {new}
    BY <1>0, <2>1
  <2>3. new.at = now + 1 /\ ~new.pre
    OBVIOUS
  <2>4. \A p \in Places : \A b \in rings'[p] : b \in rings[p] \/ b = new
    BY <2>2
  <2> HIDE DEF new
  <2> QED BY <1>0, <2>1, <2>3, <2>4 DEF Dated
<1> QED BY <1>1, <1>2
(* Rotation only drops files, and keeps the newest dated one of a ring     *)
(* with fewer pre-pivot backups than it has places.                        *)
LEMMA RotationDropsOnly ==
  ASSUME NEW ring
  PROVE  Rotated(ring) \subseteq ring
BY DEF Rotated

LEMMA RotationKeepsNewest ==
  ASSUME MaxBoots < Keep, Typed, Rings, NEW p \in Places, NEW b \in rings[p],
         b.at = now, ~b.pre
  PROVE  b \in Rotated(rings[p])
<1>0. /\ now \in Nat /\ boots \in Nat /\ rings[p] \subseteq Backup
      /\ boots <= MaxBoots
      /\ \A f \in rings[p] : f.at <= now /\ f.at \in Nat
      /\ Few(rings[p], boots)
  BY DEF Typed, VarsTyped, Rings, RingOk, Backup
<1>1. {f \in rings[p] : SortsAfter(f, b)} \subseteq PrePivot(rings[p])
  BY <1>0 DEF SortsAfter, PrePivot
<1>2. IsFiniteSet(PrePivot(rings[p])) /\ Cardinality(PrePivot(rings[p])) \in Nat
      /\ Cardinality(PrePivot(rings[p])) <= boots
  BY <1>0, FS_CardinalityType DEF Few
<1>3. /\ IsFiniteSet({f \in rings[p] : SortsAfter(f, b)})
      /\ Cardinality({f \in rings[p] : SortsAfter(f, b)}) <= Cardinality(PrePivot(rings[p]))
  BY <1>1, <1>2, FS_Subset
<1>4. Cardinality({f \in rings[p] : SortsAfter(f, b)}) \in Nat
  BY <1>3, FS_CardinalityType
<1>5. Cardinality({f \in rings[p] : SortsAfter(f, b)}) < Keep
  BY <1>0, <1>2, <1>3, <1>4, BoundsAssumption
<1> QED BY <1>5 DEF Rotated

LEMMA RotatedRings ==
  ASSUME Typed, Rings, NEW place \in Places, now' = now,
         rings' = [rings EXCEPT ![place] = Rotated(@)]
  PROVE  Dated
<1>1. now \in Nat /\ rings \in [Places -> SUBSET Backup]
      /\ \A p \in Places : \A b \in rings[p] : b.at <= now /\ (p = Opfs => ~b.pre)
  BY DEF Typed, VarsTyped, Rings, RingOk
<1>2. \A p \in Places : rings'[p] \subseteq rings[p]
  BY <1>1, RotationDropsOnly
<1> QED BY <1>1, <1>2 DEF Dated

(***************************************************************************)
(* The steps of a call.                                                    *)
(***************************************************************************)
LEMMA CallsKeepRings ==
  ASSUME Typed, Typed', BootOrder, Flows, Rings, NEW o \in Ops, CallArrives(o) \/ CallStep(o)
  PROVE  Rings'
<1>0. frame[o].buf \in Content /\ ActivePlace \in Places
      /\ (pc[o] = "bakWrite" => frame[o].dest \in Stores)
  BY RecordFacts
  DEF Typed, VarsTyped, Frame, ActivePlace, Places, Flows, FlowOf, Aimed
<1>1. boot' = "ready" /\ boots' = boots
  BY CallsKeepBootOrder
  DEF CallArrives, StartMutate, StartImport, StartRestore, StartPick, Start, CallStep, CommitSteps,
      GuardRefuses, NotOpen, Commit, PostCommitSkips, ExportFails, PostCommitExports, LockFailed,
      EnterLocked,
      FileReplaced, WriteFails, WriteRecorded, Release, ImportSteps, ImportInspected,
      SnapshotToFolder, SnapshotToOpfs, BackupWritten, BackupFails, BackupSettles, Rotate,
      ReplaceFails, Replace,
      PickSteps, ProbeFails, ProbeConnects, SaveNow, SaveNowFails, SaveNowRecorded, ReadNow,
      ReadArrives, ReadFails, ReadMissing, ReadRecorded, power
<1>2. \/ UNCHANGED <<rings, now>>
      \/ Added(Opfs, FALSE, frame[o].buf)
      \/ pc[o] = "bakWrite" /\ Added(frame[o].dest, FALSE, frame[o].buf)
      \/ now' = now /\ rings' = [rings EXCEPT ![ActivePlace] = Rotated(@)]
  <2>1. CASE CallArrives(o) \/ CommitSteps(o)
    BY <2>1
    DEF CallArrives, StartMutate, StartImport, StartRestore, StartPick, Start, CommitSteps,
        GuardRefuses, NotOpen, Commit, PostCommitSkips, ExportFails, PostCommitExports,
        LockFailed, EnterLocked,
        FileReplaced, WriteFails, WriteRecorded, Release, disk
  <2>2. CASE ImportSteps(o)
    BY <2>2
    DEF ImportSteps, ImportInspected, SnapshotToFolder, SnapshotToOpfs, BackupWritten, BackupFails,
        BackupSettles, Rotate, ReplaceFails, Replace, disk
  <2>3. CASE PickSteps(o)
    BY <2>3
    DEF PickSteps, ProbeFails, ProbeConnects, SaveNow, SaveNowFails, SaveNowRecorded, ReadNow,
        ReadArrives, ReadFails, ReadMissing, ReadRecorded, disk
  <2> QED BY <2>1, <2>2, <2>3 DEF CallStep
<1>3. Dated
  BY <1>0, <1>2, RingsAreDated, RotatedRings DEF Places
<1> QED BY <1>1, <1>3, DatedKeepsRings

LEMMA CallsKeepSnapshot ==
  ASSUME MaxBoots < Keep, "backup" \notin Faults, UndoInv, StoreInv', Rings',
         NEW o \in Ops, \A p \in Ops : p = o, CallArrives(o) \/ CallStep(o)
  PROVE  \A p \in Ops : SnapshotOk(p)'
<1>0. /\ pc \in [Ops -> Pcs] /\ frame \in [Ops -> Frame] /\ slot \in Db /\ now \in Nat
      /\ rings \in [Places -> SUBSET Backup] /\ SnapshotOk(o) /\ Typed /\ Flows /\ OnFolder
      /\ frame[o].buf \in Content /\ SlotThere
  BY DEF UndoInv, StoreInv, Typed, VarsTyped, Frame
<1>1. Connected(rec) => granted /\ rec.sub \in Stores /\ ActivePlace = rec.sub /\ rec.sub # Opfs
  BY SameFolder, TokensAssumption DEF UndoInv, KeptGrant, ActivePlace
<1> SUFFICES SnapshotOk(o)'
  OBVIOUS
<1>2. CASE pc'[o] \notin Importing
  BY <1>2 DEF SnapshotOk, Importing
<1>3. CASE ImportInspected(o)
  <2>0. slot' = slot
    BY <1>3 DEF ImportInspected, disk
  <2>1. CASE slot = NoDb
    <3>1. pc'[o] = "replace"
      BY <1>0, <1>3, <2>1 DEF ImportInspected, Goto
    <3> QED BY <2>0, <2>1, <3>1 DEF SnapshotOk, Importing
  <2>2. CASE slot # NoDb
    <3>1. pc'[o] = "snapshot" /\ frame'[o].buf = slot
      BY <1>0, <1>3, <2>2 DEF ImportInspected, Goto, Export, Frame
    <3> QED BY <2>0, <2>2, <3>1 DEF SnapshotOk, Importing
  <2> QED BY <2>1, <2>2
<1>4. CASE SnapshotToFolder(o)
  <2>1. pc[o] = "snapshot" /\ LockFree
    BY <1>0, <1>4, TokensAssumption
    DEF SnapshotToFolder, UndoInv, StoreInv, LockDiscipline, LockedPcs, LockFree, Typed, VarsTyped
  <2>2. slot' = slot /\ frame' = frame /\ pc'[o] = "bakEnter"
    BY <1>0, <1>4, <2>1 DEF SnapshotToFolder, Goto, disk
  <2> QED BY <1>0, <2>1, <2>2 DEF SnapshotOk, Importing
<1>5. ~SnapshotToOpfs(o) /\ ~BackupFails(o)
  <2>1. pc[o] \in {"snapshot", "bakWrite"} => Connected(rec)
    BY <1>0 DEF OnFolder
  <2> QED BY <1>1, <2>1 DEF SnapshotToOpfs, BackupFails, BackupFault
<1>6. CASE EnterLocked(o) /\ pc[o] = "bakEnter"
  <2>1. Connected(rec)
    BY <1>0, <1>6 DEF OnFolder
  <2>2. /\ UNCHANGED <<slot, rec>> /\ pc'[o] = "bakWrite" /\ frame'[o].dest = rec.sub
        /\ frame'[o].buf = frame[o].buf
    BY <1>0, <1>6, <2>1 DEF EnterLocked, Goto, disk, Frame
  <2> QED BY <1>0, <1>6, <2>2 DEF SnapshotOk, Importing
<1>7. CASE BackupWritten(o)
  <2>0. PICK new : new = [at |-> now + 1, pre |-> FALSE, data |-> slot]
    OBVIOUS
  <2>1. Connected(rec) /\ frame[o].dest = rec.sub /\ rec.sub \in Places /\ frame[o].buf = slot /\ slot # NoDb
    BY <1>0, <1>1, <1>7 DEF BackupWritten, OnFolder, SnapshotOk, Places, Importing
  <2>2. /\ UNCHANGED <<slot, rec, frame>> /\ pc'[o] = "bakDone" /\ now' = now + 1
        /\ rings' = [rings EXCEPT ![rec.sub] = @ \cup {new}]
    BY <1>0, <1>7, <2>0, <2>1 DEF BackupWritten, Added, Goto, record
  <2>3. new \in rings'[rec'.sub]
    BY <1>0, <2>1, <2>2
  <2>4. new.at = now' /\ ~new.pre /\ new.data = slot'
    BY <2>0, <2>2
  <2>5. \E b \in rings'[rec'.sub] : b.at = now' /\ ~b.pre /\ b.data = slot'
    BY <2>3, <2>4
  <2> QED BY <2>1, <2>2, <2>5 DEF SnapshotOk, Newest, Importing
<1>8. CASE BackupSettles(o)
  <2>1. pc[o] = "bakDone"
    BY <1>0, <1>8 DEF BackupSettles, SnapshotOk
  <2>2. UNCHANGED <<slot, rings, now, rec, frame>> /\ pc'[o] = "rotate"
    BY <1>0, <1>8, <2>1 DEF BackupSettles, Goto, disk, record
  <2> QED BY <1>0, <2>1, <2>2 DEF SnapshotOk, Newest, Importing
<1>9. CASE Rotate(o)
  <2>1. pc[o] = "rotate" /\ Connected(rec) /\ rec.sub \in Places
    BY <1>0, <1>1, <1>9 DEF Rotate, OnFolder, Places
  <2>2. PICK b \in rings[rec.sub] : Newest(b)
    BY <1>0, <2>1 DEF SnapshotOk
  <2>3. b \in Rotated(rings[rec.sub])
    BY <1>0, <2>1, <2>2, RotationKeepsNewest DEF UndoInv, Newest
  <2>4. UNCHANGED <<slot, rec, frame>> /\ pc'[o] = "replace" /\ b \in rings'[rec.sub]
    BY <1>0, <1>1, <1>9, <2>1, <2>3 DEF Rotate, Goto, record
  <2> QED BY <2>2, <2>4 DEF SnapshotOk, Newest, Importing
<1>10. CASE CallArrives(o)
  BY <1>0, <1>2, <1>10, CallArrivesFlows DEF Importing
<1>11. CASE CommitSteps(o) /\ pc[o] # "bakEnter"
  <2>1. pc'[o] \notin Importing
    <3>1. CASE GuardRefuses(o) \/ NotOpen(o)
      BY <1>0, <3>1, ReturnFlows DEF GuardRefuses, NotOpen, Importing
    <3>2. CASE PostCommitSkips(o) \/ ExportFails(o) \/ LockFailed(o) \/ Release(o)
      BY <1>0, <3>2 DEF PostCommitSkips, ExportFails, LockFailed, Release, CommitReturns, Return,
                        Goto, Importing
    <3>3. CASE PostCommitExports(o)
      BY <1>0, <3>3 DEF PostCommitExports, CommitReturns, Return, Goto, Importing
    <3>4. CASE Commit(o)
      BY <1>0, <3>4 DEF Commit, Return, Goto, Importing
    <3>5. CASE FileReplaced(o) \/ WriteFails(o) \/ WriteRecorded(o)
      BY <1>0, <3>5 DEF FileReplaced, WriteFails, WriteRecorded, Goto, Importing
    <3>6. CASE EnterLocked(o)
      BY <1>0, <1>11, <3>6 DEF EnterLocked, Goto, Importing
    <3> QED BY <1>11, <3>1, <3>2, <3>3, <3>4, <3>5, <3>6 DEF CommitSteps
  <2> QED BY <1>2, <2>1
<1>12. CASE Replace(o) \/ ReplaceFails(o)
  BY <1>0, <1>2, <1>12 DEF Replace, ReplaceFails, Return, Goto, Importing
<1>13. CASE PickSteps(o)
  <2>1. pc'[o] \notin Importing
    <3>1. CASE \/ ProbeFails(o) \/ SaveNowFails(o) \/ SaveNowRecorded(o)
               \/ ReadFails(o) \/ ReadMissing(o) \/ ReadRecorded(o)
      BY <1>0, <3>1, ReturnFlows
      DEF ProbeFails, SaveNowFails, SaveNowRecorded, ReadFails, ReadMissing, ReadRecorded, Importing
    <3>2. CASE ProbeConnects(o) \/ SaveNow(o) \/ ReadNow(o) \/ ReadArrives(o)
      BY <1>0, <3>2
      DEF ProbeConnects, SaveNow, ReadNow, ReadArrives, Return, Goto, Importing
    <3> QED BY <1>13, <3>1, <3>2 DEF PickSteps
  <2> QED BY <1>2, <2>1
<1>14. CASE CommitSteps(o) /\ pc[o] = "bakEnter"
  <2>1. EnterLocked(o)
    BY <1>14
    DEF CommitSteps, GuardRefuses, NotOpen, Commit, PostCommitSkips, ExportFails,
        PostCommitExports, LockFailed,
        FileReplaced, WriteFails, WriteRecorded, Release
  <2> QED BY <1>6, <1>14, <2>1
<1>15. CASE ImportSteps(o)
  BY <1>3, <1>4, <1>5, <1>7, <1>8, <1>9, <1>12, <1>15 DEF ImportSteps
<1> QED BY <1>10, <1>11, <1>13, <1>14, <1>15 DEF CallStep

(***************************************************************************)
(* The start: only the pivot migration writes a pre-pivot backup, and it   *)
(* has the one that PivotToCome left it.                                   *)
(***************************************************************************)
LEMMA BootKeepsRings ==
  ASSUME StoreInv, Rings, BootStep
  PROVE  Rings'
<1>0. /\ Typed /\ slot \in Db /\ now \in Nat /\ boots \in Nat /\ rings \in [Places -> SUBSET Backup]
      /\ rec \in Record /\ ActivePlace \in Places /\ boots <= MaxBoots
      /\ \A p \in Places : \A b \in rings[p] : b.at <= now /\ b.at \in Nat /\ (p = Opfs => ~b.pre)
  BY RecordFacts DEF StoreInv, Typed, VarsTyped, ActivePlace, Places, Rings, RingOk, Backup
<1>1. boots' = boots
  BY DEF BootStep, BootResolveMode, BootPivot, PivotWrites, PivotGivesUp, PivotPreserves,
         PivotKeeps,
         BootPivotFlag, BootPivotDone, BootMigrateBackups, BootHydrate, BootBackup, BootNoBackup,
         BootRotate, BootOpen, BootFirstWrite, BootGoto
<1>2. CASE BootResolveMode
  BY <1>0, <1>1, <1>2, RingsAreDated, DatedKeepsRings DEF BootResolveMode, disk
<1>3. ~BootResolveMode => boot' \notin {"down", "pivot"}
  BY DEF BootStep, BootPivot, PivotWrites, PivotGivesUp, PivotPreserves, PivotKeeps, BootPivotFlag,
         BootPivotDone, BootMigrateBackups, BootHydrate, BootBackup, BootNoBackup, BootRotate,
         BootOpen, BootFirstWrite, BootGoto
<1>4. CASE Dated /\ ~BootResolveMode
  BY <1>0, <1>1, <1>3, <1>4, DatedKeepsRings
<1>5. CASE BootPivot /\ Added(rec.sub, TRUE, slot)
  <2>1. Connected(rec) /\ rec.sub \in Places /\ rec.sub # Opfs /\ ~rec.pivot
    BY <1>5, SameFolder, TokensAssumption DEF StoreInv, BootOrder, BootPivot, Places
  <2>2. boots > 0 /\ \A p \in Places : Few(rings[p], boots - 1)
    BY <1>5, <2>1 DEF Rings, PivotToCome, BootPivot
  <2>3. PICK new : new = [at |-> now + 1, pre |-> TRUE, data |-> slot]
    OBVIOUS
  <2>4. now' = now + 1 /\ rings' = [rings EXCEPT ![rec.sub] = @ \cup {new}]
    BY <1>5, <2>3 DEF Added
  <2>5. ASSUME NEW p \in Places PROVE RingOk(p)'
    <3>1. rings'[p] = IF p = rec.sub THEN rings[p] \cup {new} ELSE rings[p]
      BY <1>0, <2>1, <2>4
    <3>2. \A b \in rings'[p] : b.at <= now' /\ (p = Opfs => ~b.pre)
      <4>1. new.at = now'
        BY <2>3, <2>4
      <4> QED BY <1>0, <2>1, <2>4, <3>1, <4>1
    <3>3. PICK n \in Int : n = boots - 1 /\ n + 1 = boots
      BY <1>0
    <3>4. Few(rings[p], n)
      BY <2>2, <3>3
    <3>5. Few(rings[p], n + 1) /\ Few(rings[p] \cup {new}, n + 1)
      BY <3>4, FewFacts
    <3>6. Few(rings'[p], n + 1)
      BY <3>1, <3>5
    <3>7. Few(rings'[p], boots)
      BY <3>3, <3>6
    <3> QED BY <1>1, <3>2, <3>7 DEF RingOk
  <2> QED BY <1>0, <1>1, <1>3, <1>5, <2>5 DEF Rings, PivotToCome, BootPivot, BootResolveMode
<1>6. CASE BootMigrateBackups
  <2>1. PICK moved \in SUBSET rings[Opfs] :
          rings' = rings \/ rings' = [rings EXCEPT ![Opfs] = @ \ moved,
                                                   ![ActivePlace] = Rotated(@ \cup moved)]
    BY <1>6 DEF BootMigrateBackups
  <2>2. Opfs \in Places
    BY DEF Places
  <2>3. \A b \in moved : b.at <= now /\ ~b.pre
    BY <1>0, <2>2
  <2>4. \A p \in Places : rings'[p] \subseteq rings[p] \cup moved
    <3>1. CASE rings' = rings
      BY <3>1
    <3>2. CASE rings' = [rings EXCEPT ![Opfs] = @ \ moved,
                                      ![ActivePlace] = Rotated(@ \cup moved)]
      <4> DEFINE left == [rings EXCEPT ![Opfs] = @ \ moved]
      <4>1. \A p \in Places : left[p] \subseteq rings[p]
        BY <1>0
      <4>2. rings' = [left EXCEPT ![ActivePlace] = Rotated(@ \cup moved)]
        BY <3>2
      <4>3. left \in [Places -> SUBSET Backup]
        BY <1>0
      <4>4. Rotated(left[ActivePlace] \cup moved) \subseteq left[ActivePlace] \cup moved
        BY RotationDropsOnly
      <4> HIDE DEF left
      <4> QED BY <1>0, <4>1, <4>2, <4>3, <4>4
    <3> QED BY <2>1, <3>1, <3>2
  <2>5. now' = now
    BY <1>6 DEF BootMigrateBackups
  <2>6. \A p \in Places : p = Opfs => rings'[p] \subseteq rings[p]
    BY <2>4
  <2>7. Dated
    BY <1>0, <2>3, <2>4, <2>5 DEF Dated
  <2>8. ~BootResolveMode
    BY <1>6 DEF BootMigrateBackups, BootResolveMode
  <2> QED BY <1>4, <2>7, <2>8
<1>7. CASE BootBackup \/ BootRotate
  <2>1. ~BootResolveMode
    BY <1>7 DEF BootBackup, BootRotate, BootResolveMode
  <2>2. CASE BootBackup
    <3>1. slot \in Content /\ Added(ActivePlace, FALSE, slot)
      BY <1>0, <2>2 DEF BootBackup, Db
    <3> QED BY <1>0, <1>4, <2>1, <3>1, RingsAreDated
  <2>3. CASE BootRotate
    BY <1>0, <1>4, <2>1, <2>3, RotatedRings DEF BootRotate
  <2> QED BY <1>7, <2>2, <2>3
<1>8. CASE UNCHANGED <<rings, now>> /\ ~BootResolveMode
  BY <1>0, <1>4, <1>8, RingsAreDated
<1>9. BootPivot => UNCHANGED <<rings, now>> \/ Added(rec.sub, TRUE, slot)
  BY DEF BootPivot, PivotWrites, PivotGivesUp, PivotPreserves, PivotKeeps
<1>10. BootPivotFlag \/ BootPivotDone \/ BootHydrate \/ BootNoBackup \/ BootOpen \/ BootFirstWrite
         => UNCHANGED <<rings, now>>
  BY DEF BootPivotFlag, BootPivotDone, BootHydrate, BootNoBackup, BootOpen, BootFirstWrite, disk
<1> QED BY <1>2, <1>5, <1>6, <1>7, <1>8, <1>9, <1>10 DEF BootStep

LEMMA CrashKeepsRings ==
  ASSUME Typed, Rings, Crash
  PROVE  Rings'
<1>1. /\ UNCHANGED <<rings, now>> /\ boots' = boots + 1 /\ boots \in Nat
      /\ boots < MaxBoots
  BY DEF Crash, Typed, VarsTyped
<1>2. \A p \in Places : RingOk(p)'
  BY <1>1, FewFacts DEF Rings, RingOk
<1>3. PivotToCome'
  <2>1. \A p \in Places : Few(rings'[p], boots' - 1)
    BY <1>1 DEF Rings, RingOk
  <2> QED BY <1>1, <2>1 DEF PivotToCome
<1> QED BY <1>1, <1>2, <1>3, BoundsAssumption DEF Rings

LEMMA InitRings == Init => Rings
<1> SUFFICES ASSUME Init PROVE Rings
  OBVIOUS
<1>1. \A p \in Places : RingOk(p)
  BY FewInNone DEF Init, RingOk
<1>2. PivotToCome
  BY DEF Init, PivotToCome, NoRecord, Connected
<1> QED BY <1>1, <1>2, BoundsAssumption DEF Init, Rings

LEMMA NextKeepsUndo ==
  ASSUME MaxBoots < Keep, "lock" \notin Kinds, Faults \cap {"backup", "lapse"} = {},
         \A o, p \in Ops : o = p, UndoInv, [Next]_vars
  PROVE  UndoInv'
<1>1. StoreInv' /\ KeptGrant' /\ OnFolder'
  BY NextStoreInv, NextKeepsGrant, NextKeepsFolder DEF UndoInv, StoreInv
<1>2. ASSUME NEW o \in Ops, CallArrives(o) \/ CallStep(o) PROVE UndoInv'
  <2>1. \A p \in Ops : p = o
    OBVIOUS
  <2>2. Rings'
    BY <1>1, <1>2, CallsKeepRings DEF UndoInv, StoreInv
  <2> QED BY <1>1, <1>2, <2>1, <2>2, CallsKeepSnapshot DEF UndoInv
<1>3. CASE BootStep
  <2>1. \A p \in Ops : pc'[p] = "idle"
    <3>1. boot # "ready" /\ pc' = pc
      BY <1>3
      DEF BootStep, BootResolveMode, BootPivot, PivotWrites, PivotGivesUp, PivotPreserves,
          PivotKeeps, BootPivotFlag, BootPivotDone, BootMigrateBackups, BootHydrate, BootBackup,
          BootNoBackup, BootRotate, BootOpen, BootFirstWrite, BootGoto
    <3> QED BY <3>1 DEF UndoInv, StoreInv, BootOrder
  <2>2. \A p \in Ops : SnapshotOk(p)'
    BY <2>1 DEF SnapshotOk, Importing
  <2> QED BY <1>1, <1>3, <2>2, BootKeepsRings DEF UndoInv
<1>4. CASE Crash
  <2>1. \A p \in Ops : SnapshotOk(p)'
    BY <1>4 DEF Crash, SnapshotOk, Importing
  <2> QED BY <1>1, <1>4, <2>1, CrashKeepsRings DEF UndoInv, StoreInv
<1>5. CASE UNCHANGED vars
  <2>1. Rings'
    BY <1>5 DEF UndoInv, vars, Rings, RingOk, PivotToCome
  <2>2. \A p \in Ops : SnapshotOk(p)'
    BY <1>5 DEF UndoInv, vars, SnapshotOk, Newest
  <2> QED BY <1>1, <2>1, <2>2 DEF UndoInv
<1>6. ~ClearFolderHandle /\ ~PermissionChanges
  BY DEF ClearFolderHandle, PermissionChanges
<1> QED BY <1>2, <1>3, <1>4, <1>5, <1>6, NextCases DEF Outside

(* One call at a time, with backups that can be written and a ring longer  *)
(* than the starts that may each add a pre-pivot backup to it, a           *)
(* replacement of the database can be undone: what it replaces is in the   *)
(* ring when it goes, whatever else fails and wherever the worker died.    *)
THEOREM ReplacementsAreUndoable ==
  ASSUME MaxBoots < Keep, "lock" \notin Kinds, Faults \cap {"backup", "lapse"} = {},
         \A o, p \in Ops : o = p
  PROVE  Spec => ReplaceIsUndoable
<1>1. Init => UndoInv
  <2> SUFFICES ASSUME Init PROVE UndoInv
    OBVIOUS
  <2>1. OnFolder /\ \A o \in Ops : SnapshotOk(o)
    BY DEF Init, OnFolder, SnapshotOk, Importing
  <2> QED BY <2>1, InitStoreInv, InitKeepsGrant, InitRings DEF UndoInv
<1>2. UndoInv /\ [Next]_vars => UndoInv'
  BY NextKeepsUndo
<1>3. UndoInv /\ [Next]_vars =>
        [(boot = "ready" /\ ~(Contents(slot) \subseteq Contents(slot')))
           => \E p \in Places : \E b \in rings[p] : b.data = slot]_vars
  <2> SUFFICES ASSUME UndoInv, Next, boot = "ready", ~(Contents(slot) \subseteq Contents(slot'))
               PROVE  \E p \in Places : \E b \in rings[p] : b.data = slot
    OBVIOUS
  <2>1. slot' # slot /\ slot # NoDb
    BY DEF Contents
  <2>2. PICK o \in Ops : CallArrives(o) \/ CallStep(o)
    <3>1. ~(ClearFolderHandle \/ Crash \/ PermissionChanges)
      BY <2>1 DEF ClearFolderHandle, Crash, PermissionChanges, disk
    <3>2. ~BootStep
      BY DEF BootStep, BootResolveMode, BootPivot, BootPivotFlag, BootPivotDone, BootMigrateBackups,
             BootHydrate, BootBackup, BootNoBackup, BootRotate, BootOpen, BootFirstWrite
    <3> QED BY <3>1, <3>2 DEF Next
  <2>3. Replace(o) \/ ReplaceFails(o)
    <3>1. ~CallArrives(o)
      BY <2>1, CallArrivesFlows DEF UndoInv, StoreInv, disk
    <3>2. ~PickSteps(o)
      BY <2>1
      DEF PickSteps, ProbeFails, ProbeConnects, SaveNow, SaveNowFails, SaveNowRecorded, ReadNow,
          ReadArrives, ReadFails, ReadMissing, ReadRecorded, disk
    <3>3. ImportSteps(o) => Replace(o) \/ ReplaceFails(o)
      BY <2>1
      DEF ImportSteps, ImportInspected, SnapshotToFolder, SnapshotToOpfs, BackupWritten,
          BackupFails, BackupSettles, Rotate, disk
    <3>4. ~CommitSteps(o)
      <4>1. ~Commit(o) /\ ~PostCommitExports(o)
        <5>1. slot \in Content
          BY <2>1 DEF UndoInv, StoreInv, Typed, VarsTyped, Db
        <5>2. \A c \in Content : slot \cup c \in Content /\ slot \cup c # NoDb
          BY <5>1, ContentFacts
        <5>3. {Identity} \in Content /\ \A p \in Ops : frame[p].arg \in Content
          BY DEF Content, UndoInv, StoreInv, Typed, VarsTyped, Frame
        <5> QED BY <2>1, <5>1, <5>2, <5>3 DEF Commit, PostCommitExports, Stamped, Contents
      <4> QED
        BY <2>1, <4>1
        DEF CommitSteps, GuardRefuses, NotOpen, PostCommitSkips, ExportFails, LockFailed,
            EnterLocked,
            FileReplaced, WriteFails, WriteRecorded, Release, disk
    <3> QED BY <2>2, <3>1, <3>2, <3>3, <3>4 DEF CallStep
  <2>4. pc[o] = "replace" /\ Connected(rec)
    BY <2>3 DEF Replace, ReplaceFails, UndoInv, OnFolder
  <2>5. \E b \in rings[rec.sub] : b.data = slot
    BY <2>1, <2>4 DEF UndoInv, SnapshotOk
  <2> QED BY <2>4, <2>5, SameFolder DEF UndoInv, Places
<1> QED BY <1>1, <1>2, <1>3, PTL DEF Spec, ReplaceIsUndoable

=============================================================================
