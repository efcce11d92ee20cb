----------------------------- MODULE TimelineProofs -----------------------------
(***************************************************************************)
(* The files of the timeline database, for any tasks, settings and bounds: *)
(* types, lost rows, torn files, panics and culls of TimelineFiles.        *)
(***************************************************************************)
EXTENDS TimelineFiles, FiniteSetTheorems, WellFoundedInduction, TLAPS

FileType == {main, backup, snapshot} \subseteq File

RowsType == {wal, aside, committed, seen, culled, discarded} \subseteq SUBSET Row

UsedType == used \in [rows : 0 .. MaxRows, crashes : Nat, faults : Nat]

TaskType ==
  /\ boot \in Boot /\ opened \in BOOLEAN /\ sync \in SyncStep
  /\ backup_ok \in BOOLEAN /\ check_on_backup \in BackupChecks

--------------------------------------------------------------------------------
(***************************************************************************)
(* The guard.                                                              *)
(***************************************************************************)
\* A panic that did not race a repair has raised the flag, and the calls begun
\* since have seen it.
Flagged ==
  conn = "poisoned" /\ ~raced =>
    /\ needs_reopen
    /\ \A t \in Task : step[t] # "clear"
    /\ \A t \in late : step[t] \in {"idle", "take"}

GuardInv == GuardTypeOK /\ Flagged

\* What a task does before it holds the mutex.
LEMMA EnterKeeps ==
  ASSUME GuardInv, NEW t \in Task, Enter(t)
  PROVE  GuardInv'
<1> USE DEF GuardInv, GuardTypeOK, Flagged, Step, Free
<1>0. NoTask \notin Task
  BY GuardAssumption
<1>1. CASE Call(t)
  BY <1>1 DEF Call
<1>2. CASE Take(t)
  BY <1>0, <1>2 DEF Take
<1>3. CASE Open(t)
  BY <1>3 DEF Open
<1>4. CASE Put(t)
  BY <1>0, <1>4 DEF Put
<1>5. CASE Clear(t)
  BY <1>5 DEF Clear
<1>6. CASE Lock(t)
  BY <1>0, <1>6 DEF Lock
<1> QED
  BY <1>1, <1>2, <1>3, <1>4, <1>5, <1>6 DEF Enter

\* A task gives the mutex back, in whatever way.
LEMMA LeaveKeeps ==
  ASSUME GuardInv, NEW t \in Task,
         \/ Release(t) /\ UNCHANGED <<conn, needs_reopen, spent>>
         \/ Panics(t) \/ FailsOn(t) \/ MarkForReopen(t)
  PROVE  GuardInv'
<1> USE DEF GuardInv, GuardTypeOK, Flagged, Step
<1>0. NoTask \notin Task
  BY GuardAssumption
<1>1. CASE Release(t) /\ UNCHANGED <<conn, needs_reopen, spent>>
  BY <1>0, <1>1 DEF Release
<1>2. CASE Panics(t)
  BY <1>0, <1>2 DEF Panics
<1>3. CASE FailsOn(t)
  BY <1>0, <1>3 DEF FailsOn, Release
<1>4. CASE MarkForReopen(t)
  BY <1>0, <1>4 DEF MarkForReopen, Release
<1> QED
  BY <1>1, <1>2, <1>3, <1>4

--------------------------------------------------------------------------------
(***************************************************************************)
(* The files.                                                              *)
(***************************************************************************)
\* A file that is not there holds no row; the engine runs on one that is there,
\* and its sync task runs with it.
FilesFit ==
  /\ \A f \in {main, backup, snapshot} : f.there \/ f.rows = {}
  /\ boot = "up" => main.there
  /\ boot # "up" => sync = "sleep"

\* Rows are numbered as they are committed.
Numbered == committed \subseteq 1 .. used.rows /\ seen \subseteq committed

\* What was there when the sync task woke up moves with the backup.
Live == main.rows \cup wal

Backed ==
  /\ sync = "copy" => Live \cap seen \subseteq main.rows
  /\ sync \in {"verify", "promote"} => Live \cap seen \subseteq snapshot.rows
  /\ sync \in {"trim", "weigh"} /\ backup_ok => Live \cap seen \subseteq backup.rows
  /\ sync = "cull" => Live \cap seen \subseteq backup.rows

Types == FileType /\ RowsType /\ UsedType /\ TaskType

IInv == GuardInv /\ Types /\ FilesFit /\ Numbered /\ Backed /\ LossIsExplained

\* An absent file is a file, and so is one that was created.
LEMMA FileValues ==
  /\ Absent \in File /\ Absent.rows = {}
  /\ \A rows \in SUBSET Row : Whole(rows) \in File /\ Whole(rows).there /\ Whole(rows).rows = rows
  /\ \A f \in File : [f EXCEPT !.torn = TRUE] \in File
  /\ \A f \in File, rows \in SUBSET Row : [f EXCEPT !.rows = rows] \in File
BY DEF Absent, Whole, File

\* The verdicts, and the removal of the sidecars.
LEMMA GateKeeps ==
  ASSUME IInv, integrity_gate_on_open \/ restore_clean_backup \/ DropSidecars, SettingIsRead
  PROVE  IInv'
<1> USE DEF IInv, Types, FileType, RowsType, UsedType, TaskType, FilesFit, Numbered, Live, Backed,
            LossIsExplained, BootStep, SettingIsRead, Boot
<1>0. UNCHANGED guardVars
  BY DEF integrity_gate_on_open, restore_clean_backup, DropSidecars
<1>1. GuardInv'
  BY <1>0 DEF guardVars, GuardInv, GuardTypeOK, Flagged
<1>2. CASE integrity_gate_on_open
  BY <1>1, <1>2 DEF integrity_gate_on_open, fileVars, filesHistory
<1>3. CASE restore_clean_backup
  BY <1>1, <1>3 DEF restore_clean_backup, fileVars, filesHistory
<1>4. CASE DropSidecars
  BY <1>1, <1>4 DEF DropSidecars
<1> QED
  BY <1>2, <1>3, <1>4

\* The restored file, or the files moved aside.
LEMMA MoveKeeps ==
  ASSUME IInv, SwapIn \/ move_corrupt_aside \/ move_sidecars_aside, SettingIsRead
  PROVE  IInv'
<1> USE DEF IInv, Types, FileType, RowsType, UsedType, TaskType, FilesFit, Numbered, Live, Backed,
            LossIsExplained, BootStep, SettingIsRead, Boot, Fault
<1>0. UNCHANGED guardVars
  BY DEF SwapIn, move_corrupt_aside, move_sidecars_aside
<1>1. GuardInv'
  BY <1>0 DEF guardVars, GuardInv, GuardTypeOK, Flagged
<1>2. CASE SwapIn
  BY <1>1, <1>2 DEF SwapIn, File
<1>3. CASE move_corrupt_aside
  <2>2. CASE /\ main.there /\ boot' = "aside_wal" /\ boot = "aside"
             /\ aside' = aside \cup main.rows /\ main' = Absent /\ UNCHANGED used
    <3>1. UNCHANGED <<wal, backup, snapshot, sync, backup_ok, opened, committed,
                     seen, culled, discarded>>
      BY <1>3 DEF move_corrupt_aside, filesHistory
    <3>2. main.rows \subseteq Row
      BY DEF File
    <3>3. main' \in File /\ main'.rows = {}
      BY <2>2, FileValues
    <3> QED
      BY <1>1, <2>2, <3>1, <3>2, <3>3
  <2>3. CASE boot = "aside" /\ boot' = "open" /\ UNCHANGED <<main, aside>>
    <3>1. UNCHANGED <<wal, backup, snapshot, sync, backup_ok, opened, committed,
                     seen, culled, discarded>>
      BY <1>3 DEF move_corrupt_aside, filesHistory
    <3>2. UsedType' /\ used'.rows = used.rows
      BY <1>3 DEF move_corrupt_aside
    <3> QED
      BY <1>1, <2>3, <3>1, <3>2
  <2> QED
    BY <1>3, <2>2, <2>3 DEF move_corrupt_aside
<1>4. CASE move_sidecars_aside
  BY <1>1, <1>4 DEF move_sidecars_aside, filesHistory
<1> QED
  BY <1>2, <1>3, <1>4

\* The opening.
LEMMA OpenKeeps ==
  ASSUME IInv, OpenFile, SettingIsRead
  PROVE  IInv'
<1> USE DEF IInv, Types, FileType, RowsType, UsedType, TaskType, FilesFit, Numbered, Live, Backed,
            LossIsExplained, BootStep, SettingIsRead, Boot, OpenFile
<1>1. CASE OpenSucceeds
  <2>1. GuardInv'
    BY <1>1 DEF OpenSucceeds, GuardInv, GuardTypeOK, Flagged
  <2>2. main' \in File /\ main'.there
    <3>1. wal \subseteq Row /\ main \in File
      OBVIOUS
    <3>2. CASE main' = Whole({})
      BY <3>2, FileValues
    <3>3. CASE main' = [Whole(wal) EXCEPT !.torn = TRUE]
      <4>1. Whole(wal) \in File /\ Whole(wal).there
        BY <3>1, FileValues
      <4> QED
        BY <3>3, <4>1 DEF File
    <3>4. CASE main.there /\ main' = main
      BY <3>1, <3>4
    <3> QED
      BY <1>1, <3>2, <3>3, <3>4 DEF OpenSucceeds
  <2>3. main.rows \cup wal \subseteq main'.rows \cup wal' \cup discarded'
    BY <1>1 DEF OpenSucceeds, Whole, File
  <2>4. wal' \subseteq Row /\ discarded' \subseteq Row /\ discarded \subseteq discarded'
    BY <1>1 DEF OpenSucceeds
  <2> QED
    BY <1>1, <2>1, <2>2, <2>3, <2>4 DEF OpenSucceeds
<1>2. CASE OpenFails
  <2>1. GuardInv'
    BY <1>2 DEF OpenFails, GuardInv, GuardTypeOK, Flagged
  <2> QED
    BY <1>2, <2>1 DEF OpenFails
<1> QED
  BY <1>1, <1>2

\* A task comes to the mutex; a writer commits a row, or fails.
LEMMA WriteKeeps ==
  ASSUME IInv, NEW t \in Task, EnterDb(t) \/ (t \in Writer /\ Write(t)), SettingIsRead
  PROVE  IInv'
<1> USE DEF IInv, Types, FileType, RowsType, UsedType, TaskType, FilesFit, Numbered, Live, Backed,
            LossIsExplained, SettingIsRead
<1>1. CASE EnterDb(t)
  <2>1. GuardInv'
    BY <1>1, EnterKeeps DEF EnterDb
  <2> QED
    BY <1>1, <2>1 DEF EnterDb, fileVars, taskVars, filesHistory
<1>2. CASE WriteFails(t)
  <2>1. GuardInv'
    BY <1>2, LeaveKeeps DEF WriteFails
  <2> QED
    BY <1>2, <2>1 DEF WriteFails, fileVars, taskVars, filesHistory
<1>3. CASE CommitRow(t)
  <2>1. GuardInv'
    BY <1>3, LeaveKeeps DEF CommitRow
  <2> DEFINE r == used.rows + 1
  <2>2. /\ r \in Row /\ r \in 1 .. MaxRows /\ used'.rows = r
        /\ UsedType'
    BY <1>3, FilesAssumption DEF CommitRow, Row
  <2>3. r \notin seen /\ wal' = wal \cup {r} /\ committed' = committed \cup {r}
    BY <1>3 DEF CommitRow
  <2>4. UNCHANGED <<main, backup, snapshot, aside, boot, opened, sync, backup_ok, seen,
                   culled, discarded>>
    BY <1>3 DEF CommitRow, taskVars
  <2>5. Numbered'
    <3>1. 1 .. used.rows \subseteq 1 .. r /\ r \in 1 .. r
      BY <2>2 DEF Row
    <3>2. committed' \subseteq 1 .. r
      BY <2>3, <3>1
    <3>3. seen' \subseteq committed'
      BY <2>3, <2>4
    <3> QED
      BY <2>2, <3>2, <3>3
  <2>6. Backed'
    BY <2>3, <2>4
  <2>7. LossIsExplained' /\ RowsType'
    BY <2>2, <2>3, <2>4
  <2> QED
    BY <2>1, <2>2, <2>4, <2>5, <2>6, <2>7
<1> QED
  BY <1>1, <1>2, <1>3 DEF Write

\* The sync task without the mutex: it wakes up, copies, verifies, promotes, skips the
\* trim and looks at the size.
LEMMA CopyKeeps ==
  ASSUME IInv, SettingIsRead,
         Tick \/ CopyOut \/ VerifySnapshot \/ Promote \/ SkipTrim \/ Weigh
  PROVE  IInv'
<1> USE DEF IInv, Types, FileType, RowsType, UsedType, TaskType, FilesFit, Numbered, Live, Backed,
            LossIsExplained, SettingIsRead, SyncGoto, SyncStep, Fault, Failed
<1>0. UNCHANGED guardVars
  BY DEF Tick, CopyOut, VerifySnapshot, Promote, SkipTrim, Weigh
<1>1. GuardInv'
  BY <1>0 DEF guardVars, GuardInv, GuardTypeOK, Flagged
<1>2. CASE Tick
  BY <1>1, <1>2 DEF Tick, fileVars
<1>3. CASE CopyOut
  <2>1. UNCHANGED <<main, wal, backup, aside, boot, opened, committed, seen, culled, discarded>>
    BY <1>3 DEF CopyOut, filesHistory
  <2>2. CASE /\ boot = "up" /\ sync' = "verify" /\ snapshot' = main /\ sync = "copy"
             /\ UNCHANGED <<backup_ok, used>>
    BY <1>1, <2>1, <2>2
  <2>3. CASE /\ boot = "up" /\ sync' = "trim" /\ backup_ok' = FALSE /\ snapshot' = Absent /\ Fault
    <3>1. UsedType' /\ used'.rows = used.rows
      BY <2>3
    <3>2. snapshot' \in File /\ snapshot'.rows = {}
      BY <2>3, FileValues
    <3> QED
      BY <1>1, <2>1, <2>3, <3>1, <3>2
  <2> QED
    BY <1>3, <2>2, <2>3 DEF CopyOut
<1>4. CASE VerifySnapshot
  BY <1>1, <1>4, FileValues DEF VerifySnapshot, filesHistory
<1>5. CASE Promote
  BY <1>1, <1>5, FileValues DEF Promote, filesHistory
<1>6. CASE SkipTrim
  BY <1>1, <1>6 DEF SkipTrim, fileVars, filesHistory
<1>7. CASE Weigh
  BY <1>1, <1>7 DEF Weigh, fileVars, filesHistory
<1> QED
  BY <1>2, <1>3, <1>4, <1>5, <1>6, <1>7

\* Merging the log into the main file moves rows from one to the other.
LEMMA MergeMoves ==
  ASSUME Types, Merge
  PROVE  /\ main' \in File /\ main'.rows = main.rows \cup wal /\ wal' = {}
         /\ main'.there = main.there
BY FileValues DEF Types, FileType, RowsType, Merge, File

\* The sync task merges the log, before a copy or to trim it.
LEMMA CheckpointKeeps ==
  ASSUME IInv, SettingIsRead, wal_checkpoint \/ checkpoint_wal
  PROVE  IInv'
<1> USE DEF IInv, SettingIsRead, SyncGoto, SyncStep, Fault, Failed
<1>1. GuardInv'
  BY LeaveKeeps, FilesAssumption DEF wal_checkpoint, checkpoint_wal
<1>2. CASE Merge /\ (\/ sync = "checkpoint" /\ sync' = "copy"
                     \/ sync = "trim" /\ sync' = "weigh")
           /\ UNCHANGED <<backup, snapshot, aside, boot, opened, backup_ok, filesHistory, used>>
  <2>1. /\ main' \in File /\ main'.rows = main.rows \cup wal /\ wal' = {}
        /\ main'.there = main.there
    BY <1>2, MergeMoves
  <2> USE DEF Types, FileType, RowsType, UsedType, TaskType, filesHistory
  <2>2. Types'
    BY <1>2, <2>1
  <2>3. FilesFit'
    BY <1>2, <2>1 DEF FilesFit
  <2>4. Numbered' /\ LossIsExplained'
    BY <1>2, <2>1 DEF Numbered, LossIsExplained
  <2>5. Backed'
    BY <1>2, <2>1 DEF Backed, Live
  <2> QED
    BY <1>1, <2>2, <2>3, <2>4, <2>5
<1>3. CASE /\ UNCHANGED <<main, wal, backup, snapshot, aside, boot, opened, filesHistory>>
           /\ \/ sync = "checkpoint" /\ sync' = "trim" /\ backup_ok' = FALSE
              \/ sync = "trim" /\ sync' = "weigh" /\ UNCHANGED backup_ok
           /\ UsedType' /\ used'.rows = used.rows
  <2>1. Types'
    BY <1>3 DEF Types, FileType, RowsType, TaskType, filesHistory
  <2>2. FilesFit' /\ Numbered' /\ LossIsExplained'
    BY <1>3 DEF FilesFit, Numbered, LossIsExplained, filesHistory
  <2>3. Backed'
    BY <1>3 DEF Backed, Live, filesHistory
  <2> QED
    BY <1>1, <2>1, <2>2, <2>3
<1>4. CASE wal_checkpoint
  <2>1. CASE /\ sync' = "copy" /\ sync = "checkpoint" /\ Merge /\ UNCHANGED <<backup_ok, used>>
    BY <1>2, <1>4, <2>1 DEF wal_checkpoint
  <2>2. CASE /\ sync = "checkpoint" /\ sync' = "trim" /\ backup_ok' = FALSE
             /\ UNCHANGED <<main, wal>>
             /\ UNCHANGED used \/ Fault
    <3>1. UsedType' /\ used'.rows = used.rows
      BY <2>2 DEF Types, UsedType
    <3> QED
      BY <1>3, <1>4, <2>2, <3>1 DEF wal_checkpoint
  <2> QED
    BY <1>4, <2>1, <2>2 DEF wal_checkpoint
<1>5. CASE checkpoint_wal
  <2>1. CASE Merge /\ UNCHANGED used
    BY <1>2, <1>5, <2>1 DEF checkpoint_wal
  <2>2. CASE UNCHANGED <<main, wal>> /\ (UNCHANGED used \/ Fault)
    <3>1. UsedType' /\ used'.rows = used.rows
      BY <2>2 DEF Types, UsedType
    <3> QED
      BY <1>3, <1>5, <2>2, <3>1 DEF checkpoint_wal
  <2> QED
    BY <1>5, <2>1, <2>2 DEF checkpoint_wal
<1> QED
  BY <1>4, <1>5

\* The sync task culls.
LEMMA CullKeeps ==
  ASSUME IInv, SettingIsRead, cull_timeline_noise
  PROVE  IInv'
<1> USE DEF IInv, SettingIsRead, SyncGoto, SyncStep
<1>1. GuardInv'
  BY LeaveKeeps, FilesAssumption DEF cull_timeline_noise
<1>2. CASE UNCHANGED <<main, wal, culled>>
  BY <1>1, <1>2 DEF cull_timeline_noise, Types, FileType, RowsType, UsedType, TaskType, FilesFit,
                    Numbered, LossIsExplained, Backed, Live
<1>3. CASE /\ main' = [main EXCEPT !.rows = @ \ noise_to_cull]
           /\ wal' = wal \ noise_to_cull
           /\ culled' = culled \cup noise_to_cull
  <2> USE DEF Types, FileType, RowsType, UsedType, TaskType
  <2>1. noise_to_cull \subseteq Live
    BY DEF noise_to_cull, Noise, Live
  <2>2. Live \subseteq Row
    BY DEF Live, File
  <2>3. /\ main' \in File /\ main'.rows = main.rows \ noise_to_cull
        /\ main'.there = main.there
    BY <1>3 DEF File
  <2>4. UNCHANGED <<backup, snapshot, aside, boot, opened, backup_ok, committed, seen,
                   discarded, used>>
    BY DEF cull_timeline_noise
  <2>5. Types' /\ sync' = "sleep"
    BY <1>3, <2>1, <2>2, <2>3, <2>4 DEF cull_timeline_noise
  <2>6. FilesFit' /\ Backed'
    BY <2>3, <2>4, <2>5 DEF FilesFit, Backed
  <2>7. Numbered' /\ LossIsExplained'
    BY <1>3, <2>3, <2>4 DEF Numbered, LossIsExplained
  <2> QED
    BY <1>1, <2>5, <2>6, <2>7
<1> QED
  BY <1>2, <1>3 DEF cull_timeline_noise

\* The engine is killed.
LEMMA KillKeeps ==
  ASSUME IInv, Kill
  PROVE  IInv'
<1> USE DEF IInv, Types, FileType, RowsType, UsedType, TaskType, Kill, filesHistory
<1>1. GuardInv'
  BY GuardAssumption DEF GuardInv, GuardTypeOK, Flagged
<1>2. main' \in File /\ main'.rows = main.rows /\ main'.there = main.there
  BY DEF File
<1>3. snapshot' \in File /\ (snapshot'.there \/ snapshot'.rows = {})
  <2>1. Whole({}) \in File /\ Whole({}).rows = {}
    BY FileValues
  <2>2. CASE snapshot' = snapshot
    BY <2>2 DEF FilesFit
  <2>3. CASE snapshot' = [Whole({}) EXCEPT !.torn = TRUE]
    BY <2>1, <2>3 DEF File
  <2> QED
    BY <2>2, <2>3
<1>4. UNCHANGED <<wal, backup, aside, committed, seen, culled, discarded>>
  OBVIOUS
<1>5. used' \in [rows : 0 .. MaxRows, crashes : Nat, faults : Nat] /\ used'.rows = used.rows
  OBVIOUS
<1>6. /\ boot' = "gate" /\ opened' = FALSE /\ sync' = "sleep" /\ backup_ok' = FALSE
      /\ check_on_backup' \in BackupChecks
  OBVIOUS
<1>7. Types'
  BY <1>2, <1>3, <1>4, <1>5, <1>6 DEF Boot, SyncStep
<1>8. FilesFit'
  BY <1>2, <1>3, <1>4, <1>6 DEF FilesFit
<1>9. Numbered' /\ LossIsExplained' /\ Backed'
  BY <1>2, <1>4, <1>5, <1>6 DEF Numbered, LossIsExplained, Backed
<1> QED
  BY <1>1, <1>7, <1>8, <1>9

\* The first state.
LEMMA FilesStart ==
  ASSUME Init
  PROVE  IInv
<1>1. GuardInv
  BY GuardAssumption DEF Init, GuardInit, GuardInv, GuardTypeOK, Flagged
<1>2. {main, backup, snapshot} = {Absent} /\ Absent \in File /\ Absent.rows = {} /\ main = Absent
      /\ backup = Absent /\ snapshot = Absent
  BY FileValues DEF Init
<1>3. Types
  <2>1. UsedType
    BY FilesAssumption DEF Init, UsedType
  <2>2. FileType /\ RowsType /\ TaskType
    BY <1>2 DEF Init, FileType, RowsType, TaskType, Boot, SyncStep
  <2> QED
    BY <2>1, <2>2 DEF Types
<1>4. FilesFit /\ Numbered /\ Backed /\ LossIsExplained
  BY <1>2 DEF Init, FilesFit, Numbered, Backed, Live, LossIsExplained
<1> QED
  BY <1>1, <1>3, <1>4 DEF IInv

\* The invariant holds of the files, whatever the tasks, settings and bounds.
THEOREM TimelineInductive == Spec => []IInv
<1>1. ASSUME IInv, [Next]_vars
      PROVE  IInv'
  <2>1. CASE Booting /\ SettingIsRead
    BY <1>1, <2>1, GateKeeps, MoveKeeps, OpenKeeps DEF Booting
  <2>2. CASE Syncing /\ SettingIsRead
    BY <1>1, <2>2, CopyKeeps, CheckpointKeeps, CullKeeps DEF Syncing
  <2>3. CASE \E t \in Task : EnterDb(t) /\ SettingIsRead
    BY <1>1, <2>3, WriteKeeps
  <2>4. CASE \E t \in Writer : Write(t) /\ SettingIsRead
    BY <1>1, <2>4, WriteKeeps DEF Writer
  <2>5. CASE Kill
    BY <1>1, <2>5, KillKeeps
  <2>6. CASE UNCHANGED vars
    BY <1>1, <2>6
       DEF vars, guardVars, fileVars, taskVars, filesHistory, IInv, GuardInv, GuardTypeOK, Flagged,
           Types, FileType, RowsType, UsedType, TaskType, FilesFit, Numbered, Backed, Live,
           LossIsExplained
  <2> QED
    BY <1>1, <2>1, <2>2, <2>3, <2>4, <2>5, <2>6 DEF Next
<1> QED
  BY <1>1, FilesStart, PTL DEF Spec

\* The types of the files and of the tasks.
THEOREM TimelineTypeCorrect == Spec => []TypeOK
<1>1. IInv => TypeOK
  BY DEF IInv, GuardInv, Types, FileType, RowsType, UsedType, TaskType, TypeOK
<1> QED
  BY <1>1, TimelineInductive, PTL

\* No committed row is lost but by a cull, a restore, or a log parted from its file.
THEOREM RowsKept == Spec => []LossIsExplained
<1>1. IInv => LossIsExplained
  BY DEF IInv
<1> QED
  BY <1>1, TimelineInductive, PTL

\* A call begun after a panic never works on the poisoned connection, unless another
\* repair was about to clear the flag.
THEOREM PanicRepaired == Spec => []LateCallsAreServed
<1>1. IInv => LateCallsAreServed
  BY DEF IInv, GuardInv, Flagged, LateCallsAreServed
<1> QED
  BY <1>1, TimelineInductive, PTL

--------------------------------------------------------------------------------
(***************************************************************************)
(* Torn files.  sqlite3 is assumed to be there: its fallback may take a    *)
(* torn file for a clean one.                                              *)
(***************************************************************************)
\* A file about to be adopted has passed its check.
Checked ==
  /\ boot \in {"drop", "swap"} => ~backup.torn
  /\ sync = "promote" /\ check_on_backup => ~snapshot.torn

\* With sqlite3, a file found clean is not torn.
LEMMA OracleIsRight ==
  ASSUME ~OracleMisses, NEW f \in File, "Clean" \in check_file_integrity(f)
  PROVE  ~f.torn
BY DEF check_file_integrity, classify_sqlite_output, File

\* The verdict stands until the file is adopted.
LEMMA CheckedKeeps ==
  ASSUME ~OracleMisses, IInv, Checked, [Next]_vars
  PROVE  Checked'
<1> USE DEF Checked, BootStep, SyncGoto, SettingIsRead
<1>0. {backup, snapshot} \subseteq File
  BY DEF IInv, Types, FileType
<1>1. CASE Booting /\ SettingIsRead
  <2>1. sync' # "promote"
    BY <1>1 DEF IInv, FilesFit, Booting, integrity_gate_on_open, restore_clean_backup,
                DropSidecars, SwapIn, move_corrupt_aside, move_sidecars_aside, OpenFile,
                OpenSucceeds, OpenFails
  <2>2. CASE restore_clean_backup
    BY <1>0, <2>1, <2>2, OracleIsRight DEF restore_clean_backup, fileVars
  <2>3. CASE DropSidecars
    BY <2>1, <2>3 DEF DropSidecars
  <2>4. CASE \/ integrity_gate_on_open \/ SwapIn
             \/ move_corrupt_aside \/ move_sidecars_aside \/ OpenFile
    BY <2>1, <2>4 DEF integrity_gate_on_open, SwapIn, move_corrupt_aside, move_sidecars_aside,
                      OpenFile, OpenSucceeds, OpenFails
  <2> QED
    BY <1>1, <2>2, <2>3, <2>4 DEF Booting
<1>2. CASE Syncing /\ SettingIsRead
  <2>1. boot = "up" /\ boot' = "up"
    BY <1>2 DEF Syncing, Tick, wal_checkpoint, CopyOut, VerifySnapshot, Promote, SkipTrim,
                checkpoint_wal, Weigh, cull_timeline_noise
  <2>2. CASE VerifySnapshot
    BY <1>0, <1>2, <2>1, <2>2, OracleIsRight DEF VerifySnapshot
  <2>3. CASE ~VerifySnapshot
    <3>1. sync' # "promote"
      BY <1>2, <2>3 DEF Syncing, Tick, wal_checkpoint, CopyOut, Promote, SkipTrim, checkpoint_wal,
                        Weigh, cull_timeline_noise
    <3> QED
      BY <2>1, <3>1
  <2> QED
    BY <2>2, <2>3
<1>3. CASE \/ \E t \in Task : EnterDb(t) /\ SettingIsRead
           \/ \E t \in Writer : Write(t) /\ SettingIsRead
  BY <1>3 DEF EnterDb, Write, CommitRow, WriteFails, fileVars, taskVars
<1>4. CASE Kill
  BY <1>4 DEF Kill
<1>5. CASE UNCHANGED vars
  BY <1>5 DEF vars, fileVars, taskVars
<1> QED
  BY <1>1, <1>2, <1>3, <1>4, <1>5 DEF Next

\* What is adopted is what was checked.
LEMMA AdoptedIsChecked ==
  ASSUME ~OracleMisses, IInv, Checked, [Next]_vars
  PROVE  /\ check_on_backup /\ backup' # backup => ~backup'.torn
         /\ boot = "swap" /\ main' # main => ~main'.torn
<1> USE DEF Checked, BootStep, SyncGoto
<1>1. CASE Booting
  BY <1>1 DEF Booting, integrity_gate_on_open, restore_clean_backup, DropSidecars, SwapIn,
              move_corrupt_aside, move_sidecars_aside, OpenFile, OpenSucceeds, OpenFails, fileVars
<1>2. CASE Syncing
  BY <1>2 DEF Syncing, Tick, wal_checkpoint, CopyOut, VerifySnapshot, Promote, SkipTrim,
              checkpoint_wal, Weigh, cull_timeline_noise, fileVars
<1>3. CASE (\E t \in Task : EnterDb(t)) \/ (\E t \in Writer : Write(t))
  BY <1>3 DEF EnterDb, Write, CommitRow, WriteFails, fileVars
<1>4. CASE Kill
  <2>1. backup' = backup
    BY <1>4 DEF Kill
  <2>2. boot = "swap" => sync = "sleep"
    BY DEF IInv, FilesFit
  <2>3. boot = "swap" => main' = main
    BY <1>4, <2>2 DEF Kill
  <2> QED
    BY <2>1, <2>3
<1>5. CASE UNCHANGED vars
  BY <1>5 DEF vars, fileVars
<1> QED
  BY <1>1, <1>2, <1>3, <1>4, <1>5 DEF Next

\* With sqlite3 installed no torn file is adopted, as the backup or by a restore.
THEOREM TornNotAdopted ==
  ASSUME ~OracleMisses
  PROVE  Spec => NoTornFileIsAdopted
<1>1. Init => Checked
  BY DEF Init, Checked
<1>2. Checked /\ IInv /\ [Next]_vars => Checked'
  BY CheckedKeeps
<1>3. Checked /\ IInv /\ [Next]_vars =>
        [/\ check_on_backup /\ backup' # backup => ~backup'.torn
         /\ boot = "swap" /\ main' # main => ~main'.torn]_vars
  BY AdoptedIsChecked
<1> QED
  BY <1>1, <1>2, <1>3, TimelineInductive, PTL DEF Spec, NoTornFileIsAdopted

--------------------------------------------------------------------------------
(***************************************************************************)
(* Culls.                                                                  *)
(***************************************************************************)
\* Of the rows there are, one is the newest.
LEMMA NewestRow ==
  ASSUME NEW rows \in SUBSET Row, rows # {}
  PROVE  \E r \in rows : \A n \in rows : n <= r
<1> DEFINE ages == {MaxRows - r : r \in rows}
<1>1. ages # {} /\ ages \subseteq Nat
  <2>1. MaxRows \in Nat
    BY FilesAssumption
  <2>2. \A r \in rows : r \in 1 .. MaxRows
    BY DEF Row
  <2>3. \A r \in rows : MaxRows - r \in Nat
    BY <2>1, <2>2
  <2> QED
    BY <2>3
<1>2. PICK a \in ages : \A b \in ages : ~(<<b, a>> \in OpToRel(<, Nat))
  BY <1>1, NatLessThanWellFounded, WFMin
<1>3. \A b \in ages : a <= b
  <2> TAKE b \in ages
  <2>2. a \in Nat /\ b \in Nat
    BY <1>1
  <2>3. ~(b < a)
    BY <1>2, <2>2 DEF OpToRel
  <2> QED
    BY <2>2, <2>3
<1>4. PICK r \in rows : a = MaxRows - r
  OBVIOUS
<1>5. \A n \in rows : n <= r
  BY <1>3, <1>4, FilesAssumption DEF Row
<1> QED
  BY <1>5

\* The newest noise rows survive a cull, and what it takes is in the backup.
LEMMA CullKeepsNewest ==
  ASSUME IInv, cull_timeline_noise, culled' # culled
  PROVE  /\ (culled' \ culled) \cap seen \subseteq backup.rows
         /\ Cardinality(Noise(main'.rows \cup wal')) >= KeepNoise
<1> DEFINE noise == Noise(main.rows \cup wal)
           rest == Noise(main'.rows \cup wal')
<1>0. main \in File /\ wal \subseteq Row
  BY DEF IInv, Types, FileType, RowsType
<1>1. /\ main' = [main EXCEPT !.rows = @ \ noise_to_cull]
      /\ wal' = wal \ noise_to_cull
      /\ culled' = culled \cup noise_to_cull
      /\ sync = "cull"
  BY DEF cull_timeline_noise, SyncGoto
<1>2. noise_to_cull # {} /\ noise_to_cull \subseteq noise /\ noise \subseteq Row
  BY <1>0, <1>1 DEF noise_to_cull, Noise, File
<1>3. PICK r \in noise_to_cull : \A n \in noise_to_cull : n <= r
  BY <1>2, NewestRow
<1> DEFINE newer == {n \in noise : n > r}
<1>4. Cardinality(newer) >= KeepNoise
  BY <1>3 DEF noise_to_cull
<1>5. newer \subseteq rest
  BY <1>0, <1>1, <1>2, <1>3 DEF Noise, File, Row
<1>6. IsFiniteSet(rest)
  <2>1. rest \subseteq Row
    BY <1>0, <1>1 DEF Noise, File
  <2>2. IsFiniteSet(Row)
    BY FS_Interval, FilesAssumption DEF Row
  <2> QED
    BY <2>1, <2>2, FS_Subset
<1>7. /\ IsFiniteSet(newer) /\ Cardinality(newer) <= Cardinality(rest)
      /\ Cardinality(newer) \in Nat /\ Cardinality(rest) \in Nat
  BY <1>5, <1>6, FS_Subset, FS_CardinalityType
<1>8. Cardinality(rest) >= KeepNoise
  BY <1>4, <1>7, FilesAssumption
<1>9. (culled' \ culled) \cap seen \subseteq backup.rows
  BY <1>1, <1>2 DEF IInv, Backed, Live, Noise
<1> QED
  BY <1>8, <1>9

\* Nothing but the cull culls.
LEMMA OnlyCullCulls ==
  ASSUME [Next]_vars, ~cull_timeline_noise
  PROVE  culled' = culled
<1>1. CASE Booting
  BY <1>1 DEF Booting, integrity_gate_on_open, restore_clean_backup, DropSidecars, SwapIn,
              move_corrupt_aside, move_sidecars_aside, OpenFile, filesHistory
<1>2. CASE Syncing
  BY <1>2 DEF Syncing, Tick, wal_checkpoint, CopyOut, VerifySnapshot, Promote, SkipTrim,
              checkpoint_wal, Weigh, filesHistory
<1>3. CASE (\E t \in Task : EnterDb(t)) \/ (\E t \in Writer : Write(t))
  BY <1>3 DEF EnterDb, Write, CommitRow, WriteFails, filesHistory
<1>4. CASE Kill \/ UNCHANGED vars
  BY <1>4 DEF Kill, vars, filesHistory
<1> QED
  BY <1>1, <1>2, <1>3, <1>4 DEF Next

\* A culled row is in the backup, and the newest noise rows survive.
THEOREM CullsSafely == Spec => CullIsSafe
<1>1. IInv /\ [Next]_vars =>
        [culled' # culled =>
           /\ (culled' \ culled) \cap seen \subseteq backup.rows
           /\ Cardinality(Noise(main'.rows \cup wal')) >= KeepNoise]_vars
  BY CullKeepsNewest, OnlyCullCulls
<1> QED
  BY <1>1, TimelineInductive, PTL DEF Spec, CullIsSafe
================================================================================
