----------------------------- MODULE TimelineFiles -----------------------------
(***************************************************************************)
(* The files of the timeline database: the integrity gate, the restore,    *)
(* the opening, the backup and the cull in database.rs, with the boot, the *)
(* retry and the sync task of main.rs.                                     *)
(*                                                                         *)
(* The engine writes to the write-ahead log; a checkpoint merges it into   *)
(* the main file, and a kill in the middle of one may tear the main file.  *)
(* At boot a corrupt file is replaced by the backup if that one is clean,  *)
(* and moved aside otherwise.  While the engine runs, the sync task        *)
(* replaces the backup with a verified copy of the main file, and culls    *)
(* noise rows once they are in the backup.                                 *)
(*                                                                         *)
(* A row is its age: rows are numbered in the order they are committed.    *)
(***************************************************************************)
EXTENDS ConnectionGuard, FiniteSets

CONSTANTS
  Sync,          \* the sync task, one of Task
  NoiseRows,     \* the rows that are module lifecycle noise
  KeepNoise,     \* timeline_keep_noise_rows
  CheckOnOpen,   \* timeline_integrity_check_on_open
  BackupChecks,  \* what timeline_integrity_check_on_backup may be set to
  OracleMisses,  \* sqlite3 is not installed: the fallback may miss corruption
  MaxRows,       \* bound: rows committed
  MaxCrashes,    \* bound: kills of the engine
  MaxFaults      \* bound: file operations that fail

ASSUME FilesAssumption ==
  /\ Sync \in Task
  /\ NoiseRows \subseteq Nat
  /\ {KeepNoise, MaxRows, MaxCrashes, MaxFaults} \subseteq Nat
  /\ {CheckOnOpen, OracleMisses} \subseteq BOOLEAN
  /\ BackupChecks \subseteq BOOLEAN /\ BackupChecks # {}

VARIABLES
  main,       \* the database file
  wal,        \* the rows of its write-ahead log
  backup,     \* timeline_database_backup_location
  snapshot,   \* the copy that is to become the backup
  aside,      \* the rows in the files moved aside
  boot,       \* what initialize is doing
  opened,     \* the file could not be opened before
  sync,       \* what the sync task is about to do
  backup_ok,  \* the last backup of this run of the engine succeeded
  check_on_backup, \* the setting this run of the engine has read
  committed,  \* history: rows the engine has committed
  seen,       \* history: rows committed when the sync task last woke up
  culled,     \* history: rows culled
  discarded,  \* history: rows given up, see DropSidecars, SwapIn and OpenSucceeds
  used        \* how much of each bound is spent

fileVars == <<main, wal, backup, snapshot, aside>>
taskVars == <<boot, opened, sync, backup_ok>>
filesHistory == <<committed, seen, culled, discarded>>

vars == <<guardVars, fileVars, taskVars, check_on_backup, filesHistory, used>>

Row == 1 .. MaxRows

File == [there : BOOLEAN, torn : BOOLEAN, rows : SUBSET Row]
Absent == [there |-> FALSE, torn |-> FALSE, rows |-> {}]
Whole(rows) == [there |-> TRUE, torn |-> FALSE, rows |-> rows]

Boot == {"gate", "verify", "drop", "swap", "aside", "aside_wal", "open", "up"}

SyncStep == {"sleep", "checkpoint", "copy", "verify", "promote", "trim", "weigh", "cull"}

TypeOK ==
  /\ GuardTypeOK
  /\ {main, backup, snapshot} \subseteq File
  /\ {wal, aside, committed, seen, culled, discarded} \subseteq SUBSET Row
  /\ boot \in Boot
  /\ opened \in BOOLEAN
  /\ sync \in SyncStep
  /\ backup_ok \in BOOLEAN
  /\ check_on_backup \in BackupChecks
  /\ used \in [rows : 0 .. MaxRows, crashes : Nat, faults : Nat]

Init ==
  /\ GuardInit
  /\ main = Absent
  /\ wal = {}
  /\ backup = Absent
  /\ snapshot = Absent
  /\ aside = {}
  /\ boot = "gate"
  /\ opened = FALSE
  /\ sync = "sleep"
  /\ backup_ok = FALSE
  /\ check_on_backup \in BackupChecks
  /\ committed = {}
  /\ seen = {}
  /\ culled = {}
  /\ discarded = {}
  /\ used = [rows |-> 0, crashes |-> 0, faults |-> 0]

Fault ==
  /\ used.faults < MaxFaults
  /\ used' = [used EXCEPT !.faults = @ + 1]

--------------------------------------------------------------------------------
(***************************************************************************)
(* check_file_integrity.  sqlite3 is right when it answers; it may not     *)
(* answer (a timeout, a lock, a file below the size floor).                *)
(***************************************************************************)
classify_sqlite_output(torn) == IF torn THEN {"Corrupt", "Skipped"} ELSE {"Clean", "Skipped"}

turso_integrity_check(torn) ==
  classify_sqlite_output(torn) \cup (IF torn THEN {"Clean"} ELSE {})

check_file_integrity(f) ==
  IF OracleMisses THEN turso_integrity_check(f.torn) ELSE classify_sqlite_output(f.torn)

--------------------------------------------------------------------------------
(***************************************************************************)
(* initialize, at boot and again whenever it failed.                       *)
(***************************************************************************)
BootStep(from, to) ==
  /\ boot = from
  /\ boot' = to

integrity_gate_on_open ==
  /\ IF main.there /\ CheckOnOpen
       THEN \E verdict \in check_file_integrity(main) :
              BootStep("gate", IF verdict = "Corrupt" THEN "verify" ELSE "open")
       ELSE BootStep("gate", "open")
  /\ UNCHANGED <<guardVars, fileVars, opened, sync, backup_ok, filesHistory, used>>

\* restore_clean_backup begins with a verdict on the backup.
restore_clean_backup ==
  /\ IF backup.there
       THEN \E verdict \in check_file_integrity(backup) :
              BootStep("verify", IF verdict = "Clean" THEN "drop" ELSE "aside")
       ELSE BootStep("verify", "aside")
  /\ UNCHANGED <<guardVars, fileVars, opened, sync, backup_ok, filesHistory, used>>

\* The sidecars go first; what they held is gone with them.
DropSidecars ==
  /\ BootStep("drop", "swap")
  /\ wal' = {}
  /\ discarded' = discarded \cup wal
  /\ UNCHANGED <<guardVars, main, backup, snapshot, aside, opened, sync, backup_ok,
                 committed, seen, culled, used>>

\* The copy goes to a sibling that replaces the main file in one rename.
SwapIn ==
  /\ \/ /\ BootStep("swap", "open")
        /\ main' = backup
        /\ discarded' = discarded \cup (main.rows \ backup.rows)
        /\ UNCHANGED used
     \/ /\ Fault
        /\ BootStep("swap", "aside")
        /\ UNCHANGED <<main, discarded>>
  /\ UNCHANGED <<guardVars, wal, backup, snapshot, aside, opened, sync, backup_ok,
                 committed, seen, culled>>

\* Mutant: the corrupt file is deleted.
delete_corrupt ==
  /\ BootStep("aside", "aside_wal")
  /\ main' = Absent
  /\ UNCHANGED <<guardVars, wal, backup, snapshot, aside, opened, sync, backup_ok,
                 filesHistory, used>>

\* If the rename fails the file stays where it is, and is opened all the same.
move_corrupt_aside ==
  /\ \/ /\ main.there
        /\ BootStep("aside", "aside_wal")
        /\ aside' = aside \cup main.rows
        /\ main' = Absent
        /\ UNCHANGED used
     \/ /\ main.there => Fault
        /\ ~main.there => UNCHANGED used
        /\ BootStep("aside", "open")
        /\ UNCHANGED <<main, aside>>
  /\ UNCHANGED <<guardVars, wal, backup, snapshot, opened, sync, backup_ok, filesHistory>>

move_sidecars_aside ==
  /\ BootStep("aside_wal", "open")
  /\ aside' = aside \cup wal
  /\ wal' = {}
  /\ UNCHANGED <<guardVars, main, backup, snapshot, opened, sync, backup_ok, filesHistory,
                 used>>

\* A torn file may open or not.  Opening an absent one creates it; a log that
\* was left without its file is either dropped or replayed into the new one.
OpenSucceeds ==
  /\ BootStep("open", "up")
  /\ opened' = FALSE
  /\ conn' = "good"
  /\ \/ main.there /\ UNCHANGED <<main, wal, discarded>>
     \/ ~main.there /\ wal = {} /\ main' = Whole({}) /\ UNCHANGED <<wal, discarded>>
     \/ ~main.there /\ wal # {} /\ main' = Whole({}) /\ wal' = {} /\ discarded' = discarded \cup wal
     \/ /\ ~main.there /\ wal # {}
        /\ main' = [Whole(wal) EXCEPT !.torn = TRUE]
        /\ wal' = {}
        /\ UNCHANGED discarded

\* Mutant: initialize just fails, and the retry begins at the gate.
OpenIsRetried ==
  /\ main.torn
  /\ BootStep("open", "gate")
  /\ UNCHANGED <<conn, main, wal, opened, discarded>>

\* The first failure leads to the backup, the second to the retry.
OpenFails ==
  /\ main.torn
  /\ BootStep("open", IF opened THEN "gate" ELSE "verify")
  /\ opened' = ~opened
  /\ UNCHANGED <<conn, main, wal, discarded>>

OpenFile ==
  /\ OpenSucceeds \/ OpenFails
  /\ UNCHANGED <<needs_reopen, holder, step, late, raced, spent, backup, snapshot, aside,
                 sync, backup_ok, committed, seen, culled, used>>

--------------------------------------------------------------------------------
(***************************************************************************)
(* The calls of the tasks.                                                 *)
(***************************************************************************)
\* A task other than the sync task commits a row, or panics.
Writer == Task \ {Sync}

EnterDb(t) ==
  /\ boot = "up"
  /\ t = Sync => sync \in {"checkpoint", "trim", "cull"}
  /\ t # Sync /\ step[t] = "idle" => used.rows < MaxRows
  /\ Enter(t)
  /\ UNCHANGED <<fileVars, taskVars, filesHistory, used>>

CommitRow(t) ==
  LET r == used.rows + 1
  IN /\ conn = "good"
     /\ used.rows < MaxRows
     /\ Release(t)
     /\ wal' = wal \cup {r}
     /\ committed' = committed \cup {r}
     /\ used' = [used EXCEPT !.rows = r]
     /\ UNCHANGED <<conn, needs_reopen, spent, main, backup, snapshot, aside, taskVars,
                    seen, culled, discarded>>

\* At the bound a call does nothing.
WriteFails(t) ==
  /\ \/ Panics(t)
     \/ FailsOn(t)
     \/ /\ conn = "good" /\ used.rows = MaxRows
        /\ Release(t)
        /\ UNCHANGED <<conn, needs_reopen, spent>>
  /\ UNCHANGED <<fileVars, taskVars, filesHistory, used>>

Write(t) == CommitRow(t) \/ WriteFails(t)

--------------------------------------------------------------------------------
(***************************************************************************)
(* The sync task.                                                          *)
(***************************************************************************)
SyncGoto(from, to) ==
  /\ boot = "up"
  /\ sync = from
  /\ sync' = to

\* Without a connection the tick is skipped.
Tick ==
  /\ conn # "none"
  /\ SyncGoto("sleep", "checkpoint")
  /\ seen' = committed
  /\ UNCHANGED <<guardVars, fileVars, boot, opened, backup_ok, committed, culled, discarded,
                 used>>

\* Mutant: a failed backup does not clear backup_ok.
StillOk == UNCHANGED backup_ok

Failed == backup_ok' = FALSE

\* The log is merged under the mutex.
Merge ==
  /\ main' = [main EXCEPT !.rows = @ \cup wal]
  /\ wal' = {}

wal_checkpoint ==
  /\ sync = "checkpoint"
  /\ \/ /\ conn = "good"
        /\ Release(Sync)
        /\ SyncGoto("checkpoint", "copy")
        /\ Merge
        /\ UNCHANGED <<conn, needs_reopen, spent, backup_ok, used>>
     \/ /\ conn = "good"
        /\ Fault
        /\ MarkForReopen(Sync)
        /\ SyncGoto("checkpoint", "trim")
        /\ Failed
        /\ UNCHANGED <<main, wal>>
     \/ /\ Panics(Sync) \/ FailsOn(Sync)
        /\ SyncGoto("checkpoint", "trim")
        /\ Failed
        /\ UNCHANGED <<main, wal, used>>
  /\ UNCHANGED <<backup, snapshot, aside, boot, opened, filesHistory>>

\* The copy is taken without the mutex.
CopyOut ==
  /\ \/ SyncGoto("copy", "verify") /\ snapshot' = main /\ UNCHANGED <<backup_ok, used>>
     \/ Fault /\ SyncGoto("copy", "trim") /\ Failed /\ snapshot' = Absent
  /\ UNCHANGED <<guardVars, main, wal, backup, aside, boot, opened, filesHistory>>

\* Mutant: a snapshot that failed the check is promoted.
AcceptSnapshot ==
  /\ SyncGoto("verify", "promote")
  /\ UNCHANGED <<guardVars, fileVars, boot, opened, backup_ok, filesHistory, used>>

VerifySnapshot ==
  /\ \/ /\ ~check_on_backup \/ "Clean" \in check_file_integrity(snapshot)
        /\ SyncGoto("verify", "promote")
        /\ UNCHANGED <<snapshot, backup_ok>>
     \/ /\ check_on_backup
        /\ SyncGoto("verify", "trim")
        /\ snapshot' = Absent
        /\ Failed
  /\ UNCHANGED <<guardVars, main, wal, backup, aside, boot, opened, filesHistory, used>>

Promote ==
  /\ SyncGoto("promote", "trim")
  /\ backup' = snapshot
  /\ snapshot' = Absent
  /\ backup_ok' = TRUE
  /\ UNCHANGED <<guardVars, main, wal, aside, boot, opened, filesHistory, used>>

\* checkpoint_wal, when the log is long or the fourth tick has come.
SkipTrim ==
  /\ step[Sync] = "idle"
  /\ SyncGoto("trim", "weigh")
  /\ UNCHANGED <<guardVars, fileVars, boot, opened, backup_ok, filesHistory, used>>

checkpoint_wal ==
  /\ SyncGoto("trim", "weigh")
  /\ \/ /\ conn = "good"
        /\ Release(Sync)
        /\ Merge
        /\ UNCHANGED <<conn, needs_reopen, spent, used>>
     \/ conn = "good" /\ Fault /\ MarkForReopen(Sync) /\ UNCHANGED <<main, wal>>
     \/ (Panics(Sync) \/ FailsOn(Sync)) /\ UNCHANGED <<main, wal, used>>
  /\ UNCHANGED <<backup, snapshot, aside, boot, opened, backup_ok, filesHistory>>

\* The file is over its target or not; last_cull allows a cull or not.
Weigh ==
  /\ \/ backup_ok /\ SyncGoto("weigh", "cull")
     \/ SyncGoto("weigh", "sleep")
  /\ UNCHANGED <<guardVars, fileVars, boot, opened, backup_ok, filesHistory, used>>

Noise(rows) == rows \cap NoiseRows

\* The noise rows older than the KeepNoise newest ones.
noise_to_cull ==
  LET noise == Noise(main.rows \cup wal)
  IN {r \in noise : Cardinality({n \in noise : n > r}) >= KeepNoise}

\* Deleting from a torn file may fail.
cull_timeline_noise ==
  /\ SyncGoto("cull", "sleep")
  /\ \/ /\ conn = "good"
        /\ Release(Sync)
        /\ main' = [main EXCEPT !.rows = @ \ noise_to_cull]
        /\ wal' = wal \ noise_to_cull
        /\ culled' = culled \cup noise_to_cull
        /\ UNCHANGED <<conn, needs_reopen, spent>>
     \/ /\ \/ conn = "good" /\ main.torn /\ Release(Sync) /\ UNCHANGED <<conn, needs_reopen, spent>>
           \/ Panics(Sync)
           \/ FailsOn(Sync)
        /\ UNCHANGED <<main, wal, culled>>
  /\ UNCHANGED <<backup, snapshot, aside, boot, opened, backup_ok, committed, seen,
                 discarded, used>>

--------------------------------------------------------------------------------
\* The engine is killed and started again.  Of the files only the main one can
\* be torn, by a kill inside a checkpoint, and the snapshot, by one inside the
\* copy.  A kill between the two renames of a move leaves a log without a file.
Kill ==
  /\ used.crashes < MaxCrashes
  /\ used' = [used EXCEPT !.crashes = @ + 1]
  /\ main' \in {main} \cup (IF holder = Sync /\ sync \in {"checkpoint", "trim"}
                              THEN {[main EXCEPT !.torn = TRUE]} ELSE {})
  /\ snapshot' \in {snapshot} \cup (IF sync = "copy"
                                      THEN {[Whole({}) EXCEPT !.torn = TRUE]} ELSE {})
  /\ boot' = "gate"
  /\ opened' = FALSE
  /\ sync' = "sleep"
  /\ backup_ok' = FALSE
  /\ conn' = "none"
  /\ needs_reopen' = FALSE
  /\ holder' = NoTask
  /\ step' = [t \in Task |-> "idle"]
  /\ late' = {}
  /\ raced' = FALSE
  /\ check_on_backup' \in BackupChecks
  /\ UNCHANGED <<spent, wal, backup, aside, filesHistory>>

Booting ==
  \/ integrity_gate_on_open
  \/ restore_clean_backup
  \/ DropSidecars
  \/ SwapIn
  \/ move_corrupt_aside
  \/ move_sidecars_aside
  \/ OpenFile

Syncing ==
  \/ Tick
  \/ wal_checkpoint
  \/ CopyOut
  \/ VerifySnapshot
  \/ Promote
  \/ SkipTrim
  \/ checkpoint_wal
  \/ Weigh
  \/ cull_timeline_noise

\* The setting is read once, at boot.
SettingIsRead == UNCHANGED check_on_backup

Next ==
  \/ Booting /\ SettingIsRead
  \/ Syncing /\ SettingIsRead
  \/ \E t \in Task : EnterDb(t) /\ SettingIsRead
  \/ \E t \in Writer : Write(t) /\ SettingIsRead
  \/ Kill

Spec == Init /\ [][Next]_vars

\* initialize runs to its end, and is tried again by the retry task.  Nothing is
\* asked of the sync task, of the writers or of the kills.
FairSpec == Spec /\ WF_vars(Booting /\ SettingIsRead)

--------------------------------------------------------------------------------
(***************************************************************************)
(* Properties.                                                             *)
(***************************************************************************)
\* No torn file is adopted.  A snapshot taken while the check is on is promoted
\* only if clean: a kill may tear the main file, a boot that could not verify it
\* may open it all the same, and the sync task copies it without the mutex
\* (database.rs:2038-2040).  And a restore never trades one torn file for another
\* (database.rs:661-663), be the backup from a time when the check was off.
NoTornFileIsAdopted ==
  [][/\ check_on_backup /\ backup' # backup => ~backup'.torn
     /\ boot = "swap" /\ main' # main => ~main'.torn]_vars

\* No committed row is lost but by a cull, by a restore whose backup lacks it, or with
\* a log that a restore drops or a kill has parted from its file; whatever else is
\* moved, replaced or opened keeps them all (database.rs:626-629).
LossIsExplained ==
  committed \subseteq main.rows \cup wal \cup aside \cup culled \cup discarded

\* A culled row is in the backup when it is culled (database.rs:2107-2112), unless
\* it was committed after the sync task woke up, and the KeepNoise newest noise
\* rows survive.
CullIsSafe ==
  [][culled' # culled =>
       /\ (culled' \ culled) \cap seen \subseteq backup.rows
       /\ Cardinality(Noise(main'.rows \cup wal')) >= KeepNoise]_vars

\* The engine comes up whatever a kill has left of the files (database.rs:627-629).
EventuallyUp == boot # "up" ~> boot = "up"
================================================================================
