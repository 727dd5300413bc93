----------------------------- MODULE BackupRuns -----------------------------
(***************************************************************************)
(* The life of a backup: createBackup writes the row and starts            *)
(* executeBackup in the background, the daily cleanup marks the rows that  *)
(* are in progress for too long as failed and deletes the failed ones that *)
(* are old, operators delete backups, and the process may be restarted at  *)
(* any moment.  Times are ages: how long ago the row was created.          *)
(***************************************************************************)
EXTENDS Integers

CONSTANTS
    Backups,
    Uploaded,      \* those of databases that keep their backups in object storage
    Slow,          \* the phases of executeBackup that no timeout bounds: the
                   \* upload, and the dump of SQLite over SSH
    DumpTimeout,   \* pgDumpTimeoutMs
    StuckAfter,    \* pgDumpTimeoutMs and STUCK_BACKUP_GRACE_MS
    OldAfter,      \* failedBackupRetentionDays
    MaxDeletes, MaxCrashes, MaxFaults

\* A row counts as stuck only when the dump has had its time.
ASSUME TimeAssumption ==
    /\ Uploaded \subseteq Backups
    /\ DumpTimeout \in Nat /\ StuckAfter \in Nat /\ OldAfter \in Nat
    /\ DumpTimeout <= StuckAfter

VARIABLES
    row,       \* status of the row, "none" before and "gone" after its life
    file,      \* whether something is at storagePath, whole or in part
    exec,      \* phase of executeBackup
    age,
    sweep,     \* runFailedBackupCleanup
    user,      \* deleteBackup
    warned,    \* orphaned files that were logged
    deletes, crashes, faults

bounds == <<deletes, crashes, faults>>
backupVars == <<row, file, exec, age, sweep, user, warned, bounds>>

Exists(b)  == row[b] \notin {"none", "gone"}
Settled(b) == row[b] \in {"completed", "failed"}

NoSweep  == [pc |-> "idle", todo |-> {}, row |-> {}]
NoDelete == [pc |-> "idle", todo |-> {}]

BackupInit ==
    /\ row = [b \in Backups |-> "none"]
    /\ file = [b \in Backups |-> FALSE]
    /\ exec = [b \in Backups |-> "none"]
    /\ age = [b \in Backups |-> 0]
    /\ sweep = NoSweep
    /\ user = NoDelete
    /\ warned = {}
    /\ deletes = 0 /\ crashes = 0 /\ faults = 0

-----------------------------------------------------------------------------
(* createBackup and executeBackup.                                         *)

CreateBackup(b) ==
    /\ row[b] = "none"
    /\ row' = [row EXCEPT ![b] = "pending"]
    /\ exec' = [exec EXCEPT ![b] = "start"]
    /\ UNCHANGED <<file, age, sweep, user, warned, bounds>>

\* An update of the row by the executor: it throws when the row is gone, in
\* the error handler too, and nothing else is done.
Update(b, status, phase) ==
    IF Exists(b) THEN /\ row' = [row EXCEPT ![b] = status]
                      /\ exec' = [exec EXCEPT ![b] = phase]
                 ELSE /\ exec' = [exec EXCEPT ![b] = "none"]
                      /\ UNCHANGED row

Start(b) ==
    /\ exec[b] = "start"
    /\ Update(b, "in_progress", "dump")
    /\ UNCHANGED <<file, age, sweep, user, warned, bounds>>

\* The dump goes to storagePath or, for Spaces, to a temporary file; after it
\* the progress is updated.
Dump(b) ==
    /\ exec[b] = "dump"
    /\ file' = [file EXCEPT ![b] = @ \/ b \notin Uploaded]
    /\ Update(b, row[b], IF b \in Uploaded THEN "upload" ELSE "finish")
    /\ UNCHANGED <<age, sweep, user, warned, bounds>>

\* The dump fails or runs into its timeout, and may leave a part of the file.
DumpFails(b) ==
    /\ exec[b] = "dump"
    /\ \E part \in {FALSE, b \notin Uploaded} : file' = [file EXCEPT ![b] = @ \/ part]
    /\ exec' = [exec EXCEPT ![b] = "fail"]
    /\ UNCHANGED <<row, age, sweep, user, warned, bounds>>

Upload(b) ==
    /\ exec[b] = "upload"
    /\ file' = [file EXCEPT ![b] = TRUE]
    /\ exec' = [exec EXCEPT ![b] = "finish"]
    /\ UNCHANGED <<row, age, sweep, user, warned, bounds>>

UploadFails(b) ==
    /\ exec[b] = "upload"
    /\ exec' = [exec EXCEPT ![b] = "fail"]
    /\ UNCHANGED <<row, file, age, sweep, user, warned, bounds>>

Finish(b) ==
    /\ exec[b] = "finish"
    /\ Update(b, "completed", "none")
    /\ UNCHANGED <<file, age, sweep, user, warned, bounds>>

Fail(b) ==
    /\ exec[b] = "fail"
    /\ Update(b, "failed", "none")
    /\ UNCHANGED <<file, age, sweep, user, warned, bounds>>

Execute(b) ==
    Start(b) \/ Dump(b) \/ DumpFails(b) \/ Upload(b) \/ UploadFails(b) \/ Finish(b) \/ Fail(b)

-----------------------------------------------------------------------------
(* runFailedBackupCleanup: markStuckBackupsFailed, then cleanupFailedBackups. *)

\* Mutant of MarkLoad: backups that have not been started are looked for.
MarkLoadPending ==
    /\ sweep.pc = "idle"
    /\ sweep' = [NoSweep EXCEPT !.pc = "mark",
                    !.todo = {b \in Backups : row[b] = "pending" /\ age[b] > StuckAfter}]
    /\ UNCHANGED <<row, file, exec, age, user, warned, bounds>>

MarkLoad ==
    /\ sweep.pc = "idle"
    /\ sweep' = [NoSweep EXCEPT !.pc = "mark",
                    !.todo = {b \in Backups : row[b] = "in_progress" /\ age[b] > StuckAfter}]
    /\ UNCHANGED <<row, file, exec, age, user, warned, bounds>>

\* Mutant of Mark: the update is not restricted to rows still in progress.
MarkUnguarded(b) ==
    /\ sweep.pc = "mark" /\ b \in sweep.todo
    /\ row' = [row EXCEPT ![b] = "failed"]
    /\ sweep' = [sweep EXCEPT !.todo = @ \ {b}]
    /\ UNCHANGED <<file, exec, age, user, warned, bounds>>

\* The update is restricted to rows that are still in progress.
Mark(b) ==
    /\ sweep.pc = "mark" /\ b \in sweep.todo
    /\ row' = [row EXCEPT ![b] = IF @ = "in_progress" THEN "failed" ELSE @]
    /\ sweep' = [sweep EXCEPT !.todo = @ \ {b}]
    /\ UNCHANGED <<file, exec, age, user, warned, bounds>>

\* Mutant of CleanLoad: every old backup is deleted.
CleanLoadAll ==
    /\ sweep.pc = "mark" /\ sweep.todo = {}
    /\ sweep' = [NoSweep EXCEPT !.pc = "clean",
                    !.todo = {b \in Backups : Settled(b) /\ age[b] >= OldAfter}]
    /\ UNCHANGED <<row, file, exec, age, user, warned, bounds>>

CleanLoad ==
    /\ sweep.pc = "mark" /\ sweep.todo = {}
    /\ sweep' = [NoSweep EXCEPT !.pc = "clean",
                    !.todo = {b \in Backups : row[b] = "failed" /\ age[b] >= OldAfter}]
    /\ UNCHANGED <<row, file, exec, age, user, warned, bounds>>

\* Mutant of CleanFile: the row goes although the file could not be deleted.
CleanFileOrNot(b) ==
    /\ sweep.pc = "clean" /\ b \in sweep.todo
    /\ sweep' = [sweep EXCEPT !.pc = "row", !.todo = @ \ {b}, !.row = {b}]
    /\ \/ /\ file' = [file EXCEPT ![b] = FALSE]
          /\ UNCHANGED faults
       \/ /\ faults < MaxFaults
          /\ faults' = faults + 1
          /\ UNCHANGED file
    /\ UNCHANGED <<row, exec, age, user, warned, deletes, crashes>>

\* deleteBackupArtifact; a file that cannot be reached keeps its row.
CleanFile(b) ==
    /\ sweep.pc = "clean" /\ b \in sweep.todo
    /\ \/ /\ file' = [file EXCEPT ![b] = FALSE]
          /\ sweep' = [sweep EXCEPT !.pc = "row", !.todo = @ \ {b}, !.row = {b}]
          /\ UNCHANGED faults
       \/ /\ faults < MaxFaults
          /\ faults' = faults + 1
          /\ sweep' = [sweep EXCEPT !.todo = @ \ {b}]
          /\ UNCHANGED file
    /\ UNCHANGED <<row, exec, age, user, warned, deletes, crashes>>

\* A row that is gone by then is an error that is logged.
CleanRow ==
    /\ sweep.pc = "row"
    /\ row' = [b \in Backups |-> IF b \in sweep.row THEN "gone" ELSE row[b]]
    /\ sweep' = [sweep EXCEPT !.pc = "clean", !.row = {}]
    /\ UNCHANGED <<file, exec, age, user, warned, bounds>>

CleanEnd ==
    /\ sweep.pc = "clean" /\ sweep.todo = {}
    /\ sweep' = NoSweep
    /\ UNCHANGED <<row, file, exec, age, user, warned, bounds>>

Sweep ==
    \/ MarkLoad \/ CleanLoad \/ CleanRow \/ CleanEnd
    \/ \E b \in Backups : Mark(b) \/ CleanFile(b)

-----------------------------------------------------------------------------
(* deleteBackup, whatever the status of the backup.                        *)

DeleteFile(b) ==
    /\ user.pc = "idle" /\ Exists(b)
    /\ deletes < MaxDeletes
    /\ deletes' = deletes + 1
    /\ user' = [pc |-> "row", todo |-> {b}]
    /\ \/ /\ file' = [file EXCEPT ![b] = FALSE]
          /\ UNCHANGED <<warned, faults>>
       \/ /\ faults < MaxFaults
          /\ faults' = faults + 1
          /\ warned' = warned \cup {b}
          /\ UNCHANGED file
    /\ UNCHANGED <<row, exec, age, sweep, crashes>>

DeleteRow ==
    /\ user.pc = "row"
    /\ row' = [b \in Backups |-> IF b \in user.todo THEN "gone" ELSE row[b]]
    /\ user' = NoDelete
    /\ UNCHANGED <<file, exec, age, sweep, warned, bounds>>

-----------------------------------------------------------------------------
\* Time passes.  A phase with a timeout is over by then, and so are calls to
\* the database.
Age ==
    /\ \A b \in Backups : exec[b] \notin {"none"} \cup Slow => age[b] < DumpTimeout
    /\ age' = [b \in Backups |-> IF row[b] = "none" \/ age[b] = OldAfter THEN age[b] ELSE age[b] + 1]
    /\ age' # age
    /\ UNCHANGED <<row, file, exec, sweep, user, warned, bounds>>

\* The process is restarted: nothing resumes what ran in it.
Crash ==
    /\ crashes < MaxCrashes
    /\ crashes' = crashes + 1
    /\ exec' = [b \in Backups |-> "none"]
    /\ sweep' = NoSweep
    /\ user' = NoDelete
    /\ UNCHANGED <<row, file, age, warned, deletes, faults>>

BackupNext ==
    \/ \E b \in Backups : CreateBackup(b) \/ Execute(b) \/ DeleteFile(b)
    \/ Sweep \/ DeleteRow \/ Age \/ Crash

BackupSpec == BackupInit /\ [][BackupNext]_backupVars

-----------------------------------------------------------------------------
(* Properties.                                                             *)

CompletedStep == \A b \in Backups : row[b] = "completed" => row'[b] \in {"completed", "gone"}

CompletedHasFile == \A b \in Backups \ Uploaded : row[b] = "completed" => file[b]

NoSilentOrphan == \A b \in Backups \ Uploaded : (row[b] = "gone" /\ file[b]) => b \in warned

\* A completed backup never becomes a failed one, however late the cleanup is
\* with what it read.  As long as no user deletes backups, those that are not
\* uploaded have their file when they are completed, and leave none when their
\* row is gone.  All this whatever cleanups, crashes and failures have happened.
CompletedIsKept ==
    [][/\ CompletedStep
       /\ deletes' = 0 => (CompletedHasFile /\ NoSilentOrphan)']_backupVars
=============================================================================
