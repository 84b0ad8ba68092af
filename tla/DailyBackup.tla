------------------------------- MODULE DailyBackup -------------------------------
(***************************************************************************)
(* The daily database backup: BackupService.runDailyBackup                 *)
(* (backend/src/backup) inside CronJobService.run (backend/src/cron), which*)
(* logs the run and races it against a timeout.  The timeout ends the wait *)
(* and not the task, which goes on beside the runs of the following days.  *)
(***************************************************************************)
EXTENDS Integers, FiniteSetsExt

CONSTANTS
    BackupDays,      \* the days 1 .. BackupDays, one run each
    RetentionDays,   \* BACKUP_RETENTION_DAYS: 30
    MaxBackupFaults  \* bound: errors of the database and of the alert service, restarts

ASSUME BackupAssumption == {BackupDays, RetentionDays, MaxBackupFaults} \subseteq Nat

VARIABLES
    backupDay,
    cronLog,     \* cron_job_logs: the row of each day's run
    waiter,      \* runDailyBackup of that day, waiting in CronJobService.run
    task,        \* the function it runs: its step and the keys it will delete
    backups,     \* the objects in the bucket: the days they were uploaded
    alerted,     \* runs for which onBackupFailed raised an alert
    backupFaults,
    undone       \* history: runs cut off by a restart or by a failing alert

backupVars == <<backupDay, cronLog, waiter, task, backups, alerted, backupFaults, undone>>

Runs == 1 .. BackupDays
NoTask == [pc |-> "idle", toDelete |-> {}]

BackupInit ==
    /\ backupDay = 0 /\ cronLog = [d \in Runs |-> "none"] /\ waiter = [d \in Runs |-> "idle"]
    /\ task = [d \in Runs |-> NoTask] /\ backups = {} /\ alerted = {} /\ backupFaults = 0 /\ undone = {}

BackupFault == backupFaults < MaxBackupFaults /\ backupFaults' = backupFaults + 1
Wait(d, from, to) == waiter[d] = from /\ waiter' = [waiter EXCEPT ![d] = to]
TaskGoes(d, from, to) == task[d].pc = from /\ task' = [task EXCEPT ![d].pc = to]

\* At 2 AM: the STARTED row is saved and the task begins.
StartRun ==
    LET d == backupDay + 1
    IN  /\ d \in Runs /\ backupDay' = d
        /\ \/ /\ cronLog' = [cronLog EXCEPT ![d] = "started"]
              /\ waiter' = [waiter EXCEPT ![d] = "racing"] /\ task' = [task EXCEPT ![d].pc = "dump"]
              /\ UNCHANGED backupFaults
           \/ /\ BackupFault /\ waiter' = [waiter EXCEPT ![d] = "threw"]
              /\ UNCHANGED <<cronLog, task>>
        /\ UNCHANGED <<backups, alerted, undone>>

\* pg_dump or the upload fails; the local file is removed.
DumpFails(d) ==
    /\ TaskGoes(d, "dump", "threw")
    /\ UNCHANGED <<backupDay, cronLog, waiter, backups, alerted, backupFaults, undone>>

\* The upload ends, and pruneOldBackups fixes its cutoff and lists the bucket.
DumpAndUpload(d) ==
    /\ task[d].pc = "dump"
    /\ backups' = backups \cup {backupDay}
    /\ task' = [task EXCEPT ![d] = [pc |-> "prune", toDelete |-> {b \in backups' : b < backupDay - RetentionDays}]]
    /\ UNCHANGED <<backupDay, cronLog, waiter, alerted, backupFaults, undone>>

\* The deletions run side by side; when one fails the others may be done.
pruneOldBackups(d) ==
    /\ task[d].pc = "prune"
    /\ \E done \in SUBSET task[d].toDelete :
           /\ backups' = backups \ done
           /\ task' = [task EXCEPT ![d].pc = IF done = task[d].toDelete THEN "done" ELSE "threw"]
    /\ UNCHANGED <<backupDay, cronLog, waiter, alerted, backupFaults, undone>>

\* Mutant: the timeout resolves the race.
TimeoutResolves(d) ==
    /\ Wait(d, "racing", "finished") /\ task[d].pc \in {"dump", "prune"}
    /\ UNCHANGED <<backupDay, cronLog, task, backups, alerted, backupFaults, undone>>

\* Five minutes are over: the race is lost, the task is not stopped.
Timeout(d) ==
    /\ Wait(d, "racing", "failing") /\ task[d].pc \in {"dump", "prune"}
    /\ UNCHANGED <<backupDay, cronLog, task, backups, alerted, backupFaults, undone>>

\* The task settles first.
TaskSettles(d) ==
    /\ \/ task[d].pc = "done" /\ Wait(d, "racing", "finished")
       \/ task[d].pc = "threw" /\ Wait(d, "racing", "failing")
    /\ UNCHANGED <<backupDay, cronLog, task, backups, alerted, backupFaults, undone>>

\* The COMPLETED row; when its save throws, the catch records FAILED.
SaveCompleted(d) ==
    /\ \/ Wait(d, "finished", "ended") /\ cronLog' = [cronLog EXCEPT ![d] = "completed"] /\ UNCHANGED backupFaults
       \/ Wait(d, "finished", "failing") /\ BackupFault /\ UNCHANGED cronLog
    /\ UNCHANGED <<backupDay, task, backups, alerted, undone>>

\* The FAILED row; run throws whether it is saved or not.
SaveFailedRun(d) ==
    /\ Wait(d, "failing", "threw")
    /\ \/ cronLog' = [cronLog EXCEPT ![d] = "failed"] /\ UNCHANGED backupFaults
       \/ BackupFault /\ UNCHANGED cronLog
    /\ UNCHANGED <<backupDay, task, backups, alerted, undone>>

\* onBackupFailed raises the alert, or throws itself.
onBackupFailed(d) ==
    /\ Wait(d, "threw", "ended")
    /\ \/ alerted' = alerted \cup {d} /\ UNCHANGED <<backupFaults, undone>>
       \/ BackupFault /\ undone' = undone \cup {d} /\ UNCHANGED alerted
    /\ UNCHANGED <<backupDay, cronLog, task, backups>>

\* The process restarts: what was running is gone.
BackupRestart ==
    LET running == {d \in Runs : waiter[d] \notin {"idle", "ended"}}
    IN  /\ BackupFault /\ running # {}
        /\ waiter' = [d \in Runs |-> IF d \in running THEN "ended" ELSE waiter[d]]
        /\ task' = [d \in Runs |-> IF task[d].pc \in {"dump", "prune"} THEN NoTask ELSE task[d]]
        /\ undone' = undone \cup running
        /\ UNCHANGED <<backupDay, cronLog, backups, alerted>>

BackupNext ==
    \/ StartRun \/ BackupRestart
    \/ \E d \in Runs : \/ DumpFails(d) \/ DumpAndUpload(d) \/ pruneOldBackups(d) \/ Timeout(d) \/ TaskSettles(d)
                       \/ SaveCompleted(d) \/ SaveFailedRun(d) \/ onBackupFailed(d)

--------------------------------------------------------------------------------
(* Properties                                                              *)

\* The newest backup is never deleted: days without a successful upload do not
\* age the last good one out of the bucket, and neither does a run that timed
\* out and goes on later.
NewestBackupKept == [][backups # {} => Max(backups) \in backups']_backupVars

\* A run logged as completed has uploaded and pruned.
CompletedMeansDone == \A d \in Runs : cronLog[d] = "completed" => task[d].pc = "done"

\* A run that ended is logged as completed or has raised an alert, unless a
\* restart or a failing alert service cut it off.
FailuresAlerted ==
    \A d \in Runs : waiter[d] = "ended" => cronLog[d] = "completed" \/ d \in alerted \cup undone
================================================================================
