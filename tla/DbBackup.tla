------------------------------- MODULE DbBackup -------------------------------
(***************************************************************************)
(* Backups of the database and their rotation (nms/db.py, app.py).  A      *)
(* backup goes to the file of its day; the job of 00:05 makes one, and so  *)
(* does a thread that every start of the program leaves behind for half a  *)
(* minute, if the day has no file by then.  A backup that fails, or that   *)
(* the program does not live to finish, may leave an empty file.  Only the *)
(* newest BackupKeep files are kept, whatever is in them.                  *)
(*                                                                         *)
(* No file is ever read: restore_database calls fetchone on a connection,  *)
(* which has no such method, and so refuses every file before it copies    *)
(* anything (nms/db.py:976, 985).  A request to restore changes nothing    *)
(* and is no action here.                                                  *)
(***************************************************************************)
EXTENDS Integers, FiniteSets

CONSTANTS
    LastDay,     \* bound on the days that are followed
    BackupKeep,  \* files that stay (30)
    MaxManual    \* bound on the files made by hand

ASSUME BackupAssumption == BackupKeep \in Nat \ {0} /\ LastDay \in Nat
    /\ LastDay >= BackupKeep /\ MaxManual \in Nat

VARIABLES
    day,       \* today
    early,     \* it is not yet 00:05
    files,     \* backups by day
    manual,    \* files of create_manual_backup, which nothing deletes
    running,   \* whether the program runs
    task,      \* what the job and the thread of the start are doing
    failures,  \* history: backups failed since the last good one, LastDay before the first
    settled,   \* history: days of which the job or the thread was done with the backup
    failedDays \* history: days of which a backup failed

backupVars == <<day, early, files, manual, running, task, failures, settled, failedDays>>

BackupDays == 1..LastDay
Tasks    == {"job", "catchup"}
Good     == {d \in BackupDays : files[d] = "good"}
Present  == {d \in BackupDays : files[d] # "absent"}

BackupTypeOK ==
    /\ day \in BackupDays /\ early \in BOOLEAN
    /\ files \in [BackupDays -> {"absent", "empty", "good"}]
    /\ manual \in 0..MaxManual
    /\ running \in BOOLEAN
    /\ task \in [Tasks -> {"idle", "due", "backup", "rotate"}]
    /\ failures \in 0..LastDay
    /\ settled \subseteq BackupDays /\ failedDays \subseteq BackupDays

BackupInit ==
    /\ day = 1 /\ early = TRUE
    /\ files = [d \in BackupDays |-> "absent"]
    /\ manual = 0
    /\ running = FALSE
    /\ task = [t \in Tasks |-> "idle"]
    /\ failures = LastDay
    /\ settled = {} /\ failedDays = {}

-----------------------------------------------------------------------------
(* The calendar and the program                                             *)

\* A backup ends on the day it began.
NextDay ==
    /\ ~early /\ day < LastDay
    /\ task["job"] = "idle" /\ task["catchup"] \in {"idle", "due"}
    /\ day' = day + 1 /\ early' = TRUE
    /\ UNCHANGED <<files, manual, running, task, failures, settled, failedDays>>

\* 00:05: the job begins, unless no program is running or it is busy for longer
\* than misfire_grace_time.
FiveAfter ==
    /\ early /\ early' = FALSE
    /\ \/ task' = task
       \/ running /\ task["job"] = "idle" /\ task' = [task EXCEPT !["job"] = "backup"]
    /\ UNCHANGED <<day, files, manual, running, failures, settled, failedDays>>

StartProgram ==
    /\ ~running /\ running' = TRUE
    /\ task' = [task EXCEPT !["catchup"] = "due"]
    /\ UNCHANGED <<day, early, files, manual, failures, settled, failedDays>>

\* A backup it cuts off is one that has just failed.
EndProgram ==
    /\ running /\ running' = FALSE
    /\ task' = [t \in Tasks |-> "idle"]
    /\ UNCHANGED <<day, early, files, manual, failures, settled, failedDays>>

-----------------------------------------------------------------------------
(* _startup_backup_catchup and backup_database                              *)

\* Mutant: any backup will do.
NoFileOfAnyDay == Present = {}
NoFileOfToday == day \notin Present

CatchUp ==
    /\ task["catchup"] = "due"
    /\ IF NoFileOfToday
       THEN task' = [task EXCEPT !["catchup"] = "backup"] /\ UNCHANGED settled
       ELSE task' = [task EXCEPT !["catchup"] = "idle"] /\ settled' = settled \cup {day}
    /\ UNCHANGED <<day, early, files, manual, running, failures, failedDays>>

\* Written over an earlier file of the day; a failure leaves that as it was,
\* or an empty one where there was none.
BackupDatabase(t) ==
    /\ task[t] = "backup"
    /\ task' = [task EXCEPT ![t] = "rotate"]
    /\ settled' = settled \cup {day}
    /\ \/ /\ files' = [files EXCEPT ![day] = "good"]
          /\ failures' = 0
          /\ UNCHANGED failedDays
       \/ /\ files' \in {files, [files EXCEPT ![day] = IF @ = "absent" THEN "empty" ELSE @]}
          /\ failures' = IF failures < LastDay THEN failures + 1 ELSE failures
          /\ failedDays' = failedDays \cup {day}
    /\ UNCHANGED <<day, early, manual, running>>

\* Mutant: the last of the list stay, and the list starts with the newest.
NewestReversed == {d \in Present : Cardinality({e \in Present : e < d}) < BackupKeep}
\* Mutant: every file of the directory counts, and the names of those made by hand
\* sort as the newest.
NewestOfAll == {d \in Present : Cardinality({e \in Present : e > d}) + manual < BackupKeep}
Newest == {d \in Present : Cardinality({e \in Present : e > d}) < BackupKeep}

\* Also after a backup that failed.
Rotate(t) ==
    /\ task[t] = "rotate"
    /\ files' = [d \in BackupDays |-> IF d \in Newest THEN files[d] ELSE "absent"]
    /\ task' = [task EXCEPT ![t] = "idle"]
    /\ UNCHANGED <<day, early, manual, running, failures, settled, failedDays>>

ManualBackup ==
    /\ running
    /\ manual < MaxManual /\ manual' = manual + 1
    /\ UNCHANGED <<day, early, files, running, task, failures, settled, failedDays>>

BackupNext ==
    \/ NextDay \/ FiveAfter \/ StartProgram \/ EndProgram
    \/ CatchUp
    \/ \E t \in Tasks : BackupDatabase(t) \/ Rotate(t)
    \/ ManualBackup

BackupSpec == BackupInit /\ [][BackupNext]_backupVars

-----------------------------------------------------------------------------
(* The rotation cannot take the last good backup before a new one has      *)
(* failed BackupKeep times in a row: the empty file of a night that failed *)
(* counts like a backup (nms/db.py:904-962).                               *)
LastGoodBackupKept == failures < BackupKeep => Good # {}

(* Each of the last BackupKeep days on which the job ran or the program    *)
(* was started has a good backup, however often it was started, unless one *)
(* of that day failed: the thread of a start takes the empty file of a     *)
(* backup that failed for one of the day and makes no other, and job and   *)
(* thread may be at it together (app.py:1212-1230, nms/db.py:904-945).     *)
RecentBackupsKept == \A d \in settled \ failedDays : d > day - BackupKeep => d \in Good
=============================================================================
