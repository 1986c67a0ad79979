------------------------------- MODULE Backups -------------------------------
(***************************************************************************)
(* utils/backup.py, utils/backup_scheduler.py and domains/admin/router.py: *)
(* backups in directories, their records in backup_history, retention,     *)
(* deletion and restores.                                                  *)
(*                                                                         *)
(* Manual backups and restores take the lock backup_operation; those of    *)
(* the schedulers, one in every worker, retention and deletion do not.     *)
(* Backups are numbered by their timestamps.                               *)
(***************************************************************************)
EXTENDS Integers, FiniteSets

CONSTANTS
  Jobs,        \* tasks: a cycle of a scheduler, or a request
  Ids,         \* 1 .. n: bound on the backups made
  Retention,   \* backup_retention_count
  MaxFaults,   \* failing dumps and removals, starts of workers
  MaxRestores,
  NoLock,       \* no lock document
  Forgotten    \* a lock document of nobody who lives

BackupAssumption ==
  /\ IsFiniteSet(Jobs) /\ {NoLock, Forgotten} \cap Jobs = {}
  /\ Retention \in Nat \ {0} /\ {MaxFaults, MaxRestores} \subseteq Nat
  /\ IsFiniteSet(Ids) /\ Ids = 1 .. Cardinality(Ids)

VARIABLES
  history,   \* backup_history: the status of the record of each backup
  files,     \* its directory
  content,   \* the history and the lock document a dump contains
  lock,      \* the owner of the lock document
  job,       \* what each task does next
  made,      \* backups so far
  faults, restores

backupVars == <<history, files, content, lock, job, made, faults, restores>>

\* "running" is in_progress; "nowhere" failed before it had a directory.
Status == {"absent", "running", "completed", "failed", "nowhere"}
Idle == [pc |-> "rest", id |-> 0, locked |-> FALSE, excess |-> 0, todo |-> {}]
Histories == [Ids -> Status]

BackupTypeOK ==
  /\ history \in Histories
  /\ files \in [Ids -> {"none", "part", "whole"}]
  /\ content \in [Ids -> [history : Histories, locked : BOOLEAN]]
  /\ lock \in Jobs \cup {NoLock, Forgotten}
  /\ job \in [Jobs -> [pc : {"rest", "make", "dump", "store", "count", "find", "prune", "unlist",
                             "erase", "drop", "check", "restore", "release"},
                       id : {0} \cup Ids, locked : BOOLEAN, excess : Nat, todo : SUBSET Ids]]
  /\ made \in Nat /\ faults \in 0 .. MaxFaults /\ restores \in 0 .. MaxRestores

BackupInit ==
  /\ history = [i \in Ids |-> "absent"]
  /\ files = [i \in Ids |-> "none"]
  /\ content = [i \in Ids |-> [history |-> history, locked |-> FALSE]]
  /\ lock = NoLock /\ job = [j \in Jobs |-> Idle]
  /\ made = 0 /\ faults = 0 /\ restores = 0

Listed == {i \in Ids : history[i] # "absent"}
HasPath(i) == history[i] \in {"completed", "failed"}
BackupFault == faults < MaxFaults /\ faults' = faults + 1
Turn(j, step) == job' = [job EXCEPT ![j].pc = step]
End(j) == IF job[j].locked THEN Turn(j, "release") ELSE job' = [job EXCEPT ![j] = Idle]

-----------------------------------------------------------------------------
\* _run_backup_with_progress and _run_restore give up without the lock.
Acquire(j, step, i) ==
  /\ lock \in {NoLock, Forgotten}
  /\ lock' = j
  /\ job' = [job EXCEPT ![j] = [Idle EXCEPT !.pc = step, !.id = i, !.locked = TRUE]]

\* create_backup(): the record is inserted before there is a directory.
Create(j) ==
  /\ made + 1 \in Ids /\ made' = made + 1
  /\ history' = [history EXCEPT ![made'] = "running"]
  /\ UNCHANGED <<files, content, faults, restores>>

ScheduledBackup(j) ==
  /\ job[j].pc = "rest"
  /\ Create(j)
  /\ job' = [job EXCEPT ![j] = [Idle EXCEPT !.pc = "make", !.id = made']]
  /\ UNCHANGED lock

ManualBackup(j) ==
  /\ job[j].pc = "rest"
  /\ Create(j)
  /\ Acquire(j, "make", made')

\* mkdir raises, or mongodump starts to write.
MakeDirectory(j) ==
  /\ job[j].pc = "make"
  /\ \/ /\ files' = [files EXCEPT ![job[j].id] = "part"]
        /\ Turn(j, "dump") /\ UNCHANGED <<history, faults>>
     \/ /\ history' = [history EXCEPT ![job[j].id] = IF @ = "absent" THEN @ ELSE "nowhere"]
        /\ Turn(j, IF job[j].locked THEN "release" ELSE "count")
        /\ BackupFault /\ UNCHANGED files
  /\ UNCHANGED <<content, lock, made, restores>>

\* mongodump copies the history and the lock documents with the rest.
Dump(j) ==
  /\ job[j].pc = "dump"
  /\ \/ /\ files' = [files EXCEPT ![job[j].id] = "whole"]
        /\ content' = [content EXCEPT ![job[j].id] = [history |-> history, locked |-> lock # NoLock]]
        /\ UNCHANGED faults
     \/ BackupFault /\ UNCHANGED <<files, content>>
  /\ Turn(j, "store")
  /\ UNCHANGED <<history, lock, made, restores>>

\* The last update of the record, which may have gone; a scheduler goes on
\* with enforce_retention().
Store(j) ==
  /\ job[j].pc = "store"
  /\ LET i == job[j].id IN
     history' = [history EXCEPT ![i] =
       IF @ = "absent" THEN @ ELSE IF files[i] = "whole" THEN "completed" ELSE "failed"]
  /\ Turn(j, IF job[j].locked THEN "release" ELSE "count")
  /\ UNCHANGED <<files, content, lock, made, faults, restores>>

-----------------------------------------------------------------------------
(* enforce_retention() *)

Count(j) ==
  /\ job[j].pc = "count"
  /\ LET n == Cardinality(Listed) IN
     job' = [job EXCEPT ![j] =
       IF n <= Retention THEN Idle ELSE [Idle EXCEPT !.pc = "find", !.excess = n - Retention]]
  /\ UNCHANGED <<history, files, content, lock, made, faults, restores>>

\* The oldest records, with their status as it is now: a record without a path
\* in the directory of the backups is passed over.
Oldest(n) == {i \in Listed : Cardinality({k \in Listed : k < i}) < n}

FindOldest(j) ==
  /\ job[j].pc = "find"
  /\ job' = [job EXCEPT ![j].pc = "prune", ![j].todo = {i \in Oldest(job[j].excess) : HasPath(i)}]
  /\ UNCHANGED <<history, files, content, lock, made, faults, restores>>

First(S) == CHOOSE i \in S : \A k \in S : i <= k

\* Mutant: the record of a directory that could not be removed is deleted.
PruneFilesAnyway(j) ==
  /\ job[j].pc = "prune" /\ job[j].todo # {}
  /\ LET i == First(job[j].todo) IN
     \/ files' = [files EXCEPT ![i] = "none"] /\ UNCHANGED faults
     \/ files[i] # "none" /\ BackupFault /\ files' = [files EXCEPT ![i] = "part"]
  /\ Turn(j, "unlist")
  /\ UNCHANGED <<history, content, lock, made, restores>>

\* A removal that raises may have removed a part, and keeps the record.
PruneFiles(j) ==
  /\ job[j].pc = "prune" /\ job[j].todo # {}
  /\ LET i == First(job[j].todo) IN
     \/ /\ files' = [files EXCEPT ![i] = "none"]
        /\ Turn(j, "unlist") /\ UNCHANGED faults
     \/ /\ files[i] # "none" /\ BackupFault
        /\ files' = [files EXCEPT ![i] = "part"]
        /\ job' = [job EXCEPT ![j].todo = @ \ {i}]
  /\ UNCHANGED <<history, content, lock, made, restores>>

PruneRecord(j) ==
  /\ job[j].pc = "unlist"
  /\ LET i == First(job[j].todo) IN
     /\ history' = [history EXCEPT ![i] = "absent"]
     /\ job' = [job EXCEPT ![j].pc = "prune", ![j].todo = @ \ {i}]
  /\ UNCHANGED <<files, content, lock, made, faults, restores>>

Pruned(j) ==
  /\ job[j].pc = "prune" /\ job[j].todo = {}
  /\ End(j)
  /\ UNCHANGED <<history, files, content, lock, made, faults, restores>>

-----------------------------------------------------------------------------
\* delete_backup() refuses a record without a path.
AskDelete(j) ==
  /\ job[j].pc = "rest"
  /\ \E i \in Ids :
       /\ HasPath(i)
       /\ job' = [job EXCEPT ![j] = [Idle EXCEPT !.pc = "erase", !.id = i]]
  /\ UNCHANGED <<history, files, content, lock, made, faults, restores>>

EraseFiles(j) ==
  /\ job[j].pc = "erase"
  /\ \/ /\ files' = [files EXCEPT ![job[j].id] = "none"]
        /\ Turn(j, "drop") /\ UNCHANGED faults
     \/ /\ files[job[j].id] # "none" /\ BackupFault
        /\ files' = [files EXCEPT ![job[j].id] = "part"]
        /\ End(j)
  /\ UNCHANGED <<history, content, lock, made, restores>>

EraseRecord(j) ==
  /\ job[j].pc = "drop"
  /\ history' = [history EXCEPT ![job[j].id] = "absent"]
  /\ End(j)
  /\ UNCHANGED <<files, content, lock, made, faults, restores>>

-----------------------------------------------------------------------------
AskRestore(j) ==
  /\ job[j].pc = "rest" /\ restores < MaxRestores
  /\ restores' = restores + 1
  /\ \E i \in Listed : Acquire(j, "check", i)
  /\ UNCHANGED <<history, files, content, made, faults>>

\* A record that has gone, a missing directory, another checksum; a failed
\* backup has no checksum.
CheckDump(j) ==
  /\ job[j].pc = "check"
  /\ LET i == job[j].id IN
     IF /\ HasPath(i) /\ files[i] # "none"
        /\ history[i] = "completed" => files[i] = "whole"
     THEN Turn(j, "restore") ELSE End(j)
  /\ UNCHANGED <<history, files, content, lock, made, faults, restores>>

\* mongorestore --drop puts back, one after the other, the history and the
\* locks of the time of the dump; it fails when the files go meanwhile, and a
\* partial dump is taken to have neither.
RestoreHistory(j) ==
  /\ job[j].pc = "restore" /\ files[job[j].id] = "whole"
  /\ history' = content[job[j].id].history
  /\ UNCHANGED <<files, content, lock, job, made, faults, restores>>

RestoreLocks(j) ==
  /\ job[j].pc = "restore" /\ files[job[j].id] = "whole"
  /\ lock' = IF content[job[j].id].locked THEN Forgotten ELSE NoLock
  /\ UNCHANGED <<history, files, content, job, made, faults, restores>>

Restored(j) ==
  /\ job[j].pc = "restore"
  /\ End(j)
  /\ UNCHANGED <<history, files, content, lock, made, faults, restores>>

Release(j) ==
  /\ job[j].pc = "release"
  /\ lock' = IF lock = j THEN NoLock ELSE lock
  /\ job' = [job EXCEPT ![j] = Idle]
  /\ UNCHANGED <<history, files, content, made, faults, restores>>

\* Workers die with their tasks; the lifespan of one deletes the lock,
\* whoever holds it.
StartWorker ==
  /\ BackupFault
  /\ \E died \in SUBSET Jobs : job' = [j \in Jobs |-> IF j \in died THEN Idle ELSE job[j]]
  /\ lock' = NoLock
  /\ UNCHANGED <<history, files, content, made, restores>>

BackupNext ==
  \/ StartWorker
  \/ \E j \in Jobs :
       \/ ScheduledBackup(j) \/ ManualBackup(j) \/ MakeDirectory(j) \/ Dump(j) \/ Store(j)
       \/ Count(j) \/ FindOldest(j) \/ PruneFiles(j) \/ PruneRecord(j) \/ Pruned(j)
       \/ AskDelete(j) \/ EraseFiles(j) \/ EraseRecord(j)
       \/ AskRestore(j) \/ CheckDump(j) \/ RestoreHistory(j) \/ RestoreLocks(j) \/ Restored(j)
       \/ Release(j)

\* The schedulers of the workers alone.
SchedulersSpec ==
  BackupInit /\ [][\E j \in Jobs :
    \/ ScheduledBackup(j) \/ MakeDirectory(j) \/ Dump(j) \/ Store(j)
    \/ Count(j) \/ FindOldest(j) \/ PruneFiles(j) \/ PruneRecord(j) \/ Pruned(j)]_backupVars

BackupSpec == BackupInit /\ [][BackupNext]_backupVars

-----------------------------------------------------------------------------
\* backup.py: "skip DB record deletion -- avoid orphaning".  Until a restore
\* puts back an older history, every directory of a backup has a record that
\* names it, whatever fails or dies in the middle of a backup, of retention or
\* of a deletion, and however these overlap.
DumpsAreListed == restores = 0 => \A i \in Ids : files[i] # "none" => i \in Listed

\* environment-variables.md: "Number of backups to retain"; retention leaves
\* that many.  (It does not when another scheduler's removes some after it has
\* counted.)
RetentionKeeps ==
  [][\A j \in Jobs : PruneRecord(j) => Cardinality(Listed') >= Retention]_backupVars

\* admin/router.py: the lock is there "to prevent concurrent backup/restore
\* operations".  (A scheduler does not take it, a restore puts back another.)
LockedApart ==
  \A j, k \in Jobs : job[j].pc = "restore" => job[k].pc # "dump" /\ (job[k].pc = "restore" => j = k)
=============================================================================
