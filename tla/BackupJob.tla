----------------------------- MODULE BackupJob ------------------------------
(***************************************************************************)
(* Scheduled backups and retention (meco_news/operations.py with           *)
(* create_backup of meco_news/backup.py): concurrent jobs of               *)
(* scripts/backup-maintenance.py, behind a lock file that a later job may  *)
(* take over from a dead one, and retention runs that plan on an inventory *)
(* and delete afterwards, without that lock.                               *)
(*                                                                         *)
(* Every step on the file system is a step here.  A file at the path of    *)
(* the lock is known by the process that created it; its content is empty  *)
(* until that process has written it.  Backups are numbered as they are    *)
(* reserved, time is the day.                                              *)
(***************************************************************************)
EXTENDS Naturals, FiniteSets, FiniteSetsExt

CONSTANTS
  Job,          \* backup processes; each runs once
  Cleaner,      \* retention processes; each runs once
  MaxDay,       \* bound on days
  WeekDays,     \* days in a week
  Daily, Weekly \* backups kept per period (months behave as weeks do)

Nobody == "nobody"
Empty == "empty"

ASSUME BackupAssumption ==
  /\ IsFiniteSet(Job) /\ IsFiniteSet(Cleaner)
  /\ {Nobody, Empty} \cap Job = {} /\ Job \cap Cleaner = {}
  /\ {MaxDay, WeekDays, Daily, Weekly} \subseteq Nat \ {0}

VARIABLES
  pc,          \* where each process is
  file,        \* creator of the file at the lock path, if there is one
  written,     \* processes whose payload is in the file they created
  expected,    \* Job -> the bytes it has read from the lock
  took,        \* some job has removed a marker it found stale
  alone,       \* jobs that no other job has overlapped with so far
  backup,      \* Job -> the files of its backup
  withdrawn,   \* jobs that failed once their manifest was in place
  clock,       \* how many manifests have been published
  day,
  targets      \* Cleaner -> what is left of plan.delete

lockVars == <<file, written, expected, took>>
vars == <<pc, lockVars, alone, backup, withdrawn, clock, day, targets>>

NoBackup == [db |-> "none", manifest |-> "none", stamp |-> 0, day |-> 0]

Init ==
  /\ pc = [p \in Job \cup Cleaner |-> "new"]
  /\ file = Nobody /\ written = {}
  /\ expected = [j \in Job |-> Empty]
  /\ took = FALSE /\ alone = Job
  /\ backup = [j \in Job |-> NoBackup] /\ withdrawn = {}
  /\ clock = 0 /\ day = 1
  /\ targets = [c \in Cleaner |-> {}]

At(p, where) == pc[p] = where
Goto(p, where) == pc' = [pc EXCEPT ![p] = where]

Ended == {"new", "done", "busy", "failed", "dead"}
Running(p) == pc[p] \notin Ended

\* the bytes at the lock path; a missing file reads as an empty one
Content == IF file \in written THEN file ELSE Empty

SlipEmptyIsLive == IF Content = Empty THEN TRUE ELSE Running(Content)   \* NamesLiveProcess

NamesLiveProcess == Content # Empty /\ Running(Content)

Held == {"held", "reserved", "replaced", "published", "withdraw", "leave", "unlink own"}
Holds(j) == pc[j] \in Held

-----------------------------------------------------------------------------
(***************************************************************************)
(* BackupJobLock.__enter__                                                 *)
(***************************************************************************)
Start(j) ==
  /\ At(j, "new")
  /\ Goto(j, "create")
  /\ alone' = IF \E k \in Job : Running(k) THEN alone \ {k \in Job : k = j \/ Running(k)} ELSE alone
  /\ UNCHANGED <<lockVars, backup, withdrawn, clock, day, targets>>

SlipReuseEmpty == Content = Empty                        \* Exclusive

Exclusive == file = Nobody

\* O_CREAT | O_EXCL, before anything is read and after a stale marker is gone
Create(j) ==
  /\ pc[j] \in {"create", "recreate"}
  /\ IF Exclusive
     THEN file' = j /\ Goto(j, "write")
     ELSE /\ Goto(j, IF At(j, "create") THEN "read" ELSE "busy")
          /\ UNCHANGED file
  /\ UNCHANGED <<written, expected, took, alone, backup, withdrawn, clock, day, targets>>

Read(j) ==
  /\ At(j, "read")
  /\ expected' = [expected EXCEPT ![j] = Content]
  /\ Goto(j, "inspect")
  /\ UNCHANGED <<file, written, took, alone, backup, withdrawn, clock, day, targets>>

\* read again and parsed: an empty marker names no process
Inspect(j) ==
  /\ At(j, "inspect")
  /\ Goto(j, IF NamesLiveProcess THEN "busy" ELSE "compare")
  /\ UNCHANGED <<lockVars, alone, backup, withdrawn, clock, day, targets>>

MayUnlink(j) == file # Nobody /\ Content = expected[j]

Compare(j) ==
  /\ At(j, "compare")
  /\ Goto(j, IF MayUnlink(j) THEN "unlink" ELSE "busy")
  /\ expected' = [expected EXCEPT ![j] = Empty]
  /\ UNCHANGED <<file, written, took, alone, backup, withdrawn, clock, day, targets>>

Unlink(j) ==
  /\ At(j, "unlink")
  /\ file' = Nobody
  /\ IF file = Nobody
     THEN Goto(j, "busy") /\ UNCHANGED took
     ELSE Goto(j, "recreate") /\ took' = TRUE
  /\ UNCHANGED <<written, expected, alone, backup, withdrawn, clock, day, targets>>

\* the payload goes into the file the process has created, wherever it is now
WritePayload(j) ==
  /\ At(j, "write")
  /\ written' = written \cup {j}
  /\ Goto(j, "held")
  /\ UNCHANGED <<file, expected, took, alone, backup, withdrawn, clock, day, targets>>

\* a payload that cannot be written takes the marker at the path away
WriteFails(j) ==
  /\ At(j, "write")
  /\ file' = Nobody
  /\ Goto(j, "failed")
  /\ UNCHANGED <<written, expected, took, alone, backup, withdrawn, clock, day, targets>>

(***************************************************************************)
(* create_backup and scheduled_backup                                      *)
(***************************************************************************)
\* names for database and manifest, taken with O_EXCL
Reserve(j) ==
  /\ At(j, "held")
  /\ backup' = [backup EXCEPT ![j] = [@ EXCEPT !.db = "reserved", !.manifest = "reserved"]]
  /\ Goto(j, "reserved")
  /\ UNCHANGED <<lockVars, alone, withdrawn, clock, day, targets>>

\* the copy is made and verified under a temporary name
Replace(j) ==
  /\ At(j, "reserved")
  /\ backup' = [backup EXCEPT ![j].db = "whole"]
  /\ Goto(j, "replaced")
  /\ UNCHANGED <<lockVars, alone, withdrawn, clock, day, targets>>

\* os.replace of the manifest: from here on others see the pair, and until the
\* directory is synced and published_manifest set the backup can still fail
Publish(j) ==
  /\ At(j, "replaced")
  /\ clock' = clock + 1
  /\ backup' = [backup EXCEPT ![j] = [@ EXCEPT !.manifest = "whole", !.stamp = clock', !.day = day]]
  /\ Goto(j, "published")
  /\ UNCHANGED <<lockVars, alone, withdrawn, day, targets>>

\* an exception removes both files: in one step here while the manifest is a
\* placeholder, which makes the pair no backup to anyone
BackupFails(j) ==
  /\ pc[j] \in {"reserved", "replaced"}
  /\ backup' = [backup EXCEPT ![j] = NoBackup]
  /\ Goto(j, "leave")
  /\ UNCHANGED <<lockVars, alone, withdrawn, clock, day, targets>>

\* and the database first when the manifest is in place
TakeBack(j) ==
  /\ At(j, "published")
  /\ backup' = [backup EXCEPT ![j].db = "none"]
  /\ withdrawn' = withdrawn \cup {j}
  /\ Goto(j, "withdraw")
  /\ UNCHANGED <<lockVars, alone, clock, day, targets>>

RemoveManifest(j) ==
  /\ At(j, "withdraw")
  /\ backup' = [backup EXCEPT ![j].manifest = "none"]
  /\ Goto(j, "leave")
  /\ UNCHANGED <<lockVars, alone, withdrawn, clock, day, targets>>

\* __exit__ removes the lock if it still names this job
Leaves(j) == Content = j

Leave(j) ==
  /\ pc[j] \in {"published", "leave"}
  /\ Goto(j, IF Leaves(j) THEN "unlink own" ELSE "done")
  /\ UNCHANGED <<lockVars, alone, backup, withdrawn, clock, day, targets>>

UnlinkOwn(j) ==
  /\ At(j, "unlink own")
  /\ file' = Nobody
  /\ Goto(j, "done")
  /\ UNCHANGED <<written, expected, took, alone, backup, withdrawn, clock, day, targets>>

-----------------------------------------------------------------------------
(***************************************************************************)
(* Retention                                                               *)
(***************************************************************************)
\* _load_manifest accepts the pair
Valid(j) == backup[j].db = "whole" /\ backup[j].manifest = "whole"
Inventory == {j \in Job : Valid(j)}

Period(kind, j) == IF kind = "day" THEN backup[j].day ELSE backup[j].day \div WeekDays
Limit(kind) == IF kind = "day" THEN Daily ELSE Weekly
Kinds == {"day", "week"}

NewestOf(S) == CHOOSE j \in S : \A k \in S : backup[k].stamp <= backup[j].stamp

\* of a set of backups, the newest of each of the newest periods
Newest(kind, S, n) ==
  LET periods == {Period(kind, j) : j \in S}
      recent == {p \in periods : Cardinality({q \in periods : q > p}) < n}
  IN  {NewestOf({j \in S : Period(kind, j) = p}) : p \in recent}

\* the newest of all, which the plan names apart, is among them
SlipDaysOnly == Newest("day", Inventory, Daily)          \* Keep

Keep == UNION {Newest(kind, Inventory, Limit(kind)) : kind \in Kinds}

\* build_retention_plan
Plan(c) ==
  /\ At(c, "new")
  /\ targets' = [targets EXCEPT ![c] = Inventory \ Keep]
  /\ Goto(c, "apply")
  /\ UNCHANGED <<lockVars, alone, backup, withdrawn, clock, day>>

SlipManifestFirst(b) == [b EXCEPT !.manifest = "none"]   \* FirstUnlinked

FirstUnlinked(b) == [b EXCEPT !.db = "none"]

\* apply_retention_plan, newest first: verify again, unlink the database, then
\* its manifest; what another run has deleted ends this one
Delete(c) ==
  /\ At(c, "apply") /\ targets[c] # {}
  /\ LET j == NewestOf(targets[c])
     IN  IF Valid(j)
         THEN backup' = [backup EXCEPT ![j] = FirstUnlinked(@)] /\ Goto(c, "manifest")
         ELSE Goto(c, "failed") /\ UNCHANGED backup
  /\ UNCHANGED <<lockVars, alone, withdrawn, clock, day, targets>>

DeleteManifest(c) ==
  /\ At(c, "manifest")
  /\ LET j == NewestOf(targets[c])
     IN  /\ backup' = [backup EXCEPT ![j].manifest = "none"]
         /\ targets' = [targets EXCEPT ![c] = @ \ {j}]
         /\ Goto(c, IF backup[j].manifest = "none" THEN "failed" ELSE "apply")
  /\ UNCHANGED <<lockVars, alone, withdrawn, clock, day>>

Applied(c) ==
  /\ At(c, "apply") /\ targets[c] = {}
  /\ Goto(c, "done")
  /\ UNCHANGED <<lockVars, alone, backup, withdrawn, clock, day, targets>>

-----------------------------------------------------------------------------
\* a process may die between any two steps
Crash(p) ==
  /\ Running(p)
  /\ Goto(p, "dead")
  /\ UNCHANGED <<lockVars, alone, backup, withdrawn, clock, day, targets>>

Tomorrow ==
  /\ day < MaxDay
  /\ day' = day + 1
  /\ UNCHANGED <<pc, lockVars, alone, backup, withdrawn, clock, targets>>

Finished ==
  /\ \A p \in Job \cup Cleaner : pc[p] \in Ended \ {"new"}
  /\ day = MaxDay
  /\ UNCHANGED vars

Enter(j) ==
  Start(j) \/ Create(j) \/ Read(j) \/ Inspect(j) \/ Compare(j) \/ Unlink(j) \/ WritePayload(j) \/ WriteFails(j)
Work(j) ==
  \/ Reserve(j) \/ Replace(j) \/ Publish(j) \/ BackupFails(j) \/ TakeBack(j)
  \/ RemoveManifest(j) \/ Leave(j) \/ UnlinkOwn(j)
Clean(c) == Plan(c) \/ Delete(c) \/ DeleteManifest(c) \/ Applied(c)

Next ==
  \/ \E j \in Job : Enter(j) \/ Work(j)
  \/ \E c \in Cleaner : Clean(c)
  \/ \E p \in Job \cup Cleaner : Crash(p)
  \/ Tomorrow \/ Finished

Spec == Init /\ [][Next]_vars

-----------------------------------------------------------------------------
(***************************************************************************)
(* Properties                                                              *)
(***************************************************************************)
TypeOK ==
  /\ \A j \in Job : pc[j] \in Held \cup Ended \cup
       {"create", "read", "inspect", "compare", "unlink", "recreate", "write"}
  /\ \A c \in Cleaner : pc[c] \in Ended \cup {"apply", "manifest"}
  /\ \A c \in Cleaner : At(c, "manifest") => targets[c] # {}
  /\ file \in Job \cup {Nobody}
  /\ file \notin written \cup {Nobody} => pc[file] \in {"write", "dead"}
  /\ written \subseteq Job /\ took \in BOOLEAN /\ alone \subseteq Job
  /\ withdrawn \subseteq Job
  /\ expected \in [Job -> Job \cup {Empty}]
  /\ \A j \in Job : /\ backup[j].db \in {"none", "reserved", "whole"}
                    /\ backup[j].manifest \in {"none", "reserved", "whole"}
                    /\ backup[j].stamp \in 0..clock /\ backup[j].day \in 0..day
  /\ clock \in 0..Cardinality(Job) /\ day \in 1..MaxDay
  /\ targets \in [Cleaner -> SUBSET Job]

\* Two jobs hold the lock at the same time only after some job removed a marker
\* it judged stale: O_EXCL and the owner check of __exit__ keep all others apart.
SharedOnlyByTakeover == ~took => \A j, k \in Job : Holds(j) /\ Holds(k) => j = k

\* The same without the exception (docstring of BackupJobLock:
\* "Cross-process non-overlap lock for scheduled backup jobs").
NonOverlap == \A j, k \in Job : Holds(j) /\ Holds(k) => j = k

\* What a dead job leaves at the lock path, in whatever state, never keeps a
\* job out that has had no other beside it.
DeadNeverBlocks == \A j \in Job : At(j, "busy") => j \notin alone

Published == {j \in Job : backup[j].stamp > 0}

\* Retention keeps its promise whatever jobs and retention runs overlap, on
\* inventories that are out of date, and where they die: of all backups ever
\* published, the newest of each of the newest days and weeks can be restored,
\* unless the job that published it has itself taken it back.
PeriodsKept ==
  \A kind \in Kinds : \A j \in Newest(kind, Published, Limit(kind)) \ withdrawn : Valid(j)

\* The same of the backups not taken back, which does not hold: a job whose
\* directory sync fails after the rename removes a pair that a retention run
\* may have counted, and the older backup of the day is deleted for it.
EveryPeriodKept ==
  \A kind \in Kinds : \A j \in Newest(kind, Published \ withdrawn, Limit(kind)) : Valid(j)

\* A published pair never loses its manifest before its database, so that no
\* database is left that cannot be verified.
ManifestOutlivesDatabase ==
  \A j \in Job : backup[j].stamp > 0 /\ backup[j].db = "whole" => backup[j].manifest = "whole"
=============================================================================
