--------------------------- MODULE BackupJobProofs ---------------------------
(***************************************************************************)
(* For any number of backup jobs and retention runs: without a takeover    *)
(* the lock excludes; what a dead job leaves keeps no lone job out; a      *)
(* published database never loses its manifest; and the newest backups of  *)
(* each period stay whole.                                                 *)
(***************************************************************************)
EXTENDS BackupJob, FiniteSetTheorems, TLAPS

Process == Job \cup Cleaner

-----------------------------------------------------------------------------
(***************************************************************************)
(* The lock.                                                               *)
(***************************************************************************)
\* a job has the lock from the creation of its file on
HasFile(j) == pc[j] \in Held \cup {"write"}

LockInv ==
  /\ DOMAIN pc = Process /\ took \in BOOLEAN
  /\ ~took => \A j \in Job : HasFile(j) => file = j

\* A job that goes anywhere but to the lock leaves the others what they have.
LEMMA Elsewhere ==
  ASSUME LockInv, NEW p \in Process, NEW where, Goto(p, where),
         p \in Job /\ where \in Held \cup {"write"} => HasFile(p),
         UNCHANGED <<file, took>>
  PROVE  LockInv'
BY DEF LockInv, Goto, HasFile, Process

LEMMA EnterKeepsLock ==
  ASSUME LockInv, NEW j \in Job, Enter(j)
  PROVE  LockInv'
<1> USE DEF At, Process
<1>1. CASE Start(j)
  BY <1>1, Elsewhere DEF Start, lockVars, Held
<1>2. CASE Create(j)
  <2>1. CASE Exclusive
    BY <1>2, <2>1, BackupAssumption DEF Create, Exclusive, LockInv, HasFile, Goto, Held
  <2>2. CASE ~Exclusive
    BY <1>2, <2>2, Elsewhere DEF Create, Held
  <2> QED BY <2>1, <2>2
<1>3. CASE Read(j)
  BY <1>3, Elsewhere DEF Read, Held
<1>4. CASE Inspect(j)
  BY <1>4, Elsewhere DEF Inspect, lockVars, Held
<1>5. CASE Compare(j)
  BY <1>5, Elsewhere DEF Compare, Held
<1>6. CASE Unlink(j)
  <2>1. CASE file = Nobody
    BY <1>6, <2>1, Elsewhere DEF Unlink, Held
  <2>2. CASE file # Nobody
    BY <1>6, <2>2 DEF Unlink, LockInv, Goto
  <2> QED BY <2>1, <2>2
<1>7. CASE WritePayload(j)
  BY <1>7, Elsewhere DEF WritePayload, HasFile
<1>8. CASE WriteFails(j)
  BY <1>8 DEF WriteFails, LockInv, HasFile, Goto, Held
<1> QED BY <1>1, <1>2, <1>3, <1>4, <1>5, <1>6, <1>7, <1>8 DEF Enter

LEMMA WorkKeepsLock ==
  ASSUME LockInv, NEW j \in Job, Work(j)
  PROVE  LockInv'
<1> USE DEF At, Process
<1>1. CASE \/ Reserve(j) \/ Replace(j) \/ Publish(j) \/ BackupFails(j) \/ TakeBack(j)
           \/ RemoveManifest(j) \/ Leave(j)
  BY <1>1, Elsewhere DEF Reserve, Replace, Publish, BackupFails, TakeBack, RemoveManifest, Leave,
                         HasFile, Held, lockVars
<1>2. CASE UnlinkOwn(j)
  BY <1>2 DEF UnlinkOwn, LockInv, HasFile, Goto, Held
<1> QED BY <1>1, <1>2 DEF Work

\* Jobs share the lock only after a takeover, for any number of jobs.
THEOREM OnlyTakeoverShares == Spec => []SharedOnlyByTakeover
<1>1. Init => LockInv
  BY DEF Init, LockInv, HasFile, Held, Process
<1>2. LockInv /\ [Next]_vars => LockInv'
  <2> SUFFICES ASSUME LockInv, [Next]_vars PROVE LockInv'
    OBVIOUS
  <2>1. CASE \E c \in Cleaner : Clean(c)
    BY <2>1, Elsewhere DEF Clean, Plan, Delete, DeleteManifest, Applied, lockVars, Held, Process
  <2>2. CASE \E p \in Process : Crash(p)
    BY <2>2, Elsewhere DEF Crash, lockVars, Held
  <2>3. CASE Tomorrow \/ Finished \/ UNCHANGED vars
    BY <2>3 DEF Tomorrow, Finished, vars, lockVars, LockInv, HasFile
  <2> QED BY <2>1, <2>2, <2>3, EnterKeepsLock, WorkKeepsLock DEF Next, Process
<1>3. LockInv => SharedOnlyByTakeover
  BY DEF LockInv, SharedOnlyByTakeover, HasFile, Holds
<1> QED BY <1>1, <1>2, <1>3, PTL DEF Spec

-----------------------------------------------------------------------------
(***************************************************************************)
(* Databases and manifests.                                                *)
(***************************************************************************)
BackupRow == [db : {"none", "reserved", "whole"}, manifest : {"none", "reserved", "whole"},
              stamp : Nat, day : Nat]

BackupType ==
  /\ DOMAIN pc = Process
  /\ backup \in [Job -> BackupRow]
  /\ clock \in Nat /\ day \in Nat
  /\ targets \in [Cleaner -> SUBSET Job]

\* a job that has not come to the end of its backup has published nothing
Early == {"new", "create", "read", "inspect", "compare", "unlink", "recreate", "write",
          "held", "reserved", "replaced"}
Unpublished == \A j \in Job : pc[j] \in Early => backup[j].stamp = 0

\* a whole manifest is a published one
Stamped == \A j \in Job : backup[j].manifest = "whole" => backup[j].stamp > 0

\* what retention may delete is published, so that the order of its targets,
\* the newest first, does not change
TargetsPublished == \A c \in Cleaner : \A j \in targets[c] : backup[j].stamp > 0

\* between its two unlinks retention has deleted the database
Gone(j) == j \in Job => backup[j].stamp > 0 /\ backup[j].db = "none"
DatabaseFirst == \A c \in Cleaner : pc[c] = "manifest" => Gone(NewestOf(targets[c]))

\* and so has a job that takes its backup back
TakenBack == \A j \in Job : /\ pc[j] = "published" => backup[j].stamp > 0
                            /\ pc[j] = "withdraw" => Gone(j)

ManifestInv ==
  /\ BackupType /\ Unpublished /\ Stamped /\ TargetsPublished /\ DatabaseFirst /\ TakenBack
  /\ ManifestOutlivesDatabase

\* The order of a set of backups depends on their stamps alone.
LEMMA SameNewest ==
  ASSUME NEW S, \A j \in S : backup'[j].stamp = backup[j].stamp
  PROVE  NewestOf(S)' = NewestOf(S)
<1>1. \A j \in S : (\A k \in S : backup'[k].stamp <= backup'[j].stamp)
                     <=> (\A k \in S : backup[k].stamp <= backup[j].stamp)
  OBVIOUS
<1> QED BY <1>1, ZenonT(40) DEF NewestOf

\* One pair of files is written or deleted, by a step that keeps to its kind.
LEMMA PairChanges ==
  ASSUME ManifestInv, NEW j \in Job, NEW b \in BackupRow,
         backup' = [backup EXCEPT ![j] = b],
         b.manifest = "whole" => b.stamp > 0,
         b.stamp > 0 /\ b.db = "whole" => b.manifest = "whole",
         backup[j].stamp > 0 => b.stamp = backup[j].stamp /\ b.db \in {backup[j].db, "none"},
         UNCHANGED targets
  PROVE  /\ backup' \in [Job -> BackupRow]
         /\ Stamped' /\ TargetsPublished' /\ ManifestOutlivesDatabase'
         /\ \A c \in Cleaner : NewestOf(targets[c])' = NewestOf(targets[c])
         /\ \A k \in Job : Gone(k) => Gone(k)'
         /\ \A k \in Job : backup[k].stamp > 0 => backup'[k].stamp > 0
<1> USE DEF ManifestInv, BackupType
<1>1. \A k \in Job : backup'[k] = IF k = j THEN b ELSE backup[k]
  OBVIOUS
<1>2. \A k \in Job : backup[k].stamp > 0 => backup'[k].stamp = backup[k].stamp
  BY <1>1
<1>3. ASSUME NEW c \in Cleaner
      PROVE  NewestOf(targets[c])' = NewestOf(targets[c])
  <2>1. \A k \in targets[c] : backup'[k].stamp = backup[k].stamp
    BY <1>2 DEF TargetsPublished
  <2> QED BY <2>1, SameNewest DEF NewestOf
<1>4. Stamped' /\ ManifestOutlivesDatabase'
  BY <1>1 DEF Stamped, ManifestOutlivesDatabase
<1>5. TargetsPublished'
  BY <1>2 DEF TargetsPublished
<1>6. \A k \in Job : Gone(k) => Gone(k)'
  BY <1>1 DEF Gone, BackupRow
<1> QED BY <1>6, <1>1, <1>2, <1>3, <1>4, <1>5

\* Where nothing of the backups or of retention moves.
LEMMA PairsRest ==
  ASSUME ManifestInv, NEW p \in Process, NEW where, Goto(p, where),
         where \notin {"manifest", "published", "withdraw"}, where \in Early => pc[p] \in Early,
         UNCHANGED <<backup, clock, day, targets>>
  PROVE  ManifestInv'
BY DEF ManifestInv, BackupType, Unpublished, Stamped, TargetsPublished, DatabaseFirst, TakenBack,
       ManifestOutlivesDatabase, Gone, NewestOf, Goto, Process

LEMMA EnterKeepsPairs ==
  ASSUME ManifestInv, NEW j \in Job, Enter(j)
  PROVE  ManifestInv'
BY PairsRest DEF Enter, Start, Create, Read, Inspect, Compare, Unlink, WritePayload, WriteFails,
                 At, Early, Process

LEMMA PairWritten ==
  ASSUME ManifestInv, NEW j \in Job, NEW b \in BackupRow, NEW where \in {"reserved", "replaced", "published", "leave"},
         pc[j] \in Early, Goto(j, where),
         backup' = [backup EXCEPT ![j] = b],
         \/ where # "published" /\ b.stamp = 0 /\ b.manifest # "whole"
         \/ where = "published" /\ b.stamp > 0 /\ b.manifest = "whole",
         clock' \in Nat, UNCHANGED <<day, targets>>
  PROVE  ManifestInv'
<1>1. backup[j].stamp = 0
  BY DEF ManifestInv, Unpublished
<1>2. /\ backup' \in [Job -> BackupRow]
      /\ Stamped' /\ TargetsPublished' /\ ManifestOutlivesDatabase'
      /\ \A c \in Cleaner : NewestOf(targets[c])' = NewestOf(targets[c])
      /\ \A k \in Job : Gone(k) => Gone(k)'
      /\ \A k \in Job : backup[k].stamp > 0 => backup'[k].stamp > 0
  <2>1. /\ backup[j].stamp > 0 => b.stamp = backup[j].stamp /\ b.db \in {backup[j].db, "none"}
        /\ b.manifest = "whole" => b.stamp > 0
        /\ b.stamp > 0 /\ b.db = "whole" => b.manifest = "whole"
        /\ UNCHANGED targets
    BY <1>1
  <2> QED BY <2>1, PairChanges, Zenon
<1>3. Unpublished'
  BY DEF Unpublished, Goto, ManifestInv, BackupType, Process, Early
<1>4. DatabaseFirst'
  <2> SUFFICES ASSUME NEW c \in Cleaner, pc'[c] = "manifest"
               PROVE  Gone(NewestOf(targets[c]))'
    BY DEF DatabaseFirst
  <2>1. pc[c] = "manifest"
    BY DEF Goto, ManifestInv, BackupType, Process
  <2>2. Gone(NewestOf(targets[c]))
    BY <2>1 DEF ManifestInv, DatabaseFirst
  <2> QED BY <1>2, <2>2 DEF Gone
<1>5. TakenBack'
  <2>1. ASSUME NEW k \in Job, pc'[k] = "published" PROVE backup'[k].stamp > 0
    <3>1. k # j => pc[k] = "published"
      BY <2>1 DEF Goto, ManifestInv, BackupType, Process
    <3>2. k = j => b.stamp > 0 /\ backup'[k] = b
      BY <2>1 DEF Goto, ManifestInv, BackupType, Process
    <3> QED BY <1>2, <3>1, <3>2 DEF ManifestInv, TakenBack
  <2>2. ASSUME NEW k \in Job, pc'[k] = "withdraw" PROVE Gone(k)'
    <3>1. pc[k] = "withdraw"
      BY <2>2 DEF Goto, ManifestInv, BackupType, Process
    <3> QED BY <1>2, <3>1 DEF ManifestInv, TakenBack
  <2> QED BY <2>1, <2>2 DEF TakenBack
<1> QED BY <1>2, <1>3, <1>4, <1>5 DEF ManifestInv, BackupType, Goto

\* A job that fails with its manifest in place removes its database first.
LEMMA PairTakenBack ==
  ASSUME ManifestInv, NEW j \in Job, NEW b \in BackupRow, NEW where \in {"withdraw", "leave"},
         pc[j] \notin Early, Goto(j, where),
         backup' = [backup EXCEPT ![j] = b],
         backup[j].stamp > 0, b.stamp = backup[j].stamp, b.db = "none", b.manifest \in {backup[j].manifest, "none"},
         UNCHANGED <<clock, day, targets>>
  PROVE  ManifestInv'
<1>1. /\ backup' \in [Job -> BackupRow]
      /\ Stamped' /\ TargetsPublished' /\ ManifestOutlivesDatabase'
      /\ \A c \in Cleaner : NewestOf(targets[c])' = NewestOf(targets[c])
      /\ \A k \in Job : Gone(k) => Gone(k)'
      /\ \A k \in Job : backup[k].stamp > 0 => backup'[k].stamp > 0
  <2>1. /\ backup[j].stamp > 0 => b.stamp = backup[j].stamp /\ b.db \in {backup[j].db, "none"}
        /\ b.manifest = "whole" => b.stamp > 0
        /\ b.stamp > 0 /\ b.db = "whole" => b.manifest = "whole"
        /\ UNCHANGED targets
    BY DEF ManifestInv, Stamped
  <2> QED BY <2>1, PairChanges, Zenon
<1>2. Unpublished'
  BY DEF Unpublished, Goto, ManifestInv, BackupType, Process, Early
<1>3. DatabaseFirst'
  <2> SUFFICES ASSUME NEW c \in Cleaner, pc'[c] = "manifest"
               PROVE  Gone(NewestOf(targets[c]))'
    BY DEF DatabaseFirst
  <2>1. pc[c] = "manifest"
    BY DEF Goto, ManifestInv, BackupType, Process
  <2>2. Gone(NewestOf(targets[c]))
    BY <2>1 DEF ManifestInv, DatabaseFirst
  <2> QED BY <1>1, <2>2 DEF Gone
<1>4. TakenBack'
  <2>1. ASSUME NEW k \in Job, pc'[k] = "published" PROVE backup'[k].stamp > 0
    <3>1. pc[k] = "published"
      BY <2>1 DEF Goto, ManifestInv, BackupType, Process
    <3> QED BY <1>1, <3>1 DEF ManifestInv, TakenBack
  <2>2. ASSUME NEW k \in Job, pc'[k] = "withdraw" PROVE Gone(k)'
    <3>1. CASE k = j
      BY <3>1 DEF Gone, ManifestInv, BackupType
    <3>2. CASE k # j
      <4>1. pc[k] = "withdraw"
        BY <2>2, <3>2 DEF Goto, ManifestInv, BackupType, Process
      <4> QED BY <1>1, <4>1 DEF ManifestInv, TakenBack
    <3> QED BY <3>1, <3>2
  <2> QED BY <2>1, <2>2 DEF TakenBack
<1> QED BY <1>1, <1>2, <1>3, <1>4 DEF ManifestInv, BackupType, Goto

\* create_backup writes the manifest last and removes both files if it fails.
LEMMA WorkKeepsPairs ==
  ASSUME ManifestInv, NEW j \in Job, Work(j)
  PROVE  ManifestInv'
<1> DEFINE old == backup[j]
<1>1. CASE Leave(j) \/ UnlinkOwn(j)
  BY <1>1, PairsRest DEF Leave, UnlinkOwn, At, Early, Process
<1>2. old \in BackupRow /\ clock \in Nat /\ day \in Nat /\ (old.manifest = "whole" => old.stamp > 0)
  BY DEF ManifestInv, BackupType, Stamped
<1>3. pc[j] \in Early => old.stamp = 0
  BY DEF ManifestInv, Unpublished
<1>4. CASE Reserve(j)
  <2> DEFINE b == [old EXCEPT !.db = "reserved", !.manifest = "reserved"]
  <2>1. b \in BackupRow /\ b.stamp = 0 /\ b.manifest = "reserved"
    BY <1>2, <1>3, <1>4 DEF Reserve, At, Early, BackupRow
  <2>2. /\ pc[j] \in Early /\ Goto(j, "reserved")
        /\ backup' = [backup EXCEPT ![j] = b]
        /\ clock' \in Nat /\ UNCHANGED <<day, targets>>
    BY <1>2, <1>4 DEF Reserve, At, Early
  <2> HIDE DEF b
  <2> QED BY <2>1, <2>2, PairWritten, Zenon
<1>5. CASE Replace(j)
  <2> DEFINE b == [old EXCEPT !.db = "whole"]
  <2>1. b \in BackupRow /\ b.stamp = 0 /\ b.manifest # "whole"
    BY <1>2, <1>3, <1>5 DEF Replace, At, Early, BackupRow
  <2>2. /\ pc[j] \in Early /\ Goto(j, "replaced")
        /\ backup' = [backup EXCEPT ![j] = b]
        /\ clock' \in Nat /\ UNCHANGED <<day, targets>>
    BY <1>2, <1>5 DEF Replace, At, Early
  <2> HIDE DEF b
  <2> QED BY <2>1, <2>2, PairWritten, Zenon
<1>6. CASE Publish(j)
  <2> DEFINE b == [old EXCEPT !.manifest = "whole", !.stamp = clock', !.day = day]
  <2>1. clock' \in Nat /\ clock' > 0
    BY <1>2, <1>6 DEF Publish
  <2>2. b \in BackupRow /\ b.stamp = clock' /\ b.manifest = "whole"
    BY <1>2, <2>1 DEF BackupRow
  <2>3. /\ pc[j] \in Early /\ Goto(j, "published")
        /\ backup' = [backup EXCEPT ![j] = b]
        /\ UNCHANGED <<day, targets>>
    BY <1>6 DEF Publish, At, Early
  <2> HIDE DEF b
  <2> QED BY <2>1, <2>2, <2>3, PairWritten, Zenon
<1>7. CASE BackupFails(j)
  <2>1. NoBackup \in BackupRow /\ NoBackup.stamp = 0 /\ NoBackup.manifest = "none"
    BY DEF NoBackup, BackupRow
  <2>2. /\ pc[j] \in Early /\ Goto(j, "leave")
        /\ backup' = [backup EXCEPT ![j] = NoBackup]
        /\ clock' \in Nat /\ UNCHANGED <<day, targets>>
    BY <1>2, <1>7 DEF BackupFails, Early
  <2> QED BY <2>1, <2>2, PairWritten, Zenon
<1>8. CASE TakeBack(j)
  <2> DEFINE b == [old EXCEPT !.db = "none"]
  <2>1. b \in BackupRow /\ b.stamp = old.stamp /\ b.db = "none" /\ b.manifest = old.manifest
    BY <1>2 DEF BackupRow
  <2>2. /\ pc[j] \notin Early /\ old.stamp > 0 /\ Goto(j, "withdraw")
        /\ backup' = [backup EXCEPT ![j] = b]
        /\ UNCHANGED <<clock, day, targets>>
    BY <1>8 DEF TakeBack, At, Early, ManifestInv, TakenBack
  <2> HIDE DEF b
  <2> QED BY <2>1, <2>2, PairTakenBack, Zenon
<1>9. CASE RemoveManifest(j)
  <2> DEFINE b == [old EXCEPT !.manifest = "none"]
  <2>1. /\ pc[j] = "withdraw" /\ Goto(j, "leave")
        /\ backup' = [backup EXCEPT ![j] = b]
        /\ UNCHANGED <<clock, day, targets>>
    BY <1>9 DEF RemoveManifest, At
  <2>2. b \in BackupRow /\ b.stamp = old.stamp /\ b.db = "none" /\ b.manifest = "none"
    BY <1>2, <2>1 DEF BackupRow, ManifestInv, TakenBack, Gone
  <2>3. pc[j] \notin Early /\ old.stamp > 0
    BY <2>1 DEF Early, ManifestInv, TakenBack, Gone
  <2> HIDE DEF b
  <2> QED BY <2>1, <2>2, <2>3, PairTakenBack, Zenon
<1> QED BY <1>1, <1>4, <1>5, <1>6, <1>7, <1>8, <1>9 DEF Work

\* Retention unlinks the database before the manifest.
LEMMA CleanKeepsPairs ==
  ASSUME ManifestInv, NEW c \in Cleaner, Clean(c)
  PROVE  ManifestInv'
<1> DEFINE j == NewestOf(targets[c])
<1>1. CASE Plan(c)
  <2>1. Inventory \subseteq Job /\ \A k \in Inventory : backup[k].stamp > 0
    BY DEF Inventory, Valid, ManifestInv, Stamped
  <2>2. /\ targets' = [targets EXCEPT ![c] = Inventory \ Keep]
        /\ pc' = [pc EXCEPT ![c] = "apply"]
        /\ UNCHANGED <<backup, clock, day>>
    BY <1>1 DEF Plan, Goto
  <2>3. BackupType' /\ TargetsPublished'
    BY <2>1, <2>2 DEF ManifestInv, BackupType, TargetsPublished
  <2>4. Unpublished' /\ Stamped' /\ ManifestOutlivesDatabase' /\ TakenBack'
    BY <2>2 DEF ManifestInv, BackupType, Unpublished, Stamped, ManifestOutlivesDatabase, TakenBack,
        Gone, Early, Process
  <2>5. DatabaseFirst'
    <3> SUFFICES ASSUME NEW d \in Cleaner, pc'[d] = "manifest"
                 PROVE  Gone(NewestOf(targets[d]))'
      BY DEF DatabaseFirst
    <3>1. d # c /\ pc[d] = "manifest" /\ targets'[d] = targets[d]
      BY <2>2 DEF ManifestInv, BackupType, Process
    <3>2. Gone(NewestOf(targets[d]))
      BY <3>1 DEF ManifestInv, DatabaseFirst
    <3> QED BY <2>2, <3>1, <3>2 DEF Gone, NewestOf
  <2> QED BY <2>3, <2>4, <2>5 DEF ManifestInv
<1>2. CASE Applied(c)
  BY <1>2, PairsRest DEF Applied, At, Early, Process
<1>3. CASE Delete(c) /\ ~(j \in Job /\ Valid(j))
  <2>1. /\ j \notin Job \/ Goto(c, "failed")
        /\ \E where \in {"failed", "manifest"} : Goto(c, where)
        /\ UNCHANGED <<backup, clock, day, targets>>
    BY <1>3 DEF Delete, ManifestInv, BackupType
  <2>2. /\ BackupType' /\ TargetsPublished' /\ Unpublished' /\ Stamped' /\ ManifestOutlivesDatabase'
        /\ TakenBack'
    BY <2>1 DEF ManifestInv, BackupType, Unpublished, Stamped, TargetsPublished,
        ManifestOutlivesDatabase, TakenBack, Gone, Goto, Early, Process
  <2>3. DatabaseFirst'
    <3> SUFFICES ASSUME NEW d \in Cleaner, pc'[d] = "manifest"
                 PROVE  Gone(NewestOf(targets[d]))'
      BY DEF DatabaseFirst
    <3>1. Gone(NewestOf(targets[d]))
      <4>1. CASE d = c
        <5>1. ~Goto(c, "failed")
          BY <4>1 DEF Goto, ManifestInv, BackupType, Process
        <5> QED BY <2>1, <4>1, <5>1 DEF Gone
      <4>2. CASE d # c
        <5>1. pc[d] = "manifest"
          BY <2>1, <4>2 DEF Goto, ManifestInv, BackupType, Process
        <5> QED BY <5>1 DEF ManifestInv, DatabaseFirst
      <4> QED BY <4>1, <4>2
    <3> QED BY <2>1, <3>1 DEF Gone, NewestOf
  <2> QED BY <2>2, <2>3 DEF ManifestInv
<1>4. CASE Delete(c) /\ j \in Job /\ Valid(j)
  <2> DEFINE b == [backup[j] EXCEPT !.db = "none"]
  <2>1. b \in BackupRow /\ b.manifest = "whole" /\ b.db = "none" /\ b.stamp = backup[j].stamp /\ b.stamp > 0
    BY <1>4 DEF Valid, ManifestInv, BackupType, BackupRow, Stamped
  <2>2. backup' = [backup EXCEPT ![j] = b] /\ Goto(c, "manifest") /\ UNCHANGED <<clock, day, targets>>
    BY <1>4 DEF Delete, FirstUnlinked
  <2> HIDE DEF b
  <2>3. /\ b.stamp > 0 => backup[j].stamp = b.stamp
        /\ b.manifest = "whole" => b.stamp > 0
        /\ b.stamp > 0 /\ b.db = "whole" => b.manifest = "whole"
        /\ backup[j].stamp > 0 => b.stamp = backup[j].stamp /\ b.db \in {backup[j].db, "none"}
        /\ UNCHANGED targets
    BY <2>1, <2>2
  <2>4. /\ backup' \in [Job -> BackupRow]
        /\ Stamped' /\ TargetsPublished' /\ ManifestOutlivesDatabase'
        /\ \A d \in Cleaner : NewestOf(targets[d])' = NewestOf(targets[d])
        /\ \A k \in Job : Gone(k) => Gone(k)'
        /\ \A k \in Job : backup[k].stamp > 0 => backup'[k].stamp > 0
    BY <1>4, <2>1, <2>2, <2>3, PairChanges, Zenon
  <2>5. Unpublished'
    BY <2>1, <2>2, <1>4 DEF ManifestInv, BackupType, Unpublished, Goto, Early, Process
  <2>6. DatabaseFirst'
    <3> SUFFICES ASSUME NEW d \in Cleaner, pc'[d] = "manifest"
                 PROVE  Gone(NewestOf(targets[d]))'
      BY DEF DatabaseFirst
    <3>1. CASE d = c
      <4>1. backup'[j].stamp > 0 /\ backup'[j].db = "none"
        BY <1>4, <2>1, <2>2 DEF ManifestInv, BackupType
      <4> QED BY <3>1, <4>1, <2>4 DEF Gone
    <3>2. CASE d # c
      <4>1. pc[d] = "manifest"
        BY <2>2, <3>2 DEF Goto, ManifestInv, BackupType, Process
      <4>2. Gone(NewestOf(targets[d]))
        BY <4>1 DEF ManifestInv, DatabaseFirst
      <4> QED BY <4>2, <2>4 DEF Gone
    <3> QED BY <3>1, <3>2
  <2>7. TakenBack'
    <3>1. \A k \in Job : pc'[k] \in {"published", "withdraw"} => pc'[k] = pc[k]
      BY <2>2 DEF Goto, ManifestInv, BackupType, Process
    <3> QED BY <2>4, <3>1 DEF ManifestInv, TakenBack
  <2> QED BY <2>2, <2>4, <2>5, <2>6, <2>7 DEF ManifestInv, BackupType, Goto
<1>5. CASE DeleteManifest(c)
  <2>1. /\ pc[c] = "manifest"
        /\ backup' = [backup EXCEPT ![j].manifest = "none"]
        /\ targets' = [targets EXCEPT ![c] = @ \ {j}]
        /\ \E where \in {"failed", "apply"} : Goto(c, where)
        /\ UNCHANGED <<clock, day>>
    BY <1>5 DEF DeleteManifest, At
  <2>2. Gone(j)
    BY <2>1 DEF ManifestInv, DatabaseFirst
  <2> HIDE DEF j
  <2>3. \A k \in Job : /\ backup'[k].stamp = backup[k].stamp
                       /\ backup'[k].db = backup[k].db
                       /\ k # j => backup'[k] = backup[k]
                       /\ k = j => backup[k].db = "none" /\ backup'[k].manifest = "none"
    BY <2>1, <2>2 DEF ManifestInv, BackupType, BackupRow, Gone
  <2>4. BackupType'
    BY <2>1 DEF ManifestInv, BackupType, BackupRow, Goto
  <2>5. Stamped' /\ ManifestOutlivesDatabase'
    BY <2>3 DEF ManifestInv, Stamped, ManifestOutlivesDatabase
  <2>6. Unpublished'
    BY <2>1, <2>3 DEF ManifestInv, BackupType, Unpublished, Goto, Early, Process
  <2>7. TargetsPublished'
    BY <2>1, <2>3 DEF ManifestInv, BackupType, TargetsPublished
  <2>8. DatabaseFirst'
    <3> SUFFICES ASSUME NEW d \in Cleaner, pc'[d] = "manifest"
                 PROVE  Gone(NewestOf(targets[d]))'
      BY DEF DatabaseFirst
    <3>1. d # c /\ pc[d] = "manifest" /\ targets'[d] = targets[d]
      BY <2>1 DEF Goto, ManifestInv, BackupType, Process
    <3>2. Gone(NewestOf(targets[d]))
      BY <3>1 DEF ManifestInv, DatabaseFirst
    <3>3. \A k \in targets[d] : backup'[k].stamp = backup[k].stamp
      BY <2>3 DEF ManifestInv, BackupType
    <3>4. NewestOf(targets[d])' = NewestOf(targets[d])
      BY <3>1, <3>3, SameNewest DEF NewestOf
    <3> QED BY <2>3, <3>2, <3>4 DEF Gone
  <2>9. TakenBack'
    <3>1. \A k \in Job : pc'[k] \in {"published", "withdraw"} => pc'[k] = pc[k]
      BY <2>1 DEF Goto, ManifestInv, BackupType, Process
    <3> QED BY <2>3, <3>1 DEF ManifestInv, TakenBack, Gone
  <2> QED BY <2>4, <2>5, <2>6, <2>7, <2>8, <2>9 DEF ManifestInv
<1> QED BY <1>1, <1>2, <1>3, <1>4, <1>5 DEF Clean

\* A published database has its manifest, for any number of jobs and retention
\* runs and wherever they die.
THEOREM DatabaseGoesFirst == Spec => []ManifestOutlivesDatabase
<1>1. Init => ManifestInv
  BY DEF Init, ManifestInv, BackupType, BackupRow, NoBackup, Unpublished, Stamped,
         TargetsPublished, DatabaseFirst, TakenBack, ManifestOutlivesDatabase, Process
<1>2. ManifestInv /\ [Next]_vars => ManifestInv'
  <2> SUFFICES ASSUME ManifestInv, [Next]_vars PROVE ManifestInv'
    OBVIOUS
  <2>1. CASE \E p \in Process : Crash(p)
    BY <2>1, PairsRest DEF Crash, Early
  <2>2. CASE Tomorrow \/ Finished \/ UNCHANGED vars
    <3>1. UNCHANGED <<pc, backup, clock, targets>> /\ day' \in Nat
      BY <2>2 DEF Tomorrow, Finished, vars, ManifestInv, BackupType
    <3> QED BY <3>1 DEF ManifestInv, BackupType, Unpublished, Stamped, TargetsPublished,
                        DatabaseFirst, TakenBack, ManifestOutlivesDatabase, Gone, NewestOf
  <2> QED BY <2>1, <2>2, EnterKeepsPairs, WorkKeepsPairs, CleanKeepsPairs DEF Next, Process
<1>3. ManifestInv => ManifestOutlivesDatabase
  BY DEF ManifestInv
<1> QED BY <1>1, <1>2, <1>3, PTL DEF Spec

-----------------------------------------------------------------------------
(***************************************************************************)
(* A job that has no other beside it.                                      *)
(***************************************************************************)
\* nothing of the process is in a lock file before it has written its payload
Unwritten == {"new", "create", "read", "inspect", "compare", "unlink", "recreate", "write"}
Own(j) == pc[j] \in Unwritten => j \notin written

Lone(j) == j \in alone => \A k \in Job : Running(j) /\ Running(k) => j = k

\* what it has found at the lock path is still there, until it is gone for good
Found(j) ==
  j \in alone =>
    /\ pc[j] \in {"read", "inspect", "compare", "unlink"} => file # Nobody
    /\ pc[j] \in {"inspect", "compare"} => expected[j] = Content
    /\ pc[j] = "recreate" => file = Nobody
    /\ pc[j] # "busy"

AloneInv ==
  /\ DOMAIN pc = Process /\ DOMAIN expected = Job
  /\ file \in Job \cup {Nobody} /\ written \subseteq Job
  /\ \A j \in Job : Own(j) /\ Lone(j) /\ Found(j)

\* A step of a running job is a matter of that job: the others that have been
\* alone have ended or have not begun.
LEMMA OneJobMoves ==
  ASSUME AloneInv, NEW j \in Job, Running(j), NEW where, Goto(j, where),
         UNCHANGED alone, DOMAIN expected' = Job,
         file' \in Job \cup {Nobody}, written' \subseteq written \cup {j},
         Own(j)', Found(j)'
  PROVE  AloneInv'
<1>1. pc'[j] = where /\ DOMAIN pc' = Process /\ \A k \in Job \ {j} : pc'[k] = pc[k]
  BY DEF AloneInv, Goto, Process
<1>2. ASSUME NEW k \in Job \ {j}
      PROVE  Own(k)' /\ Lone(k)' /\ Found(k)'
  <2>1. Own(k) /\ Lone(k) /\ Found(k)
    BY DEF AloneInv
  <2>2. Own(k)'
    BY <1>1, <2>1 DEF Own
  <2>3. k \in alone => ~Running(k)
    BY <2>1 DEF Lone
  <2>4. Lone(k)'
    BY <1>1, <2>3 DEF Lone, Running
  <2>5. Found(k)'
    BY <1>1, <2>1, <2>3 DEF Found, Running, Ended
  <2> QED BY <2>2, <2>4, <2>5
<1>3. Lone(j)'
  BY <1>1 DEF AloneInv, Lone, Running
<1>4. written' \subseteq Job
  BY DEF AloneInv
<1> QED BY <1>1, <1>2, <1>3, <1>4 DEF AloneInv

LEMMA StartKeepsAlone ==
  ASSUME AloneInv, NEW j \in Job, Start(j)
  PROVE  AloneInv'
<1>1. /\ pc[j] = "new" /\ pc'[j] = "create" /\ DOMAIN pc' = Process
      /\ \A k \in Job \ {j} : pc'[k] = pc[k]
      /\ UNCHANGED <<file, written, expected>>
  BY DEF Start, AloneInv, At, Goto, Process, lockVars
<1>2. /\ alone' \subseteq alone
      /\ (\E k \in Job : Running(k)) => \A k \in Job : k \in alone' => k # j /\ ~Running(k)
  BY DEF Start
<1>3. \A k \in Job : Own(k)'
  BY <1>1 DEF AloneInv, Own, Unwritten
<1>4. \A k \in Job : Found(k)'
  BY <1>1, <1>2 DEF AloneInv, Found, Content
<1>5. ASSUME NEW k \in Job, NEW l \in Job, k \in alone', Running(k)', Running(l)'
      PROVE  k = l
  <2>1. CASE \E i \in Job : Running(i)
    <3>1. k # j /\ ~Running(k)
      BY <1>2, <1>5, <2>1
    <3> QED BY <1>1, <1>5, <3>1 DEF Running
  <2>2. CASE ~\E i \in Job : Running(i)
    <3>1. ~Running(k) /\ ~Running(l)
      BY <2>2
    <3> QED BY <1>1, <1>5, <3>1 DEF Running
  <2> QED BY <2>1, <2>2
<1>6. \A k \in Job : Lone(k)'
  BY <1>5 DEF Lone
<1> QED BY <1>1, <1>3, <1>4, <1>6 DEF AloneInv

LEMMA EnterKeepsAlone ==
  ASSUME AloneInv, NEW j \in Job, Enter(j)
  PROVE  AloneInv'
<1> USE DEF At
<1>1. /\ file \in Job \cup {Nobody} /\ written \subseteq Job /\ DOMAIN expected = Job
      /\ j \in Process /\ DOMAIN pc = Process
      /\ Own(j) /\ Lone(j) /\ Found(j)
  BY DEF AloneInv, Process
<1>2. CASE Start(j)
  BY <1>2, StartKeepsAlone
<1>3. CASE Create(j)
  <2>1. /\ Running(j) /\ pc[j] \in {"create", "recreate"}
        /\ UNCHANGED <<written, expected, alone>>
    BY <1>3 DEF Create, Running, Ended
  <2>2. CASE file = Nobody
    <3>1. Goto(j, "write") /\ file' = j
      BY <1>3, <2>2 DEF Create, Exclusive
    <3>2. Own(j)' /\ Found(j)'
      BY <1>1, <2>1, <3>1 DEF Own, Found, Goto, Unwritten
    <3> QED BY <1>1, <2>1, <3>1, <3>2, OneJobMoves
  <2>3. CASE file # Nobody
    <3>1. Goto(j, IF pc[j] = "create" THEN "read" ELSE "busy") /\ file' = file
      BY <1>3, <2>3 DEF Create, Exclusive
    <3>2. pc'[j] = IF pc[j] = "create" THEN "read" ELSE "busy"
      BY <1>1, <3>1 DEF Goto
    <3>3. Own(j)' /\ Found(j)'
      BY <1>1, <2>1, <2>3, <3>1, <3>2 DEF Own, Found, Unwritten
    <3> QED BY <1>1, <2>1, <3>1, <3>3, OneJobMoves
  <2> QED BY <2>2, <2>3
<1>4. CASE Read(j)
  <2>1. /\ Running(j) /\ pc[j] = "read" /\ Goto(j, "inspect")
        /\ expected' = [expected EXCEPT ![j] = Content]
        /\ UNCHANGED <<file, written, alone>>
    BY <1>4 DEF Read, Running, Ended
  <2>2. Own(j)' /\ Found(j)'
    BY <1>1, <2>1 DEF Own, Found, Goto, Unwritten, Content
  <2> QED BY <1>1, <2>1, <2>2, OneJobMoves
<1>5. CASE Inspect(j)
  <2>1. /\ Running(j) /\ pc[j] = "inspect"
        /\ Goto(j, IF NamesLiveProcess THEN "busy" ELSE "compare")
        /\ UNCHANGED <<file, written, expected, alone>>
    BY <1>5 DEF Inspect, Running, Ended, lockVars
  <2>2. j \in alone => ~NamesLiveProcess
    BY <1>1, <2>1, BackupAssumption DEF NamesLiveProcess, Content, Lone, Own, Unwritten
  <2>3. pc'[j] = IF NamesLiveProcess THEN "busy" ELSE "compare"
    BY <1>1, <2>1 DEF Goto
  <2>4. Own(j)' /\ Found(j)'
    BY <1>1, <2>1, <2>2, <2>3 DEF Own, Found, Unwritten, Content
  <2> QED BY <1>1, <2>1, <2>4, OneJobMoves
<1>6. CASE Compare(j)
  <2>1. /\ Running(j) /\ pc[j] = "compare"
        /\ Goto(j, IF MayUnlink(j) THEN "unlink" ELSE "busy")
        /\ UNCHANGED <<file, written, alone>> /\ DOMAIN expected' = Job
    BY <1>1, <1>6 DEF Compare, Running, Ended
  <2>2. j \in alone => MayUnlink(j)
    BY <1>1, <2>1 DEF MayUnlink, Found
  <2>3. pc'[j] = IF MayUnlink(j) THEN "unlink" ELSE "busy"
    BY <1>1, <2>1 DEF Goto
  <2>4. Own(j)' /\ Found(j)'
    BY <1>1, <2>1, <2>2, <2>3 DEF Own, Found, Unwritten
  <2> QED BY <1>1, <2>1, <2>4, OneJobMoves
<1>7. CASE Unlink(j)
  <2>1. /\ Running(j) /\ pc[j] = "unlink" /\ file' = Nobody
        /\ Goto(j, IF file = Nobody THEN "busy" ELSE "recreate")
        /\ UNCHANGED <<written, expected, alone>>
    BY <1>7 DEF Unlink, Running, Ended
  <2>2. pc'[j] = IF file = Nobody THEN "busy" ELSE "recreate"
    BY <1>1, <2>1 DEF Goto
  <2>3. Own(j)' /\ Found(j)'
    BY <1>1, <2>1, <2>2 DEF Own, Found, Unwritten
  <2> QED BY <1>1, <2>1, <2>3, OneJobMoves
<1>8. CASE WritePayload(j) \/ WriteFails(j)
  <2>1. /\ Running(j) /\ written' \subseteq written \cup {j} /\ file' \in {file, Nobody}
        /\ UNCHANGED <<expected, alone>>
    BY <1>8 DEF WritePayload, WriteFails, Running, Ended
  <2>2. PICK where \in {"held", "failed"} : Goto(j, where)
    BY <1>8 DEF WritePayload, WriteFails
  <2>3. Own(j)' /\ Found(j)'
    BY <1>1, <2>2 DEF Own, Found, Goto, Unwritten
  <2> QED BY <1>1, <2>1, <2>2, <2>3, OneJobMoves
<1> QED BY <1>2, <1>3, <1>4, <1>5, <1>6, <1>7, <1>8 DEF Enter

LEMMA WorkKeepsAlone ==
  ASSUME AloneInv, NEW j \in Job, Work(j) \/ Crash(j)
  PROVE  AloneInv'
<1>1. /\ Running(j) /\ UNCHANGED <<written, expected, alone>> /\ file' \in {file, Nobody}
      /\ \E where \in {"reserved", "replaced", "published", "withdraw", "leave", "unlink own", "done", "dead"} :
           Goto(j, where)
  BY DEF Work, Reserve, Replace, Publish, BackupFails, TakeBack, RemoveManifest, Leave, UnlinkOwn,
         Crash, lockVars, At, Running, Ended
<1>2. PICK where \in {"reserved", "replaced", "published", "withdraw", "leave", "unlink own", "done", "dead"} :
        Goto(j, where)
  BY <1>1
<1>3. Own(j)' /\ Found(j)'
  BY <1>2 DEF AloneInv, Own, Found, Goto, Unwritten, Process
<1> QED BY <1>1, <1>2, <1>3, OneJobMoves DEF AloneInv

\* What a dead job leaves behind, in whatever state, keeps no job out that has
\* had no other beside it.
THEOREM DeadMarkersYield == Spec => []DeadNeverBlocks
<1>1. Init => AloneInv
  BY DEF Init, AloneInv, Own, Lone, Found, Running, Ended, Process
<1>2. AloneInv /\ [Next]_vars => AloneInv'
  <2> SUFFICES ASSUME AloneInv, [Next]_vars PROVE AloneInv'
    OBVIOUS
  <2>1. ASSUME \/ \E c \in Cleaner : Clean(c) \/ Crash(c)
               \/ Tomorrow \/ Finished \/ UNCHANGED vars
        PROVE  AloneInv'
    <3>1. /\ UNCHANGED <<lockVars, alone>> /\ DOMAIN pc' = DOMAIN pc
          /\ \A j \in Job : pc'[j] = pc[j]
      BY <2>1, BackupAssumption
         DEF Clean, Plan, Delete, DeleteManifest, Applied, Crash, Goto, Tomorrow, Finished, vars,
             lockVars, AloneInv, Process
    <3> QED BY <3>1 DEF AloneInv, Own, Lone, Found, Running, Content, lockVars
  <2> QED BY <2>1, EnterKeepsAlone, WorkKeepsAlone DEF Next
<1>3. AloneInv => DeadNeverBlocks
  BY DEF AloneInv, Found, DeadNeverBlocks, At
<1> QED BY <1>1, <1>2, <1>3, PTL DEF Spec

-----------------------------------------------------------------------------
(***************************************************************************)
(* What retention keeps.  A backup that is overtaken within its period, or *)
(* whose period is overtaken by as many as are kept, is so for ever; a     *)
(* plan, however old, holds none but those.  A backup taken back goes on   *)
(* overtaking the others, since a plan may have counted it.                *)
(***************************************************************************)
Periods(kind, S) == {Period(kind, j) : j \in S}
Later(kind, S, x) == {q \in Periods(kind, S) : q > Period(kind, x)}
Overtaken(kind, S, x) ==
  \/ Limit(kind) <= Cardinality(Later(kind, S, x))
  \/ \E k \in S : Period(kind, k) = Period(kind, x) /\ backup[k].stamp > backup[x].stamp
Superseded(x) == x \in Published /\ \A kind \in Kinds : Overtaken(kind, Published, x)

StampsApart ==
  /\ \A j \in Job : backup[j].stamp <= clock
  /\ \A j, k \in Published : backup[j].stamp = backup[k].stamp => j = k

Copied == \A j \in Job : pc[j] = "replaced" => backup[j].db = "whole"

LostSuperseded == \A j \in Published : Valid(j) \/ Superseded(j) \/ j \in withdrawn
TargetsSuperseded == \A c \in Cleaner : \A j \in targets[c] : Superseded(j)

KeptInv == ManifestInv /\ StampsApart /\ Copied /\ LostSuperseded /\ TargetsSuperseded

LEMMA Least ==
  ASSUME NEW T, T \subseteq Nat, T # {}
  PROVE  \E x \in T : \A y \in T : x <= y
<1> DEFINE R == OpToRel(<, Nat)
<1>1. IsWellFoundedOn(R, Nat)
  BY NatLessThanWellFounded
<1>2. PICK x \in T : \A y \in T : <<y, x>> \notin R
  BY <1>1, WFMin
<1>3. \A y \in T : ~(y < x)
  BY <1>2 DEF OpToRel
<1> QED BY <1>3

LEMMA FiniteImage ==
  ASSUME NEW S, IsFiniteSet(S), NEW f
  PROVE  IsFiniteSet({f[j] : j \in S})
<1> DEFINE T == {f[j] : j \in S}
           g == [j \in S |-> f[j]]
<1>1. g \in Surjection(S, T)
  BY DEF Surjection
<1> QED BY <1>1, FS_Surjection

LEMMA MoreOfThem ==
  ASSUME NEW A, NEW B, A \subseteq B, IsFiniteSet(B)
  PROVE  Cardinality(A) \in Nat /\ Cardinality(B) \in Nat /\ Cardinality(A) <= Cardinality(B)
BY FS_Subset, FS_CardinalityType

LEMMA LimitType ==
  ASSUME NEW kind
  PROVE  Limit(kind) \in Nat
BY BackupAssumption DEF Limit

\* The newest of some backups is one of them, and none of them is newer.
LEMMA NewestIs ==
  ASSUME BackupType, StampsApart, NEW S, S \subseteq Job, S # {}
  PROVE  /\ NewestOf(S) \in S
         /\ \A k \in S : backup[k].stamp <= backup[NewestOf(S)].stamp
<1> DEFINE T == {clock - backup[j].stamp : j \in S}
<1>1. \A j \in S : backup[j].stamp \in Nat /\ backup[j].stamp <= clock /\ clock \in Nat
  BY DEF BackupType, BackupRow, StampsApart
<1>2. T \subseteq Nat /\ T # {}
  BY <1>1
<1>3. PICK x \in T : \A y \in T : x <= y
  BY <1>2, Least
<1>4. PICK j \in S : x = clock - backup[j].stamp
  BY <1>3
<1>5. \A k \in S : backup[k].stamp <= backup[j].stamp
  <2> SUFFICES ASSUME NEW k \in S PROVE backup[k].stamp <= backup[j].stamp
    OBVIOUS
  <2>1. clock - backup[j].stamp <= clock - backup[k].stamp
    BY <1>3, <1>4
  <2> QED BY <1>1, <2>1
<1> QED BY <1>5 DEF NewestOf

LEMMA FinitePeriods ==
  ASSUME NEW S, S \subseteq Job, NEW kind
  PROVE  IsFiniteSet(Periods(kind, S))
<1> DEFINE f == [j \in S |-> Period(kind, j)]
<1>1. IsFiniteSet(S)
  BY BackupAssumption, FS_Subset
<1>2. IsFiniteSet({f[j] : j \in S})
  BY <1>1, FiniteImage
<1>3. {f[j] : j \in S} = Periods(kind, S)
  BY DEF Periods
<1> QED BY <1>2, <1>3

\* Of the backups S, those that are not among the newest are overtaken, and
\* those among the newest are not.
LEMMA NewestOrOvertaken ==
  ASSUME BackupType, StampsApart, NEW S, S \subseteq Published, NEW kind,
         NEW x
  PROVE  x \in Newest(kind, S, Limit(kind)) <=> x \in S /\ ~Overtaken(kind, S, x)
<1> DEFINE n == Limit(kind)
           Of(p) == {j \in S : Period(kind, j) = p}
           After(p) == {q \in Periods(kind, S) : q > p}
<1>1. Newest(kind, S, n) = {NewestOf(Of(p)) : p \in {p \in Periods(kind, S) : Cardinality(After(p)) < n}}
  BY DEF Newest, Periods
<1>2. S \subseteq Job
  BY DEF Published
<1>3. ASSUME NEW p \in Periods(kind, S)
      PROVE  /\ NewestOf(Of(p)) \in Of(p)
             /\ \A k \in Of(p) : backup[k].stamp <= backup[NewestOf(Of(p))].stamp
             /\ Cardinality(After(p)) \in Nat
  <2>1. Of(p) # {} /\ Of(p) \subseteq Job
    BY <1>2 DEF Periods
  <2>2. Cardinality(After(p)) \in Nat
    BY <1>2, FinitePeriods, MoreOfThem
  <2> HIDE DEF Of
  <2> QED BY <2>1, <2>2, NewestIs
<1>4. n \in Nat /\ \A k \in S : backup[k].stamp \in Nat
  BY <1>2, LimitType DEF BackupType, BackupRow
<1>5. ASSUME x \in Newest(kind, S, n)
      PROVE  x \in S /\ ~Overtaken(kind, S, x)
  <2>1. PICK p \in Periods(kind, S) : Cardinality(After(p)) < n /\ x = NewestOf(Of(p))
    BY <1>1, <1>5
  <2>2. x \in S /\ Period(kind, x) = p
    BY <1>3, <2>1
  <2>3. Later(kind, S, x) = After(p)
    BY <2>2 DEF Later
  <2>4. ~(n <= Cardinality(After(p)))
    BY <1>3, <1>4, <2>1
  <2>5. \A k \in S : Period(kind, k) = p => ~(backup[k].stamp > backup[x].stamp)
    BY <1>3, <1>4, <2>1, <2>2
  <2> QED BY <2>2, <2>3, <2>4, <2>5 DEF Overtaken
<1>6. ASSUME x \in S, ~Overtaken(kind, S, x)
      PROVE  x \in Newest(kind, S, n)
  <2> DEFINE p == Period(kind, x)
             y == NewestOf(Of(p))
  <2>1. p \in Periods(kind, S) /\ Later(kind, S, x) = After(p)
    BY <1>6 DEF Periods, Later
  <2>2. y \in S /\ Period(kind, y) = p /\ backup[x].stamp <= backup[y].stamp
    BY <1>3, <1>6, <2>1
  <2>3. Cardinality(After(p)) < n
    <3>1. Cardinality(After(p)) \in Nat
      BY <1>3, <2>1
    <3>2. ~(n <= Cardinality(After(p)))
      BY <1>6, <2>1 DEF Overtaken
    <3> QED BY <1>4, <3>1, <3>2
  <2>4. backup[y].stamp = backup[x].stamp
    BY <1>4, <1>6, <2>2 DEF Overtaken
  <2>5. y = x
    BY <1>6, <2>2, <2>4 DEF StampsApart
  <2> HIDE DEF y
  <2> QED BY <1>1, <2>1, <2>3, <2>5 DEF y
<1> QED BY <1>5, <1>6

\* More backups overtake no less.
LEMMA OvertakenGrows ==
  ASSUME NEW S, NEW T, S \subseteq T, T \subseteq Job, NEW kind, NEW x, Overtaken(kind, S, x)
  PROVE  Overtaken(kind, T, x)
<1>1. Later(kind, S, x) \subseteq Later(kind, T, x)
  BY DEF Later, Periods
<1>2. IsFiniteSet(Later(kind, T, x))
  BY FinitePeriods, FS_Subset DEF Later
<1>3. /\ Cardinality(Later(kind, S, x)) \in Nat /\ Cardinality(Later(kind, T, x)) \in Nat
      /\ Cardinality(Later(kind, S, x)) <= Cardinality(Later(kind, T, x)) /\ Limit(kind) \in Nat
  BY <1>1, <1>2, MoreOfThem, LimitType
<1> QED BY <1>3 DEF Overtaken

\* What is superseded stays so while published backups keep their stamp and day.
LEMMA SupersededStays ==
  ASSUME \A j \in Published : backup'[j].stamp = backup[j].stamp /\ backup'[j].day = backup[j].day,
         NEW x, Superseded(x)
  PROVE  Superseded(x)'
<1>1. \A j \in Published : /\ j \in Published'
                           /\ backup'[j].stamp = backup[j].stamp
                           /\ \A kind : Period(kind, j)' = Period(kind, j)
  BY DEF Published, Period
<1>2. ASSUME NEW kind \in Kinds
      PROVE  Overtaken(kind, Published, x)'
  <2>1. x \in Published /\ Overtaken(kind, Published, x)
    BY <1>2 DEF Superseded
  <2>2. Later(kind, Published, x) \subseteq Later(kind, Published, x)'
    BY <1>1, <2>1 DEF Later, Periods
  <2>3. IsFiniteSet(Later(kind, Published, x)')
    <3> DEFINE f == [j \in Published' |-> Period(kind, j)']
    <3>1. IsFiniteSet(Published')
      BY BackupAssumption, FS_Subset DEF Published
    <3>2. IsFiniteSet({f[j] : j \in Published'})
      BY <3>1, FiniteImage
    <3>3. Later(kind, Published, x)' \subseteq {f[j] : j \in Published'}
      BY DEF Later, Periods
    <3> QED BY <3>2, <3>3, FS_Subset
  <2>4. /\ Cardinality(Later(kind, Published, x)) \in Nat
        /\ Cardinality(Later(kind, Published, x)') \in Nat
        /\ Cardinality(Later(kind, Published, x)) <= Cardinality(Later(kind, Published, x)')
        /\ Limit(kind) \in Nat /\ Limit(kind)' = Limit(kind)
    BY <2>2, <2>3, MoreOfThem, LimitType DEF Limit
  <2>5. CASE Limit(kind) <= Cardinality(Later(kind, Published, x))
    BY <2>4, <2>5 DEF Overtaken
  <2>6. CASE \E k \in Published : Period(kind, k) = Period(kind, x) /\ backup[k].stamp > backup[x].stamp
    BY <1>1, <2>1, <2>6 DEF Overtaken
  <2> QED BY <2>1, <2>5, <2>6 DEF Overtaken
<1> QED BY <1>1, <1>2 DEF Superseded

\* A step keeps the invariant if published backups keep their stamp and day,
\* and if it makes a plan of superseded ones, and deletes one of them or its own.
LEMMA StepKeeps ==
  ASSUME KeptInv, ManifestInv', StampsApart', Copied',
         \A j \in Published : backup'[j].stamp = backup[j].stamp /\ backup'[j].day = backup[j].day,
         withdrawn \subseteq withdrawn',
         \A j \in Published' : Valid(j)' \/ j \in withdrawn'
                              \/ (j \in Published /\ (Superseded(j) \/ ~Valid(j))),
         \A c \in Cleaner : \A j \in targets'[c] : j \in targets[c] \/ Superseded(j)
  PROVE  KeptInv'
<1>1. LostSuperseded'
  BY SupersededStays DEF KeptInv, LostSuperseded
<1>2. TargetsSuperseded'
  BY SupersededStays DEF KeptInv, TargetsSuperseded
<1> QED BY <1>1, <1>2 DEF KeptInv

\* Where no backup changes, nor the plans.
LEMMA KeptRests ==
  ASSUME KeptInv, ManifestInv', UNCHANGED <<backup, withdrawn, clock, targets>>,
         \A j \in Job : pc'[j] = "replaced" => pc[j] = "replaced"
  PROVE  KeptInv'
<1>1. StampsApart' /\ Copied' /\ Published' = Published /\ \A j : Valid(j)' = Valid(j)
  BY DEF KeptInv, StampsApart, Copied, Published, Valid
<1>2. \A j \in Published' : Valid(j)' \/ (j \in Published /\ (Superseded(j) \/ ~Valid(j)))
  BY <1>1
<1> QED BY <1>1, <1>2, StepKeeps

LEMMA EnterKeepsKept ==
  ASSUME KeptInv, NEW j \in Job, Enter(j)
  PROVE  KeptInv'
<1>1. ManifestInv'
  BY EnterKeepsPairs DEF KeptInv
<1>2. UNCHANGED <<backup, withdrawn, clock, targets>>
      /\ \A k \in Job : pc'[k] = "replaced" => pc[k] = "replaced"
  BY DEF Enter, Start, Create, Read, Inspect, Compare, Unlink, WritePayload, WriteFails, Goto,
         KeptInv, ManifestInv, BackupType, Process
<1> QED BY <1>1, <1>2, KeptRests

\* A job that has not published changes nothing that is; it publishes a copy.
LEMMA WorkKeepsKept ==
  ASSUME KeptInv, NEW j \in Job, Work(j)
  PROVE  KeptInv'
<1>1. ManifestInv'
  BY WorkKeepsPairs DEF KeptInv
<1>2. /\ DOMAIN pc = Process /\ j \in Process /\ backup \in [Job -> BackupRow]
      /\ clock \in Nat /\ day \in Nat
  BY DEF KeptInv, ManifestInv, BackupType, Process
<1>3. CASE Leave(j) \/ UnlinkOwn(j)
  <2>1. /\ UNCHANGED <<backup, withdrawn, clock, targets>>
        /\ \E where \in {"unlink own", "done"} : Goto(j, where)
    BY <1>3 DEF Leave, UnlinkOwn
  <2>2. \A k \in Job : pc'[k] = "replaced" => pc[k] = "replaced"
    BY <1>2, <2>1 DEF Goto, Process
  <2> QED BY <1>1, <2>1, <2>2, KeptRests
<1>4. CASE Reserve(j) \/ Replace(j) \/ BackupFails(j)
  <2>1. /\ backup[j].stamp = 0 /\ backup'[j].stamp = 0
        /\ \A k \in Job \ {j} : backup'[k] = backup[k]
        /\ UNCHANGED <<withdrawn, clock, targets>>
    <3>1. pc[j] \in Early /\ UNCHANGED <<withdrawn, clock, targets>>
      BY <1>4 DEF Reserve, Replace, BackupFails, At, Early
    <3>2. backup[j].stamp = 0
      BY <3>1 DEF KeptInv, ManifestInv, Unpublished
    <3>3. PICK b \in BackupRow : b.stamp = backup[j].stamp /\ backup' = [backup EXCEPT ![j] = b]
      <4>1. CASE Reserve(j)
        <5> DEFINE b == [backup[j] EXCEPT !.db = "reserved", !.manifest = "reserved"]
        <5>1. b \in BackupRow /\ b.stamp = backup[j].stamp
          BY <1>2 DEF BackupRow
        <5>2. backup' = [backup EXCEPT ![j] = b]
          BY <4>1 DEF Reserve
        <5> QED BY <5>1, <5>2
      <4>2. CASE Replace(j)
        <5> DEFINE b == [backup[j] EXCEPT !.db = "whole"]
        <5>1. b \in BackupRow /\ b.stamp = backup[j].stamp
          BY <1>2 DEF BackupRow
        <5>2. backup' = [backup EXCEPT ![j] = b]
          BY <4>2 DEF Replace
        <5> QED BY <5>1, <5>2
      <4>3. CASE BackupFails(j)
        <5>1. NoBackup \in BackupRow /\ NoBackup.stamp = 0
          BY DEF NoBackup, BackupRow
        <5> QED BY <3>2, <4>3, <5>1 DEF BackupFails
      <4> QED BY <1>4, <4>1, <4>2, <4>3
    <3> QED BY <1>2, <3>1, <3>2, <3>3
  <2>2. Copied'
    <3>1. \A k \in Job \ {j} : pc'[k] = pc[k]
      BY <1>2, <1>4 DEF Reserve, Replace, BackupFails, Goto, Process
    <3>2. ASSUME pc'[j] = "replaced" PROVE backup'[j].db = "whole"
      <4>1. Replace(j)
        BY <1>2, <1>4, <3>2 DEF Reserve, BackupFails, Goto
      <4> QED BY <1>2, <4>1 DEF Replace, BackupRow
    <3> QED BY <2>1, <3>1, <3>2 DEF KeptInv, Copied
  <2>3. Published' = Published /\ \A k \in Published : backup'[k] = backup[k]
    BY <2>1 DEF Published
  <2>4. StampsApart'
    BY <2>1, <2>3 DEF KeptInv, StampsApart
  <2>5. \A k \in Published' : Valid(k)' \/ (k \in Published /\ (Superseded(k) \/ ~Valid(k)))
    BY <2>3 DEF Valid
  <2> QED BY <1>1, <2>1, <2>2, <2>3, <2>4, <2>5, StepKeeps
<1>5. CASE Publish(j)
  <2>1. /\ pc[j] = "replaced" /\ pc'[j] = "published" /\ \A k \in Job \ {j} : pc'[k] = pc[k]
        /\ clock' = clock + 1 /\ UNCHANGED <<withdrawn, targets>>
    BY <1>2, <1>5 DEF Publish, At, Goto, Process
  <2>2. backup[j].stamp = 0 /\ backup[j].db = "whole"
    BY <2>1 DEF KeptInv, ManifestInv, Unpublished, Early, Copied
  <2>3. /\ backup'[j].stamp = clock + 1 /\ backup'[j].db = "whole" /\ backup'[j].manifest = "whole"
        /\ \A k \in Job \ {j} : backup'[k] = backup[k]
    <3> DEFINE b == [backup[j] EXCEPT !.manifest = "whole", !.stamp = clock', !.day = day]
    <3>1. backup' = [backup EXCEPT ![j] = b]
      BY <1>5 DEF Publish
    <3>2. b.stamp = clock + 1 /\ b.db = "whole" /\ b.manifest = "whole"
      BY <1>2, <2>1, <2>2 DEF BackupRow
    <3> HIDE DEF b
    <3> QED BY <1>2, <3>1, <3>2
  <2>4. Published' = Published \cup {j} /\ j \notin Published
        /\ \A k \in Published : backup'[k] = backup[k]
    BY <1>2, <2>2, <2>3 DEF Published
  <2>5. Copied'
    BY <2>1, <2>3 DEF KeptInv, Copied
  <2>6. StampsApart'
    <3>1. \A k \in Job : backup[k].stamp \in Nat /\ backup[k].stamp <= clock
      BY <1>2 DEF KeptInv, StampsApart, BackupRow
    <3>2. \A k \in Job : backup'[k].stamp <= clock'
      BY <1>2, <2>1, <2>3, <3>1
    <3>3. \A k \in Published : k \in Job /\ backup'[k].stamp = backup[k].stamp /\ backup'[k].stamp # clock + 1
      BY <1>2, <2>4, <3>1 DEF Published
    <3>4. ASSUME NEW k \in Published', NEW l \in Published', backup'[k].stamp = backup'[l].stamp
          PROVE  k = l
      <4>1. CASE k \in Published /\ l \in Published
        BY <3>3, <3>4, <4>1 DEF KeptInv, StampsApart
      <4>2. CASE k = j \/ l = j
        BY <2>3, <2>4, <3>3, <3>4, <4>2
      <4> QED BY <2>4, <4>1, <4>2
    <3> QED BY <3>2, <3>4 DEF StampsApart
  <2>7. \A k \in Published' : Valid(k)' \/ (k \in Published /\ (Superseded(k) \/ ~Valid(k)))
    BY <2>3, <2>4 DEF Valid
  <2> QED BY <1>1, <2>1, <2>4, <2>5, <2>6, <2>7, StepKeeps
<1>6. CASE TakeBack(j) \/ RemoveManifest(j)
  <2>1. /\ \A k \in Job : backup'[k].stamp = backup[k].stamp /\ backup'[k].day = backup[k].day
        /\ \A k \in Job \ {j} : backup'[k] = backup[k] /\ pc'[k] = pc[k]
        /\ pc'[j] \in {"withdraw", "leave"} /\ UNCHANGED <<clock, targets>>
    BY <1>2, <1>6 DEF TakeBack, RemoveManifest, Goto, BackupRow, Process
  <2>2. withdrawn \subseteq withdrawn' /\ (j \in withdrawn' \/ ~Valid(j))
    BY <1>6 DEF TakeBack, RemoveManifest, At, Valid, KeptInv, ManifestInv, TakenBack, Gone
  <2>3. Published' = Published
    BY <2>1 DEF Published
  <2>4. StampsApart' /\ Copied'
    BY <2>1, <2>3 DEF KeptInv, StampsApart, Copied, Published
  <2>5. \A k \in Published' : Valid(k)' \/ k \in withdrawn'
                             \/ (k \in Published /\ (Superseded(k) \/ ~Valid(k)))
    BY <2>1, <2>2, <2>3 DEF Valid, Published
  <2> QED BY <1>1, <2>1, <2>2, <2>4, <2>5, StepKeeps DEF Published
<1> QED BY <1>3, <1>4, <1>5, <1>6 DEF Work

\* Where only retention moves.
LEMMA CleanKeepsKept ==
  ASSUME KeptInv, NEW c \in Cleaner, Clean(c)
  PROVE  KeptInv'
<1>1. ManifestInv'
  BY CleanKeepsPairs DEF KeptInv
<1>2. /\ DOMAIN pc = Process /\ backup \in [Job -> BackupRow] /\ UNCHANGED <<withdrawn, clock>>
      /\ targets \in [Cleaner -> SUBSET Job] /\ \A k \in Job : pc'[k] = pc[k]
  BY BackupAssumption DEF Clean, Plan, Delete, DeleteManifest, Applied, Goto, KeptInv, ManifestInv,
     BackupType, Process
<1>3. CASE Applied(c)
  <2>1. UNCHANGED <<backup, withdrawn, clock, targets>>
    BY <1>3 DEF Applied
  <2> QED BY <1>1, <1>2, <2>1, KeptRests
<1>4. CASE Plan(c)
  <2>1. UNCHANGED <<backup, clock>> /\ targets' = [targets EXCEPT ![c] = Inventory \ Keep]
    BY <1>4 DEF Plan
  <2>2. ASSUME NEW x \in Inventory \ Keep PROVE Superseded(x)
    <3>1. Inventory \subseteq Published /\ x \in Inventory /\ Published \subseteq Job
      BY DEF Inventory, Valid, Published, KeptInv, ManifestInv, Stamped
    <3>2. ASSUME NEW kind \in Kinds PROVE Overtaken(kind, Published, x)
      <4>1. x \notin Newest(kind, Inventory, Limit(kind))
        BY <3>2 DEF Keep
      <4>2. Overtaken(kind, Inventory, x)
        BY <3>1, <4>1, NewestOrOvertaken DEF KeptInv, ManifestInv
      <4> QED BY <3>1, <4>2, OvertakenGrows
    <3> QED BY <3>1, <3>2 DEF Superseded
  <2>3. StampsApart' /\ Copied' /\ Published' = Published /\ \A k : Valid(k)' = Valid(k)
    BY <1>2, <2>1 DEF KeptInv, StampsApart, Copied, Published, Valid
  <2>4. \A d \in Cleaner : \A k \in targets'[d] : k \in targets[d] \/ Superseded(k)
    BY <1>2, <2>1, <2>2
  <2>5. \A k \in Published' : Valid(k)' \/ (k \in Published /\ (Superseded(k) \/ ~Valid(k)))
    BY <2>3
  <2> QED BY <1>1, <1>2, <2>1, <2>3, <2>4, <2>5, StepKeeps
<1>5. CASE Delete(c) \/ DeleteManifest(c)
  <2> DEFINE j == NewestOf(targets[c])
  <2>1. \A d \in Cleaner : targets'[d] \subseteq targets[d]
    BY <1>2, <1>5 DEF Delete, DeleteManifest
  <2>2. j \in Job /\ Valid(j) => Superseded(j) \/ backup' = backup
    <3>1. CASE Delete(c)
      <4>1. targets[c] # {} /\ targets[c] \subseteq Job
        BY <1>2, <3>1 DEF Delete
      <4>2. j \in targets[c]
        BY <4>1, NewestIs DEF KeptInv, ManifestInv
      <4> QED BY <4>2 DEF KeptInv, TargetsSuperseded
    <3>2. CASE DeleteManifest(c)
      BY <3>2 DEF DeleteManifest, At, KeptInv, ManifestInv, DatabaseFirst, Gone, Valid
    <3> QED BY <1>5, <3>1, <3>2
  <2> HIDE DEF j
  <2>3. \A k \in Job : /\ backup'[k].stamp = backup[k].stamp /\ backup'[k].day = backup[k].day
                       /\ backup'[k].db \in {backup[k].db, "none"}
                       /\ k # j => backup'[k] = backup[k]
    BY <1>2, <1>5 DEF Delete, DeleteManifest, FirstUnlinked, BackupRow, j
  <2>4. Published' = Published
    BY <2>3 DEF Published
  <2>5. StampsApart'
    BY <1>2, <2>3, <2>4 DEF KeptInv, StampsApart, Published
  <2>6. Copied'
    <3>1. ASSUME NEW k \in Job, pc[k] = "replaced" PROVE backup'[k] = backup[k]
      <4>1. backup[k].stamp = 0
        BY <3>1 DEF KeptInv, ManifestInv, Unpublished, Early
      <4>2. k = j => backup' = backup
        <5>1. CASE Delete(c)
          <6>1. k = j => ~Valid(j)
            BY <4>1 DEF Valid, KeptInv, ManifestInv, Stamped
          <6> QED BY <5>1, <6>1 DEF Delete, j
        <5>2. CASE DeleteManifest(c)
          BY <4>1, <5>2 DEF DeleteManifest, At, KeptInv, ManifestInv, DatabaseFirst, Gone, j
        <5> QED BY <1>5, <5>1, <5>2
      <4> QED BY <2>3, <4>2
    <3> QED BY <1>2, <3>1 DEF KeptInv, Copied
  <2>7. \A k \in Published' : Valid(k)' \/ (k \in Published /\ (Superseded(k) \/ ~Valid(k)))
    BY <2>2, <2>3, <2>4 DEF Valid, Published
  <2> QED BY <1>1, <1>2, <2>1, <2>3, <2>4, <2>5, <2>6, <2>7, StepKeeps DEF Published
<1> QED BY <1>3, <1>4, <1>5 DEF Clean

\* Of all backups ever published, the newest of each of the newest days and
\* weeks can be restored unless its own job has taken it back, for any number of
\* jobs and retention runs, whatever inventory they have planned on and wherever
\* they die.
THEOREM NewestAreKept == Spec => []PeriodsKept
<1>1. Init => KeptInv
  <2> SUFFICES ASSUME Init PROVE KeptInv
    OBVIOUS
  <2>1. ManifestInv
    BY DEF Init, ManifestInv, BackupType, BackupRow, NoBackup, Unpublished, Stamped,
         TargetsPublished, DatabaseFirst, TakenBack, ManifestOutlivesDatabase, Process
  <2>2. \A j \in Job : backup[j].stamp = 0 /\ pc[j] = "new"
    BY DEF Init, NoBackup, Process
  <2>3. StampsApart /\ Copied /\ LostSuperseded
    BY <2>2 DEF Init, StampsApart, Copied, LostSuperseded, Published
  <2>4. TargetsSuperseded
    BY DEF Init, TargetsSuperseded
  <2> QED BY <2>1, <2>3, <2>4 DEF KeptInv
<1>2. KeptInv /\ [Next]_vars => KeptInv'
  <2> SUFFICES ASSUME KeptInv, [Next]_vars PROVE KeptInv'
    OBVIOUS
  <2>1. CASE \E p \in Process : Crash(p)
    <3>1. ManifestInv'
      BY <2>1, PairsRest DEF Crash, Early, KeptInv
    <3>2. UNCHANGED <<backup, withdrawn, clock, targets>>
          /\ \A k \in Job : pc'[k] = "replaced" => pc[k] = "replaced"
      BY <2>1 DEF Crash, Goto, KeptInv, ManifestInv, BackupType, Process
    <3> QED BY <3>1, <3>2, KeptRests
  <2>2. CASE Tomorrow \/ Finished \/ UNCHANGED vars
    <3>1. UNCHANGED <<pc, backup, withdrawn, clock, targets>> /\ day' \in Nat
      BY <2>2 DEF Tomorrow, Finished, vars, KeptInv, ManifestInv, BackupType
    <3>2. ManifestInv'
      BY <3>1 DEF KeptInv, ManifestInv, BackupType, Unpublished, Stamped, TargetsPublished,
                  DatabaseFirst, TakenBack, ManifestOutlivesDatabase, Gone, NewestOf
    <3> QED BY <3>1, <3>2, KeptRests
  <2> QED BY <2>1, <2>2, EnterKeepsKept, WorkKeepsKept, CleanKeepsKept DEF Next, Process
<1>3. KeptInv => PeriodsKept
  <2> SUFFICES ASSUME KeptInv, NEW kind \in Kinds, NEW x \in Newest(kind, Published, Limit(kind))
               PROVE  Valid(x) \/ x \in withdrawn
    BY DEF PeriodsKept
  <2>1. x \in Published /\ ~Overtaken(kind, Published, x)
    BY NewestOrOvertaken DEF KeptInv, ManifestInv
  <2> QED BY <2>1 DEF KeptInv, LostSuperseded, Superseded
<1> QED BY <1>1, <1>2, <1>3, PTL DEF Spec
=============================================================================
