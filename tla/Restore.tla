------------------------------- MODULE Restore -------------------------------
(***************************************************************************)
(* The files of a restore (meco_news/backup.py, restore_backup) and of the *)
(* recovery that every opening writer and every later restore makes when   *)
(* it finds a restore interrupted (meco_news/storage.py,                   *)
(* _recover_interrupted_restore_files).                                    *)
(*                                                                         *)
(* A database is its version: the one found at the start, the one each     *)
(* restorer installs, or a fresh one that an opener creates where it finds *)
(* none.  One sidecar stands for -wal, -shm and -journal.  What restored   *)
(* databases contain is in Reconcile; when the guard is held is in         *)
(* Maintenance.                                                            *)
(***************************************************************************)
EXTENDS Naturals, FiniteSets

CONSTANTS Restorer,   \* processes that run --restore, once each
          Opener,     \* processes that open a StateStore to write
          None,       \* no file, no process
          Overlap,    \* TRUE if processes touch the files at the same time
          MaxFaults   \* bound on crashes and failing file operations

ASSUME RestoreAssumption ==
  /\ None \notin Restorer \cup Opener \cup {"bak", "target", "orphan", "old", "fresh"}
  /\ Restorer \cap {"bak", "target", "orphan", "old", "fresh"} = {}
  /\ Restorer \cap Opener = {}
  /\ Overlap \in BOOLEAN
  /\ MaxFaults \in Nat

Process == Restorer \cup Opener

\* "bak" is the rollback name a restore prefers; when it is taken the restore
\* uses a unique name, here its own
Previous == {"bak"} \cup Restorer
Name == {"target", "orphan"} \cup Previous
Version == {"old", "fresh"} \cup Restorer

VARIABLES main,     \* Name -> the version of the database file there, or None
          wal,      \* Name -> the version whose commits the sidecar there holds
          intent,   \* the rollback name in the intent record, or None
          guard,    \* the restorer that holds exclusive maintenance, or None
          pc,       \* Process -> where it is
          prev,     \* Process -> the rollback name it has read or reserved
          moved,    \* Restorer -> what it moved away: "main", "wal", "orphan"
          before,   \* Restorer -> the database it found under the guard
          broken,   \* a recovery or a rollback was itself interrupted or failed
          faults

vars == <<main, wal, intent, guard, pc, prev, moved, before, broken, faults>>
files == <<main, wal, intent>>

Recovering == {"read", "test", "back", "backWal", "settle"}
Swapping == {"build", "move", "moveWal", "install", "clear", "cleared"}
RollingBack == {"unlink", "undoWal", "undoMain", "undoIntent"}
Resting == {"idle", "open", "done", "failed", "dead"}

Init ==
  /\ \E d \in {"old", None}, hot \in BOOLEAN :
       /\ main = [n \in Name |-> IF n = "target" THEN d ELSE None]
       /\ wal = [n \in Name |-> IF n = "target" /\ hot THEN "old" ELSE None]
  /\ intent = None
  /\ guard = None
  /\ pc = [p \in Process |-> "idle"]
  /\ prev = [p \in Process |-> None]
  /\ moved = [r \in Restorer |-> {}]
  /\ before = [r \in Restorer |-> None]
  /\ broken = FALSE
  /\ faults = 0

-----------------------------------------------------------------------------
At(n) == main[n] # None

Goto(p, where) == pc' = [pc EXCEPT ![p] = where]

\* os.replace of a database or of a sidecar, over whatever is at b
MoveMain(a, b) == main' = [main EXCEPT ![b] = main[a], ![a] = None]
MoveWal(a, b) == wal' = [wal EXCEPT ![b] = wal[a], ![a] = None]

\* the name a restore reserves for the database it moves away
FreePrevious(r) == IF ~At("bak") /\ wal["bak"] = None THEN "bak" ELSE r

\* without Overlap nobody starts while another process is at the files
MayStart(p) == ~Overlap => \A q \in Process \ {p} : pc[q] \in Resting

-----------------------------------------------------------------------------
\* The recovery of an interrupted restore, the same for openers and restorers

Start(p) ==
  /\ pc[p] = "idle"
  /\ MayStart(p)
  /\ Goto(p, "read")
  /\ UNCHANGED <<files, guard, prev, moved, before, broken, faults>>

AfterRecovery(p) == IF p \in Opener THEN "check" ELSE "acquire"
Refused(p) == IF p \in Opener THEN "idle" ELSE "failed"

SlipNoLegacy(p) ==                                       \* ReadIntent
  /\ pc[p] = "read"
  /\ prev' = [prev EXCEPT ![p] = intent]
  /\ IF intent # None
     THEN Goto(p, "test")
     ELSE Goto(p, AfterRecovery(p))
  /\ UNCHANGED <<files, guard, moved, before, broken, faults>>

\* reads the intent record; without one, a missing database next to the
\* preferred rollback name needs an operator
ReadIntent(p) ==
  /\ pc[p] = "read"
  /\ prev' = [prev EXCEPT ![p] = intent]
  /\ IF intent # None
     THEN Goto(p, "test")
     ELSE Goto(p, IF ~At("target") /\ At("bak") THEN Refused(p) ELSE AfterRecovery(p))
  /\ UNCHANGED <<files, guard, moved, before, broken, faults>>

TestTarget(p) ==
  /\ pc[p] = "test"
  /\ Goto(p, IF ~At("target") /\ At(prev[p]) THEN "back" ELSE "settle")
  /\ UNCHANGED <<files, guard, prev, moved, before, broken, faults>>

MainBack(p) ==
  /\ pc[p] = "back"
  /\ IF At(prev[p]) THEN MoveMain(prev[p], "target") ELSE UNCHANGED main
  /\ Goto(p, "backWal")
  /\ UNCHANGED <<wal, intent, guard, prev, moved, before, broken, faults>>

SlipMainOnly(p) ==                                       \* WalBack
  /\ pc[p] = "backWal"
  /\ Goto(p, "settle")
  /\ UNCHANGED <<files, guard, prev, moved, before, broken, faults>>

WalBack(p) ==
  /\ pc[p] = "backWal"
  /\ IF wal[prev[p]] # None /\ wal["target"] = None
     THEN MoveWal(prev[p], "target") ELSE UNCHANGED wal
  /\ Goto(p, "settle")
  /\ UNCHANGED <<main, intent, guard, prev, moved, before, broken, faults>>

\* with a database in place the record is removed; without one the opener
\* raises, while restore_backup ignores the answer needs_operator
SettleIntent(p) ==
  /\ pc[p] = "settle"
  /\ intent' = IF At("target") THEN None ELSE intent
  /\ Goto(p, IF p \in Opener /\ ~At("target") THEN "idle" ELSE AfterRecovery(p))
  /\ UNCHANGED <<main, wal, guard, prev, moved, before, broken, faults>>

-----------------------------------------------------------------------------
\* A writer: it opens unless maintenance is held, commits to its sidecar and
\* checkpoints when the last connection closes.  SQLite drops a sidecar that
\* it finds next to no database.

OpenStore(o) ==
  /\ pc[o] = "check"
  /\ IF guard # None
     THEN Goto(o, "idle") /\ UNCHANGED main
     ELSE /\ Goto(o, "open")
          /\ main' = IF At("target") THEN main ELSE [main EXCEPT !["target"] = "fresh"]
  /\ wal' = IF guard = None /\ ~At("target") THEN [wal EXCEPT !["target"] = None] ELSE wal
  /\ UNCHANGED <<intent, guard, prev, moved, before, broken, faults>>

Commit(o) ==
  /\ pc[o] = "open"
  /\ wal["target"] = None
  /\ wal' = [wal EXCEPT !["target"] = main["target"]]
  /\ UNCHANGED <<main, intent, guard, pc, prev, moved, before, broken, faults>>

CloseStore(o) ==
  /\ pc[o] = "open"
  /\ Goto(o, "idle")
  /\ wal' = IF \E q \in Opener \ {o} : pc[q] = "open" THEN wal
            ELSE [wal EXCEPT !["target"] = None]
  /\ UNCHANGED <<main, intent, guard, prev, moved, before, broken, faults>>

-----------------------------------------------------------------------------
\* restore_backup under the guard

Acquire(r) ==
  /\ pc[r] = "acquire"
  /\ IF guard = None /\ \A o \in Opener : pc[o] # "open"
     THEN /\ guard' = r
          /\ before' = [before EXCEPT ![r] = main["target"]]
          /\ Goto(r, "build")
     ELSE Goto(r, "failed") /\ UNCHANGED <<guard, before>>
  /\ UNCHANGED <<files, prev, moved, broken, faults>>

\* the temporary database is built and verified, and the intent is written
\* when there is a database to move away
WriteIntent(r) ==
  /\ pc[r] = "build"
  /\ IF At("target")
     THEN /\ prev' = [prev EXCEPT ![r] = FreePrevious(r)]
          /\ intent' = FreePrevious(r)
     ELSE /\ prev' = [prev EXCEPT ![r] = None]
          /\ UNCHANGED intent
  /\ Goto(r, "move")
  /\ UNCHANGED <<main, wal, guard, moved, before, broken, faults>>

MoveAway(r) ==
  /\ pc[r] = "move"
  /\ IF At("target")
     THEN /\ prev[r] # None
          /\ MoveMain("target", prev[r])
          /\ moved' = [moved EXCEPT ![r] = {"main"}]
          /\ Goto(r, "moveWal")
     ELSE Goto(r, "moveWal") /\ UNCHANGED <<main, moved>>
  /\ UNCHANGED <<wal, intent, guard, prev, before, broken, faults>>

SlipLeaveOrphan(r) ==                                    \* MoveSidecar
  /\ pc[r] = "moveWal"
  /\ IF wal["target"] # None /\ "main" \in moved[r]
     THEN /\ MoveWal("target", prev[r])
          /\ moved' = [moved EXCEPT ![r] = @ \cup {"wal"}]
     ELSE UNCHANGED <<wal, moved>>
  /\ Goto(r, "install")
  /\ UNCHANGED <<main, intent, guard, prev, before, broken, faults>>

\* the sidecar follows its database; one without a database is set aside,
\* because SQLite could attach it to the restored file
MoveSidecar(r) ==
  /\ pc[r] = "moveWal"
  /\ IF wal["target"] = None
     THEN UNCHANGED <<wal, moved>>
     ELSE IF "main" \in moved[r]
     THEN /\ MoveWal("target", prev[r])
          /\ moved' = [moved EXCEPT ![r] = @ \cup {"wal"}]
     ELSE /\ MoveWal("target", "orphan")
          /\ moved' = [moved EXCEPT ![r] = @ \cup {"orphan"}]
  /\ Goto(r, "install")
  /\ UNCHANGED <<main, intent, guard, prev, before, broken, faults>>

Install(r) ==
  /\ pc[r] = "install"
  /\ main' = [main EXCEPT !["target"] = r]
  /\ Goto(r, "clear")
  /\ UNCHANGED <<wal, intent, guard, prev, moved, before, broken, faults>>

ClearIntent(r) ==
  /\ pc[r] = "clear"
  /\ intent' = None
  /\ Goto(r, "cleared")
  /\ UNCHANGED <<main, wal, guard, prev, moved, before, broken, faults>>

Finish(r) ==
  /\ pc[r] = "cleared"
  /\ guard' = None
  /\ Goto(r, "done")
  /\ UNCHANGED <<files, prev, moved, before, broken, faults>>

SlipKeepInstalled(r) ==                                  \* Fail
  /\ pc[r] \in Swapping
  /\ faults < MaxFaults
  /\ faults' = faults + 1
  /\ Goto(r, "undoWal")
  /\ UNCHANGED <<files, guard, prev, moved, before, broken>>

\* a step raises and the except clause rolls back: the installed file goes,
\* then the sidecars and the database return
Fail(r) ==
  /\ pc[r] \in Swapping
  /\ faults < MaxFaults
  /\ faults' = faults + 1
  /\ Goto(r, IF pc[r] \in {"clear", "cleared"} THEN "unlink" ELSE "undoWal")
  /\ UNCHANGED <<files, guard, prev, moved, before, broken>>

Unlink(r) ==
  /\ pc[r] = "unlink"
  /\ main' = [main EXCEPT !["target"] = None]
  /\ Goto(r, "undoWal")
  /\ UNCHANGED <<wal, intent, guard, prev, moved, before, broken, faults>>

UndoSidecar(r) ==
  /\ pc[r] = "undoWal"
  /\ LET from == IF "wal" \in moved[r] THEN prev[r] ELSE "orphan"
         some == moved[r] \cap {"wal", "orphan"} # {}
     IN  IF some /\ wal[from] # None /\ wal["target"] = None
         THEN MoveWal(from, "target") ELSE UNCHANGED wal
  /\ Goto(r, "undoMain")
  /\ UNCHANGED <<main, intent, guard, prev, moved, before, broken, faults>>

UndoMain(r) ==
  /\ pc[r] = "undoMain"
  /\ IF "main" \in moved[r] /\ At(prev[r]) /\ ~At("target")
     THEN MoveMain(prev[r], "target") ELSE UNCHANGED main
  /\ Goto(r, "undoIntent")
  /\ UNCHANGED <<wal, intent, guard, prev, moved, before, broken, faults>>

UndoIntent(r) ==
  /\ pc[r] = "undoIntent"
  /\ intent' = IF At("target") THEN None ELSE intent
  /\ guard' = None
  /\ Goto(r, "failed")
  /\ UNCHANGED <<main, wal, prev, moved, before, broken, faults>>

-----------------------------------------------------------------------------
\* the steps of the recovery and of the rollback whose errors are suppressed,
\* and what comes after each
Suppressed == [back |-> "backWal", backWal |-> "settle",
               unlink |-> "undoWal", undoWal |-> "undoMain", undoMain |-> "undoIntent"]

Suppress(p) ==
  /\ pc[p] \in DOMAIN Suppressed
  /\ faults < MaxFaults
  /\ faults' = faults + 1
  /\ broken' = TRUE
  /\ Goto(p, Suppressed[pc[p]])
  /\ UNCHANGED <<files, guard, prev, moved, before>>

\* removing the intent record is best effort, too
KeepIntent(p) ==
  /\ faults < MaxFaults
  /\ faults' = faults + 1
  /\ \/ pc[p] = "settle" /\ At("target") /\ Goto(p, AfterRecovery(p)) /\ UNCHANGED guard
     \/ pc[p] = "clear" /\ Goto(p, "cleared") /\ UNCHANGED guard
     \/ pc[p] = "undoIntent" /\ Goto(p, "failed") /\ guard' = None
  /\ UNCHANGED <<files, prev, moved, before, broken>>

\* a process ends where it is; its guard is released with it
Crash(p) ==
  /\ pc[p] \notin Resting \/ pc[p] = "open"
  /\ faults < MaxFaults
  /\ faults' = faults + 1
  /\ guard' = IF guard = p THEN None ELSE guard
  /\ broken' = (broken \/ pc[p] \in RollingBack \cup {"backWal"})
  /\ Goto(p, IF p \in Opener THEN "idle" ELSE "dead")
  /\ UNCHANGED <<files, prev, moved, before>>

Recover(p) ==
  \/ Start(p) \/ ReadIntent(p) \/ TestTarget(p)
  \/ MainBack(p) \/ WalBack(p) \/ SettleIntent(p)

Swap(r) ==
  \/ Acquire(r) \/ WriteIntent(r) \/ MoveAway(r) \/ MoveSidecar(r)
  \/ Install(r) \/ ClearIntent(r) \/ Finish(r) \/ Fail(r)
  \/ Unlink(r) \/ UndoSidecar(r) \/ UndoMain(r) \/ UndoIntent(r)

Next ==
  \/ \E p \in Process : Recover(p) \/ Suppress(p) \/ KeepIntent(p) \/ Crash(p)
  \/ \E o \in Opener : OpenStore(o) \/ Commit(o) \/ CloseStore(o)
  \/ \E r \in Restorer : Swap(r)

Spec == Init /\ [][Next]_vars
-----------------------------------------------------------------------------
\* Properties

TypeOK ==
  /\ main \in [Name -> Version \cup {None}]
  /\ wal \in [Name -> Version \cup {None}]
  /\ intent \in Previous \cup {None}
  /\ guard \in Restorer \cup {None}
  /\ pc \in [Process -> Recovering \cup Swapping \cup RollingBack \cup Resting
                         \cup {"check", "acquire"}]
  /\ prev \in [Process -> Previous \cup {None}]
  /\ moved \in [Restorer -> SUBSET {"main", "wal", "orphan"}]
  /\ before \in [Restorer -> Version \cup {None}]
  /\ broken \in BOOLEAN
  /\ \A r \in Restorer : (guard = r) <=> (pc[r] \in Swapping \cup RollingBack)
  /\ faults \in 0..MaxFaults

\* The sidecar beside the database in place holds commits of that database:
\* SQLite never attaches the WAL of the replaced file to the restored one
\* (restore_backup moves or sets aside every sidecar before it installs).
NoForeignSidecar ==
  ~broken /\ At("target") /\ wal["target"] # None => wal["target"] = main["target"]

\* Wherever a restore ends or dies, the next process to open the state finds
\* one whole database, in place or through the intent record, and every
\* commit in a sidecar of it (the fault matrix of restore_backup and its
\* recovery: the old state or the new one, never a hybrid).
Found == IF At("target") THEN "target" ELSE intent
OldOrNew ==
  LET someRestore == \E r \in Restorer : before[r] # None
      atRest == \A p \in Process : pc[p] \in Resting
  IN  ~broken /\ someRestore /\ atRest =>
        /\ Found # None
        /\ At(Found)
        /\ \A n \in Name : wal[n] = main[Found] => n \in {Found, "target"}

\* No opener creates an empty database while an earlier one survives under
\* another name, however restores, rollbacks and recoveries were interrupted
\* (the two refusals of _recover_interrupted_restore_files), unless a sidecar
\* lies alone under the preferred rollback name, which sends the rollback
\* database where the second refusal does not look.
CreatesFresh(o) == pc[o] = "check" /\ pc'[o] = "open" /\ ~At("target")
NeverFresh ==
  [][\A o \in Opener : CreatesFresh(o) => wal["bak"] # None \/ \A n \in Name : ~At(n)]_vars

\* The same without the exception (tests/test_group1_stop_data_loss.py: "an
\* interrupted restore auto-rolls back on next open (no silent fresh DB)"). It
\* does not hold: see the README.
NoSilentFresh == [][\A o \in Opener : CreatesFresh(o) => \A n \in Name : ~At(n)]_vars

\* What restore_backup reports is what is in place: the restored database if
\* it returns, and the database found under the guard if it raises and its
\* rollback went through.
ReportIsTrue ==
  [][\A r \in Restorer :
       /\ pc[r] = "cleared" /\ pc'[r] = "done" => main'["target"] = r
       /\ pc[r] = "undoIntent" /\ pc'[r] = "failed" /\ ~broken
            => main'["target"] = before[r]]_vars
=============================================================================
