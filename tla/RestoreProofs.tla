---------------------------- MODULE RestoreProofs ----------------------------
(***************************************************************************)
(* Restores, for any number of restorers and openers and any number of     *)
(* crashes and failing file operations, as long as no two processes are at *)
(* the files at the same time (RestoreRace shows what happens otherwise).  *)
(*                                                                         *)
(* PlaceInv is what holds in every case: whose turn it is, which rollback  *)
(* name is meant, and that a database is never without a name that the     *)
(* next recovery looks at.  WholeInv adds what holds until a recovery or a *)
(* rollback is itself cut short: with k the name of the intent record,     *)
(* Shape(k) says that there is one current database, in place or at k, and *)
(* that every sidecar is beside its own.                                   *)
(***************************************************************************)
EXTENDS Restore, TLAPS

Working(p) == pc[p] \notin Resting
InSwap(r) == pc[r] \in Swapping \cup RollingBack

\* places before the first rename, and after the installation
NotBegun == {"idle", "acquire", "build"} \cup Recovering
Installed == {"clear", "cleared", "unlink"}

-----------------------------------------------------------------------------
Roles ==
  /\ \A o \in Opener : pc[o] \in {"idle", "open", "check"} \cup Recovering
  /\ \A r \in Restorer : pc[r] \notin {"open", "check"}

Alone == \A p, q \in Process : Working(p) /\ Working(q) => p = q

Quiet == (\E r \in Restorer : InSwap(r)) => \A o \in Opener : pc[o] # "open"

Opened == \A o \in Opener : pc[o] = "open" => At("target")

\* what a recovery has read is still what the record says
Reads ==
  \A p \in Process :
    /\ pc[p] \in Recovering \ {"read"} => intent # None /\ prev[p] = intent
    /\ pc[p] = "back" => At(prev[p]) /\ ~At("target")
    /\ pc[p] = "backWal" => At("target") \/ At(prev[p])
    /\ pc[p] = "backWal" => \A o \in Opener : pc[o] # "open"

\* what a restore has moved
Moves ==
  \A r \in Restorer :
    /\ pc[r] \in NotBegun \cup {"move"} => moved[r] = {}
    /\ "wal" \in moved[r] => "main" \in moved[r]
    /\ "orphan" \in moved[r] => "main" \notin moved[r]
    /\ pc[r] = "move" /\ prev[r] # None => intent = prev[r]
    /\ pc[r] = "moveWal" => moved[r] \subseteq {"main"}
    /\ pc[r] \in {"moveWal", "install"} => ~At("target")
    /\ pc[r] \in Installed => main["target"] = r

HasMoved(r) == InSwap(r) /\ "main" \in moved[r]

\* the database a restore moved away is where the restore remembers it
Remembered ==
  \A r \in Restorer : HasMoved(r) =>
    /\ prev[r] # None /\ intent \in {prev[r], None}
    /\ pc[r] # "undoIntent" => At(prev[r])

\* The preferred rollback name is taken wherever a database may be under
\* another name, so that the refusal to create a fresh one applies.
Taken == main["bak"] # None \/ wal["bak"] # None
Noticed ==
  /\ intent \in Restorer => Taken
  /\ ~At("target") /\ (\E n \in Name : At(n)) => Taken
  /\ \A r \in Restorer :
       /\ (pc[r] = "move" \/ HasMoved(r)) /\ prev[r] \in Restorer => Taken
       /\ pc[r] \in Installed /\ "main" \notin moved[r] /\ (\E n \in Previous : At(n)) => Taken
  /\ \A o \in Opener : pc[o] = "check" => At("target") \/ ~At("bak")

PlaceInv ==
  /\ TypeOK /\ Roles /\ Alone /\ Quiet /\ Opened /\ Reads /\ Moves /\ Remembered /\ Noticed
  /\ main["orphan"] = None

-----------------------------------------------------------------------------
Distinct == \A m, n \in Name : At(m) /\ main[m] = main[n] => m = n

\* a sidecar set aside is of a database that was gone at the start
Aside == wal["orphan"] \in {None, "old"} /\ (wal["orphan"] = "old" => \A n \in Name : main[n] # "old")

\* there has been no database yet
Empty ==
  /\ \A n \in Name : ~At(n)
  /\ wal["target"] \in {None, "old"}
  /\ \A r \in Restorer : before[r] = None

Pair(a, b) == wal[a] \in {None, main[b]}

Shape(k) ==
  /\ Distinct /\ Aside
  /\ \A n \in Previous : Pair(n, n)
  /\ \/ At("target") /\ Pair("target", "target")
     \/ /\ ~At("target") /\ k # None /\ At(k)
        /\ Pair("target", k) /\ None \in {wal["target"], wal[k]}
     \/ k = None /\ Empty

\* the database is back, its sidecar perhaps not yet
Between(n) ==
  /\ Distinct /\ Aside
  /\ \A m \in Previous \ {n} : Pair(m, m)
  /\ At("target") /\ ~At(n)
  /\ Pair("target", "target") /\ Pair(n, "target") /\ None \in {wal["target"], wal[n]}

Undoing == {"undoWal", "undoMain"}

Shapes ==
  /\ \A p \in Process : pc[p] = "backWal" => Between(prev[p])
  /\ \A r \in Restorer : pc[r] \in Undoing =>
       Shape(IF "main" \in moved[r] THEN prev[r] ELSE intent)
  /\ (\A p \in Process : pc[p] \notin Undoing \cup {"backWal"}) => Shape(intent)

\* a restorer that has not begun has not used its version or its name
Unused ==
  \A r \in Restorer :
    /\ pc[r] \in NotBegun \cup {"move", "moveWal", "install"} => \A n \in Name : main[n] # r
    /\ pc[r] \in NotBegun => main[r] = None /\ wal[r] = None
    /\ pc[r] = "move" \/ HasMoved(r) => prev[r] \in {"bak", r, None}

\* what the steps of a restore find
Course(r) ==
  /\ pc[r] \in {"build", "move", "undoIntent"} => before[r] = main["target"]
  /\ pc[r] = "move" =>
       IF At("target")
       THEN prev[r] # None /\ main[prev[r]] = None /\ wal[prev[r]] = None
       ELSE intent = None
  /\ pc[r] \in {"moveWal", "install"} \cup Installed =>
       IF "main" \in moved[r]
       THEN /\ before[r] # None /\ main[prev[r]] = before[r]
            /\ pc[r] \in {"moveWal", "install"} => intent = prev[r]
            /\ "wal" \notin moved[r] => wal[prev[r]] = None
       ELSE /\ \A n \in Previous : ~At(n)
            /\ \A q \in Restorer : before[q] = None
            /\ intent = None
  /\ pc[r] \in {"install"} \cup Installed => wal["target"] = None
  /\ pc[r] \in Undoing =>
       IF "main" \in moved[r]
       THEN /\ before[r] # None /\ main[prev[r]] = before[r] /\ ~At("target")
            /\ "wal" \notin moved[r] => wal[prev[r]] = None
            /\ "wal" \in moved[r] /\ pc[r] = "undoWal" => wal["target"] = None
            /\ pc[r] = "undoMain" => wal[prev[r]] = None
       ELSE before[r] = main["target"] /\ (~At("target") => intent = None)
  /\ "orphan" \in moved[r] => before[r] = None

\* what a recovery leaves
Ready ==
  \A p \in Process :
    /\ pc[p] = "settle" => At("target")
    /\ pc[p] \in {"check", "acquire", "build"} => At("target") \/ intent = None

WholeInv == ~broken => Shapes /\ Unused /\ Ready /\ \A r \in Restorer : Course(r)

-----------------------------------------------------------------------------
(***************************************************************************)
(* Types and turns                                                         *)
(***************************************************************************)
LEMMA Names ==
  /\ "target" \in Name /\ "orphan" \in Name /\ "bak" \in Previous
  /\ Previous \subseteq Name /\ Restorer \subseteq Previous
  /\ Name = Previous \cup {"target", "orphan"} /\ Previous = Restorer \cup {"bak"}
  /\ "target" \notin Previous /\ "orphan" \notin Previous
  /\ "old" \in Version /\ "fresh" \in Version /\ Restorer \subseteq Version
  /\ "old" \notin Restorer /\ "fresh" \notin Restorer /\ "bak" \notin Restorer
  /\ None \notin Name /\ None \notin Version /\ None \notin Process
  /\ Process = Restorer \cup Opener /\ Restorer \cap Opener = {}
BY RestoreAssumption DEF Name, Previous, Version, Process

Files == [Name -> Version \cup {None}]

\* what MoveMain and MoveWal do, name by name
MainGoes(a, b) ==
  /\ main' \in Files /\ main'[b] = main[a] /\ main'[a] = None
  /\ \A n \in Name \ {a, b} : main'[n] = main[n]
WalGoes(a, b) ==
  /\ wal' \in Files /\ wal'[b] = wal[a] /\ wal'[a] = None
  /\ \A n \in Name \ {a, b} : wal'[n] = wal[n]

LEMMA MainMoved ==
  ASSUME main \in Files, NEW a \in Name, NEW b \in Name \ {a}, MoveMain(a, b)
  PROVE  MainGoes(a, b)
BY DEF MoveMain, MainGoes, Files

LEMMA WalMoved ==
  ASSUME wal \in Files, NEW a \in Name, NEW b \in Name \ {a}, MoveWal(a, b)
  PROVE  WalGoes(a, b)
BY DEF MoveWal, WalGoes, Files

LEMMA Typed ==
  ASSUME TypeOK
  PROVE  /\ main \in Files /\ wal \in Files
         /\ \A p \in Process : prev[p] # None => prev[p] \in Previous
BY DEF TypeOK, Files

\* the six steps that rename
LEMMA MainBackMoves ==
  ASSUME PlaceInv, NEW p \in Process, MainBack(p)
  PROVE  prev[p] \in Previous /\ At(prev[p]) /\ MainGoes(prev[p], "target")
<1>1. prev[p] \in Previous /\ At(prev[p])
  BY Typed DEF PlaceInv, Reads, MainBack, Recovering
<1> QED BY <1>1, Typed, Names, MainMoved DEF PlaceInv, MainBack

LEMMA WalBackMoves ==
  ASSUME PlaceInv, NEW p \in Process, WalBack(p)
  PROVE  /\ prev[p] \in Previous
         /\ IF wal[prev[p]] # None /\ wal["target"] = None
            THEN WalGoes(prev[p], "target") ELSE UNCHANGED wal
<1>1. prev[p] \in Previous
  BY Typed DEF PlaceInv, Reads, WalBack, Recovering
<1> QED BY <1>1, Typed, Names, WalMoved DEF PlaceInv, WalBack

LEMMA MoveAwayMoves ==
  ASSUME PlaceInv, NEW r \in Restorer, MoveAway(r)
  PROVE  IF At("target")
         THEN prev[r] \in Previous /\ MainGoes("target", prev[r]) /\ moved' = [moved EXCEPT ![r] = {"main"}]
         ELSE UNCHANGED <<main, moved>>
BY Typed, Names, MainMoved DEF PlaceInv, MoveAway

LEMMA MoveSidecarMoves ==
  ASSUME PlaceInv, NEW r \in Restorer, MoveSidecar(r)
  PROVE  IF wal["target"] = None THEN UNCHANGED <<wal, moved>>
         ELSE IF "main" \in moved[r]
         THEN /\ prev[r] \in Previous /\ WalGoes("target", prev[r])
              /\ moved' = [moved EXCEPT ![r] = @ \cup {"wal"}]
         ELSE /\ WalGoes("target", "orphan")
              /\ moved' = [moved EXCEPT ![r] = @ \cup {"orphan"}]
<1>1. "main" \in moved[r] => prev[r] \in Previous
  BY Typed, Names DEF PlaceInv, Remembered, HasMoved, InSwap, Swapping, MoveSidecar
<1> QED BY <1>1, Typed, Names, WalMoved DEF PlaceInv, MoveSidecar

\* where the rollback looks for the sidecar
Source(r) == IF "wal" \in moved[r] THEN prev[r] ELSE "orphan"

LEMMA UndoSidecarMoves ==
  ASSUME PlaceInv, NEW r \in Restorer, UndoSidecar(r)
  PROVE  IF /\ moved[r] \cap {"wal", "orphan"} # {}
            /\ wal[Source(r)] # None /\ wal["target"] = None
         THEN Source(r) \in Previous \cup {"orphan"} /\ WalGoes(Source(r), "target")
         ELSE UNCHANGED wal
<1>1. Source(r) \in Previous \cup {"orphan"}
  BY Typed, Names DEF PlaceInv, Remembered, HasMoved, InSwap, RollingBack, UndoSidecar, Moves, Source
<1> QED BY <1>1, Typed, Names, WalMoved DEF PlaceInv, UndoSidecar, Source

LEMMA UndoMainMoves ==
  ASSUME PlaceInv, NEW r \in Restorer, UndoMain(r)
  PROVE  IF "main" \in moved[r] /\ At(prev[r]) /\ ~At("target")
         THEN prev[r] \in Previous /\ MainGoes(prev[r], "target") ELSE UNCHANGED main
<1>1. "main" \in moved[r] => prev[r] \in Previous
  BY Typed, Names DEF PlaceInv, Remembered, HasMoved, InSwap, RollingBack, UndoMain
<1> QED BY <1>1, Typed, Names, MainMoved DEF PlaceInv, UndoMain

LEMMA Going ==
  ASSUME TypeOK, NEW p \in Process, NEW where, Goto(p, where)
  PROVE  pc'[p] = where /\ \A q \in Process \ {p} : pc'[q] = pc[q]
BY DEF Goto, TypeOK

\* an opener that finds no database makes one
LEMMA OpenStoreMakes ==
  ASSUME TypeOK, NEW o \in Opener, OpenStore(o)
  PROVE  \/ guard # None /\ Goto(o, "idle") /\ UNCHANGED <<main, wal>>
         \/ guard = None /\ At("target") /\ Goto(o, "open") /\ UNCHANGED <<main, wal>>
         \/ /\ guard = None /\ ~At("target") /\ Goto(o, "open")
            /\ main'["target"] = "fresh" /\ \A n \in Name \ {"target"} : main'[n] = main[n]
            /\ wal'["target"] = None /\ \A n \in Name \ {"target"} : wal'[n] = wal[n]
BY Typed, Names DEF OpenStore, Files

Skip(p) ==
  /\ \/ pc[p] = "back" /\ Goto(p, "backWal")
     \/ pc[p] = "backWal" /\ Goto(p, "settle")
     \/ pc[p] = "unlink" /\ Goto(p, "undoWal")
     \/ pc[p] = "undoWal" /\ Goto(p, "undoMain")
     \/ pc[p] = "undoMain" /\ Goto(p, "undoIntent")
  /\ broken' = TRUE
  /\ UNCHANGED <<main, wal, intent, guard, prev, moved, before>>

LEMMA Skips ==
  ASSUME NEW p \in Process, Suppress(p)
  PROVE  Skip(p)
BY DEF Suppress, Suppressed, Skip, files

LEMMA NextTypes ==
  ASSUME PlaceInv, [Next]_vars
  PROVE  TypeOK'
<1> USE Names DEF TypeOK, Goto, Recovering, Swapping, RollingBack, Resting, files
<1>a. TypeOK
  BY DEF PlaceInv
<1>1. ASSUME NEW p \in Process, Start(p) PROVE TypeOK'
  BY <1>1, <1>a DEF Start
<1>2. ASSUME NEW p \in Process, ReadIntent(p) PROVE TypeOK'
  BY <1>2, <1>a DEF ReadIntent, AfterRecovery, Refused
<1>3. ASSUME NEW p \in Process, TestTarget(p) PROVE TypeOK'
  BY <1>3, <1>a DEF TestTarget
<1>4. ASSUME NEW p \in Process, MainBack(p) PROVE TypeOK'
  BY <1>4, <1>a, MainBackMoves DEF MainBack, MainGoes, Files
<1>5. ASSUME NEW p \in Process, WalBack(p) PROVE TypeOK'
  BY <1>5, <1>a, WalBackMoves DEF WalBack, WalGoes, Files
<1>6. ASSUME NEW p \in Process, SettleIntent(p) PROVE TypeOK'
  BY <1>6, <1>a DEF SettleIntent, AfterRecovery
<1>7. ASSUME NEW o \in Opener, OpenStore(o) PROVE TypeOK'
  BY <1>7, <1>a DEF OpenStore
<1>8. ASSUME NEW o \in Opener, Commit(o) PROVE TypeOK'
  BY <1>8, <1>a DEF Commit
<1>9. ASSUME NEW o \in Opener, CloseStore(o) PROVE TypeOK'
  BY <1>9, <1>a DEF CloseStore
<1>10. ASSUME NEW r \in Restorer, Acquire(r) PROVE TypeOK'
  BY <1>10, <1>a DEF Acquire
<1>11. ASSUME NEW r \in Restorer, WriteIntent(r) PROVE TypeOK'
  BY <1>11, <1>a DEF WriteIntent, FreePrevious
<1>12. ASSUME NEW r \in Restorer, MoveAway(r) PROVE TypeOK'
  <2>1. main' \in Files /\ moved' \in [Restorer -> SUBSET {"main", "wal", "orphan"}]
    BY <1>12, <1>a, Typed, MoveAwayMoves DEF MainGoes
  <2> QED BY <1>12, <1>a, <2>1 DEF MoveAway, Files
<1>13. ASSUME NEW r \in Restorer, MoveSidecar(r) PROVE TypeOK'
  <2>1. wal' \in Files /\ moved' \in [Restorer -> SUBSET {"main", "wal", "orphan"}]
    BY <1>13, <1>a, Typed, MoveSidecarMoves DEF WalGoes
  <2> QED BY <1>13, <1>a, <2>1 DEF MoveSidecar, Files
<1>14. ASSUME NEW r \in Restorer, Install(r) PROVE TypeOK'
  BY <1>14, <1>a DEF Install
<1>15. ASSUME NEW r \in Restorer, ClearIntent(r) PROVE TypeOK'
  BY <1>15, <1>a DEF ClearIntent
<1>16. ASSUME NEW r \in Restorer, Finish(r) PROVE TypeOK'
  BY <1>16, <1>a DEF Finish
<1>17. ASSUME NEW r \in Restorer, Fail(r) PROVE TypeOK'
  <2>1. faults' \in 0..MaxFaults
    BY <1>17, <1>a, RestoreAssumption DEF Fail
  <2>2. /\ pc' \in [Process -> Recovering \cup Swapping \cup RollingBack \cup Resting \cup {"check", "acquire"}]
        /\ guard' \in Restorer \cup {None} /\ broken' \in BOOLEAN
    BY <1>17, <1>a DEF Fail
  <2>3. \A q \in Restorer : (guard' = q) <=> (pc'[q] \in Swapping \cup RollingBack)
    BY <1>17, <1>a DEF Fail
  <2> QED BY <1>17, <1>a, <2>1, <2>2, <2>3 DEF Fail
<1>18. ASSUME NEW r \in Restorer, Unlink(r) PROVE TypeOK'
  BY <1>18, <1>a DEF Unlink
<1>19. ASSUME NEW r \in Restorer, UndoSidecar(r) PROVE TypeOK'
  BY <1>19, <1>a, UndoSidecarMoves DEF UndoSidecar, WalGoes, Files
<1>20. ASSUME NEW r \in Restorer, UndoMain(r) PROVE TypeOK'
  BY <1>20, <1>a, UndoMainMoves DEF UndoMain, MainGoes, Files
<1>21. ASSUME NEW r \in Restorer, UndoIntent(r) PROVE TypeOK'
  BY <1>21, <1>a DEF UndoIntent
<1>22. ASSUME NEW p \in Process, Suppress(p) PROVE TypeOK'
  <2>0. Skip(p)
    BY <1>22, Skips
  <2>1. faults' \in 0..MaxFaults
    BY <1>22, <1>a, RestoreAssumption DEF Suppress
  <2>2. /\ pc' \in [Process -> Recovering \cup Swapping \cup RollingBack \cup Resting \cup {"check", "acquire"}]
        /\ guard' \in Restorer \cup {None} /\ broken' \in BOOLEAN
    BY <1>a, <2>0 DEF Skip
  <2>3. \A q \in Restorer : (guard' = q) <=> (pc'[q] \in Swapping \cup RollingBack)
    BY <1>a, <2>0 DEF Skip
  <2> QED BY <1>a, <2>0, <2>1, <2>2, <2>3 DEF Skip
<1>23. ASSUME NEW p \in Process, KeepIntent(p) PROVE TypeOK'
  <2>1. faults' \in 0..MaxFaults
    BY <1>23, <1>a, RestoreAssumption DEF KeepIntent
  <2>2. /\ pc' \in [Process -> Recovering \cup Swapping \cup RollingBack \cup Resting \cup {"check", "acquire"}]
        /\ guard' \in Restorer \cup {None} /\ broken' \in BOOLEAN
    BY <1>23, <1>a DEF KeepIntent, AfterRecovery
  <2>3. \A q \in Restorer : (guard' = q) <=> (pc'[q] \in Swapping \cup RollingBack)
    BY <1>23, <1>a DEF KeepIntent, AfterRecovery, PlaceInv, Roles
  <2> QED BY <1>23, <1>a, <2>1, <2>2, <2>3 DEF KeepIntent
<1>24. ASSUME NEW p \in Process, Crash(p) PROVE TypeOK'
  <2>1. faults' \in 0..MaxFaults
    BY <1>24, <1>a, RestoreAssumption DEF Crash
  <2>2. /\ pc' \in [Process -> Recovering \cup Swapping \cup RollingBack \cup Resting \cup {"check", "acquire"}]
        /\ guard' \in Restorer \cup {None} /\ broken' \in BOOLEAN
    BY <1>24, <1>a DEF Crash
  <2>3. \A q \in Restorer : (guard' = q) <=> (pc'[q] \in Swapping \cup RollingBack)
    BY <1>24, <1>a DEF Crash
  <2> QED BY <1>24, <1>a, <2>1, <2>2, <2>3 DEF Crash
<1>25. CASE UNCHANGED vars
  BY <1>25, <1>a DEF vars
<1> QED
  BY <1>1, <1>2, <1>3, <1>4, <1>5, <1>6, <1>7, <1>8, <1>9, <1>10, <1>11, <1>12, <1>13, <1>14,
     <1>15, <1>16, <1>17, <1>18, <1>19, <1>20, <1>21, <1>22, <1>23, <1>24, <1>25
     DEF Next, Recover, Swap, Process

Turns == Roles /\ Alone /\ Quiet

\* whoever is at the files keeps the others away from them
LEMMA NextTurns ==
  ASSUME ~Overlap, PlaceInv, [Next]_vars
  PROVE  Turns'
<1> USE Names DEF Turns, Roles, Alone, Quiet, Working, InSwap, Recovering, Swapping, RollingBack, Resting
<1>a. TypeOK /\ Turns
  BY DEF PlaceInv
<1>b. ASSUME NEW p \in Process, NEW where, Goto(p, where) PROVE pc'[p] = where /\ \A q \in Process \ {p} : pc'[q] = pc[q]
  BY <1>a, <1>b, Going
<1>1. ASSUME NEW p \in Process, Start(p) PROVE Turns'
  BY <1>1, <1>a, <1>b DEF Start, MayStart
<1>2. ASSUME NEW p \in Process, ReadIntent(p) PROVE Turns'
  BY <1>2, <1>a, <1>b DEF ReadIntent, AfterRecovery, Refused
<1>3. ASSUME NEW p \in Process, TestTarget(p) PROVE Turns'
  BY <1>3, <1>a, <1>b DEF TestTarget
<1>4. ASSUME NEW p \in Process, MainBack(p) PROVE Turns'
  BY <1>4, <1>a, <1>b DEF MainBack
<1>5. ASSUME NEW p \in Process, WalBack(p) PROVE Turns'
  BY <1>5, <1>a, <1>b DEF WalBack
<1>6. ASSUME NEW p \in Process, SettleIntent(p) PROVE Turns'
  BY <1>6, <1>a, <1>b DEF SettleIntent, AfterRecovery
<1>7. ASSUME NEW o \in Opener, OpenStore(o) PROVE Turns'
  BY <1>7, <1>a, <1>b DEF OpenStore
<1>8. ASSUME NEW o \in Opener, Commit(o) PROVE Turns'
  BY <1>8, <1>a DEF Commit
<1>9. ASSUME NEW o \in Opener, CloseStore(o) PROVE Turns'
  BY <1>9, <1>a, <1>b DEF CloseStore
<1>10. ASSUME NEW r \in Restorer, Acquire(r) PROVE Turns'
  BY <1>10, <1>a, <1>b DEF Acquire
<1>11. ASSUME NEW r \in Restorer, WriteIntent(r) PROVE Turns'
  BY <1>11, <1>a, <1>b DEF WriteIntent
<1>12. ASSUME NEW r \in Restorer, MoveAway(r) PROVE Turns'
  BY <1>12, <1>a, <1>b DEF MoveAway
<1>13. ASSUME NEW r \in Restorer, MoveSidecar(r) PROVE Turns'
  BY <1>13, <1>a, <1>b DEF MoveSidecar
<1>14. ASSUME NEW r \in Restorer, Install(r) PROVE Turns'
  BY <1>14, <1>a, <1>b DEF Install
<1>15. ASSUME NEW r \in Restorer, ClearIntent(r) PROVE Turns'
  BY <1>15, <1>a, <1>b DEF ClearIntent
<1>16. ASSUME NEW r \in Restorer, Finish(r) PROVE Turns'
  BY <1>16, <1>a, <1>b DEF Finish
<1>17. ASSUME NEW r \in Restorer, Fail(r) PROVE Turns'
  BY <1>17, <1>a, <1>b DEF Fail
<1>18. ASSUME NEW r \in Restorer, Unlink(r) PROVE Turns'
  BY <1>18, <1>a, <1>b DEF Unlink
<1>19. ASSUME NEW r \in Restorer, UndoSidecar(r) PROVE Turns'
  BY <1>19, <1>a, <1>b DEF UndoSidecar
<1>20. ASSUME NEW r \in Restorer, UndoMain(r) PROVE Turns'
  BY <1>20, <1>a, <1>b DEF UndoMain
<1>21. ASSUME NEW r \in Restorer, UndoIntent(r) PROVE Turns'
  BY <1>21, <1>a, <1>b DEF UndoIntent
<1>22. ASSUME NEW p \in Process, Suppress(p) PROVE Turns'
  <2>1. Skip(p)
    BY <1>22, Skips
  <2> QED BY <2>1, <1>a, <1>b DEF Skip
<1>23. ASSUME NEW p \in Process, KeepIntent(p) PROVE Turns'
  BY <1>23, <1>a, <1>b DEF KeepIntent, AfterRecovery
<1>24. ASSUME NEW p \in Process, Crash(p) PROVE Turns'
  BY <1>24, <1>a, <1>b DEF Crash
<1>25. CASE UNCHANGED vars
  BY <1>25, <1>a DEF vars
<1> QED
  BY <1>1, <1>2, <1>3, <1>4, <1>5, <1>6, <1>7, <1>8, <1>9, <1>10, <1>11, <1>12, <1>13, <1>14,
     <1>15, <1>16, <1>17, <1>18, <1>19, <1>20, <1>21, <1>22, <1>23, <1>24, <1>25
     DEF Next, Recover, Swap, Process

\* an open database is in place
LEMMA NextOpened ==
  ASSUME ~Overlap, PlaceInv, [Next]_vars
  PROVE  Opened' /\ main'["orphan"] = None
<1> USE Names DEF Working, InSwap, Recovering, Swapping, RollingBack, Resting, NotBegun, Installed, At, files,
           PlaceInv, Turns, Roles, Alone, Quiet, Opened
<1>a. TypeOK /\ Turns /\ PlaceInv
  BY DEF PlaceInv, Turns
<1>b. ASSUME NEW p \in Process, NEW where, Goto(p, where) PROVE pc'[p] = where /\ \A q \in Process \ {p} : pc'[q] = pc[q]
  BY <1>a, <1>b, Going
<1>1. ASSUME NEW p \in Process, Start(p) PROVE Opened' /\ main'["orphan"] = None
  BY <1>1, <1>a, <1>b DEF Start, MayStart
<1>2. ASSUME NEW p \in Process, ReadIntent(p) PROVE Opened' /\ main'["orphan"] = None
  BY <1>2, <1>a, <1>b DEF ReadIntent, AfterRecovery, Refused
<1>3. ASSUME NEW p \in Process, TestTarget(p) PROVE Opened' /\ main'["orphan"] = None
  BY <1>3, <1>a, <1>b DEF TestTarget
<1>4. ASSUME NEW p \in Process, MainBack(p) PROVE Opened' /\ main'["orphan"] = None
  BY <1>4, <1>a, <1>b, MainBackMoves DEF MainBack, MainGoes
<1>5. ASSUME NEW p \in Process, WalBack(p) PROVE Opened' /\ main'["orphan"] = None
  BY <1>5, <1>a, <1>b, WalBackMoves DEF WalBack, WalGoes
<1>6. ASSUME NEW p \in Process, SettleIntent(p) PROVE Opened' /\ main'["orphan"] = None
  BY <1>6, <1>a, <1>b DEF SettleIntent, AfterRecovery
<1>7. ASSUME NEW o \in Opener, OpenStore(o) PROVE Opened' /\ main'["orphan"] = None
  BY <1>7, <1>a, <1>b, OpenStoreMakes DEF OpenStore
<1>8. ASSUME NEW o \in Opener, Commit(o) PROVE Opened' /\ main'["orphan"] = None
  BY <1>8, <1>a, <1>b, Typed DEF Commit, Files
<1>9. ASSUME NEW o \in Opener, CloseStore(o) PROVE Opened' /\ main'["orphan"] = None
  BY <1>9, <1>a, <1>b, Typed DEF CloseStore, Files
<1>10. ASSUME NEW r \in Restorer, Acquire(r) PROVE Opened' /\ main'["orphan"] = None
  BY <1>10, <1>a, <1>b DEF Acquire
<1>11. ASSUME NEW r \in Restorer, WriteIntent(r) PROVE Opened' /\ main'["orphan"] = None
  BY <1>11, <1>a, <1>b DEF WriteIntent, FreePrevious
<1>12. ASSUME NEW r \in Restorer, MoveAway(r) PROVE Opened' /\ main'["orphan"] = None
  BY <1>12, <1>a, <1>b, MoveAwayMoves DEF MoveAway, MainGoes
<1>13. ASSUME NEW r \in Restorer, MoveSidecar(r) PROVE Opened' /\ main'["orphan"] = None
  BY <1>13, <1>a, <1>b, MoveSidecarMoves DEF MoveSidecar, WalGoes
<1>14. ASSUME NEW r \in Restorer, Install(r) PROVE Opened' /\ main'["orphan"] = None
  BY <1>14, <1>a, <1>b, Typed DEF Install, Files
<1>15. ASSUME NEW r \in Restorer, ClearIntent(r) PROVE Opened' /\ main'["orphan"] = None
  BY <1>15, <1>a, <1>b DEF ClearIntent
<1>16. ASSUME NEW r \in Restorer, Finish(r) PROVE Opened' /\ main'["orphan"] = None
  BY <1>16, <1>a, <1>b DEF Finish
<1>17. ASSUME NEW r \in Restorer, Fail(r) PROVE Opened' /\ main'["orphan"] = None
  BY <1>17, <1>a, <1>b DEF Fail
<1>18. ASSUME NEW r \in Restorer, Unlink(r) PROVE Opened' /\ main'["orphan"] = None
  BY <1>18, <1>a, <1>b, Typed DEF Unlink, Files
<1>19. ASSUME NEW r \in Restorer, UndoSidecar(r) PROVE Opened' /\ main'["orphan"] = None
  BY <1>19, <1>a, <1>b, UndoSidecarMoves DEF UndoSidecar, WalGoes
<1>20. ASSUME NEW r \in Restorer, UndoMain(r) PROVE Opened' /\ main'["orphan"] = None
  BY <1>20, <1>a, <1>b, UndoMainMoves DEF UndoMain, MainGoes
<1>21. ASSUME NEW r \in Restorer, UndoIntent(r) PROVE Opened' /\ main'["orphan"] = None
  BY <1>21, <1>a, <1>b DEF UndoIntent
<1>22. ASSUME NEW p \in Process, Suppress(p) PROVE Opened' /\ main'["orphan"] = None
  <2>1. Skip(p)
    BY <1>22, Skips
  <2> QED BY <2>1, <1>a, <1>b DEF Skip
<1>23. ASSUME NEW p \in Process, KeepIntent(p) PROVE Opened' /\ main'["orphan"] = None
  BY <1>23, <1>a, <1>b DEF KeepIntent, AfterRecovery
<1>24. ASSUME NEW p \in Process, Crash(p) PROVE Opened' /\ main'["orphan"] = None
  BY <1>24, <1>a, <1>b DEF Crash
<1>25. CASE UNCHANGED vars
  BY <1>25, <1>a, <1>b DEF vars
<1> QED
  BY <1>1, <1>2, <1>3, <1>4, <1>5, <1>6, <1>7, <1>8, <1>9, <1>10, <1>11, <1>12, <1>13, <1>14,
     <1>15, <1>16, <1>17, <1>18, <1>19, <1>20, <1>21, <1>22, <1>23, <1>24, <1>25
     DEF Next, Recover, Swap, Process

\* nobody changes the record or the rollback names between the steps of a recovery
LEMMA NextReads ==
  ASSUME ~Overlap, PlaceInv, [Next]_vars
  PROVE  Reads'
<1> USE Names DEF Working, InSwap, Recovering, Swapping, RollingBack, Resting, NotBegun, Installed, At, files,
           PlaceInv, Turns, Roles, Alone, Quiet, Opened, Reads
<1>a. TypeOK /\ Turns /\ PlaceInv
  BY DEF PlaceInv, Turns
<1>b. ASSUME NEW p \in Process, NEW where, Goto(p, where) PROVE pc'[p] = where /\ \A q \in Process \ {p} : pc'[q] = pc[q]
  BY <1>a, <1>b, Going
<1>1. ASSUME NEW p \in Process, Start(p) PROVE Reads'
  BY <1>1, <1>a, <1>b DEF Start, MayStart
<1>2. ASSUME NEW p \in Process, ReadIntent(p) PROVE Reads'
  <2>1. prev'[p] = intent /\ \A q \in Process \ {p} : prev'[q] = prev[q]
    BY <1>2, <1>a DEF ReadIntent, TypeOK
  <2>2. (pc'[p] = "test" /\ intent # None) \/ pc'[p] \notin Recovering
    BY <1>2, <1>a, <1>b DEF ReadIntent, AfterRecovery, Refused
  <2>3. \A q \in Process \ {p} : pc'[q] = pc[q] /\ pc[q] \in Resting
    BY <1>2, <1>a, <1>b DEF ReadIntent
  <2> QED BY <1>2, <2>1, <2>2, <2>3 DEF ReadIntent
<1>3. ASSUME NEW p \in Process, TestTarget(p) PROVE Reads'
  BY <1>3, <1>a, <1>b DEF TestTarget
<1>4. ASSUME NEW p \in Process, MainBack(p) PROVE Reads'
  BY <1>4, <1>a, <1>b, MainBackMoves DEF MainBack, MainGoes
<1>5. ASSUME NEW p \in Process, WalBack(p) PROVE Reads'
  BY <1>5, <1>a, <1>b, WalBackMoves DEF WalBack, WalGoes
<1>6. ASSUME NEW p \in Process, SettleIntent(p) PROVE Reads'
  BY <1>6, <1>a, <1>b DEF SettleIntent, AfterRecovery
<1>7. ASSUME NEW o \in Opener, OpenStore(o) PROVE Reads'
  BY <1>7, <1>a, <1>b, OpenStoreMakes DEF OpenStore
<1>8. ASSUME NEW o \in Opener, Commit(o) PROVE Reads'
  BY <1>8, <1>a, <1>b, Typed DEF Commit, Files
<1>9. ASSUME NEW o \in Opener, CloseStore(o) PROVE Reads'
  BY <1>9, <1>a, <1>b, Typed DEF CloseStore, Files
<1>10. ASSUME NEW r \in Restorer, Acquire(r) PROVE Reads'
  BY <1>10, <1>a, <1>b DEF Acquire
<1>11. ASSUME NEW r \in Restorer, WriteIntent(r) PROVE Reads'
  BY <1>11, <1>a, <1>b DEF WriteIntent, FreePrevious
<1>12. ASSUME NEW r \in Restorer, MoveAway(r) PROVE Reads'
  BY <1>12, <1>a, <1>b, MoveAwayMoves DEF MoveAway, MainGoes
<1>13. ASSUME NEW r \in Restorer, MoveSidecar(r) PROVE Reads'
  BY <1>13, <1>a, <1>b, MoveSidecarMoves DEF MoveSidecar, WalGoes
<1>14. ASSUME NEW r \in Restorer, Install(r) PROVE Reads'
  BY <1>14, <1>a, <1>b, Typed DEF Install, Files
<1>15. ASSUME NEW r \in Restorer, ClearIntent(r) PROVE Reads'
  BY <1>15, <1>a, <1>b DEF ClearIntent
<1>16. ASSUME NEW r \in Restorer, Finish(r) PROVE Reads'
  BY <1>16, <1>a, <1>b DEF Finish
<1>17. ASSUME NEW r \in Restorer, Fail(r) PROVE Reads'
  BY <1>17, <1>a, <1>b DEF Fail
<1>18. ASSUME NEW r \in Restorer, Unlink(r) PROVE Reads'
  BY <1>18, <1>a, <1>b, Typed DEF Unlink, Files
<1>19. ASSUME NEW r \in Restorer, UndoSidecar(r) PROVE Reads'
  BY <1>19, <1>a, <1>b, UndoSidecarMoves DEF UndoSidecar, WalGoes
<1>20. ASSUME NEW r \in Restorer, UndoMain(r) PROVE Reads'
  BY <1>20, <1>a, <1>b, UndoMainMoves DEF UndoMain, MainGoes
<1>21. ASSUME NEW r \in Restorer, UndoIntent(r) PROVE Reads'
  BY <1>21, <1>a, <1>b DEF UndoIntent
<1>22. ASSUME NEW p \in Process, Suppress(p) PROVE Reads'
  <2>1. Skip(p)
    BY <1>22, Skips
  <2> QED BY <2>1, <1>a, <1>b DEF Skip
<1>23. ASSUME NEW p \in Process, KeepIntent(p) PROVE Reads'
  BY <1>23, <1>a, <1>b DEF KeepIntent, AfterRecovery
<1>24. ASSUME NEW p \in Process, Crash(p) PROVE Reads'
  BY <1>24, <1>a, <1>b DEF Crash
<1>25. CASE UNCHANGED vars
  BY <1>25, <1>a, <1>b DEF vars
<1> QED
  BY <1>1, <1>2, <1>3, <1>4, <1>5, <1>6, <1>7, <1>8, <1>9, <1>10, <1>11, <1>12, <1>13, <1>14,
     <1>15, <1>16, <1>17, <1>18, <1>19, <1>20, <1>21, <1>22, <1>23, <1>24, <1>25
     DEF Next, Recover, Swap, Process

\* what a restore has moved
LEMMA NextMoves ==
  ASSUME ~Overlap, PlaceInv, [Next]_vars
  PROVE  Moves'
<1> USE Names DEF Working, InSwap, Recovering, Swapping, RollingBack, Resting, NotBegun, Installed, At, files,
           PlaceInv, Turns, Roles, Alone, Quiet, Opened, Moves
<1>a. TypeOK /\ Turns /\ PlaceInv
  BY DEF PlaceInv, Turns
<1>b. ASSUME NEW p \in Process, NEW where, Goto(p, where) PROVE pc'[p] = where /\ \A q \in Process \ {p} : pc'[q] = pc[q]
  BY <1>a, <1>b, Going
<1>1. ASSUME NEW p \in Process, Start(p) PROVE Moves'
  BY <1>1, <1>a, <1>b DEF Start, MayStart
<1>2. ASSUME NEW p \in Process, ReadIntent(p) PROVE Moves'
  BY <1>2, <1>a, <1>b DEF ReadIntent, AfterRecovery, Refused
<1>3. ASSUME NEW p \in Process, TestTarget(p) PROVE Moves'
  BY <1>3, <1>a, <1>b DEF TestTarget
<1>4. ASSUME NEW p \in Process, MainBack(p) PROVE Moves'
  BY <1>4, <1>a, <1>b, MainBackMoves DEF MainBack, MainGoes
<1>5. ASSUME NEW p \in Process, WalBack(p) PROVE Moves'
  BY <1>5, <1>a, <1>b, WalBackMoves DEF WalBack, WalGoes
<1>6. ASSUME NEW p \in Process, SettleIntent(p) PROVE Moves'
  BY <1>6, <1>a, <1>b DEF SettleIntent, AfterRecovery
<1>7. ASSUME NEW o \in Opener, OpenStore(o) PROVE Moves'
  BY <1>7, <1>a, <1>b, OpenStoreMakes DEF OpenStore
<1>8. ASSUME NEW o \in Opener, Commit(o) PROVE Moves'
  BY <1>8, <1>a, <1>b, Typed DEF Commit, Files
<1>9. ASSUME NEW o \in Opener, CloseStore(o) PROVE Moves'
  BY <1>9, <1>a, <1>b, Typed DEF CloseStore, Files
<1>10. ASSUME NEW r \in Restorer, Acquire(r) PROVE Moves'
  BY <1>10, <1>a, <1>b DEF Acquire
<1>11. ASSUME NEW r \in Restorer, WriteIntent(r) PROVE Moves'
  <2>1. intent' = prev'[r] \/ prev'[r] = None
    BY <1>11, <1>a DEF WriteIntent, TypeOK
  <2>2. pc'[r] = "move" /\ \A q \in Process \ {r} : pc'[q] = pc[q] /\ pc[q] \in Resting
    BY <1>11, <1>a, <1>b DEF WriteIntent
  <2> QED BY <1>11, <2>1, <2>2 DEF WriteIntent
<1>12. ASSUME NEW r \in Restorer, MoveAway(r) PROVE Moves'
  <2>1. pc'[r] = "moveWal" /\ \A q \in Process \ {r} : pc'[q] = pc[q] /\ pc[q] \in Resting
    BY <1>12, <1>a, <1>b DEF MoveAway
  <2>2. main'["target"] = None
    BY <1>12, <1>a, MoveAwayMoves DEF MainGoes
  <2>3. moved'[r] \in {{}, {"main"}} /\ \A q \in Restorer \ {r} : moved'[q] = moved[q]
    BY <1>12, <1>a, MoveAwayMoves DEF MoveAway, TypeOK
  <2> QED BY <1>12, <2>1, <2>2, <2>3 DEF MoveAway
<1>13. ASSUME NEW r \in Restorer, MoveSidecar(r) PROVE Moves'
  <2>1. pc'[r] = "install" /\ \A q \in Process \ {r} : pc'[q] = pc[q] /\ pc[q] \in Resting
    BY <1>13, <1>a, <1>b DEF MoveSidecar
  <2>2. /\ moved'[r] \in {moved[r], moved[r] \cup {IF "main" \in moved[r] THEN "wal" ELSE "orphan"}}
        /\ \A q \in Restorer \ {r} : moved'[q] = moved[q]
    BY <1>13, <1>a, MoveSidecarMoves DEF MoveSidecar, TypeOK
  <2> QED BY <1>13, <2>1, <2>2 DEF MoveSidecar
<1>14. ASSUME NEW r \in Restorer, Install(r) PROVE Moves'
  BY <1>14, <1>a, <1>b, Typed DEF Install, Files
<1>15. ASSUME NEW r \in Restorer, ClearIntent(r) PROVE Moves'
  BY <1>15, <1>a, <1>b DEF ClearIntent
<1>16. ASSUME NEW r \in Restorer, Finish(r) PROVE Moves'
  BY <1>16, <1>a, <1>b DEF Finish
<1>17. ASSUME NEW r \in Restorer, Fail(r) PROVE Moves'
  BY <1>17, <1>a, <1>b DEF Fail
<1>18. ASSUME NEW r \in Restorer, Unlink(r) PROVE Moves'
  BY <1>18, <1>a, <1>b, Typed DEF Unlink, Files
<1>19. ASSUME NEW r \in Restorer, UndoSidecar(r) PROVE Moves'
  BY <1>19, <1>a, <1>b, UndoSidecarMoves DEF UndoSidecar, WalGoes
<1>20. ASSUME NEW r \in Restorer, UndoMain(r) PROVE Moves'
  BY <1>20, <1>a, <1>b, UndoMainMoves DEF UndoMain, MainGoes
<1>21. ASSUME NEW r \in Restorer, UndoIntent(r) PROVE Moves'
  BY <1>21, <1>a, <1>b DEF UndoIntent
<1>22. ASSUME NEW p \in Process, Suppress(p) PROVE Moves'
  <2>1. Skip(p)
    BY <1>22, Skips
  <2> QED BY <2>1, <1>a, <1>b DEF Skip
<1>23. ASSUME NEW p \in Process, KeepIntent(p) PROVE Moves'
  BY <1>23, <1>a, <1>b DEF KeepIntent, AfterRecovery
<1>24. ASSUME NEW p \in Process, Crash(p) PROVE Moves'
  BY <1>24, <1>a, <1>b DEF Crash
<1>25. CASE UNCHANGED vars
  BY <1>25, <1>a, <1>b DEF vars
<1> QED
  BY <1>1, <1>2, <1>3, <1>4, <1>5, <1>6, <1>7, <1>8, <1>9, <1>10, <1>11, <1>12, <1>13, <1>14,
     <1>15, <1>16, <1>17, <1>18, <1>19, <1>20, <1>21, <1>22, <1>23, <1>24, <1>25
     DEF Next, Recover, Swap, Process

\* the database that was moved away stays where the restore remembers it
LEMMA NextRemembered ==
  ASSUME ~Overlap, PlaceInv, [Next]_vars
  PROVE  Remembered'
<1> USE Names DEF Working, InSwap, Recovering, Swapping, RollingBack, Resting, NotBegun, Installed, At, files,
           PlaceInv, Turns, Roles, Opened, Reads, Moves, Remembered, HasMoved
<1>a. TypeOK /\ Turns /\ PlaceInv
  BY DEF PlaceInv, Turns
<1>b. ASSUME NEW p \in Process, NEW where, Goto(p, where) PROVE pc'[p] = where /\ \A q \in Process \ {p} : pc'[q] = pc[q]
  BY <1>a, <1>b, Going
<1>c. ASSUME NEW p \in Process, pc[p] \notin Resting PROVE \A q \in Process \ {p} : pc[q] \in Resting
  BY <1>a, <1>c DEF Turns, Alone
<1>d. ASSUME NEW r \in Restorer, InSwap(r) PROVE \A o \in Opener : pc[o] # "open"
  BY <1>a, <1>d DEF Turns, Quiet
<1>1. ASSUME NEW p \in Process, Start(p) PROVE Remembered'
  BY <1>1, <1>a, <1>b, <1>c, <1>d DEF Start, MayStart
<1>2. ASSUME NEW p \in Process, ReadIntent(p) PROVE Remembered'
  BY <1>2, <1>a, <1>b, <1>c, <1>d DEF ReadIntent, AfterRecovery, Refused
<1>3. ASSUME NEW p \in Process, TestTarget(p) PROVE Remembered'
  BY <1>3, <1>a, <1>b, <1>c, <1>d DEF TestTarget
<1>4. ASSUME NEW p \in Process, MainBack(p) PROVE Remembered'
  BY <1>4, <1>a, <1>b, <1>c, <1>d, MainBackMoves DEF MainBack, MainGoes
<1>5. ASSUME NEW p \in Process, WalBack(p) PROVE Remembered'
  BY <1>5, <1>a, <1>b, <1>c, <1>d, WalBackMoves DEF WalBack, WalGoes
<1>6. ASSUME NEW p \in Process, SettleIntent(p) PROVE Remembered'
  BY <1>6, <1>a, <1>b, <1>c, <1>d DEF SettleIntent, AfterRecovery
<1>7. ASSUME NEW o \in Opener, OpenStore(o) PROVE Remembered'
  BY <1>7, <1>a, <1>b, <1>c, <1>d, OpenStoreMakes DEF OpenStore
<1>8. ASSUME NEW o \in Opener, Commit(o) PROVE Remembered'
  BY <1>8, <1>a, <1>b, <1>c, <1>d, Typed DEF Commit, Files
<1>9. ASSUME NEW o \in Opener, CloseStore(o) PROVE Remembered'
  BY <1>9, <1>a, <1>b, <1>c, <1>d, Typed DEF CloseStore, Files
<1>10. ASSUME NEW r \in Restorer, Acquire(r) PROVE Remembered'
  BY <1>10, <1>a, <1>b, <1>c, <1>d DEF Acquire
<1>11. ASSUME NEW r \in Restorer, WriteIntent(r) PROVE Remembered'
  BY <1>11, <1>a, <1>b, <1>c, <1>d DEF WriteIntent, FreePrevious
<1>12. ASSUME NEW r \in Restorer, MoveAway(r) PROVE Remembered'
  BY <1>12, <1>a, <1>b, <1>c, <1>d, MoveAwayMoves DEF MoveAway, MainGoes
<1>13. ASSUME NEW r \in Restorer, MoveSidecar(r) PROVE Remembered'
  <2>1. pc'[r] = "install" /\ \A q \in Process \ {r} : pc'[q] = pc[q] /\ pc[q] \in Resting
    BY <1>13, <1>a, <1>b, <1>c DEF MoveSidecar
  <2>2. /\ moved'[r] \in {moved[r], moved[r] \cup {IF "main" \in moved[r] THEN "wal" ELSE "orphan"}}
        /\ \A q \in Restorer \ {r} : moved'[q] = moved[q]
    BY <1>13, <1>a, MoveSidecarMoves DEF MoveSidecar, TypeOK
  <2> QED BY <1>13, <2>1, <2>2 DEF MoveSidecar
<1>14. ASSUME NEW r \in Restorer, Install(r) PROVE Remembered'
  BY <1>14, <1>a, <1>b, <1>c, <1>d, Typed DEF Install, Files
<1>15. ASSUME NEW r \in Restorer, ClearIntent(r) PROVE Remembered'
  BY <1>15, <1>a, <1>b, <1>c, <1>d DEF ClearIntent
<1>16. ASSUME NEW r \in Restorer, Finish(r) PROVE Remembered'
  BY <1>16, <1>a, <1>b, <1>c, <1>d DEF Finish
<1>17. ASSUME NEW r \in Restorer, Fail(r) PROVE Remembered'
  BY <1>17, <1>a, <1>b, <1>c, <1>d DEF Fail
<1>18. ASSUME NEW r \in Restorer, Unlink(r) PROVE Remembered'
  BY <1>18, <1>a, <1>b, <1>c, <1>d, Typed DEF Unlink, Files
<1>19. ASSUME NEW r \in Restorer, UndoSidecar(r) PROVE Remembered'
  BY <1>19, <1>a, <1>b, <1>c, <1>d, UndoSidecarMoves DEF UndoSidecar, WalGoes
<1>20. ASSUME NEW r \in Restorer, UndoMain(r) PROVE Remembered'
  BY <1>20, <1>a, <1>b, <1>c, <1>d, UndoMainMoves DEF UndoMain, MainGoes
<1>21. ASSUME NEW r \in Restorer, UndoIntent(r) PROVE Remembered'
  BY <1>21, <1>a, <1>b, <1>c, <1>d DEF UndoIntent
<1>22. ASSUME NEW p \in Process, Suppress(p) PROVE Remembered'
  <2>1. Skip(p)
    BY <1>22, Skips
  <2> QED BY <2>1, <1>a, <1>b, <1>c, <1>d DEF Skip
<1>23. ASSUME NEW p \in Process, KeepIntent(p) PROVE Remembered'
  BY <1>23, <1>a, <1>b, <1>c, <1>d DEF KeepIntent, AfterRecovery
<1>24. ASSUME NEW p \in Process, Crash(p) PROVE Remembered'
  BY <1>24, <1>a, <1>b, <1>c, <1>d DEF Crash
<1>25. CASE UNCHANGED vars
  BY <1>25, <1>a, <1>b, <1>c, <1>d DEF vars
<1> QED
  BY <1>1, <1>2, <1>3, <1>4, <1>5, <1>6, <1>7, <1>8, <1>9, <1>10, <1>11, <1>12, <1>13, <1>14,
     <1>15, <1>16, <1>17, <1>18, <1>19, <1>20, <1>21, <1>22, <1>23, <1>24, <1>25
     DEF Next, Recover, Swap, Process

\* a database elsewhere is noticed
LEMMA NextNoticed ==
  ASSUME ~Overlap, PlaceInv, [Next]_vars
  PROVE  Noticed'
<1> USE Names DEF Working, InSwap, Recovering, Swapping, RollingBack, Resting, NotBegun, Installed, At, files,
           PlaceInv, Turns, Roles, Opened, Reads, Moves, Remembered, HasMoved, Noticed, Taken
<1>a. TypeOK /\ Turns /\ PlaceInv
  BY DEF PlaceInv, Turns
<1>b. ASSUME NEW p \in Process, NEW where, Goto(p, where) PROVE pc'[p] = where /\ \A q \in Process \ {p} : pc'[q] = pc[q]
  BY <1>a, <1>b, Going
<1>c. ASSUME NEW p \in Process, pc[p] \notin Resting PROVE \A q \in Process \ {p} : pc[q] \in Resting
  BY <1>a, <1>c DEF Turns, Alone
<1>d. ASSUME NEW r \in Restorer, InSwap(r) PROVE \A o \in Opener : pc[o] # "open"
  BY <1>a, <1>d DEF Turns, Quiet
<1>1. ASSUME NEW p \in Process, Start(p) PROVE Noticed'
  BY <1>1, <1>a, <1>b, <1>c, <1>d DEF Start, MayStart
<1>2. ASSUME NEW p \in Process, ReadIntent(p) PROVE Noticed'
  BY <1>2, <1>a, <1>b, <1>c, <1>d DEF ReadIntent, AfterRecovery, Refused
<1>3. ASSUME NEW p \in Process, TestTarget(p) PROVE Noticed'
  BY <1>3, <1>a, <1>b, <1>c, <1>d DEF TestTarget
<1>4. ASSUME NEW p \in Process, MainBack(p) PROVE Noticed'
  BY <1>4, <1>a, <1>b, <1>c, <1>d, MainBackMoves DEF MainBack, MainGoes
<1>5. ASSUME NEW p \in Process, WalBack(p) PROVE Noticed'
  BY <1>5, <1>a, <1>b, <1>c, <1>d, WalBackMoves DEF WalBack, WalGoes
<1>6. ASSUME NEW p \in Process, SettleIntent(p) PROVE Noticed'
  BY <1>6, <1>a, <1>b, <1>c, <1>d DEF SettleIntent, AfterRecovery
<1>7. ASSUME NEW o \in Opener, OpenStore(o) PROVE Noticed'
  BY <1>7, <1>a, <1>b, <1>c, <1>d, OpenStoreMakes DEF OpenStore
<1>8. ASSUME NEW o \in Opener, Commit(o) PROVE Noticed'
  BY <1>8, <1>a, <1>b, <1>c, <1>d, Typed DEF Commit, Files
<1>9. ASSUME NEW o \in Opener, CloseStore(o) PROVE Noticed'
  BY <1>9, <1>a, <1>b, <1>c, <1>d, Typed DEF CloseStore, Files
<1>10. ASSUME NEW r \in Restorer, Acquire(r) PROVE Noticed'
  BY <1>10, <1>a, <1>b, <1>c, <1>d DEF Acquire
<1>11. ASSUME NEW r \in Restorer, WriteIntent(r) PROVE Noticed'
  <2>1. /\ prev'[r] \in Restorer => Taken
        /\ intent' \in Restorer => Taken
        /\ \A q \in Restorer \ {r} : prev'[q] = prev[q]
    BY <1>11, <1>a DEF WriteIntent, FreePrevious, TypeOK
  <2>2. pc'[r] = "move" /\ \A q \in Process \ {r} : pc'[q] = pc[q] /\ pc[q] \in Resting
    BY <1>11, <1>a, <1>b, <1>c DEF WriteIntent
  <2> QED BY <1>11, <2>1, <2>2, <1>a DEF WriteIntent
<1>12. ASSUME NEW r \in Restorer, MoveAway(r) PROVE Noticed'
  BY <1>12, <1>a, <1>b, <1>c, <1>d, MoveAwayMoves DEF MoveAway, MainGoes
<1>13. ASSUME NEW r \in Restorer, MoveSidecar(r) PROVE Noticed'
  <2>1. pc'[r] = "install" /\ \A q \in Process \ {r} : pc'[q] = pc[q] /\ pc[q] \in Resting
    BY <1>13, <1>a, <1>b, <1>c DEF MoveSidecar
  <2>2. /\ moved'[r] \in {moved[r], moved[r] \cup {IF "main" \in moved[r] THEN "wal" ELSE "orphan"}}
        /\ \A q \in Restorer \ {r} : moved'[q] = moved[q]
    BY <1>13, <1>a, MoveSidecarMoves DEF MoveSidecar, TypeOK
  <2>3. Taken => Taken'
    BY <1>13, <1>a, MoveSidecarMoves DEF WalGoes, MoveSidecar
  <2> QED BY <1>13, <2>1, <2>2, <2>3, <1>a DEF MoveSidecar
<1>14. ASSUME NEW r \in Restorer, Install(r) PROVE Noticed'
  BY <1>14, <1>a, <1>b, <1>c, <1>d, Typed DEF Install, Files
<1>15. ASSUME NEW r \in Restorer, ClearIntent(r) PROVE Noticed'
  BY <1>15, <1>a, <1>b, <1>c, <1>d DEF ClearIntent
<1>16. ASSUME NEW r \in Restorer, Finish(r) PROVE Noticed'
  BY <1>16, <1>a, <1>b, <1>c, <1>d DEF Finish
<1>17. ASSUME NEW r \in Restorer, Fail(r) PROVE Noticed'
  BY <1>17, <1>a, <1>b, <1>c, <1>d DEF Fail
<1>18. ASSUME NEW r \in Restorer, Unlink(r) PROVE Noticed'
  BY <1>18, <1>a, <1>b, <1>c, <1>d, Typed DEF Unlink, Files
<1>19. ASSUME NEW r \in Restorer, UndoSidecar(r) PROVE Noticed'
  <2>1. pc'[r] = "undoMain" /\ \A q \in Process \ {r} : pc'[q] = pc[q] /\ pc[q] \in Resting
    BY <1>19, <1>a, <1>b, <1>c DEF UndoSidecar
  <2>2. Source(r) = "bak" => main["bak"] # None
    BY <1>19, <1>a DEF UndoSidecar, Source
  <2>3. Taken => Taken'
    BY <1>19, <1>a, <2>2, UndoSidecarMoves DEF WalGoes, UndoSidecar
  <2> QED BY <1>19, <2>1, <2>3, <1>a DEF UndoSidecar
<1>20. ASSUME NEW r \in Restorer, UndoMain(r) PROVE Noticed'
  BY <1>20, <1>a, <1>b, <1>c, <1>d, UndoMainMoves DEF UndoMain, MainGoes
<1>21. ASSUME NEW r \in Restorer, UndoIntent(r) PROVE Noticed'
  BY <1>21, <1>a, <1>b, <1>c, <1>d DEF UndoIntent
<1>22. ASSUME NEW p \in Process, Suppress(p) PROVE Noticed'
  <2>1. Skip(p)
    BY <1>22, Skips
  <2> QED BY <2>1, <1>a, <1>b, <1>c, <1>d DEF Skip
<1>23. ASSUME NEW p \in Process, KeepIntent(p) PROVE Noticed'
  BY <1>23, <1>a, <1>b, <1>c, <1>d DEF KeepIntent, AfterRecovery
<1>24. ASSUME NEW p \in Process, Crash(p) PROVE Noticed'
  BY <1>24, <1>a, <1>b, <1>c, <1>d DEF Crash
<1>25. CASE UNCHANGED vars
  BY <1>25, <1>a, <1>b, <1>c, <1>d DEF vars
<1> QED
  BY <1>1, <1>2, <1>3, <1>4, <1>5, <1>6, <1>7, <1>8, <1>9, <1>10, <1>11, <1>12, <1>13, <1>14,
     <1>15, <1>16, <1>17, <1>18, <1>19, <1>20, <1>21, <1>22, <1>23, <1>24, <1>25
     DEF Next, Recover, Swap, Process

LEMMA InitPlaces == Init => PlaceInv
<1> SUFFICES ASSUME Init PROVE PlaceInv
  OBVIOUS
<1>1. TypeOK
  <2>1. PICK d \in {"old", None}, hot \in BOOLEAN :
          /\ main = [n \in Name |-> IF n = "target" THEN d ELSE None]
          /\ wal = [n \in Name |-> IF n = "target" /\ hot THEN "old" ELSE None]
    BY DEF Init
  <2>2. main \in [Name -> Version \cup {None}] /\ wal \in [Name -> Version \cup {None}]
    BY <2>1, Names
  <2>3. faults \in 0..MaxFaults
    BY RestoreAssumption DEF Init
  <2>4. pc \in [Process -> {"idle"}] /\ guard = None
    BY DEF Init
  <2>5. \A r \in Restorer : (guard = r) <=> (pc[r] \in Swapping \cup RollingBack)
    BY <2>4, Names DEF Swapping, RollingBack
  <2>6. /\ intent = None /\ prev \in [Process -> Previous \cup {None}] /\ broken \in BOOLEAN
        /\ moved \in [Restorer -> SUBSET {"main", "wal", "orphan"}] /\ before \in [Restorer -> Version \cup {None}]
    BY DEF Init
  <2> QED BY <2>2, <2>3, <2>4, <2>5, <2>6 DEF TypeOK, Resting
<1>2. \A n \in Name \ {"target"} : main[n] = None
  BY Names DEF Init
<1>3. Roles /\ Alone /\ Quiet /\ Opened /\ Reads /\ Moves /\ Remembered /\ Noticed
  BY <1>2, Names DEF Init, Roles, Alone, Quiet, Opened, Reads, Moves, Remembered, Noticed, Working, InSwap,
     HasMoved, Resting, Recovering, Swapping, RollingBack, NotBegun, Installed, At
<1> QED BY <1>1, <1>2, <1>3, Names DEF PlaceInv

LEMMA NextPlaces ==
  ASSUME ~Overlap, PlaceInv, [Next]_vars
  PROVE  PlaceInv'
BY NextTypes, NextTurns, NextOpened, NextReads, NextMoves, NextRemembered, NextNoticed DEF PlaceInv, Turns

\* No opener creates an empty database while an earlier one survives under
\* another name, for any number of interrupted restores, rollbacks and
\* recoveries, unless a sidecar lies alone under the preferred rollback name.
THEOREM NeverStartsOver ==
  ASSUME ~Overlap
  PROVE  Spec => NeverFresh
<1>1. ASSUME PlaceInv, [Next]_vars
      PROVE  PlaceInv' /\ [\A o \in Opener : CreatesFresh(o) => wal["bak"] # None \/ \A n \in Name : ~At(n)]_vars
  <2>1. \A o \in Opener : CreatesFresh(o) => wal["bak"] # None \/ \A n \in Name : ~At(n)
    BY <1>1, Names DEF PlaceInv, Noticed, Taken, CreatesFresh, At
  <2> QED BY <1>1, <2>1, NextPlaces
<1> QED BY <1>1, InitPlaces, PTL DEF Spec, NeverFresh

\* versions and names are used once
LEMMA NextUnused ==
  ASSUME ~Overlap, PlaceInv, Unused, [Next]_vars
  PROVE  Unused'
<1> USE Names DEF Working, InSwap, Recovering, Swapping, RollingBack, Resting, NotBegun, Installed, At, files,
           PlaceInv, Turns, Roles, Moves, HasMoved, Unused
<1>a. TypeOK /\ Turns /\ PlaceInv
  BY DEF PlaceInv, Turns
<1>b. ASSUME NEW p \in Process, NEW where, Goto(p, where) PROVE pc'[p] = where /\ \A q \in Process \ {p} : pc'[q] = pc[q]
  BY <1>a, <1>b, Going
<1>c. ASSUME NEW p \in Process, pc[p] \notin Resting PROVE \A q \in Process \ {p} : pc[q] \in Resting
  BY <1>a, <1>c DEF Turns, Alone
<1>d. ASSUME NEW r \in Restorer, InSwap(r) PROVE \A o \in Opener : pc[o] # "open"
  BY <1>a, <1>d DEF Turns, Quiet
<1>1. ASSUME NEW p \in Process, Start(p) PROVE Unused'
  BY <1>1, <1>a, <1>b, <1>c, <1>d DEF Start, MayStart
<1>2. ASSUME NEW p \in Process, ReadIntent(p) PROVE Unused'
  BY <1>2, <1>a, <1>b, <1>c, <1>d DEF ReadIntent, AfterRecovery, Refused
<1>3. ASSUME NEW p \in Process, TestTarget(p) PROVE Unused'
  BY <1>3, <1>a, <1>b, <1>c, <1>d DEF TestTarget
<1>4. ASSUME NEW p \in Process, MainBack(p) PROVE Unused'
  BY <1>4, <1>a, <1>b, <1>c, <1>d, MainBackMoves DEF MainBack, MainGoes
<1>5. ASSUME NEW p \in Process, WalBack(p) PROVE Unused'
  BY <1>5, <1>a, <1>b, <1>c, <1>d, WalBackMoves DEF WalBack, WalGoes
<1>6. ASSUME NEW p \in Process, SettleIntent(p) PROVE Unused'
  BY <1>6, <1>a, <1>b, <1>c, <1>d DEF SettleIntent, AfterRecovery
<1>7. ASSUME NEW o \in Opener, OpenStore(o) PROVE Unused'
  BY <1>7, <1>a, <1>b, <1>c, <1>d, OpenStoreMakes DEF OpenStore
<1>8. ASSUME NEW o \in Opener, Commit(o) PROVE Unused'
  BY <1>8, <1>a, <1>b, <1>c, <1>d, Typed DEF Commit, Files
<1>9. ASSUME NEW o \in Opener, CloseStore(o) PROVE Unused'
  BY <1>9, <1>a, <1>b, <1>c, <1>d, Typed DEF CloseStore, Files
<1>10. ASSUME NEW r \in Restorer, Acquire(r) PROVE Unused'
  BY <1>10, <1>a, <1>b, <1>c, <1>d DEF Acquire
<1>11. ASSUME NEW r \in Restorer, WriteIntent(r) PROVE Unused'
  <2>1. prev'[r] \in {"bak", r, None} /\ \A q \in Restorer \ {r} : prev'[q] = prev[q]
    BY <1>11, <1>a DEF WriteIntent, FreePrevious, TypeOK
  <2>2. pc'[r] = "move" /\ \A q \in Process \ {r} : pc'[q] = pc[q] /\ pc[q] \in Resting
    BY <1>11, <1>a, <1>b, <1>c DEF WriteIntent
  <2> QED BY <1>11, <2>1, <2>2, <1>a DEF WriteIntent
<1>12. ASSUME NEW r \in Restorer, MoveAway(r) PROVE Unused'
  BY <1>12, <1>a, <1>b, <1>c, <1>d, MoveAwayMoves DEF MoveAway, MainGoes
<1>13. ASSUME NEW r \in Restorer, MoveSidecar(r) PROVE Unused'
  <2>1. pc'[r] = "install" /\ \A q \in Process \ {r} : pc'[q] = pc[q] /\ pc[q] \in Resting
    BY <1>13, <1>a, <1>b, <1>c DEF MoveSidecar
  <2>2. /\ moved'[r] \in {moved[r], moved[r] \cup {IF "main" \in moved[r] THEN "wal" ELSE "orphan"}}
        /\ \A q \in Restorer \ {r} : moved'[q] = moved[q]
    BY <1>13, <1>a, MoveSidecarMoves DEF MoveSidecar, TypeOK
  <2>3. \A n \in Restorer : wal'[n] = wal[n] \/ n = r
    BY <1>13, <1>a, MoveSidecarMoves DEF WalGoes, MoveSidecar
  <2> QED BY <1>13, <2>1, <2>2, <2>3, <1>a DEF MoveSidecar
<1>14. ASSUME NEW r \in Restorer, Install(r) PROVE Unused'
  BY <1>14, <1>a, <1>b, <1>c, <1>d, Typed DEF Install, Files
<1>15. ASSUME NEW r \in Restorer, ClearIntent(r) PROVE Unused'
  BY <1>15, <1>a, <1>b, <1>c, <1>d DEF ClearIntent
<1>16. ASSUME NEW r \in Restorer, Finish(r) PROVE Unused'
  BY <1>16, <1>a, <1>b, <1>c, <1>d DEF Finish
<1>17. ASSUME NEW r \in Restorer, Fail(r) PROVE Unused'
  BY <1>17, <1>a, <1>b, <1>c, <1>d DEF Fail
<1>18. ASSUME NEW r \in Restorer, Unlink(r) PROVE Unused'
  BY <1>18, <1>a, <1>b, <1>c, <1>d, Typed DEF Unlink, Files
<1>19. ASSUME NEW r \in Restorer, UndoSidecar(r) PROVE Unused'
  BY <1>19, <1>a, <1>b, <1>c, <1>d, UndoSidecarMoves DEF UndoSidecar, WalGoes
<1>20. ASSUME NEW r \in Restorer, UndoMain(r) PROVE Unused'
  BY <1>20, <1>a, <1>b, <1>c, <1>d, UndoMainMoves DEF UndoMain, MainGoes
<1>21. ASSUME NEW r \in Restorer, UndoIntent(r) PROVE Unused'
  BY <1>21, <1>a, <1>b, <1>c, <1>d DEF UndoIntent
<1>22. ASSUME NEW p \in Process, Suppress(p) PROVE Unused'
  <2>1. Skip(p)
    BY <1>22, Skips
  <2> QED BY <2>1, <1>a, <1>b, <1>c, <1>d DEF Skip
<1>23. ASSUME NEW p \in Process, KeepIntent(p) PROVE Unused'
  BY <1>23, <1>a, <1>b, <1>c, <1>d DEF KeepIntent, AfterRecovery
<1>24. ASSUME NEW p \in Process, Crash(p) PROVE Unused'
  BY <1>24, <1>a, <1>b, <1>c, <1>d DEF Crash
<1>25. CASE UNCHANGED vars
  BY <1>25, <1>a, <1>b, <1>c, <1>d DEF vars
<1> QED
  BY <1>1, <1>2, <1>3, <1>4, <1>5, <1>6, <1>7, <1>8, <1>9, <1>10, <1>11, <1>12, <1>13, <1>14,
     <1>15, <1>16, <1>17, <1>18, <1>19, <1>20, <1>21, <1>22, <1>23, <1>24, <1>25
     DEF Next, Recover, Swap, Process

\* what was cut short once is remembered
LEMMA BrokenStays ==
  ASSUME [Next]_vars
  PROVE  broken => broken'
<1> USE DEF files
<1>1. ASSUME NEW p \in Process, Start(p) PROVE broken => broken'
  BY <1>1 DEF Start, MayStart
<1>2. ASSUME NEW p \in Process, ReadIntent(p) PROVE broken => broken'
  BY <1>2 DEF ReadIntent, AfterRecovery, Refused
<1>3. ASSUME NEW p \in Process, TestTarget(p) PROVE broken => broken'
  BY <1>3 DEF TestTarget
<1>4. ASSUME NEW p \in Process, MainBack(p) PROVE broken => broken'
  BY <1>4 DEF MainBack
<1>5. ASSUME NEW p \in Process, WalBack(p) PROVE broken => broken'
  BY <1>5 DEF WalBack
<1>6. ASSUME NEW p \in Process, SettleIntent(p) PROVE broken => broken'
  BY <1>6 DEF SettleIntent, AfterRecovery
<1>7. ASSUME NEW o \in Opener, OpenStore(o) PROVE broken => broken'
  BY <1>7 DEF OpenStore
<1>8. ASSUME NEW o \in Opener, Commit(o) PROVE broken => broken'
  BY <1>8 DEF Commit
<1>9. ASSUME NEW o \in Opener, CloseStore(o) PROVE broken => broken'
  BY <1>9 DEF CloseStore
<1>10. ASSUME NEW r \in Restorer, Acquire(r) PROVE broken => broken'
  BY <1>10 DEF Acquire
<1>11. ASSUME NEW r \in Restorer, WriteIntent(r) PROVE broken => broken'
  BY <1>11 DEF WriteIntent, FreePrevious
<1>12. ASSUME NEW r \in Restorer, MoveAway(r) PROVE broken => broken'
  BY <1>12 DEF MoveAway
<1>13. ASSUME NEW r \in Restorer, MoveSidecar(r) PROVE broken => broken'
  BY <1>13 DEF MoveSidecar
<1>14. ASSUME NEW r \in Restorer, Install(r) PROVE broken => broken'
  BY <1>14 DEF Install
<1>15. ASSUME NEW r \in Restorer, ClearIntent(r) PROVE broken => broken'
  BY <1>15 DEF ClearIntent
<1>16. ASSUME NEW r \in Restorer, Finish(r) PROVE broken => broken'
  BY <1>16 DEF Finish
<1>17. ASSUME NEW r \in Restorer, Fail(r) PROVE broken => broken'
  BY <1>17 DEF Fail
<1>18. ASSUME NEW r \in Restorer, Unlink(r) PROVE broken => broken'
  BY <1>18 DEF Unlink
<1>19. ASSUME NEW r \in Restorer, UndoSidecar(r) PROVE broken => broken'
  BY <1>19 DEF UndoSidecar
<1>20. ASSUME NEW r \in Restorer, UndoMain(r) PROVE broken => broken'
  BY <1>20 DEF UndoMain
<1>21. ASSUME NEW r \in Restorer, UndoIntent(r) PROVE broken => broken'
  BY <1>21 DEF UndoIntent
<1>22. ASSUME NEW p \in Process, Suppress(p) PROVE broken => broken'
  <2>1. Skip(p)
    BY <1>22, Skips
  <2> QED BY <2>1 DEF Skip
<1>23. ASSUME NEW p \in Process, KeepIntent(p) PROVE broken => broken'
  BY <1>23 DEF KeepIntent, AfterRecovery
<1>24. ASSUME NEW p \in Process, Crash(p) PROVE broken => broken'
  BY <1>24 DEF Crash
<1>25. CASE UNCHANGED vars
  BY <1>25 DEF vars
<1> QED
  BY <1>1, <1>2, <1>3, <1>4, <1>5, <1>6, <1>7, <1>8, <1>9, <1>10, <1>11, <1>12, <1>13, <1>14,
     <1>15, <1>16, <1>17, <1>18, <1>19, <1>20, <1>21, <1>22, <1>23, <1>24, <1>25
     DEF Next, Recover, Swap, Process

\* a recovery that is not cut short leaves a database in place, or there is none
LEMMA NextReady ==
  ASSUME ~Overlap, PlaceInv, WholeInv, [Next]_vars, ~broken'
  PROVE  Ready'
<1> USE Names DEF Working, InSwap, Recovering, Swapping, RollingBack, Resting, NotBegun, Installed, At, files,
           PlaceInv, Turns, Roles, Opened, Ready
<1>a. TypeOK /\ Turns /\ PlaceInv
  BY DEF PlaceInv, Turns
<1>b. ASSUME NEW p \in Process, NEW where, Goto(p, where) PROVE pc'[p] = where /\ \A q \in Process \ {p} : pc'[q] = pc[q]
  BY <1>a, <1>b, Going
<1>c. ASSUME NEW p \in Process, pc[p] \notin Resting PROVE \A q \in Process \ {p} : pc[q] \in Resting
  BY <1>a, <1>c DEF Turns, Alone
<1>d. ASSUME NEW r \in Restorer, InSwap(r) PROVE \A o \in Opener : pc[o] # "open"
  BY <1>a, <1>d DEF Turns, Quiet
<1>e. ~broken /\ Shapes /\ Unused /\ Ready /\ \A r \in Restorer : Course(r)
  BY BrokenStays DEF WholeInv
<1>1. ASSUME NEW p \in Process, Start(p) PROVE Ready'
  BY <1>1, <1>a, <1>b, <1>c, <1>d, <1>e DEF Start, MayStart
<1>2. ASSUME NEW p \in Process, ReadIntent(p) PROVE Ready'
  BY <1>2, <1>a, <1>b, <1>c, <1>d, <1>e DEF ReadIntent, AfterRecovery, Refused
<1>3. ASSUME NEW p \in Process, TestTarget(p) PROVE Ready'
  <2>1. Shape(intent)
    BY <1>3, <1>a, <1>c, <1>e DEF TestTarget, Shapes, Undoing
  <2>2. At("target") \/ At(prev[p])
    BY <1>3, <1>a, <2>1 DEF Shape, Empty, TestTarget, Reads
  <2> QED BY <1>3, <1>a, <1>b, <1>c, <1>e, <2>2 DEF TestTarget
<1>4. ASSUME NEW p \in Process, MainBack(p) PROVE Ready'
  BY <1>4, <1>a, <1>b, <1>c, <1>d, <1>e, MainBackMoves DEF MainBack, MainGoes
<1>5. ASSUME NEW p \in Process, WalBack(p) PROVE Ready'
  <2>1. At("target")
    BY <1>5, <1>e DEF WalBack, Shapes, Between
  <2> QED BY <1>5, <2>1, <1>a, <1>b, <1>c, <1>d DEF WalBack
<1>6. ASSUME NEW p \in Process, SettleIntent(p) PROVE Ready'
  BY <1>6, <1>a, <1>b, <1>c, <1>d, <1>e DEF SettleIntent, AfterRecovery
<1>7. ASSUME NEW o \in Opener, OpenStore(o) PROVE Ready'
  BY <1>7, <1>a, <1>b, <1>c, <1>d, <1>e, OpenStoreMakes DEF OpenStore
<1>8. ASSUME NEW o \in Opener, Commit(o) PROVE Ready'
  BY <1>8, <1>a, <1>b, <1>c, <1>d, <1>e, Typed DEF Commit, Files
<1>9. ASSUME NEW o \in Opener, CloseStore(o) PROVE Ready'
  BY <1>9, <1>a, <1>b, <1>c, <1>d, <1>e, Typed DEF CloseStore, Files
<1>10. ASSUME NEW r \in Restorer, Acquire(r) PROVE Ready'
  BY <1>10, <1>a, <1>b, <1>c, <1>d, <1>e DEF Acquire
<1>11. ASSUME NEW r \in Restorer, WriteIntent(r) PROVE Ready'
  BY <1>11, <1>a, <1>b, <1>c, <1>d, <1>e DEF WriteIntent, FreePrevious
<1>12. ASSUME NEW r \in Restorer, MoveAway(r) PROVE Ready'
  BY <1>12, <1>a, <1>b, <1>c, <1>d, <1>e, MoveAwayMoves DEF MoveAway, MainGoes
<1>13. ASSUME NEW r \in Restorer, MoveSidecar(r) PROVE Ready'
  BY <1>13, <1>a, <1>b, <1>c, <1>d, <1>e, MoveSidecarMoves DEF MoveSidecar, WalGoes
<1>14. ASSUME NEW r \in Restorer, Install(r) PROVE Ready'
  BY <1>14, <1>a, <1>b, <1>c, <1>d, <1>e, Typed DEF Install, Files
<1>15. ASSUME NEW r \in Restorer, ClearIntent(r) PROVE Ready'
  BY <1>15, <1>a, <1>b, <1>c, <1>d, <1>e DEF ClearIntent
<1>16. ASSUME NEW r \in Restorer, Finish(r) PROVE Ready'
  BY <1>16, <1>a, <1>b, <1>c, <1>d, <1>e DEF Finish
<1>17. ASSUME NEW r \in Restorer, Fail(r) PROVE Ready'
  BY <1>17, <1>a, <1>b, <1>c, <1>d, <1>e DEF Fail
<1>18. ASSUME NEW r \in Restorer, Unlink(r) PROVE Ready'
  BY <1>18, <1>a, <1>b, <1>c, <1>d, <1>e, Typed DEF Unlink, Files
<1>19. ASSUME NEW r \in Restorer, UndoSidecar(r) PROVE Ready'
  BY <1>19, <1>a, <1>b, <1>c, <1>d, <1>e, UndoSidecarMoves DEF UndoSidecar, WalGoes
<1>20. ASSUME NEW r \in Restorer, UndoMain(r) PROVE Ready'
  BY <1>20, <1>a, <1>b, <1>c, <1>d, <1>e, UndoMainMoves DEF UndoMain, MainGoes
<1>21. ASSUME NEW r \in Restorer, UndoIntent(r) PROVE Ready'
  BY <1>21, <1>a, <1>b, <1>c, <1>d, <1>e DEF UndoIntent
<1>22. ASSUME NEW p \in Process, Suppress(p) PROVE Ready'
  <2>1. Skip(p)
    BY <1>22, Skips
  <2> QED BY <2>1, <1>a, <1>b, <1>c, <1>d, <1>e DEF Skip
<1>23. ASSUME NEW p \in Process, KeepIntent(p) PROVE Ready'
  BY <1>23, <1>a, <1>b, <1>c, <1>d, <1>e DEF KeepIntent, AfterRecovery
<1>24. ASSUME NEW p \in Process, Crash(p) PROVE Ready'
  BY <1>24, <1>a, <1>b, <1>c, <1>d, <1>e DEF Crash
<1>25. CASE UNCHANGED vars
  BY <1>25, <1>a, <1>b, <1>c, <1>d, <1>e DEF vars
<1> QED
  BY <1>1, <1>2, <1>3, <1>4, <1>5, <1>6, <1>7, <1>8, <1>9, <1>10, <1>11, <1>12, <1>13, <1>14,
     <1>15, <1>16, <1>17, <1>18, <1>19, <1>20, <1>21, <1>22, <1>23, <1>24, <1>25
     DEF Next, Recover, Swap, Process

\* each step of a restore finds what the ones before have made
LEMMA NextCourse ==
  ASSUME ~Overlap, PlaceInv, WholeInv, [Next]_vars, ~broken'
  PROVE  \A q \in Restorer : Course(q)'
<1> USE Names DEF Working, InSwap, Recovering, Swapping, RollingBack, Resting, NotBegun, Installed, At, files,
           PlaceInv, Turns, Roles, Moves, Remembered, HasMoved, Undoing, Course
<1>a. TypeOK /\ Turns /\ PlaceInv
  BY DEF PlaceInv, Turns
<1>b. ASSUME NEW p \in Process, NEW where, Goto(p, where) PROVE pc'[p] = where /\ \A q \in Process \ {p} : pc'[q] = pc[q]
  BY <1>a, <1>b, Going
<1>c. ASSUME NEW p \in Process, pc[p] \notin Resting PROVE \A q \in Process \ {p} : pc[q] \in Resting
  BY <1>a, <1>c DEF Turns, Alone
<1>d. ASSUME NEW r \in Restorer, InSwap(r) PROVE \A o \in Opener : pc[o] # "open"
  BY <1>a, <1>d DEF Turns, Quiet
<1>e. ~broken /\ Shapes /\ Unused /\ Ready /\ \A r \in Restorer : Course(r)
  BY BrokenStays DEF WholeInv
<1>f. ASSUME NEW r \in Restorer, pc[r] \notin Resting,
             \A q \in Restorer \ {r} : pc'[q] = pc[q] /\ moved'[q] = moved[q] /\ before'[q] = before[q]
      PROVE  \A q \in Restorer \ {r} : Course(q)'
  <2>1. \A q \in Restorer \ {r} : pc[q] \in Resting
    BY <1>c, <1>f
  <2> QED BY <2>1, <1>f, <1>e
<1>g. ASSUME NEW r \in Restorer, InSwap(r), pc[r] \notin Undoing PROVE Shape(intent)
  BY <1>c, <1>e, <1>g DEF Shapes
<1>1. ASSUME NEW p \in Process, Start(p) PROVE \A q \in Restorer : Course(q)'
  BY <1>1, <1>a, <1>b, <1>c, <1>d, <1>e DEF Start, MayStart
<1>2. ASSUME NEW p \in Process, ReadIntent(p) PROVE \A q \in Restorer : Course(q)'
  BY <1>2, <1>a, <1>b, <1>c, <1>d, <1>e DEF ReadIntent, AfterRecovery, Refused
<1>3. ASSUME NEW p \in Process, TestTarget(p) PROVE \A q \in Restorer : Course(q)'
  BY <1>3, <1>a, <1>b, <1>c, <1>d, <1>e DEF TestTarget
<1>4. ASSUME NEW p \in Process, MainBack(p) PROVE \A q \in Restorer : Course(q)'
  BY <1>4, <1>a, <1>b, <1>c, <1>d, <1>e, MainBackMoves DEF MainBack, MainGoes
<1>5. ASSUME NEW p \in Process, WalBack(p) PROVE \A q \in Restorer : Course(q)'
  BY <1>5, <1>a, <1>b, <1>c, <1>d, <1>e, WalBackMoves DEF WalBack, WalGoes
<1>6. ASSUME NEW p \in Process, SettleIntent(p) PROVE \A q \in Restorer : Course(q)'
  BY <1>6, <1>a, <1>b, <1>c, <1>d, <1>e DEF SettleIntent, AfterRecovery
<1>7. ASSUME NEW o \in Opener, OpenStore(o) PROVE \A q \in Restorer : Course(q)'
  BY <1>7, <1>a, <1>b, <1>c, <1>d, <1>e, OpenStoreMakes DEF OpenStore
<1>8. ASSUME NEW o \in Opener, Commit(o) PROVE \A q \in Restorer : Course(q)'
  BY <1>8, <1>a, <1>b, <1>c, <1>d, <1>e, Typed DEF Commit, Files
<1>9. ASSUME NEW o \in Opener, CloseStore(o) PROVE \A q \in Restorer : Course(q)'
  BY <1>9, <1>a, <1>b, <1>c, <1>d, <1>e, Typed DEF CloseStore, Files
<1>10. ASSUME NEW r \in Restorer, Acquire(r) PROVE \A q \in Restorer : Course(q)'
  <2>1. pc'[r] \in {"build", "failed"} /\ \A q \in Restorer \ {r} : pc'[q] = pc[q]
    BY <1>10, <1>a, <1>b DEF Acquire
  <2>8. \A q \in Restorer \ {r} : Course(q)'
    BY <1>10, <1>a, <1>f, <2>1 DEF Acquire, TypeOK
  <2>2. before'[r] = main["target"] \/ (pc'[r] = "failed" /\ before' = before)
    BY <1>10, <1>a, <1>b DEF Acquire, TypeOK
  <2>3. Course(r)'
    BY <1>10, <2>1, <2>2, <1>a, <1>e DEF Acquire
  <2> QED BY <2>3, <2>8
<1>11. ASSUME NEW r \in Restorer, WriteIntent(r) PROVE \A q \in Restorer : Course(q)'
  <2>1. pc'[r] = "move" /\ \A q \in Restorer \ {r} : pc'[q] = pc[q]
    BY <1>11, <1>a, <1>b DEF WriteIntent
  <2>8. \A q \in Restorer \ {r} : Course(q)'
    BY <1>11, <1>a, <1>f, <2>1 DEF WriteIntent, TypeOK
  <2>2. ~At("target") => intent' = None
    BY <1>11, <1>a, <1>e DEF WriteIntent, Ready
  <2>3. At("target") => prev'[r] \in {"bak", r} /\ main[prev'[r]] = None /\ wal[prev'[r]] = None
    BY <1>11, <1>a, <1>e DEF WriteIntent, FreePrevious, TypeOK, Unused
  <2>4. Course(r)'
    BY <1>11, <2>1, <2>2, <2>3, <1>a, <1>e DEF WriteIntent
  <2> QED BY <2>4, <2>8
<1>12. ASSUME NEW r \in Restorer, MoveAway(r) PROVE \A q \in Restorer : Course(q)'
  <2>1. pc'[r] = "moveWal" /\ \A q \in Restorer \ {r} : pc'[q] = pc[q]
    BY <1>12, <1>a, <1>b DEF MoveAway
  <2>2. /\ moved'[r] = IF At("target") THEN {"main"} ELSE {}
        /\ \A q \in Restorer \ {r} : moved'[q] = moved[q]
    <3>1. moved[r] = {}
      BY <1>12, <1>a DEF MoveAway
    <3>2. moved' = IF At("target") THEN [moved EXCEPT ![r] = {"main"}] ELSE moved
      BY <1>12, <1>a, MoveAwayMoves
    <3>3. moved \in [Restorer -> SUBSET {"main", "wal", "orphan"}]
      BY <1>a DEF TypeOK
    <3> QED BY <1>12, <3>1, <3>2, <3>3
  <2>8. \A q \in Restorer \ {r} : Course(q)'
    BY <1>12, <1>a, <1>f, <2>1, <2>2 DEF MoveAway, TypeOK
  <2>3. ASSUME At("target") PROVE Course(r)'
    BY <1>12, <2>1, <2>2, <2>3, <1>a, <1>e, MoveAwayMoves DEF MoveAway, MainGoes
  <2>4. ASSUME ~At("target") PROVE Course(r)'
    <3>1. Shape(intent) /\ intent = None
      BY <1>12, <1>e, <1>g, <2>4 DEF MoveAway
    <3>2. Empty
      BY <3>1, <2>4 DEF Shape
    <3> QED BY <1>12, <2>1, <2>2, <2>4, <3>1, <3>2, <1>a, MoveAwayMoves DEF MoveAway, Empty
  <2> QED BY <2>3, <2>4, <2>8
<1>13. ASSUME NEW r \in Restorer, MoveSidecar(r) PROVE \A q \in Restorer : Course(q)'
  <2>1. pc'[r] = "install" /\ \A q \in Restorer \ {r} : pc'[q] = pc[q]
    BY <1>13, <1>a, <1>b DEF MoveSidecar
  <2>2. /\ moved'[r] = IF wal["target"] = None THEN moved[r]
                      ELSE IF "main" \in moved[r] THEN moved[r] \cup {"wal"} ELSE moved[r] \cup {"orphan"}
        /\ \A q \in Restorer \ {r} : moved'[q] = moved[q]
    <3>1. moved' = IF wal["target"] = None THEN moved
                   ELSE IF "main" \in moved[r] THEN [moved EXCEPT ![r] = @ \cup {"wal"}]
                   ELSE [moved EXCEPT ![r] = @ \cup {"orphan"}]
      BY <1>13, <1>a, MoveSidecarMoves
    <3>2. moved \in [Restorer -> SUBSET {"main", "wal", "orphan"}]
      BY <1>a DEF TypeOK
    <3> QED BY <3>1, <3>2
  <2>8. \A q \in Restorer \ {r} : Course(q)'
    BY <1>13, <1>a, <1>f, <2>1, <2>2 DEF MoveSidecar, TypeOK
  <2>3. /\ wal'["target"] = None
        /\ "main" \in moved[r] /\ "wal" \notin moved'[r] => wal' = wal
    BY <1>13, <1>a, <2>2, MoveSidecarMoves DEF MoveSidecar, WalGoes
  <2>4. Course(r)'
    BY <1>13, <2>1, <2>2, <2>3, <1>a, <1>e DEF MoveSidecar
  <2> QED BY <2>4, <2>8
<1>14. ASSUME NEW r \in Restorer, Install(r) PROVE \A q \in Restorer : Course(q)'
  BY <1>14, <1>a, <1>b, <1>c, <1>d, <1>e, Typed DEF Install, Files
<1>15. ASSUME NEW r \in Restorer, ClearIntent(r) PROVE \A q \in Restorer : Course(q)'
  BY <1>15, <1>a, <1>b, <1>c, <1>d, <1>e DEF ClearIntent
<1>16. ASSUME NEW r \in Restorer, Finish(r) PROVE \A q \in Restorer : Course(q)'
  BY <1>16, <1>a, <1>b, <1>c, <1>d, <1>e DEF Finish
<1>17. ASSUME NEW r \in Restorer, Fail(r) PROVE \A q \in Restorer : Course(q)'
  <2>1. pc'[r] = (IF pc[r] \in {"clear", "cleared"} THEN "unlink" ELSE "undoWal") /\ \A q \in Restorer \ {r} : pc'[q] = pc[q]
    BY <1>17, <1>a, <1>b DEF Fail
  <2>8. \A q \in Restorer \ {r} : Course(q)'
    BY <1>17, <1>a, <1>f, <2>1 DEF Fail, TypeOK
  <2>2. ASSUME pc[r] \in {"clear", "cleared"} PROVE Course(r)'
    BY <1>17, <2>1, <2>2, <1>a, <1>e DEF Fail
  <2>3. ASSUME pc[r] \in {"build", "move"} PROVE Course(r)'
    BY <1>17, <2>1, <2>3, <1>a, <1>e DEF Fail, Ready
  <2>4. ASSUME pc[r] \in {"moveWal", "install"} PROVE Course(r)'
    BY <1>17, <2>1, <2>4, <1>a, <1>e DEF Fail
  <2> QED BY <1>17, <2>2, <2>3, <2>4, <2>8 DEF Fail
<1>18. ASSUME NEW r \in Restorer, Unlink(r) PROVE \A q \in Restorer : Course(q)'
  BY <1>18, <1>a, <1>b, <1>c, <1>d, <1>e, Typed DEF Unlink, Files
<1>19. ASSUME NEW r \in Restorer, UndoSidecar(r) PROVE \A q \in Restorer : Course(q)'
  <2>1. pc'[r] = "undoMain" /\ \A q \in Restorer \ {r} : pc'[q] = pc[q]
    BY <1>19, <1>a, <1>b DEF UndoSidecar
  <2>8. \A q \in Restorer \ {r} : Course(q)'
    BY <1>19, <1>a, <1>f, <2>1 DEF UndoSidecar, TypeOK
  <2>2. ASSUME "main" \in moved[r] PROVE wal'[prev[r]] = None
    BY <1>19, <1>a, <1>e, <2>2, UndoSidecarMoves DEF UndoSidecar, WalGoes, Source
  <2>3. Course(r)'
    BY <1>19, <2>1, <2>2, <1>a, <1>e DEF UndoSidecar
  <2> QED BY <2>3, <2>8
<1>20. ASSUME NEW r \in Restorer, UndoMain(r) PROVE \A q \in Restorer : Course(q)'
  BY <1>20, <1>a, <1>b, <1>c, <1>d, <1>e, UndoMainMoves DEF UndoMain, MainGoes
<1>21. ASSUME NEW r \in Restorer, UndoIntent(r) PROVE \A q \in Restorer : Course(q)'
  BY <1>21, <1>a, <1>b, <1>c, <1>d, <1>e DEF UndoIntent
<1>22. ASSUME NEW p \in Process, Suppress(p) PROVE \A q \in Restorer : Course(q)'
  <2>1. Skip(p)
    BY <1>22, Skips
  <2> QED BY <2>1, <1>a, <1>b, <1>c, <1>d, <1>e DEF Skip
<1>23. ASSUME NEW p \in Process, KeepIntent(p) PROVE \A q \in Restorer : Course(q)'
  BY <1>23, <1>a, <1>b, <1>c, <1>d, <1>e DEF KeepIntent, AfterRecovery
<1>24. ASSUME NEW p \in Process, Crash(p) PROVE \A q \in Restorer : Course(q)'
  BY <1>24, <1>a, <1>b, <1>c, <1>d, <1>e DEF Crash
<1>25. CASE UNCHANGED vars
  BY <1>25, <1>a, <1>b, <1>c, <1>d, <1>e DEF vars
<1> QED
  BY <1>1, <1>2, <1>3, <1>4, <1>5, <1>6, <1>7, <1>8, <1>9, <1>10, <1>11, <1>12, <1>13, <1>14,
     <1>15, <1>16, <1>17, <1>18, <1>19, <1>20, <1>21, <1>22, <1>23, <1>24, <1>25
     DEF Next, Recover, Swap, Process

\* one current database, and every sidecar beside its own
LEMMA NextShapes ==
  ASSUME ~Overlap, PlaceInv, WholeInv, [Next]_vars, ~broken'
  PROVE  Shapes'
<1> USE Names DEF Working, InSwap, Recovering, Swapping, RollingBack, Resting, NotBegun, Installed, At, files,
           PlaceInv, Turns, Roles, Opened, Undoing
<1>a. TypeOK /\ Turns /\ PlaceInv
  BY DEF PlaceInv, Turns
<1>b. ASSUME NEW p \in Process, NEW where, Goto(p, where) PROVE pc'[p] = where /\ \A q \in Process \ {p} : pc'[q] = pc[q]
  BY <1>a, <1>b, Going
<1>c. ASSUME NEW p \in Process, pc[p] \notin Resting PROVE \A q \in Process \ {p} : pc[q] \in Resting
  BY <1>a, <1>c DEF Turns, Alone
<1>d. ASSUME NEW r \in Restorer, InSwap(r) PROVE \A o \in Opener : pc[o] # "open"
  BY <1>a, <1>d DEF Turns, Quiet
<1>e. ~broken /\ Shapes /\ Unused /\ Ready /\ \A r \in Restorer : Course(r)
  BY BrokenStays DEF WholeInv
<1>f. ASSUME NEW p \in Process, pc[p] \notin Resting \cup Undoing \cup {"backWal"} PROVE Shape(intent)
  BY <1>c, <1>e, <1>f DEF Shapes
<1>g. ASSUME NEW p \in Process, pc[p] \notin Resting, \A q \in Process \ {p} : pc'[q] = pc[q],
             pc'[p] \notin Undoing \cup {"backWal"}, Shape(intent)'
      PROVE  Shapes'
  <2>1. \A q \in Process : pc'[q] \notin Undoing \cup {"backWal"}
    BY <1>c, <1>g
  <2> QED BY <2>1, <1>g DEF Shapes
<1>h. ASSUME NEW r \in Restorer, pc[r] \notin Resting, \A q \in Process \ {r} : pc'[q] = pc[q],
             pc'[r] \in Undoing, Shape(IF "main" \in moved[r] THEN prev[r] ELSE intent)'
      PROVE  Shapes'
  <2>1. \A q \in Process \ {r} : pc'[q] \notin Undoing \cup {"backWal"}
    BY <1>c, <1>h
  <2> QED BY <2>1, <1>h DEF Shapes
<1>1. ASSUME NEW p \in Process, Start(p) PROVE Shapes'
  <2>1. \A q \in Process : pc[q] \notin Undoing \cup {"backWal"} /\ pc'[q] \notin Undoing \cup {"backWal"}
    BY <1>1, <1>a, <1>b DEF Start, MayStart
  <2>2. Shape(intent)
    BY <2>1, <1>e DEF Shapes
  <2>3. Shape(intent)'
    BY <1>1, <2>2 DEF Start, Shape, Distinct, Aside, Empty, Pair
  <2> QED BY <2>1, <2>3 DEF Shapes
<1>2. ASSUME NEW p \in Process, ReadIntent(p) PROVE Shapes'
  <2>1. pc'[p] \notin Undoing \cup {"backWal"} /\ \A q \in Process \ {p} : pc'[q] = pc[q]
    BY <1>2, <1>a, <1>b, <1>e DEF ReadIntent, AfterRecovery, Refused
  <2>2. Shape(intent)
    BY <1>2, <1>e, <1>f DEF ReadIntent, AfterRecovery, Refused
  <2>9. Shape(intent)'
    BY <1>2, <2>2 DEF ReadIntent, AfterRecovery, Refused, Shape, Distinct, Aside, Empty, Pair
  <2> QED BY <1>2, <2>1, <2>9, <1>g DEF ReadIntent, AfterRecovery, Refused
<1>3. ASSUME NEW p \in Process, TestTarget(p) PROVE Shapes'
  <2>1. pc'[p] \notin Undoing \cup {"backWal"} /\ \A q \in Process \ {p} : pc'[q] = pc[q]
    BY <1>3, <1>a, <1>b, <1>e DEF TestTarget
  <2>2. Shape(intent)
    BY <1>3, <1>e, <1>f DEF TestTarget
  <2>9. Shape(intent)'
    BY <1>3, <2>2 DEF TestTarget, Shape, Distinct, Aside, Empty, Pair
  <2> QED BY <1>3, <2>1, <2>9, <1>g DEF TestTarget
<1>4. ASSUME NEW p \in Process, MainBack(p) PROVE Shapes'
  <2>1. pc'[p] = "backWal" /\ \A q \in Process \ {p} : pc'[q] = pc[q] /\ pc[q] \in Resting
    BY <1>4, <1>a, <1>b, <1>c DEF MainBack
  <2>2. Shape(intent) /\ intent = prev[p] /\ prev[p] \in Previous /\ ~At("target") /\ At(prev[p])
    BY <1>4, <1>a, <1>f, MainBackMoves DEF MainBack, Reads
  <2>3. prev' = prev /\ wal' = wal /\ MainGoes(prev[p], "target")
    BY <1>4, <1>a, MainBackMoves DEF MainBack
  <2>4. Between(prev[p])'
    BY <2>2, <2>3 DEF Shape, Between, MainGoes, Distinct, Aside, Empty, Pair
  <2> QED BY <2>1, <2>4 DEF Shapes
<1>5. ASSUME NEW p \in Process, WalBack(p) PROVE Shapes'
  <2>1. pc'[p] \notin Undoing \cup {"backWal"} /\ \A q \in Process \ {p} : pc'[q] = pc[q]
    BY <1>5, <1>a, <1>b, <1>e DEF WalBack
  <2>2. Between(prev[p])
    BY <1>5, <1>e DEF WalBack, Shapes
  <2>3. main' = main /\ before' = before
    BY <1>5 DEF WalBack
  <2>9. Shape(intent)'
    BY <1>5, <1>a, <2>2, <2>3, WalBackMoves DEF Shape, Between, WalGoes, Distinct, Aside, Pair
  <2> QED BY <1>5, <2>1, <2>9, <1>g DEF WalBack
<1>6. ASSUME NEW p \in Process, SettleIntent(p) PROVE Shapes'
  <2>1. pc'[p] \notin Undoing \cup {"backWal"} /\ \A q \in Process \ {p} : pc'[q] = pc[q]
    BY <1>6, <1>a, <1>b, <1>e DEF SettleIntent, AfterRecovery
  <2>2. Shape(intent) /\ At("target")
    BY <1>6, <1>e, <1>f DEF SettleIntent, Ready
  <2>9. Shape(intent)'
    BY <1>6, <2>2 DEF SettleIntent, Shape, Distinct, Aside, Empty, Pair
  <2> QED BY <1>6, <2>1, <2>9, <1>g DEF SettleIntent, AfterRecovery
<1>7. ASSUME NEW o \in Opener, OpenStore(o) PROVE Shapes'
  <2>1. pc'[o] \notin Undoing \cup {"backWal"} /\ \A q \in Process \ {o} : pc'[q] = pc[q]
    BY <1>7, <1>a, <1>b, <1>e DEF OpenStore
  <2>2. Shape(intent) /\ (At("target") \/ intent = None)
    BY <1>7, <1>e, <1>f DEF OpenStore, Ready
  <2>3. intent' = intent /\ before' = before
    BY <1>7 DEF OpenStore
  <2>9. Shape(intent)'
    BY <1>7, <1>a, <2>2, <2>3, OpenStoreMakes DEF Shape, Distinct, Aside, Empty, Pair
  <2> QED BY <1>7, <2>1, <2>9, <1>g DEF OpenStore
<1>8. ASSUME NEW o \in Opener, Commit(o) PROVE Shapes'
  <2>1. \A q \in Process : pc[q] \notin Undoing \cup {"backWal"} /\ pc'[q] \notin Undoing \cup {"backWal"}
    <3>1. \A r \in Restorer : pc[r] \notin Undoing
      BY <1>8, <1>a, <1>d DEF Commit
    <3>2. \A q \in Process : pc[q] \notin Undoing \cup {"backWal"}
      BY <1>8, <1>a, <3>1 DEF Commit, Reads
    <3> QED BY <1>8, <1>a, <1>b, <3>2 DEF Commit
  <2>2. Shape(intent) /\ At("target")
    BY <1>8, <2>1, <1>a, <1>e DEF Shapes, Commit
  <2>3. /\ main' = main /\ intent' = intent /\ before' = before
        /\ wal'["target"] \in {None, main["target"], wal["target"]}
        /\ \A n \in Name \ {"target"} : wal'[n] = wal[n]
    BY <1>8, <1>a, Typed DEF Commit, Files
  <2>4. Shape(intent)'
    BY <2>2, <2>3 DEF Shape, Distinct, Aside, Empty, Pair
  <2> QED BY <2>1, <2>4 DEF Shapes
<1>9. ASSUME NEW o \in Opener, CloseStore(o) PROVE Shapes'
  <2>1. \A q \in Process : pc[q] \notin Undoing \cup {"backWal"} /\ pc'[q] \notin Undoing \cup {"backWal"}
    <3>1. \A r \in Restorer : pc[r] \notin Undoing
      BY <1>9, <1>a, <1>d DEF CloseStore
    <3>2. \A q \in Process : pc[q] \notin Undoing \cup {"backWal"}
      BY <1>9, <1>a, <3>1 DEF CloseStore, Reads
    <3> QED BY <1>9, <1>a, <1>b, <3>2 DEF CloseStore
  <2>2. Shape(intent) /\ At("target")
    BY <1>9, <2>1, <1>a, <1>e DEF Shapes, CloseStore
  <2>3. /\ main' = main /\ intent' = intent /\ before' = before
        /\ wal'["target"] \in {None, main["target"], wal["target"]}
        /\ \A n \in Name \ {"target"} : wal'[n] = wal[n]
    BY <1>9, <1>a, Typed DEF CloseStore, Files
  <2>4. Shape(intent)'
    BY <2>2, <2>3 DEF Shape, Distinct, Aside, Empty, Pair
  <2> QED BY <2>1, <2>4 DEF Shapes
<1>10. ASSUME NEW r \in Restorer, Acquire(r) PROVE Shapes'
  <2>1. pc'[r] \notin Undoing \cup {"backWal"} /\ \A q \in Process \ {r} : pc'[q] = pc[q]
    BY <1>10, <1>a, <1>b, <1>e DEF Acquire
  <2>2. Shape(intent)
    BY <1>10, <1>f DEF Acquire
  <2>3. before'[r] = main["target"] \/ before' = before
    BY <1>10, <1>a DEF Acquire, TypeOK
  <2>4. \A q \in Restorer \ {r} : before'[q] = before[q]
    BY <1>10, <1>a DEF Acquire, TypeOK
  <2>9. Shape(intent)'
    BY <1>10, <2>2, <2>3, <2>4 DEF Acquire, Shape, Distinct, Aside, Empty, Pair
  <2> QED BY <1>10, <2>1, <2>9, <1>g DEF Acquire
<1>11. ASSUME NEW r \in Restorer, WriteIntent(r) PROVE Shapes'
  <2>1. pc'[r] \notin Undoing \cup {"backWal"} /\ \A q \in Process \ {r} : pc'[q] = pc[q]
    BY <1>11, <1>a, <1>b, <1>e DEF WriteIntent
  <2>2. Shape(intent)
    BY <1>11, <1>f DEF WriteIntent
  <2>3. intent' = intent \/ At("target")
    BY <1>11 DEF WriteIntent
  <2>9. Shape(intent)'
    BY <1>11, <2>2, <2>3 DEF WriteIntent, Shape, Distinct, Aside, Empty, Pair
  <2> QED BY <1>11, <2>1, <2>9, <1>g DEF WriteIntent
<1>12. ASSUME NEW r \in Restorer, MoveAway(r) PROVE Shapes'
  <2>1. pc'[r] \notin Undoing \cup {"backWal"} /\ \A q \in Process \ {r} : pc'[q] = pc[q]
    BY <1>12, <1>a, <1>b, <1>e DEF MoveAway
  <2>2. Shape(intent)
    BY <1>12, <1>f DEF MoveAway
  <2>3. wal' = wal /\ intent' = intent /\ before' = before
    BY <1>12 DEF MoveAway
  <2>4. ASSUME At("target") PROVE Shape(intent)'
    <3>1. intent = prev[r] /\ prev[r] \in Previous /\ wal[prev[r]] = None /\ main[prev[r]] = None
      BY <1>12, <1>a, <1>e, <2>4, MoveAwayMoves DEF MoveAway, Moves, Course
    <3>2. MainGoes("target", prev[r])
      BY <1>12, <1>a, <2>4, MoveAwayMoves
    <3> QED BY <2>2, <2>3, <2>4, <3>1, <3>2 DEF Shape, MainGoes, Distinct, Aside, Empty, Pair
  <2>5. ASSUME ~At("target") PROVE Shape(intent)'
    BY <1>12, <1>a, <2>2, <2>3, <2>5, MoveAwayMoves DEF Shape, Distinct, Aside, Empty, Pair
  <2>9. Shape(intent)'
    BY <2>4, <2>5
  <2> QED BY <1>12, <2>1, <2>9, <1>g DEF MoveAway
<1>13. ASSUME NEW r \in Restorer, MoveSidecar(r) PROVE Shapes'
  <2>1. pc'[r] \notin Undoing \cup {"backWal"} /\ \A q \in Process \ {r} : pc'[q] = pc[q]
    BY <1>13, <1>a, <1>b, <1>e DEF MoveSidecar
  <2>2. Shape(intent) /\ ~At("target")
    BY <1>13, <1>a, <1>f DEF MoveSidecar, Moves
  <2>3. main' = main /\ intent' = intent /\ before' = before
    BY <1>13 DEF MoveSidecar
  <2>4. ASSUME wal["target"] = None PROVE Shape(intent)'
    BY <1>13, <1>a, <2>2, <2>3, <2>4, MoveSidecarMoves DEF Shape, Distinct, Aside, Empty, Pair
  <2>5. ASSUME wal["target"] # None, "main" \in moved[r] PROVE Shape(intent)'
    <3>1. intent = prev[r] /\ prev[r] \in Previous /\ WalGoes("target", prev[r])
      BY <1>13, <1>a, <1>e, <2>5, MoveSidecarMoves DEF MoveSidecar, Course
    <3> QED BY <2>2, <2>3, <2>5, <3>1 DEF Shape, WalGoes, Distinct, Aside, Empty, Pair
  <2>6. ASSUME wal["target"] # None, "main" \notin moved[r] PROVE Shape(intent)'
    <3>1. intent = None /\ WalGoes("target", "orphan")
      BY <1>13, <1>a, <1>e, <2>6, MoveSidecarMoves DEF MoveSidecar, Course
    <3> QED BY <2>2, <2>3, <2>6, <3>1 DEF Shape, WalGoes, Distinct, Aside, Empty, Pair
  <2>9. Shape(intent)'
    BY <2>4, <2>5, <2>6
  <2> QED BY <1>13, <2>1, <2>9, <1>g DEF MoveSidecar
<1>14. ASSUME NEW r \in Restorer, Install(r) PROVE Shapes'
  <2>1. pc'[r] \notin Undoing \cup {"backWal"} /\ \A q \in Process \ {r} : pc'[q] = pc[q]
    BY <1>14, <1>a, <1>b, <1>e DEF Install
  <2>2. Shape(intent) /\ \A n \in Name : main[n] # r
    BY <1>14, <1>e, <1>f DEF Install, Unused
  <2>3. main'["target"] = r /\ \A n \in Name \ {"target"} : main'[n] = main[n]
    BY <1>14, <1>a, Typed DEF Install, Files
  <2>4. wal["target"] = None
    BY <1>14, <1>e DEF Install, Course
  <2>9. Shape(intent)'
    BY <1>14, <2>2, <2>3, <2>4 DEF Install, Shape, Distinct, Aside, Pair
  <2> QED BY <1>14, <2>1, <2>9, <1>g DEF Install
<1>15. ASSUME NEW r \in Restorer, ClearIntent(r) PROVE Shapes'
  <2>1. pc'[r] \notin Undoing \cup {"backWal"} /\ \A q \in Process \ {r} : pc'[q] = pc[q]
    BY <1>15, <1>a, <1>b, <1>e DEF ClearIntent
  <2>2. Shape(intent) /\ At("target")
    BY <1>15, <1>a, <1>f DEF ClearIntent, Moves
  <2>9. Shape(intent)'
    BY <1>15, <2>2 DEF ClearIntent, Shape, Distinct, Aside, Empty, Pair
  <2> QED BY <1>15, <2>1, <2>9, <1>g DEF ClearIntent
<1>16. ASSUME NEW r \in Restorer, Finish(r) PROVE Shapes'
  <2>1. pc'[r] \notin Undoing \cup {"backWal"} /\ \A q \in Process \ {r} : pc'[q] = pc[q]
    BY <1>16, <1>a, <1>b, <1>e DEF Finish
  <2>2. Shape(intent)
    BY <1>16, <1>e, <1>f DEF Finish
  <2>9. Shape(intent)'
    BY <1>16, <2>2 DEF Finish, Shape, Distinct, Aside, Empty, Pair
  <2> QED BY <1>16, <2>1, <2>9, <1>g DEF Finish
<1>17. ASSUME NEW r \in Restorer, Fail(r) PROVE Shapes'
  <2>1. \A q \in Process \ {r} : pc'[q] = pc[q]
    BY <1>17, <1>a, <1>b DEF Fail
  <2>2. Shape(intent)
    BY <1>17, <1>f DEF Fail
  <2>3. Shape(intent)'
    BY <1>17, <2>2 DEF Fail, Shape, Distinct, Aside, Empty, Pair
  <2>4. ASSUME pc'[r] = "unlink" PROVE Shapes'
    BY <1>17, <2>1, <2>3, <2>4, <1>g DEF Fail
  <2>5. ASSUME pc'[r] = "undoWal" PROVE Shapes'
    <3>1. "main" \in moved[r] => intent = prev[r]
      BY <1>17, <1>a, <1>b, <1>e, <2>5 DEF Fail, Moves, Course
    <3>2. Shape(IF "main" \in moved[r] THEN prev[r] ELSE intent)'
      BY <1>17, <2>3, <3>1 DEF Fail
    <3> QED BY <1>17, <2>1, <2>5, <3>2, <1>h DEF Fail
  <2> QED BY <1>17, <2>4, <2>5, <1>b DEF Fail
<1>18. ASSUME NEW r \in Restorer, Unlink(r) PROVE Shapes'
  <2>1. pc'[r] \in Undoing /\ \A q \in Process \ {r} : pc'[q] = pc[q]
    BY <1>18, <1>a, <1>b, <1>e DEF Unlink
  <2>2. Shape(intent) /\ main["target"] = r /\ wal["target"] = None
    BY <1>18, <1>a, <1>e, <1>f DEF Unlink, Moves, Course
  <2>3. main'["target"] = None /\ \A n \in Name \ {"target"} : main'[n] = main[n]
    BY <1>18, <1>a, Typed DEF Unlink, Files
  <2>4. ASSUME "main" \in moved[r] PROVE Shape(prev[r])'
    <3>1. prev[r] \in Previous /\ At(prev[r])
      BY <1>18, <1>a, <2>4, Typed DEF Unlink, Remembered, HasMoved
    <3> QED BY <1>18, <2>2, <2>3, <3>1 DEF Unlink, Shape, Distinct, Aside, Pair
  <2>5. ASSUME "main" \notin moved[r] PROVE Shape(intent)'
    <3>1. intent = None /\ (\A n \in Previous : ~At(n)) /\ \A q \in Restorer : before[q] = None
      BY <1>18, <1>e, <2>5 DEF Unlink, Course
    <3> QED BY <1>18, <1>a, <2>2, <2>3, <3>1 DEF Unlink, Shape, Distinct, Aside, Empty, Pair, PlaceInv
  <2>9. Shape(IF "main" \in moved[r] THEN prev[r] ELSE intent)'
    BY <1>18, <2>4, <2>5 DEF Unlink
  <2> QED BY <1>18, <2>1, <2>9, <1>h DEF Unlink
<1>19. ASSUME NEW r \in Restorer, UndoSidecar(r) PROVE Shapes'
  <2>1. pc'[r] \in Undoing /\ \A q \in Process \ {r} : pc'[q] = pc[q]
    BY <1>19, <1>a, <1>b, <1>e DEF UndoSidecar
  <2>2. Shape(IF "main" \in moved[r] THEN prev[r] ELSE intent)
    BY <1>19, <1>e DEF UndoSidecar, Shapes
  <2>3. main' = main /\ intent' = intent /\ before' = before
    BY <1>19 DEF UndoSidecar
  <2>4. ASSUME "main" \in moved[r] PROVE Shape(prev[r])'
    <3>1. ~At("target") /\ prev[r] \in Previous /\ At(prev[r])
      BY <1>19, <1>a, <1>e, <2>4, Typed DEF UndoSidecar, Remembered, HasMoved, Course
    <3>2. "orphan" \notin moved[r]
      BY <1>a, <2>4 DEF Moves
    <3>3. wal' = wal \/ (wal["target"] = None /\ WalGoes(prev[r], "target"))
      BY <1>19, <1>a, <3>2, UndoSidecarMoves DEF Source
    <3>4. prev' = prev
      BY <1>19 DEF UndoSidecar
    <3> QED BY <2>2, <2>3, <2>4, <3>1, <3>3, <3>4 DEF Shape, WalGoes, Distinct, Aside, Empty, Pair
  <2>5. ASSUME "main" \notin moved[r] PROVE Shape(intent)'
    <3>1. "wal" \notin moved[r]
      BY <1>a, <2>5 DEF Moves
    <3>2. wal' = wal \/ ("orphan" \in moved[r] /\ WalGoes("orphan", "target"))
      BY <1>19, <1>a, <3>1, UndoSidecarMoves DEF Source
    <3>3. "orphan" \in moved[r] => ~At("target") /\ intent = None
      BY <1>19, <1>e, <2>5 DEF UndoSidecar, Course
    <3> QED BY <2>2, <2>3, <2>5, <3>2, <3>3 DEF Shape, WalGoes, Distinct, Aside, Empty, Pair
  <2>9. Shape(IF "main" \in moved[r] THEN prev[r] ELSE intent)'
    BY <1>19, <2>4, <2>5 DEF UndoSidecar
  <2> QED BY <1>19, <2>1, <2>9, <1>h DEF UndoSidecar
<1>20. ASSUME NEW r \in Restorer, UndoMain(r) PROVE Shapes'
  <2>1. pc'[r] \notin Undoing \cup {"backWal"} /\ \A q \in Process \ {r} : pc'[q] = pc[q]
    BY <1>20, <1>a, <1>b, <1>e DEF UndoMain
  <2>2. Shape(IF "main" \in moved[r] THEN prev[r] ELSE intent)
    BY <1>20, <1>e DEF UndoMain, Shapes
  <2>3. wal' = wal /\ intent' = intent /\ before' = before
    BY <1>20 DEF UndoMain
  <2>4. ASSUME "main" \in moved[r] PROVE Shape(intent)'
    <3>1. ~At("target") /\ prev[r] \in Previous /\ At(prev[r]) /\ wal[prev[r]] = None
      BY <1>20, <1>a, <1>e, <2>4, Typed DEF UndoMain, Remembered, HasMoved, Course
    <3>2. MainGoes(prev[r], "target")
      BY <1>20, <1>a, <2>4, <3>1, UndoMainMoves
    <3> QED BY <2>2, <2>3, <2>4, <3>1, <3>2 DEF Shape, MainGoes, Distinct, Aside, Pair
  <2>5. ASSUME "main" \notin moved[r] PROVE Shape(intent)'
    BY <1>20, <1>a, <2>2, <2>3, <2>5, UndoMainMoves DEF Shape, Distinct, Aside, Empty, Pair
  <2>9. Shape(intent)'
    BY <2>4, <2>5
  <2> QED BY <1>20, <2>1, <2>9, <1>g DEF UndoMain
<1>21. ASSUME NEW r \in Restorer, UndoIntent(r) PROVE Shapes'
  <2>1. pc'[r] \notin Undoing \cup {"backWal"} /\ \A q \in Process \ {r} : pc'[q] = pc[q]
    BY <1>21, <1>a, <1>b, <1>e DEF UndoIntent
  <2>2. Shape(intent)
    BY <1>21, <1>f DEF UndoIntent
  <2>9. Shape(intent)'
    BY <1>21, <2>2 DEF UndoIntent, Shape, Distinct, Aside, Empty, Pair
  <2> QED BY <1>21, <2>1, <2>9, <1>g DEF UndoIntent
<1>22. ASSUME NEW p \in Process, Suppress(p) PROVE Shapes'
  <2>1. Skip(p)
    BY <1>22, Skips
  <2> QED BY <2>1 DEF Skip
<1>23. ASSUME NEW p \in Process, KeepIntent(p) PROVE Shapes'
  <2>1. pc'[p] \notin Undoing \cup {"backWal"} /\ \A q \in Process \ {p} : pc'[q] = pc[q]
    BY <1>23, <1>a, <1>b, <1>e DEF KeepIntent, AfterRecovery
  <2>2. Shape(intent)
    BY <1>23, <1>e, <1>f DEF KeepIntent
  <2>9. Shape(intent)'
    BY <1>23, <2>2 DEF KeepIntent, Shape, Distinct, Aside, Empty, Pair
  <2> QED BY <1>23, <2>1, <2>9, <1>g DEF KeepIntent, AfterRecovery
<1>24. ASSUME NEW p \in Process, Crash(p) PROVE Shapes'
  <2>1. pc'[p] \notin Undoing \cup {"backWal"} /\ \A q \in Process \ {p} : pc'[q] = pc[q]
    BY <1>24, <1>a, <1>b DEF Crash
  <2>2. pc[p] \notin Undoing \cup {"backWal"}
    BY <1>24, <1>e DEF Crash
  <2>3. ASSUME pc[p] # "open" PROVE Shapes'
    <3>1. Shape(intent)
      BY <1>24, <2>2, <2>3, <1>f DEF Crash
    <3>2. Shape(intent)'
      BY <1>24, <3>1 DEF Crash, Shape, Distinct, Aside, Empty, Pair
    <3> QED BY <1>24, <2>1, <2>3, <3>2, <1>g DEF Crash
  <2>4. ASSUME pc[p] = "open" PROVE Shapes'
    <3>1. p \in Opener
      BY <1>a, <2>4
    <3>2. \A r \in Restorer : pc[r] \notin Undoing
      BY <1>a, <1>d, <2>4, <3>1
    <3>3. \A q \in Process : pc[q] \notin Undoing \cup {"backWal"} /\ pc'[q] \notin Undoing \cup {"backWal"}
      BY <1>a, <2>1, <2>4, <3>1, <3>2 DEF Reads
    <3>4. Shape(intent)
      BY <3>3, <1>e DEF Shapes
    <3>5. Shape(intent)'
      BY <1>24, <3>4 DEF Crash, Shape, Distinct, Aside, Empty, Pair
    <3> QED BY <3>3, <3>5 DEF Shapes
  <2> QED BY <2>3, <2>4
<1>25. CASE UNCHANGED vars
  BY <1>25, <1>e DEF vars, Shapes, Shape, Between, Distinct, Aside, Empty, Pair
<1> QED
  BY <1>1, <1>2, <1>3, <1>4, <1>5, <1>6, <1>7, <1>8, <1>9, <1>10, <1>11, <1>12, <1>13, <1>14,
     <1>15, <1>16, <1>17, <1>18, <1>19, <1>20, <1>21, <1>22, <1>23, <1>24, <1>25
     DEF Next, Recover, Swap, Process

LEMMA InitWhole == Init => WholeInv
<1> SUFFICES ASSUME Init PROVE WholeInv
  OBVIOUS
<1> USE Names
<1>1. PICK d \in {"old", None}, hot \in BOOLEAN :
        /\ main = [n \in Name |-> IF n = "target" THEN d ELSE None]
        /\ wal = [n \in Name |-> IF n = "target" /\ hot THEN "old" ELSE None]
  BY DEF Init
<1>2. /\ \A p \in Process : pc[p] = "idle"
      /\ \A r \in Restorer : moved[r] = {} /\ before[r] = None
      /\ intent = None
  BY DEF Init
<1>3. /\ main["target"] \in {"old", None} /\ wal["target"] \in {"old", None}
      /\ \A n \in Name \ {"target"} : main[n] = None /\ wal[n] = None
  BY <1>1
<1>4. Shape(intent)
  <2>1. Distinct /\ Aside /\ \A n \in Previous : Pair(n, n)
    BY <1>3 DEF Distinct, Aside, Pair, At
  <2>2. CASE At("target")
    BY <1>3, <2>1, <2>2 DEF Shape, Pair, At
  <2>3. CASE ~At("target")
    BY <1>2, <1>3, <2>1, <2>3 DEF Shape, Empty, At
  <2> QED BY <2>2, <2>3
<1>5. Shapes
  BY <1>2, <1>4 DEF Shapes, Undoing
<1>6. Unused
  BY <1>2, <1>3 DEF Unused, NotBegun, HasMoved, InSwap, Swapping, RollingBack
<1>7. Ready
  BY <1>2 DEF Ready
<1>8. \A r \in Restorer : Course(r)
  BY <1>2 DEF Course, Installed, Undoing
<1> QED BY <1>5, <1>6, <1>7, <1>8 DEF WholeInv

LEMMA NextWhole ==
  ASSUME ~Overlap, PlaceInv, WholeInv, [Next]_vars
  PROVE  WholeInv'
<1>1. SUFFICES ASSUME ~broken' PROVE Shapes' /\ Unused' /\ Ready' /\ \A r \in Restorer : Course(r)'
  BY DEF WholeInv
<1>2. Unused
  BY <1>1, BrokenStays DEF WholeInv
<1> QED BY <1>1, <1>2, NextShapes, NextUnused, NextReady, NextCourse

LEMMA WholeAlways ==
  ASSUME ~Overlap
  PROVE  Spec => [](PlaceInv /\ WholeInv)
<1>1. Init => PlaceInv /\ WholeInv
  BY InitPlaces, InitWhole
<1>2. PlaceInv /\ WholeInv /\ [Next]_vars => (PlaceInv /\ WholeInv)'
  BY NextPlaces, NextWhole
<1> QED BY <1>1, <1>2, PTL DEF Spec

\* whichever step a process is at, the files are in one of three shapes
LEMMA SomeShape ==
  ASSUME PlaceInv, WholeInv, ~broken
  PROVE  \/ \E k \in Previous \cup {None} : Shape(k)
         \/ \E p \in Process : Between(prev[p])
<1>1. CASE \A p \in Process : pc[p] \notin Undoing \cup {"backWal"}
  BY <1>1 DEF WholeInv, Shapes, PlaceInv, TypeOK
<1>2. ASSUME NEW p \in Process, pc[p] = "backWal" PROVE Between(prev[p])
  BY <1>2 DEF WholeInv, Shapes
<1>3. ASSUME NEW p \in Process, pc[p] \in Undoing PROVE \E k \in Previous \cup {None} : Shape(k)
  <2>1. p \in Restorer
    BY <1>3, Names DEF PlaceInv, Roles, Undoing, Recovering
  <2>2. Shape(IF "main" \in moved[p] THEN prev[p] ELSE intent)
    BY <1>3, <2>1 DEF WholeInv, Shapes
  <2> QED BY <2>1, <2>2, Names DEF PlaceInv, TypeOK
<1> QED BY <1>1, <1>2, <1>3

\* For any number of restorers and openers, and any number of crashes and
\* failing steps, SQLite never finds the WAL of another database beside the
\* one in place (NoForeignSidecar).
THEOREM NothingForeign ==
  ASSUME ~Overlap
  PROVE  Spec => []NoForeignSidecar
<1>1. ASSUME PlaceInv, WholeInv PROVE NoForeignSidecar
  <2>1. SUFFICES ASSUME ~broken, At("target") PROVE Pair("target", "target")
    BY DEF NoForeignSidecar, Pair
  <2> QED BY <1>1, <2>1, SomeShape, Names DEF Shape, Between, Empty
<1> QED BY <1>1, WholeAlways, PTL

\* For any number of restorers, openers, crashes and failing steps, a restore
\* that has ended or died leaves one whole database, with every commit in a
\* sidecar of it, where the next process looks (OldOrNew): after a restore the
\* state is the old one or the new one.
THEOREM OldOrNewAlways ==
  ASSUME ~Overlap
  PROVE  Spec => []OldOrNew
<1>1. ASSUME PlaceInv, WholeInv PROVE OldOrNew
  <2>1. SUFFICES ASSUME ~broken, \E r \in Restorer : before[r] # None, \A p \in Process : pc[p] \in Resting
                 PROVE  /\ Found # None /\ At(Found)
                        /\ \A n \in Name : wal[n] = main[Found] => n \in {Found, "target"}
    BY DEF OldOrNew
  <2>2. Shape(intent)
    BY <1>1, <2>1 DEF WholeInv, Shapes, Undoing, Resting
  <2>3. Found \in Name /\ At(Found)
    BY <1>1, <2>1, <2>2, Names DEF Shape, Empty, Found, PlaceInv, TypeOK
  <2>4. ASSUME NEW n \in Name, wal[n] = main[Found] PROVE n \in {Found, "target"}
    <3>1. wal[n] # None
      BY <2>3, <2>4 DEF At
    <3>2. CASE n \in Previous
      <4>1. main[n] = main[Found] /\ At(n)
        BY <2>2, <2>4, <3>1, <3>2 DEF Shape, Pair, At
      <4> QED BY <2>2, <2>3, <4>1 DEF Shape, Distinct
    <3>3. CASE n = "orphan"
      BY <2>2, <2>3, <2>4, <3>1, <3>3 DEF Shape, Aside
    <3> QED BY <3>2, <3>3, Names
  <2> QED BY <2>3, <2>4, Names
<1> QED BY <1>1, WholeAlways, PTL

\* the steps that end a restore leave the databases where they are
LEMMA EndsInPlace ==
  ASSUME PlaceInv, [Next]_vars, NEW r \in Restorer,
         (pc[r] = "cleared" /\ pc'[r] = "done") \/ (pc[r] = "undoIntent" /\ pc'[r] = "failed")
  PROVE  main' = main
<1> USE Names DEF Process
<1>a. ASSUME NEW p \in Process, NEW where \in {"backWal", "idle", "open", "moveWal", "clear", "undoWal", "undoIntent"},
             Goto(p, where)
      PROVE  FALSE
  BY <1>a, Going DEF PlaceInv
<1>1. ASSUME NEW p \in Process, Recover(p) \/ Suppress(p) \/ KeepIntent(p) \/ Crash(p) PROVE main' = main
  BY <1>1, <1>a DEF Recover, Start, ReadIntent, TestTarget, MainBack, WalBack, SettleIntent,
                    Suppress, KeepIntent, Crash, files
<1>2. ASSUME NEW o \in Opener, OpenStore(o) \/ Commit(o) \/ CloseStore(o) PROVE main' = main
  BY <1>2, <1>a DEF OpenStore, Commit, CloseStore
<1>3. ASSUME NEW q \in Restorer, Swap(q) PROVE main' = main
  BY <1>3, <1>a DEF Swap, Acquire, WriteIntent, MoveAway, MoveSidecar, Install, ClearIntent, Finish,
                    Fail, Unlink, UndoSidecar, UndoMain, UndoIntent, files
<1> QED BY <1>1, <1>2, <1>3 DEF Next, vars

\* For any number of restorers, openers, crashes and failing steps, a restore
\* that returns has its database in place, and one that raises after a
\* rollback has the database it found (ReportIsTrue).
THEOREM ReportsAreTrue ==
  ASSUME ~Overlap
  PROVE  Spec => ReportIsTrue
<1>1. ASSUME PlaceInv, WholeInv, [Next]_vars, NEW r \in Restorer
      PROVE  /\ pc[r] = "cleared" /\ pc'[r] = "done" => main'["target"] = r
             /\ pc[r] = "undoIntent" /\ pc'[r] = "failed" /\ ~broken => main'["target"] = before[r]
  <2>1. ASSUME pc[r] = "cleared", pc'[r] = "done" PROVE main'["target"] = r
    <3>1. main["target"] = r
      BY <1>1, <2>1 DEF PlaceInv, Moves, Installed
    <3> QED BY <1>1, <2>1, <3>1, EndsInPlace
  <2>2. ASSUME pc[r] = "undoIntent", pc'[r] = "failed", ~broken PROVE main'["target"] = before[r]
    <3>1. main["target"] = before[r]
      BY <1>1, <2>2 DEF WholeInv, Course
    <3> QED BY <1>1, <2>2, <3>1, EndsInPlace
  <2> QED BY <2>1, <2>2
<1>2. ASSUME PlaceInv, WholeInv, [Next]_vars
      PROVE  [\A r \in Restorer :
                /\ pc[r] = "cleared" /\ pc'[r] = "done" => main'["target"] = r
                /\ pc[r] = "undoIntent" /\ pc'[r] = "failed" /\ ~broken
                     => main'["target"] = before[r]]_vars
  BY <1>1, <1>2
<1> QED BY <1>2, WholeAlways, PTL DEF Spec, ReportIsTrue
=============================================================================
