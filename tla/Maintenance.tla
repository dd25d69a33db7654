---------------------------- MODULE Maintenance ----------------------------
(***************************************************************************)
(* The guard protocol of meco_news/maintenance.py over one state database: *)
(* writable StateStores, each with a RuntimeContext, against commands that *)
(* hold the exclusive MaintenanceContext (resolve, reconcile, prune,       *)
(* migrate, restore).                                                      *)
(*                                                                         *)
(* The guard has three layers: an OS lock on <db>.guard.lock, shared by    *)
(* all contexts of one process through _LOCAL_SHARED_GUARDS; the marker    *)
(* files; and the row of maintenance_fences in the database.  The threads  *)
(* of a process read and write _LOCAL_SHARED_GUARDS without a mutex.       *)
(*                                                                         *)
(* A maintenance command acquires once, in a process of its own, so its    *)
(* token and its process are both its name.  A runtime process that has    *)
(* crashed does not come back: its successor is another process.           *)
(***************************************************************************)
EXTENDS Integers, FiniteSets

CONSTANTS
  Proc,             \* processes that open the store to run or to schedule
  Store,            \* the writable StateStores they may open, each time it is opened anew
  Home,             \* the process of a store
  Outer,            \* the store inside whose with-block a store is opened, or None
  Beat,             \* stores of heartbeat threads: joined with a timeout of 5 s
  Maint,            \* maintenance commands
  None,
  MaxGuards,        \* bound: guard files open at once
  MaxFaults         \* bound: crashes and failures of the file system or the database

ASSUME MaintenanceAssumption ==
  /\ Home \in [Store -> Proc]
  /\ Outer \in [Store -> Store \cup {None}]
  /\ Beat \subseteq Store
  /\ None \notin Store \cup Maint
  /\ Proc \cap Maint = {}
  /\ MaxGuards \in Nat /\ MaxFaults \in Nat

VARIABLES
  store,        \* a store's RuntimeContext: program counter and locals
  shared,       \* _LOCAL_SHARED_GUARDS of each process: its guard and a count, or NoEntry
  sharing,      \* guard files that hold the OS lock in shared mode
  excluding,    \* the command whose guard file holds it exclusively, or None
  maint,        \* the program counter of a maintenance command
  marker,       \* the command <db>.maintenance.json names, or None
  elapsed,      \* the TTL of that marker has passed
  holders,      \* stores with a marker file in <db>.runtime.d
  fence,        \* the row of maintenance_fences
  alive,        \* the processes that have not ended
  casualties,   \* commands that crashed, or failed to release their row or marker
  faults

vars == <<store, shared, sharing, excluding, maint, marker, elapsed, holders, fence,
          alive, casualties, faults>>

Guard == 1..MaxGuards      \* guard files; 0 stands for none
NoEntry == [guard |-> 0, count |-> 0]
Entry == [guard : 0..MaxGuards, count : 0..Cardinality(Store)]

StorePlace == {"idle", "join", "check", "announce", "open", "leave", "left", "ended"}
MaintPlace == {"idle", "marker", "runtimes", "publish", "held", "unfence", "unmark", "unlock",
               "gone"}

StoreState == [pc : StorePlace,
               seen : Entry,                \* the entry read from _LOCAL_SHARED_GUARDS
               guard : 0..MaxGuards]        \* self._guard

Closed == [pc |-> "idle", seen |-> NoEntry, guard |-> 0]

Init ==
  /\ store = [s \in Store |-> Closed]
  /\ shared = [p \in Proc |-> NoEntry]
  /\ sharing = {}
  /\ excluding = None
  /\ maint = [m \in Maint |-> "idle"]
  /\ marker = None
  /\ elapsed = FALSE
  /\ holders = {}
  /\ fence = [epoch |-> 0, by |-> None, released |-> TRUE]
  /\ alive = Proc \cup Maint
  /\ casualties = {}
  /\ faults = 0

TypeOK ==
  /\ store \in [Store -> StoreState]
  /\ shared \in [Proc -> Entry]
  /\ sharing \subseteq Guard
  /\ excluding \in Maint \cup {None}
  /\ maint \in [Maint -> MaintPlace]
  /\ marker \in Maint \cup {None}
  /\ elapsed \in BOOLEAN
  /\ holders \subseteq Store
  /\ fence \in [epoch : 0..Cardinality(Maint), by : Maint \cup {None}, released : BOOLEAN]
  /\ alive \subseteq Proc \cup Maint
  /\ casualties \subseteq Maint
  /\ faults \in 0..MaxFaults

storeSide == <<store, shared, sharing, holders>>
maintSide == <<maint, excluding, marker, elapsed, fence, casualties>>
world == <<alive, faults>>

Fault == faults < MaxFaults /\ faults' = faults + 1

(***************************************************************************)
(* Slips: the bugs the mutants of the project put into the operators below *)
(***************************************************************************)
SlipShareAnyway == TRUE
SlipLockAnyway == TRUE
SlipKeepRow(m) == fence

(***************************************************************************)
(* What the files say.                                                     *)
(***************************************************************************)
Stale == elapsed /\ marker \notin alive                          \* _is_stale
MaintenanceHeld == marker # None /\ ~Stale                       \* is_maintenance_held
LiveHolders == {s \in holders : Home[s] \in alive}               \* _live_runtime_holders
NoLiveHolder == LiveHolders = {}

\* flock(LOCK_SH | LOCK_NB), flock(LOCK_EX | LOCK_NB)
MayShare == excluding = None
MayExclude == excluding = None /\ sharing = {}

(***************************************************************************)
(* A guard file is closed, and with it its lock, when it is released and   *)
(* when nothing refers to it any more: no _LOCAL_SHARED_GUARDS, no context *)
(* and no local variable of acquire or release.                            *)
(***************************************************************************)
Referenced(st, sh) ==
  {st[s].guard : s \in Store} \cup {st[s].seen.guard : s \in Store} \cup {sh[p].guard : p \in Proc}
CloseGuard(g) == sharing' = (sharing \ {g}) \cap Referenced(store', shared')
NewGuard == CHOOSE g \in Guard \ Referenced(store, shared) : TRUE
GuardLeft == ~(Guard \subseteq Referenced(store, shared))

(***************************************************************************)
(* StateStore.__init__ and close, RuntimeContext.acquire and release.      *)
(***************************************************************************)
AtStore(s, p) == store[s].pc = p
OpenStore(s) == AtStore(s, "open")
Goto(s, p) == store' = [store EXCEPT ![s].pc = p]

\* a daemon opens its scheduler store once and starts one heartbeat thread
OnceOnly(s) == s \in Beat \/ \E t \in Beat : Outer[t] = s

\* A process has one outermost store; only a daemon opens others, inside it.
ASSUME NestingAssumption ==
  /\ \A s, t \in Store : Home[s] = Home[t] /\ Outer[s] = None /\ Outer[t] = None => s = t
  /\ \A s \in Store : Outer[s] # None =>
       Outer[Outer[s]] = None /\ Home[Outer[s]] = Home[s] /\ OnceOnly(Outer[s])

Done(s) == [Closed EXCEPT !.pc = IF OnceOnly(s) THEN "ended" ELSE "idle"]

\* the with-block around the store is entered and has not been left
Within(s) == Outer[s] # None => OpenStore(Outer[s])

\* StateStore.__init__ up to the read of _LOCAL_SHARED_GUARDS
Open(s) ==
  /\ AtStore(s, "idle") /\ Home[s] \in alive /\ Within(s)
  /\ ~MaintenanceHeld
  /\ store' = [store EXCEPT ![s] = [Closed EXCEPT !.pc = "join", !.seen = shared[Home[s]]]]
  /\ UNCHANGED <<shared, sharing, holders, maintSide, world>>

\* _acquire_guard_file when there was no entry, one more user of it otherwise
Join(s) ==
  /\ AtStore(s, "join")
  /\ LET p == Home[s]
         first == store[s].seen = NoEntry
         g == IF first THEN NewGuard ELSE store[s].seen.guard
     IN  /\ first => GuardLeft
         /\ IF first /\ ~MayShare
            THEN /\ store' = [store EXCEPT ![s] = Done(s)]
                 /\ UNCHANGED <<shared, sharing>>
            ELSE /\ shared' = [shared EXCEPT ![p] = [guard |-> g, count |-> store[s].seen.count + 1]]
                 /\ store' = [store EXCEPT ![s].pc = "check", ![s].guard = g]
                 /\ sharing' = IF first THEN sharing \cup {g} ELSE sharing
  /\ UNCHANGED <<holders, maintSide, world>>

\* acquire fails: whoever made the entry drops it, another gives back its share
Withdraw(s) ==
  /\ \/ /\ store[s].seen = NoEntry
        /\ store' = [store EXCEPT ![s] = Done(s)]
        /\ shared' = [shared EXCEPT ![Home[s]] = NoEntry]
        /\ CloseGuard(shared[Home[s]].guard)
     \/ /\ store[s].seen # NoEntry
        /\ Goto(s, "leave")
        /\ UNCHANGED <<shared, sharing>>
  /\ UNCHANGED holders

\* the second look at the marker, then dead holders are pruned
Check(s) ==
  /\ AtStore(s, "check")
  /\ \/ MaintenanceHeld /\ Withdraw(s)
     \/ /\ ~MaintenanceHeld
        /\ Goto(s, "announce")
        /\ holders' = LiveHolders
        /\ UNCHANGED <<shared, sharing>>
  /\ UNCHANGED <<maintSide, world>>

\* the marker file is published and acquire returns, or the write fails
Announce(s) ==
  /\ AtStore(s, "announce")
  /\ \/ Fault /\ Withdraw(s)
     \/ /\ store' = [store EXCEPT ![s].pc = "open", ![s].seen = NoEntry]
        /\ holders' = holders \cup {s}
        /\ UNCHANGED <<shared, faults>>
        /\ CloseGuard(0)
  /\ UNCHANGED <<maintSide, alive>>

\* the store closes when what was opened inside it has closed; for a heartbeat
\* thread the daemon waits no more than five seconds
Alone(s) == \A t \in Store \ Beat : Outer[t] = s => store[t].pc \in {"idle", "ended"}

Close(s) ==
  /\ OpenStore(s) /\ Alone(s)
  /\ Goto(s, "leave")
  /\ holders' = holders \ {s}
  /\ UNCHANGED <<shared, sharing, maintSide, world>>

\* release reads the entry ...
Leave(s) ==
  /\ AtStore(s, "leave")
  /\ store' = [store EXCEPT ![s].pc = "left", ![s].seen = shared[Home[s]]]
  /\ UNCHANGED <<shared, sharing, holders, maintSide, world>>

\* ... and lowers the count it has read, or drops the entry and its guard
Left(s) ==
  /\ AtStore(s, "left")
  /\ store' = [store EXCEPT ![s] = Done(s)]
  /\ LET p == Home[s]
         seen == store[s].seen
     IN  \/ /\ seen = NoEntry
            /\ UNCHANGED shared /\ CloseGuard(0)
         \/ /\ seen # NoEntry /\ seen.count <= 1
            /\ shared' = [shared EXCEPT ![p] = NoEntry]
            /\ CloseGuard(seen.guard)
         \/ /\ seen.count > 1
            /\ shared' = [shared EXCEPT ![p] = [guard |-> seen.guard, count |-> seen.count - 1]]
            /\ CloseGuard(0)
  /\ UNCHANGED <<holders, maintSide, world>>

StoreStep(s) == Join(s) \/ Check(s) \/ Announce(s) \/ Leave(s) \/ Left(s)

(***************************************************************************)
(* MaintenanceContext.acquire.  A refused command has left nothing behind  *)
(* and may be issued again.                                                *)
(***************************************************************************)
At(m, p) == maint[m] = p
Move(m, p) == maint' = [maint EXCEPT ![m] = p]
Refuse(m) == Move(m, "idle") /\ excluding' = None

Lock(m) ==
  /\ At(m, "idle") /\ m \in alive
  /\ MayExclude
  /\ excluding' = m
  /\ Move(m, "marker")
  /\ UNCHANGED <<marker, elapsed, fence, casualties, storeSide, world>>

\* a live marker refuses, a stale one is taken over
ReadMarker(m) ==
  /\ At(m, "marker")
  /\ \/ MaintenanceHeld /\ Refuse(m) /\ UNCHANGED <<marker, elapsed>>
     \/ /\ ~MaintenanceHeld
        /\ Move(m, "runtimes") /\ marker' = None /\ elapsed' = FALSE
        /\ UNCHANGED excluding
  /\ UNCHANGED <<fence, casualties, storeSide, world>>

\* a live runtime holder refuses, dead ones are pruned
CheckRuntimes(m) ==
  /\ At(m, "runtimes")
  /\ holders' = LiveHolders
  /\ \/ ~NoLiveHolder /\ Refuse(m)
     \/ NoLiveHolder /\ Move(m, "publish") /\ UNCHANGED excluding
  /\ UNCHANGED <<marker, elapsed, fence, casualties, store, shared, sharing, world>>

\* the marker and the fence file; when one of them fails, all is undone
Publish(m) ==
  /\ At(m, "publish")
  /\ \/ /\ Move(m, "held") /\ marker' = m /\ elapsed' = FALSE
        /\ UNCHANGED <<excluding, faults>>
     \/ /\ Refuse(m) /\ Fault
        /\ UNCHANGED <<marker, elapsed>>
  /\ UNCHANGED <<fence, casualties, storeSide, alive>>

(***************************************************************************)
(* A mutation under the guard: ensure_database_fence upserts the row in    *)
(* the same transaction, so both are committed or neither is.              *)
(***************************************************************************)
Owned(m) == marker = m /\ ~Stale                                  \* live
FenceBy(m) == fence.by = m /\ ~fence.released

Mutate(m) ==
  /\ At(m, "held") /\ Owned(m)
  /\ fence' = IF FenceBy(m) THEN fence
              ELSE [epoch |-> fence.epoch + 1, by |-> m, released |-> FALSE]
  /\ UNCHANGED <<maint, excluding, marker, elapsed, casualties, storeSide, world>>

(***************************************************************************)
(* MaintenanceContext.release: the row, whatever happens to it; the fence  *)
(* file and the marker; the OS lock, whatever happened before.             *)
(***************************************************************************)
ReleasedRow(m) == IF FenceBy(m) THEN [fence EXCEPT !.released = TRUE] ELSE fence

Release(m) ==
  /\ At(m, "held")
  /\ Move(m, IF marker = m THEN "unfence" ELSE "unlock")
  /\ UNCHANGED <<excluding, marker, elapsed, fence, casualties, storeSide, world>>

Unfence(m) ==
  /\ At(m, "unfence")
  /\ Move(m, "unmark")
  /\ \/ fence' = ReleasedRow(m) /\ UNCHANGED <<casualties, faults>>
     \/ Fault /\ casualties' = casualties \cup {m} /\ UNCHANGED fence
  /\ UNCHANGED <<excluding, marker, elapsed, storeSide, alive>>

Unmark(m) ==
  /\ At(m, "unmark")
  /\ Move(m, "unlock")
  /\ \/ marker' = None /\ elapsed' = FALSE /\ UNCHANGED <<casualties, faults>>
     \/ Fault /\ casualties' = casualties \cup {m} /\ UNCHANGED <<marker, elapsed>>
  /\ UNCHANGED <<excluding, fence, storeSide, alive>>

\* the lock is released and the command ends
Unlock(m) ==
  /\ At(m, "unlock")
  /\ Move(m, "gone")
  /\ excluding' = None
  /\ alive' = alive \ {m}
  /\ UNCHANGED <<marker, elapsed, fence, casualties, storeSide, faults>>

MaintStep(m) ==
  \/ ReadMarker(m) \/ CheckRuntimes(m) \/ Publish(m)
  \/ Release(m) \/ Unfence(m) \/ Unmark(m) \/ Unlock(m)

(***************************************************************************)
(* The environment.  The end of a process closes its guard files; what it  *)
(* has written to files stays.                                             *)
(***************************************************************************)
EndProcess(p) ==
  /\ p \in alive
  /\ alive' = alive \ {p}
  /\ store' = [s \in Store |-> IF Home[s] = p THEN [Closed EXCEPT !.pc = "ended"] ELSE store[s]]
  /\ shared' = [shared EXCEPT ![p] = NoEntry]
  /\ CloseGuard(0)
  /\ UNCHANGED <<holders, maintSide>>

Crash(p) == Fault /\ EndProcess(p)

\* the main thread returns; a heartbeat thread that is left dies with it
Exit(p) ==
  /\ \A s \in Store : Home[s] = p =>
        store[s].pc \in {"idle", "ended"} \/ (s \in Beat /\ ~Within(s))
  /\ EndProcess(p)
  /\ UNCHANGED faults

\* a command that crashes in the middle of its transaction has not committed
CrashMaint(m) ==
  /\ Fault
  /\ m \in alive /\ ~At(m, "idle")
  /\ alive' = alive \ {m}
  /\ Move(m, "gone")
  /\ excluding' = IF excluding = m THEN None ELSE excluding
  /\ casualties' = casualties \cup {m}
  /\ UNCHANGED <<marker, elapsed, fence, storeSide>>

\* the TTL of the marker passes
Elapse ==
  /\ marker # None /\ ~elapsed
  /\ elapsed' = TRUE
  /\ UNCHANGED <<maint, excluding, marker, fence, casualties, storeSide, world>>

Next ==
  \/ \E s \in Store : Open(s) \/ Close(s) \/ StoreStep(s)
  \/ \E m \in Maint : Lock(m) \/ Mutate(m) \/ MaintStep(m) \/ CrashMaint(m)
  \/ \E p \in Proc : Crash(p) \/ Exit(p)
  \/ Elapse

Spec == Init /\ [][Next]_vars

(***************************************************************************)
(* Every operation that has begun goes on, and time passes; nobody has to  *)
(* issue a maintenance command, to open a store or to crash.               *)
(***************************************************************************)
Fairness ==
  /\ \A s \in Store : WF_vars(StoreStep(s)) /\ WF_vars(Close(s))
  /\ \A m \in Maint : WF_vars(MaintStep(m))
  /\ WF_vars(Elapse)

FairSpec == Spec /\ Fairness

-----------------------------------------------------------------------------
Holding(m) == maint[m] \in {"held", "unfence", "unmark"}

\* No writable store is open while a maintenance command holds the guard, even
\* when the threads of a daemon have lost count of the users of their lock: the
\* scheduler store's marker is there as long.  The exception is a heartbeat
\* thread that the daemon has stopped waiting for: it may be open beside a
\* command until its process ends.
Exclusion ==
  \A s \in Store : OpenStore(s) /\ Within(s) => \A m \in Maint : ~Holding(m)

\* A command that holds the guard keeps it until it releases it or crashes:
\* nobody takes over its marker, or its fence row once it has committed.
AuthorityKept ==
  \A m \in Maint : maint[m] \in {"held", "unfence"} =>
     /\ Owned(m) /\ excluding = m
     /\ \A n \in Maint \ {m} : FenceBy(n) => n \in casualties

\* An open store has what _assert_runtime_authority_in_transaction asks for:
\* its transactions are refused only when a command died or failed to release.
\* Again a heartbeat thread left behind by its daemon is excepted.
OpenHasAuthority ==
  \A s \in Store : OpenStore(s) /\ Within(s) =>
     /\ s \in holders
     /\ ~MaintenanceHeld
     /\ fence.released \/ fence.by \in casualties

\* The plan (PRODUCTION_READINESS_CLOSURE_IMPLEMENTATION_PLAN.md:900): the OS
\* lock is retained until all handles of the process close.  Asked only of
\* stores whose daemon is still at work.
LockRetained ==
  \A s \in Store : OpenStore(s) /\ Within(s) =>
     \E t \in Store : Home[t] = Home[s] /\ store[t].guard \in sharing

\* maintenance.py:12-15: a dead holder can never block operations forever.
BlockedByDead ==
  \/ MaintenanceHeld /\ marker \notin alive
  \/ ~fence.released /\ fence.by \notin alive
DeadHolderNeverBlocks == BlockedByDead ~> ~BlockedByDead
=============================================================================
