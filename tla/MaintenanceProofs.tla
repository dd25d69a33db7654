-------------------------- MODULE MaintenanceProofs --------------------------
(***************************************************************************)
(* For any number of processes, stores and maintenance commands: a command *)
(* that holds the guard keeps it until it releases it or crashes; no store *)
(* is open beside it; and an open store has the authority to write.        *)
(*                                                                         *)
(* The first follows from the exclusive lock alone.  The others follow     *)
(* from the outermost store of each process, which acquires while nothing  *)
(* else of its process runs: what its threads do to the count later is of  *)
(* no consequence, for by then its marker keeps commands out.              *)
(***************************************************************************)
EXTENDS Maintenance, TLAPS

GuardType ==
  /\ maint \in [Maint -> MaintPlace]
  /\ fence \in [epoch : Int, by : Maint \cup {None}, released : BOOLEAN]

\* a command under way has the lock, and its process lives
LockHeld == \A m \in Maint : maint[m] \notin {"idle", "gone"} => excluding = m /\ m \in alive

\* a command that has acquired and not yet released is the one the marker names
MarkerHeld == \A m \in Maint : maint[m] \in {"held", "unfence"} => marker = m

\* an unreleased row is that of a command under way, or of a casualty
RowHeld == \A m \in Maint : FenceBy(m) => maint[m] \in {"held", "unfence"} \/ m \in casualties

GuardInv == GuardType /\ LockHeld /\ MarkerHeld /\ RowHeld

-----------------------------------------------------------------------------
\* What a store or its process does is no matter of the commands.
LEMMA StoreSideSteps ==
  ASSUME GuardInv,
         \/ \E s \in Store : Open(s) \/ Close(s) \/ StoreStep(s)
         \/ \E p \in Proc : Crash(p) \/ Exit(p)
         \/ UNCHANGED vars
  PROVE  GuardInv'
<1>1. UNCHANGED maintSide /\ \A m \in Maint : m \in alive => m \in alive'
  <2>1. CASE UNCHANGED vars
    BY <2>1 DEF vars, maintSide
  <2>2. ASSUME NEW s \in Store, Open(s) \/ Close(s) \/ StoreStep(s)
        PROVE  UNCHANGED maintSide /\ \A m \in Maint : m \in alive => m \in alive'
    BY <2>2 DEF Open, Close, StoreStep, Join, Check, Announce, Leave, Left, world
  <2>3. ASSUME NEW p \in Proc, Crash(p) \/ Exit(p)
        PROVE  UNCHANGED maintSide /\ \A m \in Maint : m \in alive => m \in alive'
    BY <2>3, MaintenanceAssumption DEF Crash, Exit, EndProcess
  <2> QED BY <2>1, <2>2, <2>3
<1> QED
  BY <1>1 DEF GuardInv, GuardType, LockHeld, MarkerHeld, RowHeld, FenceBy, maintSide

LEMMA MaintSteps ==
  ASSUME GuardInv, NEW m \in Maint, Lock(m) \/ Mutate(m) \/ MaintStep(m) \/ CrashMaint(m)
  PROVE  GuardInv'
<1> USE MaintenanceAssumption DEF GuardInv, GuardType, LockHeld, MarkerHeld, RowHeld, FenceBy,
          MaintPlace, At, Move, maintSide, storeSide, world
<1>1. CASE Lock(m)
  BY <1>1 DEF Lock, MayExclude
<1>2. CASE Mutate(m)
  <2>1. fence' \in [epoch : Int, by : Maint \cup {None}, released : BOOLEAN]
    BY <1>2 DEF Mutate
  <2>2. RowHeld'
    BY <1>2 DEF Mutate
  <2> QED BY <1>2, <2>1, <2>2 DEF Mutate
<1>3. CASE ReadMarker(m)
  BY <1>3 DEF ReadMarker, Refuse
<1>4. CASE CheckRuntimes(m)
  BY <1>4 DEF CheckRuntimes, Refuse
<1>5. CASE Publish(m)
  BY <1>5 DEF Publish, Refuse, Fault
<1>6. CASE Release(m)
  BY <1>6 DEF Release
<1>7. CASE Unfence(m)
  <2>1. fence' \in [epoch : Int, by : Maint \cup {None}, released : BOOLEAN]
    <3>1. [fence EXCEPT !.released = TRUE] \in [epoch : Int, by : Maint \cup {None}, released : BOOLEAN]
      OBVIOUS
    <3> QED BY <1>7, <3>1 DEF Unfence, ReleasedRow
  <2>2. RowHeld'
    BY <1>7 DEF Unfence, ReleasedRow
  <2> QED BY <1>7, <2>1, <2>2 DEF Unfence
<1>8. CASE Unmark(m)
  BY <1>8 DEF Unmark
<1>9. CASE Unlock(m)
  BY <1>9 DEF Unlock
<1>10. CASE CrashMaint(m)
  BY <1>10 DEF CrashMaint, Fault
<1> QED
  BY <1>1, <1>2, <1>3, <1>4, <1>5, <1>6, <1>7, <1>8, <1>9, <1>10 DEF MaintStep

\* The lock, the marker and the fence row always belong to the command under way.
THEOREM GuardInvariant == Spec => []GuardInv
<1>1. Init => GuardInv
  BY MaintenanceAssumption
     DEF Init, GuardInv, GuardType, LockHeld, MarkerHeld, RowHeld, FenceBy, MaintPlace
<1>2. GuardInv /\ [Next]_vars => GuardInv'
  <2> SUFFICES ASSUME GuardInv, [Next]_vars PROVE GuardInv'
    OBVIOUS
  <2>1. CASE Elapse
    BY <2>1 DEF Elapse, GuardInv, GuardType, LockHeld, MarkerHeld, RowHeld, FenceBy, storeSide, world
  <2> QED BY <2>1, StoreSideSteps, MaintSteps DEF Next
<1> QED BY <1>1, <1>2, PTL DEF Spec

\* A command that holds the guard keeps it until it releases it or crashes:
\* nobody takes over its marker, or its fence row once it has committed.
THEOREM AuthorityIsKept == Spec => []AuthorityKept
<1>1. GuardInv => AuthorityKept
  BY DEF GuardInv, LockHeld, MarkerHeld, RowHeld, AuthorityKept, Owned, Stale
<1> QED BY <1>1, GuardInvariant, PTL

-----------------------------------------------------------------------------
(***************************************************************************)
(* The shared side.  The count of a daemon may go wrong once its threads   *)
(* race, but not before its outermost store is open: that store is alone   *)
(* in its process while it acquires, so it has the lock when it publishes  *)
(* its marker, and the marker keeps commands out from then on.             *)
(***************************************************************************)
AnyEntry == [guard : Nat, count : Int]

StoreType ==
  /\ store \in [Store -> [pc : StorePlace, seen : AnyEntry, guard : Nat]]
  /\ shared \in [Proc -> AnyEntry]

Root(r) == Outer[r] = None

\* process p refers to guard file g
Uses(p, g) ==
  \/ g = shared[p].guard
  \/ \E s \in Store : Home[s] = p /\ (g = store[s].guard \/ g = store[s].seen.guard)

\* processes have no guard file in common
Apart == \A p, q \in Proc : p # q => \A g : Uses(p, g) /\ Uses(q, g) => g = 0

OneMode == excluding # None => sharing = {}

Living(s) == store[s].pc \notin {"idle", "ended"} => Home[s] \in alive
Listed(s) == OpenStore(s) => s \in holders

\* the outermost store is alone until it is open, and has the lock when it has
\* looked for a command; without inner stores it is alone for ever
InnersIdle(r) == \A s \in Store : Home[s] = Home[r] /\ s # r => AtStore(s, "idle")
MyEntry(r) == [guard |-> store[r].guard, count |-> 1]
Acquires(r) ==
  /\ store[r].pc \in {"idle", "join"} =>
       shared[Home[r]] = NoEntry /\ store[r].seen = NoEntry /\ InnersIdle(r)
  /\ store[r].pc \in {"check", "announce"} =>
       /\ shared[Home[r]] = MyEntry(r) /\ store[r].seen = NoEntry /\ InnersIdle(r)
       /\ store[r].guard \in sharing /\ store[r].guard # 0
  /\ ~OnceOnly(r) =>
       /\ store[r].pc \in {"open", "leave"} => shared[Home[r]] = MyEntry(r)
       /\ store[r].pc = "left" => store[r].seen # NoEntry /\ store[r].seen.count = 1

Unmarked(r) == store[r].pc \in {"announce", "open"} => ~MaintenanceHeld

Refusing(m) == maint[m] \in {"publish", "held", "unfence", "unmark"}
KeptOut(r) == OpenStore(r) => \A m \in Maint : ~Refusing(m)

RowNamed == fence.released \/ fence.by \in Maint

RuntimeInv ==
  /\ StoreType /\ Apart /\ OneMode /\ RowNamed
  /\ \A s \in Store : Living(s) /\ Listed(s)
  /\ \A r \in Store : Root(r) => Acquires(r) /\ Unmarked(r) /\ KeptOut(r)

\* the outermost store of a process, and the others inside it
LEMMA Nested ==
  ASSUME NEW s \in Store, NEW r \in Store, Root(r), Home[r] = Home[s], r # s
  PROVE  Outer[s] = r /\ OnceOnly(r) /\ ~Root(s)
<1>1. ~Root(s)
  BY NestingAssumption DEF Root
<1>2. Outer[s] \in Store /\ Outer[Outer[s]] = None /\ Home[Outer[s]] = Home[s] /\ OnceOnly(Outer[s])
  BY <1>1, MaintenanceAssumption, NestingAssumption DEF Root
<1>3. Outer[s] = r
  BY <1>2, NestingAssumption DEF Root
<1> QED BY <1>1, <1>2, <1>3

LEMMA Fresh ==
  ASSUME GuardLeft
  PROVE  /\ NewGuard \in Nat /\ NewGuard # 0
         /\ \A q \in Proc : ~Uses(q, NewGuard)
<1>1. \E g : g \in Guard \ Referenced(store, shared)
  BY DEF GuardLeft
<1>2. NewGuard \in Guard \ Referenced(store, shared)
  BY <1>1 DEF NewGuard
<1>3. NewGuard \in Nat /\ NewGuard # 0
  BY <1>2, MaintenanceAssumption DEF Guard
<1>4. \A q \in Proc : ~Uses(q, NewGuard)
  BY <1>2 DEF Uses, Referenced
<1> QED BY <1>3, <1>4

\* Closing a guard file of one process takes no lock from another.
LEMMA Closing ==
  ASSUME Apart, NEW p \in Proc, NEW x, x = 0 \/ Uses(p, x), CloseGuard(x),
         \A q \in Proc \ {p} : shared'[q] = shared[q],
         \A t \in Store : Home[t] # p => store'[t] = store[t]
  PROVE  /\ sharing' \subseteq sharing
         /\ \A q \in Proc \ {p} : \A g : g \in sharing /\ Uses(q, g) /\ g # 0 => g \in sharing'
<1>1. sharing' = (sharing \ {x}) \cap Referenced(store', shared')
  BY DEF CloseGuard
<1>2. ASSUME NEW q \in Proc \ {p}, NEW g, g \in sharing, Uses(q, g), g # 0
      PROVE  g \in sharing'
  <2>1. g # x
    BY <1>2 DEF Apart
  <2>2. shared[q].guard \in Referenced(store', shared')
    BY DEF Referenced
  <2>3. \A t \in Store : Home[t] = q =>
          store[t].guard \in Referenced(store', shared') /\ store[t].seen.guard \in Referenced(store', shared')
    BY DEF Referenced
  <2>4. g \in Referenced(store', shared')
    BY <1>2, <2>2, <2>3 DEF Uses
  <2> QED BY <1>1, <1>2, <2>1, <2>4
<1> QED BY <1>1, <1>2

-----------------------------------------------------------------------------
(***************************************************************************)
(* What a step of store s leaves to the others.                            *)
(***************************************************************************)
Stepped(s) ==
  /\ UNCHANGED <<maintSide, alive>>
  /\ StoreType'
  /\ \A t \in Store \ {s} : store'[t] = store[t]
  /\ \A q \in Proc \ {Home[s]} : shared'[q] = shared[q]
  /\ \A g : Uses(Home[s], g)' => Uses(Home[s], g) \/ g = 0 \/ \A q \in Proc : ~Uses(q, g)
  /\ \A q \in Proc \ {Home[s]} : \A g : g \in sharing /\ Uses(q, g) /\ g # 0 => g \in sharing'
  /\ excluding # None => sharing' \subseteq sharing
  /\ \A t \in Store \ {s} : t \in holders /\ Home[t] \in alive => t \in holders'

\* and what it owes to itself
Itself(s) ==
  /\ Living(s) /\ Listed(s)
  /\ Root(s) => Acquires(s) /\ Unmarked(s) /\ KeptOut(s)

LEMMA SteppedKeeps ==
  ASSUME RuntimeInv, NEW s \in Store, Stepped(s), Itself(s)',
         AtStore(s, "idle") => Within(s)
  PROVE  RuntimeInv'
<1> DEFINE p == Home[s]
<1>1. p \in Proc /\ \A t \in Store : Home[t] \in Proc
  BY MaintenanceAssumption
<1>2. \A t \in Store \ {s} : store'[t] = store[t]
  BY DEF Stepped
<1>3. \A q \in Proc \ {p} : shared'[q] = shared[q]
  BY DEF Stepped
<1>4. \A q \in Proc \ {p} : \A g : Uses(q, g)' = Uses(q, g)
  BY <1>2, <1>3 DEF Uses
<1>5. Apart'
  <2> SUFFICES ASSUME NEW q \in Proc, NEW u \in Proc, q # u, NEW g, Uses(q, g)', Uses(u, g)'
               PROVE  g = 0
    BY DEF Apart
  <2>1. CASE q # p /\ u # p
    BY <1>4, <2>1 DEF RuntimeInv, Apart
  <2>2. CASE q = p
    BY <1>1, <1>4, <2>2 DEF RuntimeInv, Apart, Stepped
  <2>3. CASE u = p
    BY <1>1, <1>4, <2>3 DEF RuntimeInv, Apart, Stepped
  <2> QED BY <2>1, <2>2, <2>3
<1>6. OneMode' /\ RowNamed' /\ StoreType'
  BY DEF RuntimeInv, OneMode, RowNamed, Stepped, maintSide
<1>7. UNCHANGED <<maint, alive>> /\ MaintenanceHeld' = MaintenanceHeld
  BY DEF Stepped, maintSide, MaintenanceHeld, Stale
<1>8. ASSUME NEW t \in Store \ {s}
      PROVE  Living(t)' /\ Listed(t)'
  BY <1>2, <1>7, <1>8 DEF RuntimeInv, Living, Listed, OpenStore, AtStore, Stepped
<1>9. ASSUME NEW r \in Store \ {s}, Root(r)
      PROVE  Acquires(r)' /\ Unmarked(r)' /\ KeptOut(r)'
  <2>1. Acquires(r) /\ Unmarked(r) /\ KeptOut(r) /\ store'[r] = store[r]
    BY <1>2, <1>9 DEF RuntimeInv
  <2>2. Unmarked(r)' /\ KeptOut(r)'
    BY <1>7, <2>1 DEF Unmarked, KeptOut, Refusing, OpenStore, AtStore
  <2>3. CASE Home[r] = p
    <3>1. Outer[s] = r /\ OnceOnly(r) /\ Outer[s] # None
      BY <1>9, <2>3, Nested, MaintenanceAssumption
    <3>2. store[r].pc \notin {"idle", "join", "check", "announce"}
      BY <2>1, <2>3, <3>1 DEF Acquires, InnersIdle, Within, OpenStore, AtStore
    <3> QED BY <2>1, <2>2, <3>1, <3>2 DEF Acquires, OnceOnly
  <2>4. CASE Home[r] # p
    <3>1. Home[r] \in Proc \ {p}
      BY <1>1, <2>4
    <3>2. shared'[Home[r]] = shared[Home[r]] /\ (InnersIdle(r) => InnersIdle(r)')
      BY <1>2, <1>3, <2>4, <3>1 DEF InnersIdle, AtStore
    <3>3. store[r].guard \in sharing /\ store[r].guard # 0 => store[r].guard \in sharing'
      <4>1. Uses(Home[r], store[r].guard)
        BY DEF Uses
      <4> QED BY <3>1, <4>1 DEF Stepped
    <3>4. MyEntry(r)' = MyEntry(r) /\ OnceOnly(r)' = OnceOnly(r)
      BY <2>1 DEF MyEntry, OnceOnly
    <3> QED BY <2>1, <2>2, <3>2, <3>3, <3>4 DEF Acquires
  <2> QED BY <2>3, <2>4
<1> QED BY <1>5, <1>6, <1>8, <1>9 DEF RuntimeInv, Itself

LEMMA StepUses ==
  ASSUME NEW s \in Store, \A t \in Store \ {s} : store'[t] = store[t],
         NEW g, Uses(Home[s], g)'
  PROVE  \/ Uses(Home[s], g) \/ g = shared'[Home[s]].guard
         \/ g = store'[s].guard \/ g = store'[s].seen.guard
BY DEF Uses

LEMMA OpenKeeps ==
  ASSUME RuntimeInv, NEW s \in Store, Open(s)
  PROVE  RuntimeInv'
<1> DEFINE p == Home[s]
<1>1. /\ store[s].pc = "idle" /\ p \in alive /\ Within(s)
      /\ store' = [store EXCEPT ![s] = [Closed EXCEPT !.pc = "join", !.seen = shared[p]]]
      /\ UNCHANGED <<shared, sharing, holders, maintSide, alive>>
  BY DEF Open, AtStore, world
<1>2. StoreType /\ p \in Proc /\ shared[p] \in AnyEntry
  BY MaintenanceAssumption DEF RuntimeInv, StoreType
<1>3. /\ store'[s] = [pc |-> "join", seen |-> shared[p], guard |-> 0]
      /\ \A t \in Store \ {s} : store'[t] = store[t]
  BY <1>1, <1>2 DEF StoreType, Closed
<1>4. StoreType'
  BY <1>1, <1>2 DEF StoreType, StorePlace, Closed
<1>5. ASSUME NEW g, Uses(p, g)' PROVE Uses(p, g) \/ g = 0
  <2>1. Uses(p, g) \/ g = shared'[p].guard \/ g = store'[s].guard \/ g = store'[s].seen.guard
    BY <1>3, <1>5, StepUses
  <2>2. Uses(p, shared[p].guard)
    BY DEF Uses
  <2>3. shared'[p].guard = shared[p].guard /\ store'[s].guard = 0 /\ store'[s].seen.guard = shared[p].guard
    <3>1. shared' = shared
      BY DEF Open
    <3> QED BY <1>3, <3>1
  <2> QED BY <2>1, <2>2, <2>3
<1>6. Stepped(s)
  BY <1>1, <1>3, <1>4, <1>5 DEF Stepped
<1>7. Itself(s)'
  <2>1. Living(s)' /\ Listed(s)' /\ Unmarked(s)' /\ KeptOut(s)'
    BY <1>1, <1>3 DEF Living, Listed, Unmarked, KeptOut, OpenStore, AtStore
  <2>2. ASSUME Root(s) PROVE Acquires(s)'
    <3>1. shared[p] = NoEntry /\ InnersIdle(s)
      BY <1>1, <2>2 DEF RuntimeInv, Acquires
    <3>2. InnersIdle(s)'
      BY <1>3, <3>1 DEF InnersIdle, AtStore
    <3> QED BY <1>1, <1>3, <3>1, <3>2 DEF Acquires
  <2> QED BY <2>1, <2>2 DEF Itself, Root
<1> QED BY <1>1, <1>6, <1>7, SteppedKeeps DEF AtStore

LEMMA JoinKeeps ==
  ASSUME RuntimeInv, NEW s \in Store, Join(s)
  PROVE  RuntimeInv'
<1> DEFINE p == Home[s]
           first == store[s].seen = NoEntry
           g == IF first THEN NewGuard ELSE store[s].seen.guard
<1>1. /\ store[s].pc = "join" /\ (first => GuardLeft)
      /\ IF first /\ ~MayShare
         THEN /\ store' = [store EXCEPT ![s] = Done(s)]
              /\ UNCHANGED <<shared, sharing>>
         ELSE /\ shared' = [shared EXCEPT ![p] = [guard |-> g, count |-> store[s].seen.count + 1]]
              /\ store' = [store EXCEPT ![s].pc = "check", ![s].guard = g]
              /\ sharing' = IF first THEN sharing \cup {g} ELSE sharing
      /\ UNCHANGED <<holders, maintSide, alive>>
  BY DEF Join, AtStore, world
<1>2. StoreType /\ p \in Proc /\ store[s] \in [pc : StorePlace, seen : AnyEntry, guard : Nat]
  BY MaintenanceAssumption DEF RuntimeInv, StoreType
<1>3. p \in alive
  BY <1>1 DEF RuntimeInv, Living
<1>4. \A t \in Store \ {s} : store'[t] = store[t]
  BY <1>1, <1>2 DEF StoreType
<1>5. CASE first /\ ~MayShare
  <2>1. store'[s] = Done(s)
    BY <1>1, <1>2, <1>5 DEF StoreType
  <2>2. store'[s].pc \in {"idle", "ended"} /\ store'[s].seen = NoEntry /\ store'[s].guard = 0
        /\ store'[s] \in [pc : StorePlace, seen : AnyEntry, guard : Nat]
        /\ (store'[s].pc = "idle" \/ OnceOnly(s))
    BY <2>1 DEF Done, Closed, NoEntry, AnyEntry, StorePlace
  <2>3. StoreType'
    BY <1>1, <1>2, <1>5, <2>1, <2>2 DEF StoreType
  <2>4. \A h : Uses(p, h)' => Uses(p, h) \/ h = 0
    BY <1>1, <1>4, <1>5, <2>2, StepUses DEF Uses, NoEntry
  <2>5. Stepped(s)
    BY <1>1, <1>4, <1>5, <2>3, <2>4 DEF Stepped
  <2>6. ASSUME Root(s) PROVE Acquires(s)'
    <3>1. shared[p] = NoEntry /\ InnersIdle(s)
      BY <1>1, <2>6 DEF RuntimeInv, Acquires
    <3>2. InnersIdle(s)'
      BY <1>4, <3>1 DEF InnersIdle, AtStore
    <3> QED BY <1>1, <1>5, <2>2, <3>1, <3>2 DEF Acquires
  <2>7. Itself(s)'
    BY <2>2, <2>6 DEF Itself, Root, Living, Listed, Unmarked, KeptOut, OpenStore, AtStore
  <2> QED BY <1>1, <2>5, <2>7, SteppedKeeps DEF AtStore
<1>6. CASE ~(first /\ ~MayShare)
  <2>1. g \in Nat /\ (first => g # 0 /\ \A q \in Proc : ~Uses(q, g))
    BY <1>1, <1>2, Fresh DEF AnyEntry
  <2>2. ~first => Uses(p, g)
    BY DEF Uses
  <2> HIDE DEF g, first
  <2>3. /\ shared' = [shared EXCEPT ![p] = [guard |-> g, count |-> store[s].seen.count + 1]]
        /\ store' = [store EXCEPT ![s].pc = "check", ![s].guard = g]
        /\ sharing' = IF first THEN sharing \cup {g} ELSE sharing
        /\ first => MayShare
    BY <1>1, <1>6
  <2>4. store'[s] = [pc |-> "check", seen |-> store[s].seen, guard |-> g]
    BY <1>2, <2>3 DEF StoreType
  <2>5. /\ shared'[p] = [guard |-> g, count |-> store[s].seen.count + 1]
        /\ \A q \in Proc \ {p} : shared'[q] = shared[q]
    BY <1>2, <2>3 DEF StoreType
  <2>6. StoreType'
    <3> DEFINE row == [pc |-> "check", seen |-> store[s].seen, guard |-> g]
    <3>1. store' = [t \in Store |-> store'[t]]
      BY <1>2, <2>3 DEF StoreType
    <3>2. row \in [pc : StorePlace, seen : AnyEntry, guard : Nat]
      BY <1>2, <2>1 DEF StorePlace
    <3>4. \A t \in Store : store'[t] \in [pc : StorePlace, seen : AnyEntry, guard : Nat]
      BY <1>2, <1>4, <2>4, <3>2 DEF StoreType
    <3>3. [guard |-> g, count |-> store[s].seen.count + 1] \in AnyEntry
      BY <1>2, <2>1 DEF AnyEntry
    <3> HIDE DEF row
    <3> QED BY <1>2, <2>3, <3>1, <3>3, <3>4 DEF StoreType
  <2>7. \A h : Uses(p, h)' => Uses(p, h) \/ h = g
    <3>1. \A h : Uses(p, h)' => Uses(p, h) \/ h = g \/ h = store[s].seen.guard
      BY <1>4, <2>4, <2>5, StepUses
    <3>2. Uses(p, store[s].seen.guard)
      BY DEF Uses
    <3> QED BY <3>1, <3>2
  <2>8. Stepped(s)
    BY <1>1, <1>4, <2>1, <2>2, <2>3, <2>5, <2>6, <2>7 DEF Stepped, MayShare
  <2>9. ASSUME Root(s) PROVE Acquires(s)'
    <3>1. store[s].seen = NoEntry /\ InnersIdle(s)
      BY <1>1, <2>9 DEF RuntimeInv, Acquires
    <3>2. InnersIdle(s)'
      BY <1>4, <3>1 DEF InnersIdle, AtStore
    <3>3. first
      BY <3>1 DEF first
    <3>4. shared'[p] = MyEntry(s)'
      <4>1. store[s].seen.count = 0
        BY <3>1 DEF NoEntry
      <4> QED BY <2>4, <2>5, <4>1 DEF MyEntry
    <3>5. store'[s].guard \in sharing' /\ store'[s].guard # 0
      BY <2>1, <2>3, <2>4, <3>3
    <3> QED BY <2>4, <3>1, <3>2, <3>4, <3>5 DEF Acquires
  <2>10. Itself(s)'
    BY <1>1, <1>3, <2>4, <2>9 DEF Itself, Root, Living, Listed, Unmarked, KeptOut, OpenStore, AtStore
  <2> QED BY <1>1, <2>8, <2>10, SteppedKeeps DEF AtStore
<1> QED BY <1>5, <1>6

LEMMA WithdrawKeeps ==
  ASSUME RuntimeInv, NEW s \in Store, store[s].pc \in {"check", "announce"}, Withdraw(s),
         UNCHANGED <<maintSide, alive>>
  PROVE  RuntimeInv'
<1> DEFINE p == Home[s]
<1>1. StoreType /\ p \in Proc /\ store[s] \in [pc : StorePlace, seen : AnyEntry, guard : Nat]
      /\ UNCHANGED holders /\ p \in alive
  BY MaintenanceAssumption DEF RuntimeInv, StoreType, Withdraw, Living
<1>2. CASE store[s].seen = NoEntry
  <2>1. /\ store' = [store EXCEPT ![s] = Done(s)] /\ shared' = [shared EXCEPT ![p] = NoEntry]
        /\ CloseGuard(shared[p].guard)
    BY <1>2 DEF Withdraw
  <2>2. store'[s].pc \in {"idle", "ended"} /\ store'[s].seen = NoEntry /\ store'[s].guard = 0
        /\ Done(s) \in [pc : StorePlace, seen : AnyEntry, guard : Nat]
        /\ (store'[s].pc = "idle" \/ OnceOnly(s))
    BY <1>1, <2>1 DEF Done, Closed, NoEntry, AnyEntry, StorePlace, StoreType
  <2>3. /\ \A t \in Store \ {s} : store'[t] = store[t]
        /\ \A q \in Proc \ {p} : shared'[q] = shared[q]
        /\ shared'[p] = NoEntry
    BY <1>1, <2>1 DEF StoreType
  <2>4. StoreType'
    BY <1>1, <2>1, <2>2 DEF StoreType, NoEntry, AnyEntry
  <2>5. ASSUME NEW h, Uses(p, h)' PROVE Uses(p, h) \/ h = 0
    <3>1. Uses(p, h) \/ h = shared'[p].guard \/ h = store'[s].guard \/ h = store'[s].seen.guard
      BY <2>3, <2>5, StepUses
    <3> QED BY <2>2, <2>3, <3>1 DEF NoEntry
  <2>6. /\ sharing' \subseteq sharing
        /\ \A q \in Proc \ {p} : \A h : h \in sharing /\ Uses(q, h) /\ h # 0 => h \in sharing'
    <3>1. Uses(p, shared[p].guard) /\ Apart
      BY DEF Uses, RuntimeInv
    <3>2. \A t \in Store : Home[t] # p => store'[t] = store[t]
      BY <2>3
    <3> QED BY <1>1, <2>1, <2>3, <3>1, <3>2, Closing
  <2>7. Stepped(s)
    BY <1>1, <2>3, <2>4, <2>5, <2>6 DEF Stepped
  <2>8. ASSUME Root(s) PROVE Acquires(s)'
    <3>1. InnersIdle(s)
      BY <2>8 DEF RuntimeInv, Acquires
    <3>2. InnersIdle(s)'
      BY <2>3, <3>1 DEF InnersIdle, AtStore
    <3> QED BY <2>2, <2>3, <3>2 DEF Acquires
  <2>9. Itself(s)'
    BY <2>2, <2>8 DEF Itself, Root, Living, Listed, Unmarked, KeptOut, OpenStore, AtStore
  <2> QED BY <2>7, <2>9, SteppedKeeps DEF AtStore
<1>3. CASE store[s].seen # NoEntry
  <2>1. store' = [store EXCEPT ![s].pc = "leave"] /\ UNCHANGED <<shared, sharing>>
    BY <1>3 DEF Withdraw, Goto
  <2>2. /\ store'[s] = [pc |-> "leave", seen |-> store[s].seen, guard |-> store[s].guard]
        /\ \A t \in Store \ {s} : store'[t] = store[t]
    BY <1>1, <2>1 DEF StoreType
  <2>3. StoreType'
    BY <1>1, <2>1 DEF StoreType, StorePlace
  <2>4. \A h : Uses(p, h)' => Uses(p, h)
    BY <2>1, <2>2, StepUses DEF Uses
  <2>5. Stepped(s)
    BY <1>1, <2>1, <2>2, <2>3, <2>4 DEF Stepped
  <2>6. ~Root(s)
    BY <1>3 DEF RuntimeInv, Acquires
  <2>7. Itself(s)'
    BY <1>1, <2>2, <2>6 DEF Itself, Root, Living, Listed, OpenStore, AtStore
  <2> QED BY <2>5, <2>7, SteppedKeeps DEF AtStore
<1> QED BY <1>2, <1>3

LEMMA CheckKeeps ==
  ASSUME RuntimeInv, NEW s \in Store, Check(s)
  PROVE  RuntimeInv'
<1> DEFINE p == Home[s]
<1>1. store[s].pc = "check" /\ UNCHANGED <<maintSide, alive>>
  BY DEF Check, AtStore, world
<1>2. CASE Withdraw(s)
  BY <1>1, <1>2, WithdrawKeeps
<1>3. CASE ~MaintenanceHeld /\ Goto(s, "announce") /\ holders' = LiveHolders /\ UNCHANGED <<shared, sharing>>
  <2>1. StoreType /\ p \in Proc /\ store[s] \in [pc : StorePlace, seen : AnyEntry, guard : Nat]
        /\ p \in alive
    BY <1>1, MaintenanceAssumption DEF RuntimeInv, StoreType, Living
  <2>2. /\ store'[s] = [pc |-> "announce", seen |-> store[s].seen, guard |-> store[s].guard]
        /\ \A t \in Store \ {s} : store'[t] = store[t]
    BY <1>3, <2>1 DEF StoreType, Goto
  <2>3. StoreType'
    BY <1>3, <2>1 DEF StoreType, StorePlace, Goto
  <2>4. \A h : Uses(p, h)' => Uses(p, h)
    BY <1>3, <2>2, StepUses DEF Uses
  <2>5. Stepped(s)
    BY <1>1, <1>3, <2>2, <2>3, <2>4 DEF Stepped, LiveHolders
  <2>6. ASSUME Root(s) PROVE Acquires(s)'
    <3>1. /\ shared[p] = MyEntry(s) /\ store[s].seen = NoEntry /\ InnersIdle(s)
          /\ store[s].guard \in sharing /\ store[s].guard # 0
      BY <1>1, <2>6 DEF RuntimeInv, Acquires
    <3>2. InnersIdle(s)' /\ MyEntry(s)' = MyEntry(s)
      BY <2>2, <3>1 DEF InnersIdle, AtStore, MyEntry
    <3> QED BY <1>3, <2>2, <3>1, <3>2 DEF Acquires
  <2>7. Unmarked(s)'
    BY <1>1, <1>3 DEF Unmarked, MaintenanceHeld, Stale, maintSide
  <2>8. Itself(s)'
    BY <1>1, <2>1, <2>2, <2>6, <2>7 DEF Itself, Root, Living, Listed, KeptOut, OpenStore, AtStore
  <2> QED BY <1>1, <2>5, <2>8, SteppedKeeps DEF AtStore
<1> QED BY <1>2, <1>3 DEF Check

\* Whoever has the lock and publishes its marker finds no command.
LEMMA AnnounceKeeps ==
  ASSUME GuardInv, RuntimeInv, NEW s \in Store, Announce(s)
  PROVE  RuntimeInv'
<1> DEFINE p == Home[s]
<1>1. store[s].pc = "announce" /\ UNCHANGED <<maintSide, alive>>
  BY DEF Announce, AtStore
<1>2. CASE Withdraw(s)
  BY <1>1, <1>2, WithdrawKeeps
<1>3. CASE /\ store' = [store EXCEPT ![s].pc = "open", ![s].seen = NoEntry]
           /\ holders' = holders \cup {s}
           /\ UNCHANGED <<shared, faults>>
           /\ CloseGuard(0)
  <2>1. StoreType /\ p \in Proc /\ store[s] \in [pc : StorePlace, seen : AnyEntry, guard : Nat]
        /\ p \in alive /\ Apart
    BY <1>1, MaintenanceAssumption DEF RuntimeInv, StoreType, Living
  <2>2. /\ store'[s] = [pc |-> "open", seen |-> NoEntry, guard |-> store[s].guard]
        /\ \A t \in Store \ {s} : store'[t] = store[t]
    BY <1>3, <2>1 DEF StoreType
  <2>3. StoreType'
    <3> DEFINE row == [pc |-> "open", seen |-> NoEntry, guard |-> store[s].guard]
    <3>1. store' = [t \in Store |-> store'[t]]
      BY <1>3, <2>1 DEF StoreType
    <3>2. row \in [pc : StorePlace, seen : AnyEntry, guard : Nat]
      BY <2>1 DEF StorePlace, NoEntry, AnyEntry
    <3>3. \A t \in Store : store'[t] \in [pc : StorePlace, seen : AnyEntry, guard : Nat]
      BY <2>1, <2>2, <3>2 DEF StoreType
    <3> HIDE DEF row
    <3> QED BY <1>3, <2>1, <3>1, <3>3 DEF StoreType
  <2>4. ASSUME NEW h, Uses(p, h)' PROVE Uses(p, h) \/ h = 0
    <3>1. Uses(p, h) \/ h = shared'[p].guard \/ h = store'[s].guard \/ h = store'[s].seen.guard
      BY <2>2, <2>4, StepUses
    <3>2. Uses(p, shared[p].guard) /\ Uses(p, store[s].guard)
      BY DEF Uses
    <3> QED BY <1>3, <2>2, <3>1, <3>2 DEF NoEntry
  <2>5. /\ sharing' \subseteq sharing
        /\ \A q \in Proc \ {p} : \A h : h \in sharing /\ Uses(q, h) /\ h # 0 => h \in sharing'
    <3>1. \A t \in Store : Home[t] # p => store'[t] = store[t]
      BY <2>2
    <3> QED BY <1>3, <2>1, <3>1, Closing
  <2>6. Stepped(s)
    BY <1>1, <1>3, <2>2, <2>3, <2>4, <2>5 DEF Stepped
  <2>7. ASSUME Root(s) PROVE Acquires(s)' /\ Unmarked(s)' /\ KeptOut(s)'
    <3>1. shared[p] = MyEntry(s) /\ store[s].guard \in sharing /\ ~MaintenanceHeld
      BY <1>1, <2>7 DEF RuntimeInv, Acquires, Unmarked
    <3>2. Acquires(s)'
      <4>1. MyEntry(s)' = MyEntry(s) /\ shared' = shared
        BY <1>3, <2>2 DEF MyEntry
      <4> QED BY <2>2, <3>1, <4>1 DEF Acquires
    <3>3. Unmarked(s)'
      BY <1>1, <3>1 DEF Unmarked, MaintenanceHeld, Stale, maintSide
    <3>4. excluding = None
      BY <3>1 DEF RuntimeInv, OneMode
    <3>5. \A m \in Maint : ~Refusing(m)
      BY <3>4, MaintenanceAssumption DEF GuardInv, LockHeld, Refusing
    <3>6. KeptOut(s)'
      BY <1>1, <3>5 DEF KeptOut, Refusing, maintSide
    <3> QED BY <3>2, <3>3, <3>6
  <2>8. Itself(s)'
    BY <1>1, <1>3, <2>1, <2>2, <2>7 DEF Itself, Root, Living, Listed, OpenStore, AtStore
  <2> QED BY <1>1, <2>6, <2>8, SteppedKeeps DEF AtStore
<1> QED BY <1>2, <1>3 DEF Announce

LEMMA CloseKeeps ==
  ASSUME RuntimeInv, NEW s \in Store, Close(s) \/ Leave(s)
  PROVE  RuntimeInv'
<1> DEFINE p == Home[s]
<1>1. StoreType /\ p \in Proc /\ store[s] \in [pc : StorePlace, seen : AnyEntry, guard : Nat]
      /\ shared[p] \in AnyEntry
  BY MaintenanceAssumption DEF RuntimeInv, StoreType
<1>2. /\ store[s].pc \in {"open", "leave"} /\ UNCHANGED <<maintSide, alive, shared, sharing>>
      /\ \A t \in Store \ {s} : t \in holders => t \in holders'
  BY DEF Close, Leave, OpenStore, AtStore, world
<1>3. p \in alive
  BY <1>2 DEF RuntimeInv, Living
<1>4. \/ store[s].pc = "open" /\ store' = [store EXCEPT ![s].pc = "leave"]
      \/ store[s].pc = "leave" /\ store' = [store EXCEPT ![s].pc = "left", ![s].seen = shared[p]]
  BY DEF Close, Leave, OpenStore, AtStore, Goto
<1>5. /\ \A t \in Store \ {s} : store'[t] = store[t]
      /\ store'[s].guard = store[s].guard
      /\ \/ store[s].pc = "open" /\ store'[s].pc = "leave" /\ store'[s].seen = store[s].seen
         \/ store[s].pc = "leave" /\ store'[s].pc = "left" /\ store'[s].seen = shared[p]
      /\ StoreType'
  BY <1>1, <1>2, <1>4 DEF StoreType, StorePlace
<1>6. \A h : Uses(p, h)' => Uses(p, h)
  BY <1>2, <1>5, StepUses DEF Uses
<1>7. Stepped(s)
  BY <1>2, <1>5, <1>6 DEF Stepped
<1>8. ASSUME Root(s) PROVE Acquires(s)'
  <2>1. ~OnceOnly(s) => shared[p] = MyEntry(s)
    BY <1>2, <1>8 DEF RuntimeInv, Acquires
  <2>2. MyEntry(s) # NoEntry /\ MyEntry(s).count = 1
    BY DEF MyEntry, NoEntry
  <2> QED BY <1>2, <1>5, <2>1, <2>2 DEF Acquires, MyEntry
<1>9. Itself(s)'
  BY <1>2, <1>3, <1>5, <1>8
     DEF Itself, Root, Living, Listed, Unmarked, KeptOut, OpenStore, AtStore
<1> QED BY <1>2, <1>7, <1>9, SteppedKeeps DEF AtStore

LEMMA LeftKeeps ==
  ASSUME RuntimeInv, NEW s \in Store, Left(s)
  PROVE  RuntimeInv'
<1> DEFINE p == Home[s]
           seen == store[s].seen
<1>1. /\ StoreType /\ p \in Proc /\ store[s] \in [pc : StorePlace, seen : AnyEntry, guard : Nat]
      /\ Apart
  BY MaintenanceAssumption DEF RuntimeInv, StoreType
<1>2. /\ store[s].pc = "left" /\ store' = [store EXCEPT ![s] = Done(s)]
      /\ UNCHANGED <<holders, maintSide, alive>>
  BY DEF Left, AtStore, world
<1>3. \/ seen = NoEntry /\ shared' = shared /\ CloseGuard(0)
      \/ seen # NoEntry /\ shared' = [shared EXCEPT ![p] = NoEntry] /\ CloseGuard(seen.guard)
      \/ /\ seen.count > 1
         /\ shared' = [shared EXCEPT ![p] = [guard |-> seen.guard, count |-> seen.count - 1]]
         /\ CloseGuard(0)
  BY DEF Left
<1>4. store'[s].pc \in {"idle", "ended"} /\ store'[s].seen = NoEntry /\ store'[s].guard = 0
      /\ Done(s) \in [pc : StorePlace, seen : AnyEntry, guard : Nat]
      /\ (store'[s].pc = "idle" => ~OnceOnly(s))
  BY <1>1, <1>2 DEF Done, Closed, NoEntry, AnyEntry, StorePlace, StoreType
<1>5. \A t \in Store \ {s} : store'[t] = store[t]
  BY <1>1, <1>2 DEF StoreType
<1>6. /\ \A q \in Proc \ {p} : shared'[q] = shared[q]
      /\ shared'[p].guard \in {shared[p].guard, 0, seen.guard}
      /\ shared' \in [Proc -> AnyEntry]
  BY <1>1, <1>3 DEF StoreType, AnyEntry, NoEntry
<1>7. StoreType'
  BY <1>1, <1>2, <1>4, <1>6 DEF StoreType
<1>8. \A h : Uses(p, h)' => Uses(p, h) \/ h = 0
  <2>1. Uses(p, shared[p].guard) /\ Uses(p, seen.guard)
    BY DEF Uses
  <2>2. ASSUME NEW h, Uses(p, h)' PROVE Uses(p, h) \/ h = 0 \/ h = shared'[p].guard
    <3>1. Uses(p, h) \/ h = shared'[p].guard \/ h = store'[s].guard \/ h = store'[s].seen.guard
      BY <1>5, <2>2, StepUses
    <3> QED BY <1>4, <3>1 DEF NoEntry
  <2> QED BY <1>6, <2>1, <2>2
<1>9. /\ sharing' \subseteq sharing
      /\ \A q \in Proc \ {p} : \A h : h \in sharing /\ Uses(q, h) /\ h # 0 => h \in sharing'
  <2>1. \A t \in Store : Home[t] # p => store'[t] = store[t]
    BY <1>5
  <2>2. Uses(p, seen.guard)
    BY DEF Uses
  <2>3. PICK x : (x = 0 \/ Uses(p, x)) /\ CloseGuard(x)
    BY <1>3, <2>2
  <2> QED BY <1>1, <1>6, <2>1, <2>3, Closing
<1>10. Stepped(s)
  BY <1>2, <1>5, <1>6, <1>7, <1>8, <1>9 DEF Stepped
<1>11. ASSUME Root(s) PROVE Acquires(s)'
  <2>1. CASE OnceOnly(s)
    BY <1>4, <2>1 DEF Acquires
  <2>2. CASE ~OnceOnly(s)
    <3>1. seen # NoEntry /\ seen.count = 1
      BY <1>2, <1>11, <2>2 DEF RuntimeInv, Acquires
    <3>2. shared'[p] = NoEntry
      BY <1>1, <1>3, <3>1 DEF StoreType
    <3>3. InnersIdle(s)'
      BY <1>11, <2>2, Nested DEF InnersIdle
    <3> QED BY <1>4, <3>2, <3>3 DEF Acquires
  <2> QED BY <2>1, <2>2
<1>12. Itself(s)'
  BY <1>2, <1>4, <1>11
     DEF Itself, Root, Living, Listed, Unmarked, KeptOut, OpenStore, AtStore
<1> QED BY <1>2, <1>10, <1>12, SteppedKeeps DEF AtStore

\* The end of a process takes nothing from the others.
LEMMA EndKeeps ==
  ASSUME RuntimeInv, NEW p \in Proc, EndProcess(p)
  PROVE  RuntimeInv'
<1>1. /\ alive' = alive \ {p} /\ UNCHANGED <<holders, maintSide>> /\ CloseGuard(0)
      /\ shared' = [shared EXCEPT ![p] = NoEntry]
  BY DEF EndProcess
<1>2. StoreType /\ Apart /\ \A s \in Store : Home[s] \in Proc
  BY MaintenanceAssumption DEF RuntimeInv
<1>3. \A s \in Store : IF Home[s] = p
                       THEN store'[s] = [pc |-> "ended", seen |-> NoEntry, guard |-> 0]
                       ELSE store'[s] = store[s]
  BY DEF EndProcess, Closed
<1>4. shared'[p] = NoEntry /\ \A q \in Proc \ {p} : shared'[q] = shared[q]
  BY <1>1, <1>2 DEF StoreType
<1>5. StoreType'
  <2> DEFINE row == [pc |-> "ended", seen |-> NoEntry, guard |-> 0]
  <2>1. row \in [pc : StorePlace, seen : AnyEntry, guard : Nat]
    BY DEF StorePlace, NoEntry, AnyEntry
  <2>2. store' = [s \in Store |-> store'[s]]
    BY DEF EndProcess
  <2>3. \A s \in Store : store'[s] \in [pc : StorePlace, seen : AnyEntry, guard : Nat]
    BY <1>2, <1>3, <2>1 DEF StoreType
  <2>4. shared' \in [Proc -> AnyEntry]
    BY <1>1, <1>2 DEF StoreType, NoEntry, AnyEntry
  <2> QED BY <2>2, <2>3, <2>4 DEF StoreType
<1>6. /\ \A q \in Proc \ {p} : \A g : Uses(q, g)' = Uses(q, g)
      /\ \A g : Uses(p, g)' => g = 0
  BY <1>3, <1>4 DEF Uses, NoEntry
<1>7. Apart'
  BY <1>2, <1>6 DEF Apart
<1>8. /\ sharing' \subseteq sharing
      /\ \A q \in Proc \ {p} : \A g : g \in sharing /\ Uses(q, g) /\ g # 0 => g \in sharing'
  <2>1. \A t \in Store : Home[t] # p => store'[t] = store[t]
    BY <1>3
  <2> QED BY <1>1, <1>2, <1>4, <2>1, Closing
<1>9. OneMode' /\ RowNamed'
  BY <1>1, <1>8 DEF RuntimeInv, OneMode, RowNamed, maintSide
<1>10. \A s \in Store : Living(s)' /\ Listed(s)'
  BY <1>1, <1>3 DEF RuntimeInv, Living, Listed, OpenStore, AtStore
<1>11. ASSUME NEW r \in Store, Root(r)
       PROVE  Acquires(r)' /\ Unmarked(r)' /\ KeptOut(r)'
  <2>1. CASE Home[r] = p
    BY <1>3, <2>1 DEF Acquires, Unmarked, KeptOut, OpenStore, AtStore
  <2>2. CASE Home[r] # p
    <3>1. Acquires(r) /\ Unmarked(r) /\ KeptOut(r) /\ store'[r] = store[r]
      BY <1>3, <1>11, <2>2 DEF RuntimeInv
    <3>2. Home[r] \in Proc \ {p}
      BY <1>2, <2>2
    <3>3. shared'[Home[r]] = shared[Home[r]] /\ (InnersIdle(r) => InnersIdle(r)')
      BY <1>3, <1>4, <2>2, <3>2 DEF InnersIdle, AtStore
    <3>4. store[r].guard \in sharing /\ store[r].guard # 0 => store[r].guard \in sharing'
      <4>1. Uses(Home[r], store[r].guard)
        BY DEF Uses
      <4> QED BY <1>8, <3>2, <4>1
    <3>5. MyEntry(r)' = MyEntry(r)
      BY <3>1 DEF MyEntry
    <3>6. Acquires(r)'
      BY <3>1, <3>3, <3>4, <3>5 DEF Acquires
    <3>7. MaintenanceHeld' => MaintenanceHeld
      BY <1>1 DEF MaintenanceHeld, Stale, maintSide
    <3>8. Unmarked(r)' /\ KeptOut(r)'
      BY <1>1, <3>1, <3>7 DEF Unmarked, KeptOut, Refusing, OpenStore, AtStore, maintSide
    <3> QED BY <3>6, <3>8
  <2> QED BY <2>1, <2>2
<1> QED BY <1>5, <1>7, <1>9, <1>10, <1>11 DEF RuntimeInv

-----------------------------------------------------------------------------
(***************************************************************************)
(* What a step of a command owes to the stores: it locks only when nobody  *)
(* shares, drops no live holder, marks only when no outermost store is     *)
(* about to open, and refuses from a moment when none is open.             *)
(***************************************************************************)
Yields ==
  /\ UNCHANGED <<store, shared, sharing>>
  /\ \A p \in Proc : p \in alive => p \in alive'
  /\ \A s \in Store : s \in holders /\ Home[s] \in alive => s \in holders'
  /\ excluding' \notin {None, excluding} => sharing = {}
  /\ RowNamed'
  /\ \/ MaintenanceHeld' => MaintenanceHeld
     \/ \A r \in Store : Root(r) => store[r].pc \notin {"announce", "open"}
  /\ \/ \A m \in Maint : Refusing(m)' => Refusing(m)
     \/ \A r \in Store : Root(r) => ~OpenStore(r)

LEMMA YieldingKeeps ==
  ASSUME RuntimeInv, Yields
  PROVE  RuntimeInv'
<1>1. UNCHANGED <<store, shared, sharing>>
  BY DEF Yields
<1>2. StoreType' /\ Apart'
  BY <1>1 DEF RuntimeInv, StoreType, Apart, Uses
<1>3. OneMode' /\ RowNamed'
  BY DEF Yields, RuntimeInv, OneMode
<1>4. ASSUME NEW s \in Store
      PROVE  Living(s)' /\ Listed(s)'
  BY <1>1, MaintenanceAssumption DEF RuntimeInv, Yields, Living, Listed, OpenStore, AtStore
<1>5. ASSUME NEW r \in Store, Root(r)
      PROVE  Acquires(r)' /\ Unmarked(r)' /\ KeptOut(r)'
  <2>1. Acquires(r) /\ Unmarked(r) /\ KeptOut(r)
    BY <1>5 DEF RuntimeInv
  <2>2. Acquires(r)'
    BY <1>1, <2>1 DEF Acquires, InnersIdle, MyEntry, AtStore
  <2>3. Unmarked(r)'
    BY <1>1, <1>5, <2>1 DEF Unmarked, Yields
  <2>4. KeptOut(r)'
    BY <1>1, <1>5, <2>1 DEF KeptOut, OpenStore, AtStore, Yields
  <2> QED BY <2>2, <2>3, <2>4
<1> QED BY <1>2, <1>3, <1>4, <1>5 DEF RuntimeInv

LEMMA CommandsYield ==
  ASSUME GuardInv, RuntimeInv, NEW m \in Maint,
         Lock(m) \/ Mutate(m) \/ MaintStep(m) \/ CrashMaint(m)
  PROVE  Yields
<1> USE MaintenanceAssumption DEF At, Move, storeSide, maintSide, world
<1>1. GuardType /\ RowNamed /\ \A s \in Store : Home[s] \in Proc
  BY DEF GuardInv, RuntimeInv
<1>2. CASE Lock(m)
  <2>1. \A n \in Maint : Refusing(n)' => Refusing(n)
    BY <1>1, <1>2 DEF Lock, Refusing, GuardType
  <2>2. (MaintenanceHeld' => MaintenanceHeld) /\ RowNamed'
    BY <1>1, <1>2 DEF Lock, MaintenanceHeld, Stale, RowNamed
  <2> QED BY <1>2, <2>1, <2>2 DEF Lock, Yields, MayExclude
<1>3. CASE Mutate(m)
  <2>1. RowNamed'
    BY <1>1, <1>3 DEF Mutate, RowNamed
  <2>2. \A n \in Maint : Refusing(n)' => Refusing(n)
    BY <1>3 DEF Mutate, Refusing
  <2>3. MaintenanceHeld' => MaintenanceHeld
    BY <1>3 DEF Mutate, MaintenanceHeld, Stale
  <2> QED BY <1>3, <2>1, <2>2, <2>3 DEF Mutate, Yields
<1>4. CASE ReadMarker(m)
  <2>1. \A n \in Maint : Refusing(n)' => Refusing(n)
    BY <1>1, <1>4 DEF ReadMarker, Refuse, Refusing, GuardType
  <2>2. (MaintenanceHeld' => MaintenanceHeld) /\ RowNamed'
    BY <1>1, <1>4 DEF ReadMarker, MaintenanceHeld, Stale, RowNamed
  <2> QED BY <1>4, <2>1, <2>2 DEF ReadMarker, Refuse, Yields
<1>5. CASE CheckRuntimes(m)
  <2>1. ASSUME ~NoLiveHolder PROVE \A n \in Maint : Refusing(n)' => Refusing(n)
    BY <1>1, <1>5, <2>1 DEF CheckRuntimes, Refuse, Refusing, GuardType
  <2>2. ASSUME NoLiveHolder, NEW r \in Store PROVE ~OpenStore(r)
    BY <2>2 DEF RuntimeInv, NoLiveHolder, LiveHolders, Living, Listed, OpenStore, AtStore
  <2>3. (MaintenanceHeld' => MaintenanceHeld) /\ RowNamed'
    BY <1>1, <1>5 DEF CheckRuntimes, MaintenanceHeld, Stale, RowNamed
  <2>4. \A s \in Store : s \in holders /\ Home[s] \in alive => s \in holders'
    BY <1>5 DEF CheckRuntimes, LiveHolders
  <2> QED BY <1>5, <2>1, <2>2, <2>3, <2>4 DEF CheckRuntimes, Refuse, Yields
<1>6. CASE Publish(m)
  <2>1. excluding = m /\ Refusing(m) /\ sharing = {}
    BY <1>6 DEF Publish, GuardInv, LockHeld, Refusing, RuntimeInv, OneMode
  <2>2. \A r \in Store : Root(r) => store[r].pc \notin {"announce", "open"}
    BY <2>1 DEF RuntimeInv, Acquires, KeptOut, OpenStore, AtStore
  <2>3. \A n \in Maint : Refusing(n)' => Refusing(n)
    BY <1>1, <1>6, <2>1 DEF Publish, Refuse, Refusing, GuardType
  <2>4. RowNamed'
    BY <1>1, <1>6 DEF Publish, RowNamed
  <2> QED BY <1>6, <2>2, <2>3, <2>4 DEF Publish, Refuse, Yields
<1>7. CASE Release(m)
  <2>1. \A n \in Maint : Refusing(n)' => Refusing(n)
    BY <1>1, <1>7 DEF Release, Refusing, GuardType
  <2>2. (MaintenanceHeld' => MaintenanceHeld) /\ RowNamed'
    BY <1>1, <1>7 DEF Release, MaintenanceHeld, Stale, RowNamed
  <2> QED BY <1>7, <2>1, <2>2 DEF Release, Yields
<1>8. CASE Unfence(m)
  <2>1. \A n \in Maint : Refusing(n)' => Refusing(n)
    BY <1>1, <1>8 DEF Unfence, Refusing, GuardType
  <2>2. MaintenanceHeld' => MaintenanceHeld
    BY <1>8 DEF Unfence, MaintenanceHeld, Stale
  <2>3. RowNamed'
    BY <1>1, <1>8 DEF Unfence, RowNamed, ReleasedRow, GuardType
  <2> QED BY <1>8, <2>1, <2>2, <2>3 DEF Unfence, Yields
<1>9. CASE Unmark(m)
  <2>1. \A n \in Maint : Refusing(n)' => Refusing(n)
    BY <1>1, <1>9 DEF Unmark, Refusing, GuardType
  <2>2. (MaintenanceHeld' => MaintenanceHeld) /\ RowNamed'
    BY <1>1, <1>9 DEF Unmark, MaintenanceHeld, Stale, RowNamed
  <2> QED BY <1>9, <2>1, <2>2 DEF Unmark, Yields
<1>10. CASE Unlock(m)
  <2>1. \A n \in Maint : Refusing(n)' => Refusing(n)
    BY <1>1, <1>10 DEF Unlock, Refusing, GuardType
  <2>2. (MaintenanceHeld' => MaintenanceHeld) /\ RowNamed'
    BY <1>1, <1>10 DEF Unlock, MaintenanceHeld, Stale, RowNamed
  <2> QED BY <1>10, <2>1, <2>2 DEF Unlock, Yields
<1>11. CASE CrashMaint(m)
  <2>1. \A n \in Maint : Refusing(n)' => Refusing(n)
    BY <1>1, <1>11 DEF CrashMaint, Refusing, GuardType
  <2>2. (MaintenanceHeld' => MaintenanceHeld) /\ RowNamed'
    BY <1>1, <1>11 DEF CrashMaint, MaintenanceHeld, Stale, RowNamed
  <2> QED BY <1>11, <2>1, <2>2 DEF CrashMaint, Yields
<1> QED
  BY <1>2, <1>3, <1>4, <1>5, <1>6, <1>7, <1>8, <1>9, <1>10, <1>11 DEF MaintStep

\* Every outermost store is listed while it is open, and no command refuses then.
THEOREM RuntimeInvariant == Spec => []RuntimeInv
<1>1. Init => RuntimeInv
  <2> SUFFICES ASSUME Init PROVE RuntimeInv
    OBVIOUS
  <2>1. \A s \in Store : store[s] = [pc |-> "idle", seen |-> NoEntry, guard |-> 0]
    BY DEF Init, Closed
  <2>2. \A p \in Proc : shared[p] = NoEntry
    BY DEF Init
  <2>3. StoreType
    <3>1. store = [s \in Store |-> store[s]] /\ shared = [p \in Proc |-> shared[p]]
      BY DEF Init
    <3> QED BY <2>1, <2>2, <3>1 DEF StoreType, StorePlace, NoEntry, AnyEntry
  <2>4. Apart
    BY <2>1, <2>2 DEF Apart, Uses, NoEntry
  <2>5. OneMode /\ RowNamed
    BY DEF Init, OneMode, RowNamed
  <2>6. \A s \in Store : Living(s) /\ Listed(s)
    BY <2>1 DEF Living, Listed, OpenStore, AtStore
  <2>7. \A r \in Store : Acquires(r) /\ Unmarked(r) /\ KeptOut(r)
    BY <2>1, <2>2, MaintenanceAssumption DEF Acquires, InnersIdle, Unmarked, KeptOut, OpenStore, AtStore
  <2> QED BY <2>3, <2>4, <2>5, <2>6, <2>7 DEF RuntimeInv
<1>2. GuardInv /\ RuntimeInv /\ [Next]_vars => RuntimeInv'
  <2> SUFFICES ASSUME GuardInv, RuntimeInv, [Next]_vars PROVE RuntimeInv'
    OBVIOUS
  <2>1. ASSUME NEW s \in Store, Open(s) \/ Close(s) \/ StoreStep(s) PROVE RuntimeInv'
    BY <2>1, OpenKeeps, CloseKeeps, JoinKeeps, CheckKeeps, AnnounceKeeps, LeftKeeps DEF StoreStep
  <2>2. ASSUME NEW m \in Maint, Lock(m) \/ Mutate(m) \/ MaintStep(m) \/ CrashMaint(m)
        PROVE  RuntimeInv'
    BY <2>2, CommandsYield, YieldingKeeps
  <2>3. ASSUME NEW p \in Proc, Crash(p) \/ Exit(p) PROVE RuntimeInv'
    BY <2>3, EndKeeps DEF Crash, Exit
  <2>4. ASSUME Elapse \/ UNCHANGED vars PROVE RuntimeInv'
    <3>1. Yields
      BY <2>4 DEF Elapse, vars, storeSide, world, Yields, RuntimeInv, RowNamed, Refusing,
                  MaintenanceHeld, Stale
    <3> QED BY <3>1, YieldingKeeps
  <2> QED BY <2>1, <2>2, <2>3, <2>4 DEF Next
<1> QED BY <1>1, <1>2, GuardInvariant, PTL DEF Spec

\* the outermost store of an open one is open
LEMMA RootOpen ==
  ASSUME NEW s \in Store, OpenStore(s), Within(s)
  PROVE  \E r \in Store : Root(r) /\ OpenStore(r)
<1>1. CASE Root(s)
  BY <1>1
<1>2. CASE ~Root(s)
  BY <1>2, MaintenanceAssumption, NestingAssumption DEF Root, Within
<1> QED BY <1>1, <1>2

\* No writable store is open while a maintenance command holds the guard, but
\* for a heartbeat thread that its daemon has left: whatever the threads of a
\* daemon do to the count of the users of their lock.
THEOREM StoresKeepOut == Spec => []Exclusion
<1>1. RuntimeInv => Exclusion
  <2> SUFFICES ASSUME RuntimeInv, NEW s \in Store, OpenStore(s), Within(s), NEW m \in Maint
               PROVE  ~Holding(m)
    BY DEF Exclusion
  <2>1. PICK r \in Store : Root(r) /\ OpenStore(r)
    BY RootOpen
  <2> QED BY <2>1 DEF RuntimeInv, KeptOut, Refusing, Holding
<1> QED BY <1>1, RuntimeInvariant, PTL

\* An open store passes the check of its authority: it is listed, no command is
\* marked, and the fence row is released or left by a command that died or
\* failed to release it.
THEOREM StoresHaveAuthority == Spec => []OpenHasAuthority
<1>1. GuardInv /\ RuntimeInv => OpenHasAuthority
  <2> SUFFICES ASSUME GuardInv, RuntimeInv, NEW s \in Store, OpenStore(s), Within(s)
               PROVE  /\ s \in holders
                      /\ ~MaintenanceHeld
                      /\ fence.released \/ fence.by \in casualties
    BY DEF OpenHasAuthority
  <2>1. PICK r \in Store : Root(r) /\ OpenStore(r)
    BY RootOpen
  <2>2. s \in holders
    BY DEF RuntimeInv, Listed
  <2>3. ~MaintenanceHeld
    BY <2>1 DEF RuntimeInv, Unmarked, OpenStore, AtStore
  <2>4. \A m \in Maint : ~Refusing(m)
    BY <2>1 DEF RuntimeInv, KeptOut
  <2>5. fence.released \/ fence.by \in casualties
    BY <2>4 DEF RuntimeInv, RowNamed, GuardInv, RowHeld, FenceBy, Refusing
  <2> QED BY <2>2, <2>3, <2>5
<1> QED BY <1>1, GuardInvariant, RuntimeInvariant, PTL
=============================================================================
