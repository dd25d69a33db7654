---------------------------- MODULE DaemonProofs -----------------------------
(***************************************************************************)
(* For any number of daemons: two are up at the same time only while one   *)
(* that lost the scheduler lease has woken at most once since; none        *)
(* repeats a cycle at once on its own; and none sleeps past the slot of a  *)
(* day that has no delivery, unless the slot came between its checks and   *)
(* its sleep.                                                              *)
(*                                                                         *)
(* A daemon that is up is late exactly when the lease is no longer its     *)
(* own, and none that is late goes to sleep.                               *)
(***************************************************************************)
EXTENDS Daemon, TLAPS

Places == pc \in [Daemon -> Up \cup {"off"}]

Wakings == late \in [Daemon -> 0..2]

\* a daemon that is up is on time exactly while the lease is its own
OnTime == \A d \in Daemon : IF pc[d] \in Up THEN late[d] = 0 <=> lease = d ELSE late[d] = 0

\* which it must hold to go to sleep
SleepsOnTime == \A d \in Daemon : pc[d] \in {"first", "sleep"} => late[d] \in 0..1

SchedulerInv == Places /\ Wakings /\ OnTime /\ SleepsOnTime

LEMMA MinOfTwo ==
  ASSUME NEW a \in Nat, NEW b \in Nat
  PROVE  /\ Min({a, b}) \in {a, b}
         /\ Min({a, b}) <= a /\ Min({a, b}) <= b
<1>1. \E x \in {a, b} : \A y \in {a, b} : x <= y
  OBVIOUS
<1> QED BY <1>1 DEF Min

-----------------------------------------------------------------------------
\* A daemon that goes on awake keeps its lease, or is as late as it was.
LEMMA MovesOn ==
  ASSUME SchedulerInv, NEW d \in Daemon, pc[d] \in Up, UNCHANGED late,
         NEW where \in Up \ {"first", "sleep"}, Goto(d, where)
  PROVE  SchedulerInv'
BY DEF Goto, SchedulerInv, Places, Wakings, OnTime, SleepsOnTime, Up

\* One that wakes counts it.
LEMMA WakesUp ==
  ASSUME SchedulerInv, NEW d \in Daemon, pc[d] \in {"first", "sleep"}, Wakes(d), Goto(d, "run")
  PROVE  SchedulerInv'
<1>1. late \in [Daemon -> 0..2] /\ late[d] \in 0..1
  BY DEF SchedulerInv, Wakings, SleepsOnTime
<1>2. late[d] # 0 => Min({3, late[d] + 1}) = 2
  BY <1>1, MinOfTwo
<1>3. /\ late' \in [Daemon -> 0..2] /\ (late'[d] = 0 <=> late[d] = 0)
      /\ \A e \in Daemon \ {d} : late'[e] = late[e]
  BY <1>1, <1>2 DEF Wakes
<1>4. /\ pc' \in [Daemon -> Up \cup {"off"}] /\ pc'[d] = "run" /\ lease' = lease
      /\ \A e \in Daemon \ {d} : pc'[e] = pc[e]
  BY DEF Goto, SchedulerInv, Places, Up
<1>5. ASSUME NEW e \in Daemon
      PROVE  /\ IF pc'[e] \in Up THEN late'[e] = 0 <=> lease' = e ELSE late'[e] = 0
             /\ pc'[e] \in {"first", "sleep"} => late'[e] \in 0..1
  <2>1. CASE e = d
    BY <1>3, <1>4, <2>1 DEF SchedulerInv, OnTime, Up
  <2>2. CASE e # d
    BY <1>3, <1>4, <2>2 DEF SchedulerInv, OnTime, SleepsOnTime
  <2> QED BY <2>1, <2>2
<1> QED BY <1>3, <1>4, <1>5 DEF SchedulerInv, Places, Wakings, OnTime, SleepsOnTime

\* A daemon that ends takes its own lease only.
LEMMA Ends ==
  ASSUME SchedulerInv, NEW d \in Daemon, Exit(d)
  PROVE  SchedulerInv'
<1>1. \A e \in Daemon : e # None
  BY DaemonAssumption
<1> QED BY <1>1 DEF Exit, SchedulerInv, Places, Wakings, OnTime, SleepsOnTime, Up

LEMMA CycleSteps ==
  ASSUME SchedulerInv, NEW d \in Daemon, Step(d)
  PROVE  SchedulerInv'
<1>1. CASE First(d)
  BY <1>1, MovesOn, WakesUp DEF First, Up
<1>2. CASE Loop(d)
  BY <1>2, MovesOn, Ends DEF Loop, Up
<1>3. CASE Plan(d)
  <2>1. CASE Owns(d) /\ Goto(d, "sleep") /\ UNCHANGED late
    BY <1>3, <2>1 DEF Plan, Owns, Goto, SchedulerInv, Places, Wakings, OnTime, SleepsOnTime, Up
  <2> QED BY <1>3, <2>1, Ends DEF Plan
<1>4. CASE Sleep(d)
  BY <1>4, WakesUp, Ends DEF Sleep
<1>5. CASE RunCycle(d)
  BY <1>5, MovesOn, Ends DEF RunCycle, BeginCycle, Up
<1>6. CASE EndCycle(d)
  BY <1>6, MovesOn, Ends DEF EndCycle, Up
<1> QED BY <1>1, <1>2, <1>3, <1>4, <1>5, <1>6 DEF Step

LEMMA DaemonSteps ==
  ASSUME SchedulerInv, NEW d \in Daemon,
         StartDaemon(d) \/ Stop(d) \/ Crash(d) \/ HeartbeatDies(d)
  PROVE  SchedulerInv'
<1>1. CASE StartDaemon(d)
  <2>1. late[d] = 0 /\ \A e \in Daemon : e # None
    BY <1>1, DaemonAssumption DEF StartDaemon, SchedulerInv, OnTime, Up
  <2> QED BY <1>1, <2>1 DEF StartDaemon, SchedulerInv, Places, Wakings, OnTime, SleepsOnTime, Up
<1>2. CASE Stop(d)
  BY <1>2, Ends DEF Stop
<1>3. CASE Crash(d)
  BY <1>3 DEF Crash, SchedulerInv, Places, Wakings, OnTime, SleepsOnTime, Up
<1>4. CASE HeartbeatDies(d)
  BY <1>4 DEF HeartbeatDies, SchedulerInv, Places, Wakings, OnTime, SleepsOnTime
<1> QED BY <1>1, <1>2, <1>3, <1>4

\* The lease runs out under its holder, which is late from then on.
LEMMA LeaseRunsOut ==
  ASSUME SchedulerInv, SchedulerLeaseExpires
  PROVE  SchedulerInv'
<1>1. \A e \in Daemon : e # None
  BY DaemonAssumption
<1>2. late' \in [Daemon -> 0..2] /\ UNCHANGED pc /\ lease' = None
  <2>1. (IF pc[lease] = "off" THEN 0 ELSE 1) \in 0..2
    OBVIOUS
  <2> QED BY <2>1 DEF SchedulerLeaseExpires, SchedulerInv, Wakings
<1>3. ASSUME NEW e \in Daemon
      PROVE  /\ IF pc'[e] \in Up THEN late'[e] = 0 <=> lease' = e ELSE late'[e] = 0
             /\ pc'[e] \in {"first", "sleep"} => late'[e] \in 0..1
  <2>1. CASE e = lease
    BY <1>1, <1>2, <2>1 DEF SchedulerLeaseExpires, SchedulerInv, Places, Wakings, Up
  <2>2. CASE e # lease
    <3>1. late'[e] = late[e]
      BY <2>2 DEF SchedulerLeaseExpires, SchedulerInv, Wakings
    <3> QED BY <1>1, <1>2, <2>2, <3>1 DEF SchedulerInv, OnTime, SleepsOnTime
  <2> QED BY <2>1, <2>2
<1> QED BY <1>2, <1>3 DEF SchedulerInv, Places, Wakings, OnTime, SleepsOnTime

LEMMA WorldSteps ==
  ASSUME SchedulerInv,
         \/ SchedulerLeaseExpires \/ DeliveryLeaseExpires
         \/ OtherBegins \/ OtherEnds \/ Operator \/ Tick
         \/ UNCHANGED vars
  PROVE  SchedulerInv'
<1>1. CASE UNCHANGED <<lease, pc, late>>
  BY <1>1 DEF SchedulerInv, Places, Wakings, OnTime, SleepsOnTime
<1> QED
  BY <1>1, LeaseRunsOut DEF DeliveryLeaseExpires, OtherBegins, OtherEnds, Operator, Tick, vars

\* The invariant of the scheduler lease (acquire_lease, heartbeat_lease and
\* release_lease of scope "scheduler").
THEOREM SchedulerInvariant == Spec => []SchedulerInv
<1>1. Init => SchedulerInv
  BY DEF Init, SchedulerInv, Places, Wakings, OnTime, SleepsOnTime, Up
<1>2. SchedulerInv /\ [Next]_vars => SchedulerInv'
  BY CycleSteps, DaemonSteps, WorldSteps DEF Next
<1> QED BY <1>1, <1>2, PTL DEF Spec

\* Of two daemons that are up, one has lost the scheduler lease and has woken at
\* most once since: for any number of daemons, whatever crashes, stops and lost
\* or late heartbeats, and however short the lease.
THEOREM SchedulerIsOne == Spec => []OneScheduler
<1>1. SchedulerInv => OneScheduler
  <2> SUFFICES ASSUME SchedulerInv, NEW d \in Daemon, NEW e \in Daemon,
                      d # e, pc[d] \in Up, pc[e] \in Up
               PROVE  1 \in {late[d], late[e]} \/ 2 \in {late[d], late[e]}
    BY DEF OneScheduler
  <2>1. late[d] # 0 \/ late[e] # 0
    BY DEF SchedulerInv, OnTime
  <2>2. late[d] \in 0..2 /\ late[e] \in 0..2
    BY DEF SchedulerInv, Wakings
  <2> QED BY <2>1, <2>2
<1> QED BY <1>1, SchedulerInvariant, PTL

-----------------------------------------------------------------------------
\* who works on a delivery holds its lease
Working == \A d \in Daemon : pc[d] = "work" => sender = d

LEMMA WorkStep ==
  ASSUME Places, Working, NEW d \in Daemon, Step(d)
  PROVE  Working'
<1>1. CASE RunCycle(d)
  <2>1. CASE sender = None /\ sender' = d /\ Goto(d, "work")
    <3>1. \A e \in Daemon : pc[e] # "work"
      BY <2>1, DaemonAssumption DEF Working
    <3> QED BY <2>1, <3>1 DEF Goto, Working, Places
  <2>2. CASE UNCHANGED sender /\ (Goto(d, "loop") \/ Exit(d))
    BY <2>2 DEF Goto, Exit, Working, Places
  <2> QED BY <1>1, <2>1, <2>2 DEF RunCycle, BeginCycle
<1>2. CASE EndCycle(d)
  <2>1. sender = d /\ pc' \in {[pc EXCEPT ![d] = "loop"], [pc EXCEPT ![d] = "off"]}
    BY <1>2 DEF EndCycle, Goto, Exit, Working
  <2> QED BY <2>1 DEF Working, Places
<1>3. CASE First(d) \/ Loop(d) \/ Plan(d) \/ Sleep(d)
  BY <1>3 DEF First, Loop, Plan, Sleep, Goto, Exit, Working, Places
<1> QED BY <1>1, <1>2, <1>3 DEF Step

LEMMA WorkNext ==
  ASSUME Places, Working, [Next]_vars
  PROVE  Working'
<1>1. \A d \in Daemon : d \notin {None, Other}
  BY DaemonAssumption
<1>2. ASSUME NEW d \in Daemon, StartDaemon(d) \/ Crash(d) \/ HeartbeatDies(d)
      PROVE  Working'
  BY <1>2 DEF StartDaemon, Crash, HeartbeatDies, Working, Places
<1>3. ASSUME NEW d \in Daemon, Stop(d)
      PROVE  Working'
  <2>1. pc' = [pc EXCEPT ![d] = "off"] /\ (sender' = sender \/ sender = d)
    BY <1>3 DEF Stop, Exit, Working
  <2> QED BY <2>1 DEF Working, Places
<1>4. CASE DeliveryLeaseExpires \/ OtherBegins \/ OtherEnds \/ Operator
  BY <1>1, <1>4 DEF DeliveryLeaseExpires, OtherBegins, OtherEnds, Operator, Working
<1>5. CASE SchedulerLeaseExpires \/ Tick \/ UNCHANGED vars
  BY <1>5 DEF SchedulerLeaseExpires, Tick, vars, Working
<1> QED BY <1>2, <1>3, <1>4, <1>5, WorkStep DEF Next

\* A daemon that works on a delivery holds the delivery lease (run_once).
THEOREM WorkInvariant == Spec => [](Places /\ Working)
<1>1. Init => Working
  BY DEF Init, Working
<1>2. Places /\ Working /\ [Next]_vars => Working'
  BY WorkNext
<1>3. SchedulerInv => Places
  BY DEF SchedulerInv
<1> QED BY <1>1, <1>2, <1>3, SchedulerInvariant, PTL DEF Spec

-----------------------------------------------------------------------------
(***************************************************************************)
(* A daemon repeats a cycle at once only when the last one found another   *)
(* run at work: after its first cycle and after a sleep it has counted     *)
(* none, it goes round only for recovery work, which no early return       *)
(* leaves behind, and whatever ends the other run starts the count anew.   *)
(***************************************************************************)
Recovers(d) == pc[d] = "run" /\ idleRuns[d] > 0 => HasRecoveryWork \/ sender # None

SpinInv ==
  /\ Places
  /\ idleRuns \in [Daemon -> 0..2]
  /\ \A d \in Daemon : /\ pc[d] \in {"first", "sleep"} => idleRuns[d] = 0
                       /\ Recovers(d)
                       /\ idleRuns[d] = 2 => sender # None

LEMMA BusyKeepsSpin ==
  ASSUME Busy, Places'
  PROVE  SpinInv'
BY DEF Busy, SpinInv, Recovers

\* Where nobody is counted and nobody goes to sleep.
LEMMA UncountedKeepsSpin ==
  ASSUME SpinInv, Places', UNCHANGED <<idleRuns, sender>>,
         HasRecoveryWork => HasRecoveryWork' \/ sender # None,
         \A d \in Daemon : \/ pc'[d] \in {pc[d], "off", "loop", "plan"}
                           \/ pc'[d] = "run" /\ (idleRuns[d] = 0 \/ HasRecoveryWork)
  PROVE  SpinInv'
<1>1. ASSUME NEW d \in Daemon
      PROVE  /\ pc'[d] \in {"first", "sleep"} => idleRuns'[d] = 0
             /\ Recovers(d)'
             /\ idleRuns'[d] = 2 => sender' # None
  <2>1. /\ pc'[d] \in {"first", "sleep"} => pc'[d] = pc[d]
        /\ pc'[d] = "run" => pc[d] = "run" \/ idleRuns[d] = 0 \/ HasRecoveryWork
    OBVIOUS
  <2>2. idleRuns[d] \in 0..2
    BY DEF SpinInv
  <2> QED BY <2>1, <2>2 DEF SpinInv, Recovers
<1> QED BY <1>1 DEF SpinInv

\* A daemon that starts anew, ends or goes to sleep has counted none.
LEMMA FreshKeepsSpin ==
  ASSUME SpinInv, Places', NEW d \in Daemon, Fresh(d), UNCHANGED <<delivery, sender>>,
         NEW where, pc' = [pc EXCEPT ![d] = where]
  PROVE  SpinInv'
<1>1. /\ idleRuns' \in [Daemon -> 0..2] /\ idleRuns'[d] = 0
      /\ \A e \in Daemon \ {d} : idleRuns'[e] = idleRuns[e] /\ pc'[e] = pc[e]
  BY DEF Fresh, SpinInv, Places
<1>2. HasRecoveryWork' = HasRecoveryWork /\ sender' = sender
  BY DEF HasRecoveryWork, RetryDue, Active, delivery
<1>3. ASSUME NEW e \in Daemon
      PROVE  /\ pc'[e] \in {"first", "sleep"} => idleRuns'[e] = 0
             /\ Recovers(e)'
             /\ idleRuns'[e] = 2 => sender' # None
  <2>1. CASE e = d
    BY <1>1, <2>1 DEF Recovers
  <2>2. CASE e # d
    BY <1>1, <1>2, <2>2 DEF SpinInv, Recovers
  <2> QED BY <2>1, <2>2
<1> QED BY <1>1, <1>3 DEF SpinInv

\* A cycle that ends at once: its daemon had counted none, or another is at work.
LEMMA IdleKeepsSpin ==
  ASSUME SpinInv, Places', NEW d \in Daemon, Idle(d), Goto(d, "loop"), UNCHANGED <<delivery, sender>>,
         sender # None \/ idleRuns[d] = 0
  PROVE  SpinInv'
<1>1. idleRuns[d] \in 0..2 /\ idleRuns \in [Daemon -> 0..2]
  BY DEF SpinInv
<1>2. Min({2, idleRuns[d] + 1}) \in 0..2 /\ (idleRuns[d] = 0 => Min({2, idleRuns[d] + 1}) = 1)
  BY <1>1, MinOfTwo
<1>3. /\ idleRuns' \in [Daemon -> 0..2]
      /\ idleRuns'[d] = Min({2, idleRuns[d] + 1})
      /\ \A e \in Daemon \ {d} : idleRuns'[e] = idleRuns[e]
  BY <1>1, <1>2 DEF Idle
<1>4. pc'[d] = "loop" /\ \A e \in Daemon \ {d} : pc'[e] = pc[e]
  BY DEF Goto, SpinInv, Places
<1>5. HasRecoveryWork' = HasRecoveryWork /\ sender' = sender
  BY DEF HasRecoveryWork, RetryDue, Active, delivery
<1>6. ASSUME NEW e \in Daemon
      PROVE  /\ pc'[e] \in {"first", "sleep"} => idleRuns'[e] = 0
             /\ Recovers(e)'
             /\ idleRuns'[e] = 2 => sender' # None
  <2>1. CASE e = d
    BY <1>2, <1>3, <1>4, <1>5, <2>1 DEF Recovers
  <2>2. CASE e # d
    BY <1>3, <1>4, <1>5, <2>2 DEF SpinInv, Recovers
  <2> QED BY <2>1, <2>2
<1> QED BY <1>3, <1>6 DEF SpinInv

LEMMA CycleKeepsSpin ==
  ASSUME SpinInv, Places', NEW d \in Daemon, RunCycle(d)
  PROVE  SpinInv'
<1>1. CASE Busy
  BY <1>1, BusyKeepsSpin
<1>2. CASE Fresh(d) /\ Exit(d) /\ UNCHANGED <<delivery, sender>>
  BY <1>2, FreshKeepsSpin DEF Exit
<1>3. CASE /\ Idle(d) /\ Goto(d, "loop") /\ UNCHANGED <<delivery, sender>>
           /\ \/ sender # None
              \/ Active = "retry_wait" /\ left > 0
              \/ Active = "none" /\ today = "completed"
  <2>1. HasRecoveryWork => sender # None
    BY <1>3, DaemonAssumption DEF HasRecoveryWork, RetryDue
  <2>2. idleRuns[d] \in 0..2
    BY DEF SpinInv
  <2>3. sender # None \/ idleRuns[d] = 0
    BY <2>1, <2>2 DEF SpinInv, Recovers, RunCycle
  <2> QED BY <1>3, <2>3, IdleKeepsSpin
<1> QED BY <1>1, <1>2, <1>3 DEF RunCycle, BeginCycle

LEMMA StepKeepsSpin ==
  ASSUME SpinInv, Places', NEW d \in Daemon, Step(d)
  PROVE  SpinInv'
<1>1. ASSUME UNCHANGED <<delivery, sender, idleRuns>>, NEW where, pc' = [pc EXCEPT ![d] = where],
             \/ where \in {"off", "loop", "plan"}
             \/ where = "run" /\ (idleRuns[d] = 0 \/ HasRecoveryWork)
      PROVE  SpinInv'
  <2>1. HasRecoveryWork => HasRecoveryWork'
    BY <1>1 DEF HasRecoveryWork, RetryDue, Active, delivery
  <2>2. \A e \in Daemon : \/ pc'[e] \in {pc[e], "off", "loop", "plan"}
                          \/ pc'[e] = "run" /\ (idleRuns[e] = 0 \/ HasRecoveryWork)
    BY <1>1 DEF SpinInv, Places
  <2> QED BY <1>1, <2>1, <2>2, UncountedKeepsSpin
<1>2. CASE First(d)
  <2>1. idleRuns[d] = 0
    BY <1>2 DEF First, SpinInv
  <2> QED BY <1>1, <1>2, <2>1 DEF First, Goto
<1>3. CASE Loop(d)
  BY <1>1, <1>3 DEF Loop, Goto, Exit
<1>4. CASE Plan(d)
  BY <1>4, FreshKeepsSpin DEF Plan, Goto, Exit
<1>5. CASE Sleep(d)
  <2>1. idleRuns[d] = 0
    BY <1>5 DEF Sleep, SpinInv
  <2> QED BY <1>1, <1>5, <2>1 DEF Sleep, Goto, Exit
<1>6. CASE EndCycle(d)
  BY <1>6, BusyKeepsSpin DEF EndCycle
<1> QED BY <1>2, <1>3, <1>4, <1>5, <1>6, CycleKeepsSpin DEF Step

\* The work that is due stays due while nobody takes it.
LEMMA WorkStaysDue ==
  ASSUME Working, HasRecoveryWork,
         (\E d \in Daemon : Crash(d) \/ HeartbeatDies(d)) \/ SchedulerLeaseExpires \/ Tick \/ UNCHANGED vars
  PROVE  HasRecoveryWork' \/ sender # None
<1>1. CASE Tick
  <2>1. Active' = Active /\ (left = 0 => left' = 0)
    BY <1>1 DEF Tick, HasRecoveryWork, RetryDue, Active, OpenStates, InProgress
  <2> QED BY <2>1 DEF HasRecoveryWork, RetryDue
<1>2. ASSUME NEW d \in Daemon, Crash(d)
      PROVE  HasRecoveryWork' \/ sender # None
  <2>1. CASE pc[d] = "work"
    BY <2>1, DaemonAssumption DEF Working
  <2>2. CASE pc[d] # "work"
    BY <1>2, <2>2 DEF Crash, HasRecoveryWork, RetryDue, Active
  <2> QED BY <2>1, <2>2
<1>3. CASE UNCHANGED delivery
  BY <1>3 DEF HasRecoveryWork, RetryDue, Active, delivery
<1> QED BY <1>1, <1>2, <1>3 DEF HeartbeatDies, SchedulerLeaseExpires, vars

\* A daemon repeats a cycle at once, without sleep, only while another run
\* holds the delivery lease (run_daemon, _has_recovery_work).
THEOREM NoSpin == Spec => []NoOwnSpin
<1>1. Init => SpinInv
  BY DEF Init, SpinInv, Recovers, Places, Up
<1>2. SpinInv /\ Working /\ Places' /\ [Next]_vars => SpinInv'
  <2> SUFFICES ASSUME SpinInv, Working, Places', [Next]_vars PROVE SpinInv'
    OBVIOUS
  <2>1. ASSUME NEW d \in Daemon, StartDaemon(d) \/ Step(d) \/ Stop(d)
        PROVE  SpinInv'
    BY <2>1, StepKeepsSpin, BusyKeepsSpin, FreshKeepsSpin DEF StartDaemon, Stop
  <2>2. CASE DeliveryLeaseExpires \/ OtherBegins \/ OtherEnds \/ Operator
    BY <2>2, BusyKeepsSpin DEF DeliveryLeaseExpires, OtherBegins, OtherEnds, Operator
  <2>3. CASE (\E d \in Daemon : Crash(d) \/ HeartbeatDies(d)) \/ SchedulerLeaseExpires \/ Tick \/ UNCHANGED vars
    <3>1. UNCHANGED <<idleRuns, sender>> /\ \A e \in Daemon : pc'[e] \in {pc[e], "off"}
      BY <2>3 DEF Crash, HeartbeatDies, SchedulerLeaseExpires, Tick, vars, SpinInv, Places
    <3> QED BY <2>3, <3>1, WorkStaysDue, UncountedKeepsSpin
  <2> QED BY <2>1, <2>2, <2>3 DEF Next
<1>3. SpinInv => NoOwnSpin
  BY DEF SpinInv, NoOwnSpin
<1> QED BY <1>1, <1>2, <1>3, WorkInvariant, PTL DEF Spec

-----------------------------------------------------------------------------
(***************************************************************************)
(* The slot.  A daemon sleeps no longer than to the next slot, and one     *)
(* that the slot does not meet between its checks and its sleep finds it   *)
(* due: there it plans today's delivery, unless one of an earlier day is   *)
(* open.                                                                   *)
(***************************************************************************)
DayType ==
  /\ Places
  /\ phase \in 0..Phases - 1 /\ left \in Nat
  /\ wait \in [Daemon -> Nat]

\* who holds the delivery lease works on an open delivery
SenderBusy == sender # None => Active \in OpenStates

\* what is still open of an earlier day excuses the slot
Carried == IsDue /\ earlier \in OpenStates => carried
Seen == IsDue /\ ~carried => today # "none"

WakesInTime(d) == pc[d] = "sleep" => wait[d] <= NextDelivery
Checked(d) == (pc[d] \in {"loop", "plan"} \/ Asleep(d)) /\ d \notin crossed
HasSeen(d) == Checked(d) => Seen

DayInv ==
  /\ DayType /\ SenderBusy /\ Carried
  /\ \A d \in Daemon : WakesInTime(d) /\ HasSeen(d)

LEMMA OpenIsSeen ==
  ASSUME Carried, Active \in OpenStates
  PROVE  Seen
BY DEF Carried, Seen, Active, OpenStates, InProgress

\* what may become of the deliveries while the day goes on
Progress ==
  /\ UNCHANGED <<phase, carried>>
  /\ today # "none" => today' # "none"
  /\ earlier' \in OpenStates => earlier \in OpenStates

LEMMA ProgressKeeps ==
  ASSUME DayInv, Progress
  PROVE  Carried' /\ (Seen => Seen') /\ NextDelivery' = NextDelivery
BY DEF DayInv, Progress, Carried, Seen, IsDue, NextDelivery

\* the open delivery changes
LEMMA SetActiveProgress ==
  ASSUME NEW s, s # "none", SetActive(s), Active \in OpenStates, UNCHANGED <<phase, carried>>
  PROVE  Progress /\ (s \in OpenStates => Active' \in OpenStates)
BY DEF SetActive, Active, Progress, OpenStates, InProgress

\* A step within the day, of one daemon or of none.
LEMMA DayGoesOn ==
  ASSUME DayInv, DayType', Progress, SenderBusy',
         \A d \in Daemon : pc'[d] = "sleep" => \/ pc[d] = "sleep" /\ wait'[d] = wait[d]
                                               \/ wait'[d] <= NextDelivery,
         \A d \in Daemon : Checked(d)' => Checked(d) \/ Seen'
  PROVE  DayInv'
<1>1. Carried' /\ (Seen => Seen') /\ NextDelivery' = NextDelivery
  BY ProgressKeeps
<1>2. \A d \in Daemon : WakesInTime(d)' /\ HasSeen(d)'
  BY <1>1 DEF DayInv, WakesInTime, HasSeen
<1> QED BY <1>1, <1>2 DEF DayInv

\* A daemon goes on awake or ends, with what it has at hand.
LEMMA GoesTo ==
  ASSUME DayInv, Places', Progress, SenderBusy', left' \in Nat, NEW d \in Daemon,
         NEW where, where # "sleep",
         where \in {"loop", "plan"} => (pc[d] = "loop" /\ UNCHANGED crossed) \/ Seen',
         pc' = [pc EXCEPT ![d] = where],
         wait' = wait \/ wait' = [wait EXCEPT ![d] = 0],
         crossed' = crossed \/ crossed' = crossed \ {d}
  PROVE  DayInv'
<1>1. /\ pc'[d] = where /\ \A e \in Daemon \ {d} : pc'[e] = pc[e] /\ wait'[e] = wait[e]
      /\ wait' \in [Daemon -> Nat]
  BY DEF DayInv, DayType, Places
<1>2. DayType'
  BY <1>1 DEF DayInv, DayType, Progress
<1>3. \A e \in Daemon : pc'[e] = "sleep" => pc[e] = "sleep" /\ wait'[e] = wait[e]
  BY <1>1
<1>4. ASSUME NEW e \in Daemon, Checked(e)'
      PROVE  Checked(e) \/ Seen'
  <2>1. CASE e = d
    BY <1>1, <1>4, <2>1 DEF Checked, Asleep
  <2>2. CASE e # d
    BY <1>1, <1>4, <2>2 DEF Checked, Asleep
  <2> QED BY <2>1, <2>2
<1> QED BY <1>2, <1>3, <1>4, DayGoesOn

LEMMA DayCycle ==
  ASSUME DayInv, Places', NEW d \in Daemon, RunCycle(d)
  PROVE  DayInv'
<1>1. UNCHANGED <<phase, carried>> /\ crossed' = crossed \ {d}
  BY DEF RunCycle
<1>2. CASE /\ Goto(d, "loop") /\ UNCHANGED <<delivery, sender, wait>>
           /\ \/ sender # None \/ Active = "retry_wait"
              \/ Active = "none" /\ today = "completed"
  <2>1. Progress /\ SenderBusy' /\ left' \in Nat /\ Seen' = Seen
    BY <1>1, <1>2 DEF Progress, SenderBusy, Active, Seen, IsDue, DayInv, DayType, delivery
  <2>2. Seen
    BY <1>2, OpenIsSeen DEF DayInv, SenderBusy, OpenStates, Seen
  <2> QED BY <1>1, <1>2, <2>1, <2>2, GoesTo DEF Goto
<1>3. CASE Exit(d) /\ UNCHANGED <<delivery, sender>>
  <2>1. Progress /\ SenderBusy' /\ left' \in Nat
    BY <1>1, <1>3 DEF Progress, SenderBusy, Active, DayInv, DayType, delivery
  <2> QED BY <1>1, <1>3, <2>1, GoesTo DEF Exit
<1>4. CASE /\ sender = None /\ sender' = d /\ Goto(d, "work") /\ UNCHANGED wait
           /\ \/ /\ Active = "none" /\ today = "none" /\ today' = "collecting"
                 /\ UNCHANGED <<earlier, left>>
              \/ /\ Active \in InProgress \/ RetryDue
                 /\ UNCHANGED delivery
  <2>1. Progress /\ SenderBusy' /\ left' \in Nat
    BY <1>1, <1>4 DEF Progress, SenderBusy, Active, DayInv, DayType, delivery, OpenStates, InProgress, RetryDue
  <2> QED BY <1>1, <1>4, <2>1, GoesTo DEF Goto
<1> QED BY <1>2, <1>3, <1>4 DEF RunCycle, BeginCycle

LEMMA SleepEnough ==
  ASSUME DayInv
  PROVE  SleepFor \in Nat /\ SleepFor <= NextDelivery
<1>1. NextDelivery \in Nat /\ left \in Nat
  BY DaemonAssumption DEF DayInv, DayType, NextDelivery
<1>2. SleepFor \in {Min({NextDelivery, left}), Min({NextDelivery, NextDelivery})}
  <2>1. {NextDelivery} \cup {left} = {NextDelivery, left} /\ {NextDelivery} \cup {} = {NextDelivery, NextDelivery}
    OBVIOUS
  <2> QED BY <2>1 DEF SleepFor, NextDurableRetry
<1> QED BY <1>1, <1>2, MinOfTwo

\* What a daemon has seen at its checks it takes to its sleep.
LEMMA DayPlan ==
  ASSUME DayInv, Places', NEW d \in Daemon, pc[d] = "plan",
         UNCHANGED <<phase, carried, crossed, delivery, sender>>,
         Goto(d, "sleep"), wait' = [wait EXCEPT ![d] = SleepFor]
  PROVE  DayInv'
<1>1. Progress /\ SenderBusy' /\ left' \in Nat
  BY DEF Progress, SenderBusy, Active, DayInv, DayType, delivery
<1>2. /\ pc'[d] = "sleep" /\ wait'[d] = SleepFor /\ wait' \in [Daemon -> Nat]
      /\ \A e \in Daemon \ {d} : pc'[e] = pc[e] /\ wait'[e] = wait[e]
  BY SleepEnough DEF Goto, DayInv, DayType, Places
<1>3. DayType'
  BY <1>1, <1>2 DEF DayInv, DayType
<1>4. \A e \in Daemon : pc'[e] = "sleep" => \/ pc[e] = "sleep" /\ wait'[e] = wait[e]
                                            \/ wait'[e] <= NextDelivery
  BY <1>2, SleepEnough
<1>5. \A e \in Daemon : Checked(e)' => Checked(e)
  BY <1>2 DEF Checked, Asleep
<1> QED BY <1>1, <1>3, <1>4, <1>5, DayGoesOn

LEMMA DayStep ==
  ASSUME DayInv, Places', Working, NEW d \in Daemon, Step(d)
  PROVE  DayInv'
<1>1. CASE RunCycle(d)
  BY <1>1, DayCycle
<1>2. CASE EndCycle(d)
  <2>1. sender = d /\ Active \in OpenStates /\ sender' = None /\ UNCHANGED <<phase, carried, crossed>>
    BY <1>2, DaemonAssumption DEF EndCycle, DayInv, Working, SenderBusy, marks
  <2>2. PICK s \in {"completed", "retry_wait", "needs_attention", "failed_terminal"} :
          Outcome(s) /\ ((Goto(d, "loop") /\ UNCHANGED wait) \/ Exit(d))
    <3>1. Goto(d, "loop") => pc'[d] = "loop"
      BY DEF Goto, DayInv, DayType, Places
    <3> QED BY <1>2, <3>1 DEF EndCycle
  <2>3. Progress /\ SenderBusy' /\ left' \in Nat
    BY <2>1, <2>2, SetActiveProgress DEF Outcome, SenderBusy
  <2>4. Seen'
    BY <2>1, <2>3, OpenIsSeen, ProgressKeeps DEF DayInv
  <2> QED BY <2>1, <2>2, <2>3, <2>4, GoesTo DEF Goto, Exit
<1>3. CASE First(d) \/ Loop(d) \/ Plan(d) \/ Sleep(d)
  <2>1. UNCHANGED <<phase, carried, crossed, delivery, sender>>
    BY <1>3 DEF First, Loop, Plan, Sleep, marks
  <2>2. Progress /\ SenderBusy' /\ left' \in Nat
    BY <2>1 DEF Progress, SenderBusy, Active, DayInv, DayType, delivery
  <2>3. CASE Exit(d)
    BY <2>1, <2>2, <2>3, GoesTo DEF Exit
  <2>4. CASE Goto(d, "run") /\ UNCHANGED wait
    BY <2>1, <2>2, <2>4, GoesTo DEF Goto
  <2>5. CASE First(d) /\ ~IsDue /\ Goto(d, "loop")
    <3>1. Seen' /\ UNCHANGED wait
      BY <2>1, <2>5 DEF First, Seen, IsDue
    <3> QED BY <2>1, <2>2, <2>5, <3>1, GoesTo DEF Goto
  <2>6. CASE Loop(d) /\ Goto(d, "plan")
    <3>1. pc[d] = "loop" /\ pc' = [pc EXCEPT ![d] = "plan"]
      BY <2>6 DEF Loop, Goto
    <3>2. UNCHANGED wait
      <4>1. pc'[d] = "plan"
        BY <3>1 DEF DayInv, DayType, Places
      <4>2. ~Exit(d)
        BY <4>1 DEF Exit, DayInv, DayType, Places
      <4> QED BY <2>6, <4>2 DEF Loop
    <3> QED BY <2>1, <2>2, <3>1, <3>2, GoesTo
  <2>7. CASE Plan(d) /\ Goto(d, "sleep") /\ wait' = [wait EXCEPT ![d] = SleepFor]
    BY <2>1, <2>7, DayPlan DEF Plan
  <2> QED BY <1>3, <2>3, <2>4, <2>5, <2>6, <2>7 DEF First, Loop, Plan, Sleep
<1> QED BY <1>1, <1>2, <1>3 DEF Step

\* A cycle that is broken off leaves its delivery open.
LEMMA DayBroken ==
  ASSUME DayInv, Places', Working, NEW d \in Daemon, Stop(d) \/ Crash(d)
  PROVE  DayInv'
<1>1. /\ UNCHANGED <<phase, carried, crossed, left>>
      /\ pc' = [pc EXCEPT ![d] = "off"] /\ wait' = [wait EXCEPT ![d] = 0]
  BY DEF Stop, Crash, Exit, marks
<1>2. left' \in Nat
  BY <1>1 DEF DayInv, DayType
<1>3. CASE pc[d] = "work"
  <2>1. sender = d /\ Active \in OpenStates
    BY <1>3, DaemonAssumption DEF DayInv, Working, SenderBusy
  <2>2. PICK s \in Abandoned : SetActive(s) /\ sender' \in {sender, None}
    BY <1>3 DEF Stop, Crash
  <2>3. s \in OpenStates /\ s # "none"
    BY <2>1 DEF Abandoned, OpenStates, InProgress
  <2>4. Progress /\ SenderBusy'
    BY <1>1, <2>2, <2>3, <2>1, SetActiveProgress DEF SenderBusy
  <2> QED BY <1>1, <1>2, <2>4, GoesTo
<1>4. CASE pc[d] # "work"
  <2>1. UNCHANGED <<today, earlier, sender>>
    BY <1>4 DEF Stop, Crash
  <2>2. Progress /\ SenderBusy'
    BY <1>1, <2>1 DEF Progress, SenderBusy, Active, DayInv
  <2> QED BY <1>1, <1>2, <2>2, GoesTo
<1> QED BY <1>3, <1>4

\* What happens within the day beside the daemons.
LEMMA DayWorld ==
  ASSUME DayInv, Places', DeliveryLeaseExpires \/ OtherBegins \/ OtherEnds \/ Operator
  PROVE  DayInv'
<1>1. UNCHANGED <<phase, carried, crossed, pc, wait>>
  BY DEF DeliveryLeaseExpires, OtherBegins, OtherEnds, Operator, marks
<1>2. Progress /\ SenderBusy' /\ left' \in Nat
  <2>1. CASE DeliveryLeaseExpires
    <3>1. sender' = None /\ left' = left /\ sender # None
      BY <2>1, DaemonAssumption DEF DeliveryLeaseExpires
    <3>2. Active \in OpenStates
      BY <3>1 DEF DayInv, SenderBusy
    <3>3. UNCHANGED <<today, earlier>> \/ SetActive("needs_attention")
      BY <2>1 DEF DeliveryLeaseExpires
    <3>4. Progress
      BY <1>1, <3>2, <3>3, SetActiveProgress DEF Progress
    <3> QED BY <3>1, <3>4 DEF SenderBusy, DayInv, DayType
  <2>2. CASE OtherBegins
    BY <1>1, <2>2 DEF OtherBegins, Progress, SenderBusy, Active, DayInv, DayType, delivery,
                      OpenStates, InProgress, RetryDue
  <2>3. CASE OtherEnds
    <3>1. sender' = None /\ sender # None
      BY <2>3, DaemonAssumption DEF OtherEnds
    <3>2. Active \in OpenStates
      BY <3>1 DEF DayInv, SenderBusy
    <3>3. PICK s \in {"completed", "retry_wait", "needs_attention", "failed_terminal"} : Outcome(s)
      BY <2>3 DEF OtherEnds
    <3> QED BY <1>1, <3>1, <3>2, <3>3, SetActiveProgress DEF Outcome, SenderBusy
  <2>4. CASE Operator
    <3>1. sender' = None /\ Active \in OpenStates /\ left' = left
      BY <2>4 DEF Operator, OpenStates
    <3>2. PICK s \in {"sending", "completed"} : SetActive(s)
      BY <2>4 DEF Operator
    <3> QED BY <1>1, <3>1, <3>2, SetActiveProgress DEF SenderBusy, DayInv, DayType
  <2> QED BY <2>1, <2>2, <2>3, <2>4
<1>3. DayType'
  BY <1>1, <1>2 DEF DayInv, DayType
<1>4. /\ \A d \in Daemon : pc'[d] = "sleep" => pc[d] = "sleep" /\ wait'[d] = wait[d]
      /\ \A d \in Daemon : Checked(d)' => Checked(d)
  BY <1>1 DEF Checked, Asleep
<1> QED BY <1>2, <1>3, <1>4, DayGoesOn

\* Time passes: who sleeps wakes at the slot, and the others are still to check
\* it or are met by it between their checks and their sleep.
LEMMA DayTick ==
  ASSUME DayInv, Places', Tick
  PROVE  DayInv'
<1> DEFINE midnight == phase + 1 = Phases
           now == IF midnight THEN 0 ELSE phase + 1
<1>1. /\ phase' = now
      /\ IF midnight THEN earlier' = (IF Active = "none" THEN "none" ELSE Active) /\ today' = "none"
                     ELSE UNCHANGED <<today, earlier>>
      /\ carried' = (now >= Slot /\ (carried \/ earlier' \in OpenStates))
      /\ crossed' = IF now = Slot THEN {d \in Daemon : pc[d] \in {"loop", "plan"}}
                    ELSE IF now < Slot THEN {} ELSE crossed
      /\ left' = IF left > 0 THEN left - 1 ELSE 0
      /\ wait' = [d \in Daemon |-> IF wait[d] > 0 THEN wait[d] - 1 ELSE 0]
      /\ UNCHANGED <<sender, pc>>
  BY DEF Tick
<1>2. phase \in 0..Phases - 1 /\ left \in Nat /\ wait \in [Daemon -> Nat]
      /\ Phases \in Nat /\ Slot \in Nat /\ Slot < Phases
  BY DaemonAssumption DEF DayInv, DayType
<1>3. DayType'
  BY <1>1, <1>2 DEF DayType
<1>4. Active' = Active \/ (Active = "none" /\ Active' \notin OpenStates)
  BY <1>1 DEF Active, OpenStates, InProgress
<1>5. SenderBusy'
  BY <1>1, <1>4 DEF DayInv, SenderBusy, OpenStates, InProgress
<1>6. Carried'
  BY <1>1 DEF Carried, IsDue
<1>7. ASSUME NEW d \in Daemon
      PROVE  WakesInTime(d)' /\ HasSeen(d)'
  <2>1. wait[d] \in Nat /\ wait'[d] = IF wait[d] > 0 THEN wait[d] - 1 ELSE 0
    BY <1>1, <1>2
  <2>2. pc'[d] = "sleep" => wait[d] <= NextDelivery
    BY <1>1 DEF DayInv, WakesInTime
  <2>3. WakesInTime(d)'
    BY <1>1, <1>2, <2>1, <2>2 DEF WakesInTime, NextDelivery
  <2>4. HasSeen(d)'
    <3> SUFFICES ASSUME Checked(d)' PROVE Seen'
      BY DEF HasSeen
    <3>1. CASE ~midnight /\ phase >= Slot
      <4>1. Checked(d)
        BY <1>1, <1>2, <2>1, <3>1 DEF Checked, Asleep
      <4> QED BY <1>1, <1>2, <3>1, <4>1 DEF DayInv, HasSeen, Seen, IsDue
    <3>2. CASE now < Slot
      BY <1>1, <1>2, <3>2 DEF Seen, IsDue
    <3>3. CASE now = Slot
      <4>1. Asleep(d)'
        BY <1>1, <3>3 DEF Checked
      <4> QED BY <1>1, <1>2, <2>1, <2>2, <3>3, <4>1 DEF Asleep, NextDelivery
    <3> QED BY <1>2, <3>1, <3>2, <3>3
  <2> QED BY <2>3, <2>4
<1> QED BY <1>3, <1>5, <1>6, <1>7 DEF DayInv

\* A daemon that sleeps past today's slot has seen today's delivery planned,
\* unless a delivery of an earlier day was open at the slot or later, or the
\* slot came between its checks and its sleep.
THEOREM SlotIsPlanned == Spec => []SlotPlanned
<1>1. Init => DayInv
  BY DaemonAssumption
     DEF Init, DayInv, DayType, Places, Up, SenderBusy, Carried, OpenStates, InProgress,
         WakesInTime, HasSeen, Checked, Asleep
<1>2. DayInv /\ Places' /\ Working /\ [Next]_vars => DayInv'
  <2> SUFFICES ASSUME DayInv, Places', Working, [Next]_vars PROVE DayInv'
    OBVIOUS
  <2>1. ASSUME NEW d \in Daemon, StartDaemon(d)
        PROVE  DayInv'
    <3>1. /\ UNCHANGED <<phase, delivery, sender, wait, carried, crossed>>
          /\ pc' = [pc EXCEPT ![d] = "first"]
      BY <2>1 DEF StartDaemon, marks
    <3>2. Progress /\ SenderBusy' /\ left' \in Nat
      BY <3>1 DEF Progress, SenderBusy, Active, DayInv, DayType, delivery
    <3> QED BY <3>1, <3>2, GoesTo
  <2>2. ASSUME \/ \E d \in Daemon : HeartbeatDies(d)
               \/ SchedulerLeaseExpires \/ UNCHANGED vars
        PROVE  DayInv'
    <3>1. UNCHANGED <<phase, delivery, sender, pc, wait, carried, crossed>>
      BY <2>2 DEF HeartbeatDies, SchedulerLeaseExpires, vars, delivery, marks
    <3>2. DayType' /\ SenderBusy' /\ Progress
      BY <3>1 DEF DayInv, DayType, SenderBusy, Active, Progress, delivery
    <3>3. /\ \A d \in Daemon : pc'[d] = "sleep" => pc[d] = "sleep" /\ wait'[d] = wait[d]
          /\ \A d \in Daemon : Checked(d)' => Checked(d)
      BY <3>1 DEF Checked, Asleep
    <3> QED BY <3>2, <3>3, DayGoesOn
  <2> QED BY <2>1, <2>2, DayStep, DayBroken, DayWorld, DayTick DEF Next
<1>3. DayInv => SlotPlanned
  BY DEF DayInv, HasSeen, Checked, Seen, SlotPlanned
<1> QED BY <1>1, <1>2, <1>3, WorkInvariant, PTL DEF Spec
=============================================================================
