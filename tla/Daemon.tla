------------------------------- MODULE Daemon -------------------------------
(***************************************************************************)
(* The daemon scheduler (meco_news/app.py, run_daemon): the scheduler      *)
(* lease with its heartbeat thread, the first cycle, recovery work, the    *)
(* sleep until the next slot or durable retry, and the exit codes that     *)
(* make a supervisor start it again.                                       *)
(*                                                                         *)
(* A cycle is run_once, which RunOnce has in full; here it begins, works   *)
(* on one delivery and ends with one of its outcomes.  Time is the phase   *)
(* of the day; today's delivery and an open one of an earlier day are all  *)
(* that a cycle can meet.  Time may pass between any two steps: between a  *)
(* check and the call it decides, and between the checks of a turn and the *)
(* computation of the next slot.                                           *)
(***************************************************************************)
EXTENDS Naturals, FiniteSets, FiniteSetsExt

CONSTANTS Daemon,     \* daemon processes, each restarted by its supervisor
          None,       \* no lease holder
          Other,      \* a run that is not a daemon's
          Phases,     \* the day has the phases 0..Phases-1
          Slot,       \* the phase of delivery_time
          MaxDelay,   \* bound on the wait for a retry
          MaxTries,   \* max_attempts of the retry policy
          MaxFaults,  \* bound on crashes, stops and failures or lapses of a heartbeat
          MaxOthers   \* bound on runs that are not a daemon's

ASSUME DaemonAssumption ==
  /\ None \notin Daemon /\ Other \notin Daemon /\ None # Other
  /\ {Phases, Slot, MaxDelay, MaxTries, MaxFaults, MaxOthers} \subseteq Nat
  /\ Slot < Phases /\ MaxDelay > 0

VARIABLES phase,     \* time of day
          today,     \* state of today's delivery
          earlier,   \* state of the last delivery of an earlier day
          left,      \* phases until the open delivery's next_attempt_at
          tries,     \* attempts spent on the open delivery
          sender,    \* holder of the delivery lease
          lease,     \* holder of the scheduler lease
          pc,        \* Daemon -> where it is
          beat,      \* Daemon -> its heartbeat thread
          late,      \* Daemon -> 0, or 1 and its wakings since its lease ran out
          wait,      \* Daemon -> phases it still sleeps
          carried,   \* an earlier day's delivery was open at today's slot or later
          crossed,   \* daemons that today's slot met between their checks and their sleep
          idleRuns,  \* Daemon -> its cycles without sleep since anything changed
          faults, others

delivery == <<today, earlier, left, tries>>
marks == <<carried, crossed>>
vars == <<phase, delivery, sender, lease, pc, beat, late, wait, marks, idleRuns, faults, others>>

InProgress == {"collecting", "prepared_empty", "sending"}
OpenStates == InProgress \cup {"retry_wait", "needs_attention"}
States == OpenStates \cup {"none", "completed", "failed_terminal"}
Up == {"first", "loop", "plan", "sleep", "run", "work"}

Init ==
  /\ phase \in 0..Phases - 1
  /\ today = "none" /\ earlier = "none"
  /\ left = 0 /\ tries = 0
  /\ sender = None /\ lease = None
  /\ pc = [d \in Daemon |-> "off"]
  /\ beat = [d \in Daemon |-> "off"]
  /\ late = [d \in Daemon |-> 0]
  /\ wait = [d \in Daemon |-> 0]
  /\ carried = FALSE /\ crossed = {}
  /\ idleRuns = [d \in Daemon |-> 0]
  /\ faults = 0 /\ others = 0

-----------------------------------------------------------------------------
\* _latest_active: the open delivery, of today or of an earlier day
Active == IF today \in OpenStates THEN today
          ELSE IF earlier \in OpenStates THEN earlier ELSE "none"

\* the open delivery goes to state s
SetActive(s) ==
  IF today \in OpenStates THEN today' = s /\ UNCHANGED earlier
  ELSE earlier' = s /\ UNCHANGED today

SlipStrictlyAfter == phase > Slot                        \* IsDue
SlipUndue == Active \in InProgress \cup {"retry_wait"}    \* HasRecoveryWork

IsDue == phase >= Slot
RetryDue == Active = "retry_wait" /\ left = 0
HasRecoveryWork == Active \in {"collecting", "sending"} \/ RetryDue

\* phases until the next slot, a whole day when it is now
NextDelivery == IF phase < Slot THEN Slot - phase ELSE Slot + Phases - phase
NextDurableRetry == IF Active = "retry_wait" THEN {left} ELSE {}
SleepFor == Min({NextDelivery} \cup NextDurableRetry)

SlipReleaseAny(d) ==                                     \* Exit
  /\ pc' = [pc EXCEPT ![d] = "off"]
  /\ beat' = [beat EXCEPT ![d] = "off"]
  /\ lease' = None
  /\ late' = [late EXCEPT ![d] = 0]
  /\ wait' = [wait EXCEPT ![d] = 0]

\* the process ends: stop.set, join, and the lease is released if it is held
Exit(d) ==
  /\ pc' = [pc EXCEPT ![d] = "off"]
  /\ beat' = [beat EXCEPT ![d] = "off"]
  /\ lease' = IF lease = d THEN None ELSE lease
  /\ late' = [late EXCEPT ![d] = 0]
  /\ wait' = [wait EXCEPT ![d] = 0]

Goto(d, where) ==
  /\ pc' = [pc EXCEPT ![d] = where]
  /\ UNCHANGED <<beat, lease>>

-----------------------------------------------------------------------------
\* run_once, from its call to the delivery it will work on or to its early
\* return; needs_attention and failed_terminal end the daemon
Idle(d) == idleRuns' = [idleRuns EXCEPT ![d] = Min({2, @ + 1})]
Fresh(d) == idleRuns' = [idleRuns EXCEPT ![d] = 0]
Busy == idleRuns' = [d \in Daemon |-> 0]

BeginCycle(d) ==
  \/ /\ sender # None                            \* already_running
     /\ Goto(d, "loop") /\ Idle(d)
     /\ UNCHANGED <<delivery, sender, late, wait>>
  \/ /\ sender = None
     /\ \/ Active = "needs_attention"
        \/ Active = "none" /\ today = "failed_terminal"
     /\ Exit(d) /\ Fresh(d)
     /\ UNCHANGED <<delivery, sender>>
  \/ /\ sender = None
     /\ \/ Active = "retry_wait" /\ left > 0     \* run_deferred
        \/ Active = "none" /\ today = "completed"
     /\ Goto(d, "loop") /\ Idle(d)
     /\ UNCHANGED <<delivery, sender, late, wait>>
  \/ /\ sender = None
     /\ \/ /\ Active = "none" /\ today = "none"  \* a new delivery for today
           /\ today' = "collecting" /\ tries' = 0
           /\ UNCHANGED <<earlier, left>>
        \/ /\ Active \in InProgress \/ RetryDue
           /\ UNCHANGED delivery
     /\ sender' = d
     /\ Goto(d, "work") /\ Busy
     /\ UNCHANGED <<late, wait>>

RunCycle(d) ==
  /\ pc[d] = "run"
  /\ BeginCycle(d)
  /\ crossed' = crossed \ {d}
  /\ UNCHANGED <<phase, carried, faults, others>>

\* where a delivery may stand when its cycle ends without an outcome
Abandoned == IF Active = "collecting" THEN InProgress ELSE {"sending", Active}

SlipUncounted(s) ==                                      \* Outcome
  /\ SetActive(s)
  /\ IF s = "retry_wait"
     THEN tries < MaxTries /\ left' \in 1..MaxDelay /\ UNCHANGED tries
     ELSE left' = 0 /\ UNCHANGED tries

\* the outcomes of a cycle that worked on a delivery
Outcome(s) ==
  /\ SetActive(s)
  /\ IF s = "retry_wait"
     THEN /\ tries < MaxTries
          /\ tries' = tries + 1
          /\ left' \in 1..MaxDelay
     ELSE left' = 0 /\ UNCHANGED tries

EndCycle(d) ==
  /\ pc[d] = "work"
  /\ sender' = None
  /\ \/ \E s \in {"completed", "retry_wait"} : Outcome(s) /\ Goto(d, "loop") /\ UNCHANGED <<late, wait>>
     \/ \E s \in {"needs_attention", "failed_terminal"} : Outcome(s) /\ Exit(d)
  /\ Busy
  /\ UNCHANGED <<phase, marks, faults, others>>

-----------------------------------------------------------------------------
\* run_daemon

\* a lease of another daemon ends the new one at once
StartDaemon(d) ==
  /\ pc[d] = "off"
  /\ lease = None
  /\ lease' = d
  /\ pc' = [pc EXCEPT ![d] = "first"]
  /\ beat' = [beat EXCEPT ![d] = "alive"]
  /\ Fresh(d)
  /\ UNCHANGED <<phase, delivery, sender, late, wait, marks, faults, others>>

Wakes(d) == late' = [late EXCEPT ![d] = IF @ = 0 THEN 0 ELSE Min({3, @ + 1})]

\* the first cycle runs when asked for (--run-now), when due, or to recover
First(d) ==
  /\ pc[d] = "first"
  /\ \/ Goto(d, "run") /\ Wakes(d)
     \/ /\ ~IsDue /\ ~HasRecoveryWork
        /\ Goto(d, "loop") /\ UNCHANGED late
  /\ UNCHANGED <<phase, delivery, sender, wait, marks, idleRuns, faults, others>>

\* not heartbeat.is_alive()
HeartbeatLost(d) == beat[d] = "dead"

\* one turn of the main loop: a lost heartbeat ends it, and recovery work runs
\* at once
Loop(d) ==
  /\ pc[d] = "loop"
  /\ \/ HeartbeatLost(d) /\ Exit(d)
     \/ /\ ~HeartbeatLost(d)
        /\ Goto(d, IF HasRecoveryWork THEN "run" ELSE "plan")
        /\ UNCHANGED <<late, wait>>
  /\ UNCHANGED <<phase, delivery, sender, marks, idleRuns, faults, others>>

SlipUnchecked(d) == TRUE                                 \* Owns

\* _assert_lease_owner_in_transaction: a lease that has run out is nobody's
Owns(d) == lease = d

\* heartbeat_lease ends a daemon that has lost the lease; the others sleep, from
\* the time that it is by now
Plan(d) ==
  /\ pc[d] = "plan"
  /\ \/ ~Owns(d) /\ Exit(d)
     \/ /\ Owns(d)
        /\ Goto(d, "sleep")
        /\ wait' = [wait EXCEPT ![d] = SleepFor]
        /\ UNCHANGED late
  /\ Fresh(d)
  /\ UNCHANGED <<phase, delivery, sender, marks, faults, others>>

\* the sleep is cut in chunks that notice a lost heartbeat; after the last
\* one the cycle begins unchecked
Sleep(d) ==
  /\ pc[d] = "sleep"
  /\ \/ wait[d] > 0 /\ HeartbeatLost(d) /\ Exit(d)
     \/ wait[d] = 0 /\ Goto(d, "run") /\ Wakes(d) /\ UNCHANGED wait
  /\ UNCHANGED <<phase, delivery, sender, marks, idleRuns, faults, others>>

\* SIGTERM: a cycle stops between two chunks and leaves its delivery where it
\* is; the sleep ends at once
Stop(d) ==
  /\ pc[d] \in Up
  /\ faults < MaxFaults
  /\ faults' = faults + 1
  /\ Exit(d)
  /\ IF pc[d] = "work"
     THEN \E s \in Abandoned : SetActive(s) /\ sender' = None
     ELSE UNCHANGED <<today, earlier, sender>>
  /\ Busy
  /\ UNCHANGED <<phase, left, tries, marks, others>>

\* a crash leaves both leases to their expiry
Crash(d) ==
  /\ pc[d] \in Up
  /\ faults < MaxFaults
  /\ faults' = faults + 1
  /\ pc' = [pc EXCEPT ![d] = "off"]
  /\ beat' = [beat EXCEPT ![d] = "off"]
  /\ late' = [late EXCEPT ![d] = 0]
  /\ wait' = [wait EXCEPT ![d] = 0]
  /\ IF pc[d] = "work"
     THEN \E s \in Abandoned : SetActive(s)
     ELSE UNCHANGED <<today, earlier>>
  /\ UNCHANGED <<phase, left, tries, sender, lease, marks, idleRuns, others>>

\* _scheduler_heartbeat ends on any exception, and on the loss of the lease
HeartbeatDies(d) ==
  /\ beat[d] = "alive"
  /\ \/ ~Owns(d) /\ UNCHANGED faults
     \/ Owns(d) /\ faults < MaxFaults /\ faults' = faults + 1
  /\ beat' = [beat EXCEPT ![d] = "dead"]
  /\ UNCHANGED <<phase, delivery, sender, lease, pc, late, wait, marks, idleRuns, others>>

\* the scheduler lease runs out: without a heartbeat, and also beside a living
\* one that is late, which wakes every 60 seconds for a TTL that may be shorter,
\* in a process that may stall
SchedulerLeaseExpires ==
  /\ lease # None
  /\ IF beat[lease] = "alive" THEN faults < MaxFaults /\ faults' = faults + 1
                             ELSE UNCHANGED faults
  /\ lease' = None
  /\ late' = [late EXCEPT ![lease] = IF pc[lease] = "off" THEN 0 ELSE 1]
  /\ UNCHANGED <<phase, delivery, sender, pc, beat, wait, marks, idleRuns, others>>

\* the delivery lease of a run that is gone runs out, and the recovery of the
\* next run holds an unknown attempt for the operator
DeliveryLeaseExpires ==
  /\ \/ sender \in Daemon /\ pc[sender] # "work"
     \/ sender = Other /\ Active \notin {"none", "needs_attention"}
  /\ sender' = None
  /\ \/ UNCHANGED <<today, earlier>>
     \/ Active = "sending" /\ SetActive("needs_attention")
  /\ Busy
  /\ UNCHANGED <<phase, left, tries, lease, pc, beat, late, wait, marks, faults, others>>

\* a run from the command line works on the same deliveries
OtherBegins ==
  /\ sender = None
  /\ others < MaxOthers
  /\ others' = others + 1
  /\ sender' = Other
  /\ \/ /\ Active = "none" /\ today = "none"
        /\ today' = "collecting" /\ tries' = 0
        /\ UNCHANGED <<earlier, left>>
     \/ /\ Active \in InProgress \/ RetryDue
        /\ UNCHANGED delivery
  /\ Busy
  /\ UNCHANGED <<phase, lease, pc, beat, late, wait, marks, faults>>

OtherEnds ==
  /\ sender = Other
  /\ sender' = None
  /\ Active # "none"
  /\ \E s \in {"completed", "retry_wait", "needs_attention", "failed_terminal"} : Outcome(s)
  /\ Busy
  /\ UNCHANGED <<phase, lease, pc, beat, late, wait, marks, faults, others>>

\* resolve-chunk: the delivery goes on or is complete
Operator ==
  /\ Active = "needs_attention"
  /\ sender = None
  /\ \E s \in {"sending", "completed"} : SetActive(s)
  /\ Busy
  /\ UNCHANGED <<phase, left, tries, sender, lease, pc, beat, late, wait, marks, faults, others>>

\* time passes, whatever the daemons are about
Tick ==
  /\ LET midnight == phase + 1 = Phases
         now == IF midnight THEN 0 ELSE phase + 1
     IN  /\ phase' = now
         /\ IF midnight
            THEN /\ earlier' = IF Active = "none" THEN "none" ELSE Active
                 /\ today' = "none"
            ELSE UNCHANGED <<today, earlier>>
         /\ carried' = (now >= Slot /\ (carried \/ earlier' \in OpenStates))
         /\ crossed' = IF now = Slot THEN {d \in Daemon : pc[d] \in {"loop", "plan"}}
                       ELSE IF now < Slot THEN {} ELSE crossed
  /\ left' = IF left > 0 THEN left - 1 ELSE 0
  /\ wait' = [d \in Daemon |-> IF wait[d] > 0 THEN wait[d] - 1 ELSE 0]
  /\ UNCHANGED <<tries, sender, lease, pc, beat, late, idleRuns, faults, others>>

Step(d) == First(d) \/ Loop(d) \/ Plan(d) \/ Sleep(d) \/ RunCycle(d) \/ EndCycle(d)

Next ==
  \/ \E d \in Daemon : StartDaemon(d) \/ Step(d) \/ Stop(d) \/ Crash(d) \/ HeartbeatDies(d)
  \/ SchedulerLeaseExpires \/ DeliveryLeaseExpires
  \/ OtherBegins \/ OtherEnds \/ Operator \/ Tick

\* the supervisor restarts a daemon that ended, a heartbeat thread without its
\* lease learns it, leases run out that nobody renews, cycles end, the operator
\* answers and time passes
Fairness ==
  /\ \A d \in Daemon : WF_vars(Step(d)) /\ WF_vars(~Owns(d) /\ HeartbeatDies(d))
  /\ WF_vars(\E d \in Daemon : StartDaemon(d))
  /\ WF_vars(lease # None /\ beat[lease] # "alive" /\ SchedulerLeaseExpires)
  /\ WF_vars(DeliveryLeaseExpires)
  /\ WF_vars(OtherEnds) /\ WF_vars(Operator) /\ WF_vars(Tick)

Spec == Init /\ [][Next]_vars /\ Fairness

-----------------------------------------------------------------------------
\* Properties

TypeOK ==
  /\ phase \in 0..Phases - 1
  /\ {today, earlier} \subseteq States
  /\ left \in 0..MaxDelay /\ tries \in 0..MaxTries
  /\ sender \in Daemon \cup {Other, None}
  /\ lease \in Daemon \cup {None}
  /\ pc \in [Daemon -> Up \cup {"off"}]
  /\ beat \in [Daemon -> {"off", "alive", "dead"}]
  /\ wait \in [Daemon -> 0..Phases]
  /\ late \in [Daemon -> 0..3] /\ idleRuns \in [Daemon -> 0..2]
  /\ carried \in BOOLEAN /\ crossed \subseteq Daemon
  /\ faults \in 0..MaxFaults /\ others \in 0..MaxOthers

\* Two daemons are up at the same time only after the scheduler lease has run
\* out under one of them, which since then has woken at most once: it never
\* goes back to sleep (acquire_lease, heartbeat_lease and release_lease of the
\* scheduler scope).
OneScheduler ==
  \A d, e \in Daemon :
    d # e /\ pc[d] \in Up /\ pc[e] \in Up => 1 \in {late[d], late[e]} \/ 2 \in {late[d], late[e]}

\* still waiting, not about to begin its cycle
Asleep(d) == pc[d] = "sleep" /\ wait[d] > 0

\* A daemon that sleeps past today's slot has seen today's delivery planned,
\* unless a delivery of an earlier day was open at the slot or later, or the
\* slot came while it was between the checks of its turn and its sleep.
SlotPlanned ==
  \A d \in Daemon : Asleep(d) /\ d \notin crossed /\ IsDue /\ ~carried => today # "none"

\* The same without the exceptions: incomplete work is recovered before the new
\* date is planned, not instead of it, and a slot that comes after the check of
\* _is_due is not taken for tomorrow's by _next_delivery.
EverySlotPlanned ==
  (\E d \in Daemon : Asleep(d)) /\ IsDue /\ Active = "none" => today # "none"

\* The daemon repeats a cycle at once, without sleep, only while another run
\* holds the delivery lease: no cycle of its own leaves the same recovery work.
NoOwnSpin == (\E d \in Daemon : idleRuns[d] = 2) => sender # None

\* Every delivery that is begun is in the end completed, failed or held for
\* the operator, through restarts, retries and lost heartbeats,
DeliverySettles == Active \in InProgress \cup {"retry_wait"}
                     ~> Active \notin InProgress \cup {"retry_wait"}

\* and a daemon that lost the scheduler lease ends, whatever it finds to do.
LateEnds == \A d \in Daemon : late[d] > 0 ~> late[d] = 0

\* What a daemon has begun comes to its end, and so does a daemon that should
\* not be there: no lost lease leaves two of them up for good.
DaemonSettles == DeliverySettles /\ LateEnds
=============================================================================
