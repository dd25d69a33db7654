----------------------------- MODULE CollectAll -----------------------------
(***************************************************************************)
(* collect_all (meco_news/collectors.py): one process per source, at most  *)
(* MaxWorkers at once and HostLimit per host, each with a pipe for one     *)
(* frame, a receiver thread once the pipe has bytes, a deadline per source *)
(* and one for the cycle.                                                  *)
(*                                                                         *)
(* Workers and receiver threads move at any time between two steps of the  *)
(* supervisor loop.  What a feed says is data (module Pipeline).           *)
(***************************************************************************)
EXTENDS Naturals, FiniteSets, FiniteSetsExt

CONSTANTS
  Source,       \* the jobs, numbered in the order of the list
  Host,
  HostOf,       \* Source -> Host
  HostLimit,    \* MAX_CONCURRENT_REQUESTS_PER_HOST
  MaxWorkers,   \* min(10, number of jobs)
  MaxFaults     \* bound: failed starts, workers that survive SIGKILL, lost frames

ASSUME CollectAssumption ==
  /\ Source \subseteq Nat /\ IsFiniteSet(Source)
  /\ HostOf \in [Source -> Host]
  /\ HostLimit \in Nat \ {0} /\ MaxWorkers \in Nat \ {0}
  /\ MaxFaults \in Nat

VARIABLES
  pc,           \* where collect_all is
  left,         \* pending_jobs
  active,       \* sources with an entry in active
  hostActive,   \* Host -> host_active
  todo,         \* active sources this turn of the loop has not looked at
  now,          \* the source the loop looks at, 0 for none
  worker,       \* Source -> its process
  pipe,         \* Source -> what its pipe holds
  receiver,     \* Source -> its receiver thread
  result,       \* Source -> results_by_id
  late,         \* sources past their deadline
  cycleLate,    \* the cycle deadline has passed
  faults

supervisorVars == <<pc, left, active, hostActive, todo, now, result>>
workerVars == <<worker, pipe, receiver>>
clockVars == <<late, cycleLate>>
collectVars == <<supervisorVars, workerVars, clockVars, faults>>

\* a result stands for the source's own outcome, success or exception
Frames == {"result", "memory_error"}
Pipes == Frames \cup {"empty", "partial", "eof"}
Outcomes == {"result", "no_result", "source_deadline", "cycle_deadline",
             "start_failed"}

Init ==
  /\ pc = "top"
  /\ left = Source /\ active = {} /\ todo = {} /\ now = 0
  /\ hostActive = [h \in Host |-> 0]
  /\ worker = [s \in Source |-> "none"]
  /\ pipe = [s \in Source |-> "empty"]
  /\ receiver = [s \in Source |-> "none"]
  /\ result = [s \in Source |-> "none"]
  /\ late = {} /\ cycleLate = FALSE
  /\ faults = 0

Alive(s) == worker[s] \in {"running", "stuck"}
Fault == faults < MaxFaults /\ faults' = faults + 1

-----------------------------------------------------------------------------
(***************************************************************************)
(* The workers (_source_process_entry) and receivers (_start_ipc_receiver) *)
(***************************************************************************)
\* a worker writes its frame, perhaps in two parts
Write(s, frame) ==
  /\ Alive(s) /\ pipe[s] \in {"empty", "partial"}
  /\ pipe' = [pipe EXCEPT ![s] = frame]
  /\ UNCHANGED <<worker, receiver>>

WritePart(s) ==
  /\ Alive(s) /\ pipe[s] = "empty"
  /\ pipe' = [pipe EXCEPT ![s] = "partial"]
  /\ UNCHANGED <<worker, receiver>>

\* it ends after its frame, or dies without one
WorkerExits(s) ==
  /\ worker[s] = "running"
  /\ worker' = [worker EXCEPT ![s] = "exited"]
  /\ pipe' = [pipe EXCEPT ![s] = IF @ \in Frames THEN @ ELSE "eof"]
  /\ UNCHANGED receiver

\* recv_bytes returns with a whole frame and raises at the end of the pipe
Receive(s) ==
  /\ receiver[s] = "reading"
  /\ pipe[s] \in Frames \cup {"eof"}
  /\ receiver' = [receiver EXCEPT ![s] = IF pipe[s] = "eof" THEN "error" ELSE "frame"]
  /\ UNCHANGED <<worker, pipe>>

WorkerStep(s) ==
  /\ \/ \E f \in Frames : Write(s, f)
     \/ WritePart(s) \/ WorkerExits(s) \/ Receive(s)
  /\ UNCHANGED <<supervisorVars, clockVars, faults>>

\* a worker that SIGTERM and SIGKILL do not end
Sticks(s) ==
  /\ worker[s] = "running" /\ Fault
  /\ worker' = [worker EXCEPT ![s] = "stuck"]
  /\ UNCHANGED <<supervisorVars, pipe, receiver, clockVars>>

SourceDeadline(s) ==
  /\ s \in active \ late /\ Alive(s)
  /\ late' = late \cup {s}
  /\ UNCHANGED <<supervisorVars, workerVars, cycleLate, faults>>

CycleDeadline ==
  /\ ~cycleLate
  /\ cycleLate' = TRUE
  /\ UNCHANGED <<supervisorVars, workerVars, late, faults>>

-----------------------------------------------------------------------------
(***************************************************************************)
(* The supervisor loop                                                     *)
(***************************************************************************)
Top ==
  /\ pc = "top"
  /\ pc' = IF left = {} /\ active = {} THEN "returned"
           ELSE IF cycleLate THEN "expire" ELSE "start"
  /\ UNCHANGED <<left, active, hostActive, todo, now, result, workerVars, clockVars, faults>>

SlipNoCleanup == worker                                  \* Terminated
SlipForgetPending == result                              \* PendingExpired

\* jobs whose host has a slot; the first of them is started next
Eligible ==
  IF cycleLate \/ Cardinality(active) >= MaxWorkers THEN {}
  ELSE {s \in left : hostActive[HostOf[s]] < HostLimit}

StartJob ==
  /\ pc = "start" /\ Eligible # {}
  /\ LET s == Min(Eligible)
     IN  /\ left' = left \ {s}
         /\ \/ /\ worker' = [worker EXCEPT ![s] = "running"]
               /\ active' = active \cup {s}
               /\ hostActive' = [hostActive EXCEPT ![HostOf[s]] = @ + 1]
               /\ UNCHANGED <<result, faults>>
            \/ /\ Fault
               /\ result' = [result EXCEPT ![s] = "start_failed"]
               /\ UNCHANGED <<worker, active, hostActive>>
  /\ UNCHANGED <<pc, todo, now, pipe, receiver, clockVars>>

\* context.Pipe() is before the try that isolates a start: without descriptors
\* it raises out of the loop
PipeFails ==
  /\ pc = "start" /\ Eligible # {} /\ Fault
  /\ left' = left \ {Min(Eligible)} /\ pc' = "cleanup"
  /\ UNCHANGED <<active, hostActive, todo, now, result, workerVars, clockVars>>

StartsDone ==
  /\ pc = "start" /\ Eligible = {}
  /\ pc' = "poll" /\ todo' = active
  /\ UNCHANGED <<left, active, hostActive, now, result, workerVars, clockVars, faults>>

\* connection.poll sees bytes or the end of the pipe: start a receiver
Poll ==
  /\ pc = "poll" /\ todo # {}
  /\ now' = Min(todo) /\ todo' = todo \ {now'}
  /\ pc' = "take"
  /\ receiver' = [receiver EXCEPT ![now'] =
                    IF @ = "none" /\ pipe[now'] # "empty" THEN "reading" ELSE @]
  /\ UNCHANGED <<left, active, hostActive, result, worker, pipe, clockVars, faults>>

PollDone ==
  /\ pc = "poll" /\ todo = {}
  /\ pc' = "top"
  /\ UNCHANGED <<left, active, hostActive, todo, now, result, workerVars, clockVars, faults>>

\* its slot of the host
Freed(s) == [hostActive EXCEPT ![HostOf[s]] = @ - 1]

\* MemoryError of a worker is raised again
Raises(outcome) == outcome = "memory_error"

\* close, join, terminate, kill: s has no process any more
Reaped(s) == worker' = [worker EXCEPT ![s] = "reaped"]

\* the entry of s ends with its outcome, or its worker cannot be reaped
Conclude(s, outcome) ==
  IF worker[s] = "stuck"
  THEN pc' = "cleanup" /\ UNCHANGED <<active, hostActive, result, worker, receiver, late>>
  ELSE /\ Reaped(s)
       /\ receiver' = [receiver EXCEPT ![s] = "none"]
       /\ late' = late \ {s}
       /\ active' = active \ {s}
       /\ hostActive' = Freed(s)
       /\ IF Raises(outcome)
          THEN pc' = "cleanup" /\ UNCHANGED result
          ELSE pc' = "poll" /\ result' = [result EXCEPT ![s] = outcome]

\* without a frame from the receiver
WithoutFrame(s) ==
  \/ /\ Alive(s) /\ s \notin late                        \* look again later
     /\ pc' = "poll" /\ UNCHANGED <<active, hostActive, result, worker, receiver, late>>
  \/ Alive(s) /\ s \in late /\ Conclude(s, "source_deadline")
  \/ ~Alive(s) /\ Conclude(s, "no_result")

\* the receiver's queue, with a short wait for it when the process has ended
TakeFrame ==
  /\ pc = "take"
  /\ now' = 0
  /\ \/ receiver[now] = "frame" /\ Conclude(now, pipe[now])
     \/ receiver[now] = "error" /\ Conclude(now, "no_result")
     \/ /\ receiver[now] = "reading" /\ ~Alive(now) /\ pipe[now] \in Frames
        /\ Conclude(now, pipe[now])
     \/ receiver[now] \in {"none", "reading"} /\ WithoutFrame(now)
  /\ UNCHANGED <<left, todo, pipe, cycleLate, faults>>

\* cleanup_active terminates all there is and raises
Terminated ==
  [s \in Source |-> IF s \in active /\ worker[s] # "stuck" THEN "reaped" ELSE worker[s]]

Cleanup ==
  /\ pc = "cleanup"
  /\ pc' = "raised" /\ active' = {} /\ todo' = {}
  /\ worker' = Terminated
  /\ UNCHANGED <<left, hostActive, now, result, pipe, receiver, clockVars, faults>>

PendingExpired == [s \in Source |-> IF s \in left THEN "cycle_deadline" ELSE result[s]]

\* after the cycle deadline: terminate one active worker after the other, and
\* give them and the pending jobs their result; one that cannot be reaped
\* ends this at once
Expire ==
  /\ pc = "expire"
  /\ IF active = {}
     THEN /\ result' = PendingExpired
          /\ left' = {} /\ pc' = "returned"
          /\ UNCHANGED <<active, hostActive, worker>>
     ELSE LET s == Min(active)
          IN  IF worker[s] = "stuck"
              THEN pc' = "raised" /\ UNCHANGED <<left, active, hostActive, result, worker>>
              ELSE /\ Reaped(s)
                   /\ active' = active \ {s}
                   /\ hostActive' = Freed(s)
                   /\ result' = [result EXCEPT ![s] = "cycle_deadline"]
                   /\ UNCHANGED <<left, pc>>
  /\ UNCHANGED <<todo, now, pipe, receiver, clockVars, faults>>

SlipBlockingTake ==                                      \* Take
  /\ pc = "take" /\ (receiver[now] = "reading" => pipe[now] \in Frames \cup {"eof"})
  /\ TakeFrame

Take == TakeFrame

Supervise ==
  \/ Top \/ StartJob \/ PipeFails \/ StartsDone
  \/ Poll \/ PollDone \/ Take \/ Cleanup \/ Expire

CollectNext ==
  \/ Supervise
  \/ \E s \in Source : WorkerStep(s) \/ Sticks(s) \/ SourceDeadline(s)
  \/ CycleDeadline

-----------------------------------------------------------------------------
(***************************************************************************)
(* Properties                                                              *)
(***************************************************************************)
CollectTypeOK ==
  /\ pc \in {"idle", "top", "start", "poll", "take", "cleanup", "expire", "returned", "raised"}
  /\ left \subseteq Source /\ active \subseteq Source /\ todo \subseteq active
  /\ now \in active \cup {0}
  /\ hostActive \in [Host -> Nat]
  /\ worker \in [Source -> {"none", "running", "stuck", "exited", "reaped"}]
  /\ pipe \in [Source -> Pipes]
  /\ receiver \in [Source -> {"none", "reading", "frame", "error"}]
  /\ result \in [Source -> Outcomes \cup {"none"}]
  /\ late \subseteq Source /\ cycleLate \in BOOLEAN
  /\ faults \in 0..MaxFaults

\* A source is pending, active or has its one result until collect_all
\* raises, and all have one when it returns.
Accounted ==
  /\ pc # "raised" /\ pc # "cleanup" =>
       \A s \in Source : (IF s \in left THEN 1 ELSE 0) + (IF s \in active THEN 1 ELSE 0)
                           + (IF result[s] # "none" THEN 1 ELSE 0) = 1
  /\ pc = "returned" => left = {} /\ active = {}

\* The processes that run, not the entries of the table, keep to the limits.
LimitsKept ==
  /\ Cardinality({s \in Source : worker[s] \in {"running", "stuck", "exited"}}) <= MaxWorkers
  /\ \A h \in Host : Cardinality({s \in Source : HostOf[s] = h /\ Alive(s)}) <= HostLimit

\* No worker outlives collect_all (_terminate_worker: "never leave a child
\* detached") unless one of them cannot be killed.
NoneDetached ==
  pc \in {"returned", "raised"} /\ (\E s \in Source : Alive(s)) =>
    pc = "raised" /\ \E s \in Source : worker[s] = "stuck"

\* However workers start, hang, die and are killed, the processes keep to the
\* limits while collect_all runs and are gone when it ends.
WorkersBounded == LimitsKept /\ NoneDetached

\* The same without the exception for the others: what cannot be killed is
\* all that is left.
OnlyStuckDetached ==
  pc \in {"returned", "raised"} => \A s \in Source : worker[s] # "running"

\* taken from the pending jobs, but without a pipe there was no process
Pipeless(s) == s \notin left /\ worker[s] = "none" /\ result[s] = "none"

\* One source does not fail the cycle: collect_all raises only for a worker
\* out of memory, one that cannot be killed, or when no pipe can be made.
Isolated ==
  pc = "raised" => \E s \in Source : \/ pipe[s] = "memory_error" \/ worker[s] = "stuck"
                                     \/ Pipeless(s)

\* Whatever workers, pipes and deadlines do, every source gets exactly one
\* result (results_by_id, the deadline branches), and none fails the others.
EverySourceAnswers == Accounted /\ Isolated

\* A worker that has written its whole frame is never reported as having sent
\* nothing (the comment on the bounded drain: it "closes the normal scheduling
\* race where a worker has exited after sending its complete frame").
FrameKept == \A s \in Source : result[s] = "no_result" => pipe[s] \notin Frames
=============================================================================
