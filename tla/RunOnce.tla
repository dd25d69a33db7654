------------------------------- MODULE RunOnce -------------------------------
(***************************************************************************)
(* run_once (meco_news/app.py): concurrent invocations of the collect,     *)
(* freeze and send cycle over one StateStore, with Telegram, the operator, *)
(* the calendar, crashes and store failures around them.                   *)
(*                                                                         *)
(* A run is a program counter and its locals.  A store call is one step;   *)
(* reads that decide the next call are merged with it or with each other   *)
(* where the README argues that nothing can come between that matters.     *)
(* Collection and sending happen outside any transaction and are steps of  *)
(* their own.                                                              *)
(***************************************************************************)
EXTENDS StateStore

CONSTANTS
  RetryEnabled,      \* retry_policy.enabled, frozen in every delivery
  MayForce,          \* the values --force may have: a subset of BOOLEAN
  HonestOperator,    \* the operator looks into the chat before resolving a chunk
  BudgetMayElapse,   \* max_elapsed_seconds may pass while a delivery is open
  MaxFaults          \* bound: crashes, store failures, stops, expiries of a live run's lease

ASSUME RunAssumption ==
  /\ RetryEnabled \in BOOLEAN
  /\ MayForce \subseteq BOOLEAN
  /\ HonestOperator \in BOOLEAN
  /\ BudgetMayElapse \in BOOLEAN
  /\ MaxFaults \in Nat

VARIABLES
  run,        \* the invocations: program counter and locals
  landed,     \* how many copies of each chunk have appeared in a Telegram chat
  reached,    \* the destinations in which messages of a delivery have appeared
  today,      \* the date _delivery_date returns
  faults      \* how many faults have happened

envVars == <<landed, reached, today, faults>>
vars == <<storeVars, run, envVars>>

Place == {"idle", "recover", "acquire", "recover2", "plan", "reopen", "create", "giveup",
          "collect", "collected", "allFailed", "defer", "select", "prepare", "target",
          "loop", "attempt", "send", "finish", "except", "release"}

Reply == {"none", "accepted", "retryable", "terminal", "ambiguous"}

RunState ==
  [pc : Place,
   date : Date,                       \* delivery_date
   force : BOOLEAN,
   tgt : Target \cup {NoTarget},      \* _target_snapshot(config) in this process
   act : Delivery \cup {0},           \* delivery_id, 0 for None
   draft : Digest \cup {<<>>},        \* the digest built but not yet prepared
   queue : SUBSET Chunk,              \* what is left of due_chunks in the for loop
   reply : Reply]                     \* how the last send_html ended

Idle == [pc |-> "idle", date |-> 1, force |-> FALSE, tgt |-> NoTarget, act |-> 0,
         draft |-> <<>>, queue |-> {}, reply |-> "none"]

Init ==
  /\ StoreInit
  /\ run = [r \in Run |-> Idle]
  /\ landed = [d \in Delivery |-> [k \in Chunk |-> 0]]
  /\ reached = [d \in Delivery |-> {}]
  /\ today = 1
  /\ faults = 0

At(r, p) == run[r].pc = p
Goto(r, p) == run' = [run EXCEPT ![r].pc = p]
End(r) == run' = [run EXCEPT ![r] = Idle]
Fault == faults < MaxFaults /\ faults' = faults + 1

\* the chunk the for loop is at
Current(r) == CHOOSE k \in run[r].queue : \A j \in run[r].queue : k <= j

(***************************************************************************)
(* Slips: see module StateStore.                                           *)
(***************************************************************************)
SlipNoRecovery == UNCHANGED storeVars
SlipForgetFailed(date, force) ==
  force \/ ~\E d \in Delivery : delivery[d].date = date /\ delivery[d].state \in Completed
SlipSkipSending(d) ==
  CASE delivery[d].state = "collecting" -> "collect"
    [] delivery[d].state = "retry_wait" /\ delivery[d].due -> "reopen"
    [] delivery[d].state = "prepared" -> "target"
    [] OTHER -> "release"
SlipNoHistory(digest) == TRUE
SlipAnyTarget(r) == TRUE
SlipLostIsRetryable(landing) ==
  IF landing THEN {"accepted", "retryable"} ELSE {"retryable", "terminal", "ambiguous"}
SlipReleaseAny(r) == lease' = NoLease /\ UNCHANGED <<delivery, chunk, history>>
SlipOperatorAnytime == TRUE

(***************************************************************************)
(* Where an exception of a store call takes the run: before the lease is   *)
(* held, out; before delivery_id is known, and where it is suppressed, to  *)
(* the release of the lease; otherwise to the except clause.               *)
(***************************************************************************)
Raise(r) ==
  CASE run[r].pc \in {"recover", "acquire", "release"} -> End(r)
    [] run[r].pc \in {"recover2", "plan", "reopen", "create", "giveup", "except"} -> Goto(r, "release")
    [] OTHER -> Goto(r, "except")

\* the method refuses: lease lost, or an invalid transition
Refused(r, ok) == ~ok /\ Raise(r) /\ UNCHANGED storeVars

(***************************************************************************)
(* Start, recovery and lease.                                              *)
(***************************************************************************)
\* A new invocation has a fresh owner id: a slot is reused only when no lease
\* row carries its name any more.
Start(r, t, force) ==
  /\ At(r, "idle") /\ lease.owner # r
  /\ run' = [run EXCEPT ![r] = [Idle EXCEPT !.pc = "recover", !.date = today,
                                            !.tgt = t, !.force = force]]
  /\ UNCHANGED <<storeVars, envVars>>

Recovers == RecoverExpiredLease \/ (lease.live /\ UNCHANGED storeVars)

Recover(r) ==
  /\ \/ At(r, "recover") /\ Goto(r, "acquire")
     \/ At(r, "recover2") /\ Goto(r, "plan")
  /\ Recovers
  /\ UNCHANGED envVars

Acquire(r) ==
  /\ At(r, "acquire")
  /\ \/ AcquireLease(r) /\ Goto(r, "recover2")
     \/ ~LeaseFree(r) /\ UNCHANGED storeVars /\ End(r)         \* already_running
  /\ UNCHANGED envVars

(***************************************************************************)
(* Plan: resume the open delivery or create today's.                       *)
(***************************************************************************)
OfDate(date) == {d \in Delivery : Exists(d) /\ delivery[d].date = date}
Latest(S) == CHOOSE d \in S : \A e \in S : delivery[e].gen <= delivery[d].gen
NextGeneration(date) == IF OfDate(date) = {} THEN 0 ELSE delivery[Latest(OfDate(date))].gen + 1

Actives == {d \in Delivery : IsActive(d)}

\* active_delivery(date) or active_delivery(None)
ToResume(date) ==
  IF Actives \cap OfDate(date) # {} THEN Latest(Actives \cap OfDate(date))
  ELSE CHOOSE d \in Actives : \A e \in Actives : e <= d

\* what run_once accepts as a reason to create a generation when none is open
MayCreate(date, force) ==
  IF force
  THEN /\ OfDate(date) # {} /\ delivery[Latest(OfDate(date))].state \in Completed
       /\ ~\E d \in Delivery : HasState(d, "ambiguous")
  ELSE /\ ~\E d \in OfDate(date) : delivery[d].state \in Completed
       /\ OfDate(date) = {} \/ delivery[Latest(OfDate(date))].state # "failed_terminal"

\* the next place of a run that resumes d
ResumeAt(d) ==
  LET s == delivery[d].state IN
  IF s = "needs_attention" \/ (s = "retry_wait" /\ ~delivery[d].due) THEN "release"
  ELSE IF s = "retry_wait" /\ BudgetExhausted(d, delivery[d].collections) THEN "giveup"
  ELSE IF s = "retry_wait" /\ DueChunks(d) = {} THEN "reopen"
  ELSE IF s = "collecting" /\ DueChunks(d) = {} THEN "collect"
  ELSE "target"

Plan(r) ==
  /\ At(r, "plan")
  /\ IF Actives # {}
     THEN LET d == ToResume(run[r].date) IN
          run' = [run EXCEPT ![r].act = d,
                             ![r].pc = IF run[r].force THEN "release" ELSE ResumeAt(d)]
     ELSE Goto(r, IF MayCreate(run[r].date, run[r].force) /\ \E d \in Delivery : ~Exists(d)
                  THEN "create" ELSE "release")
  /\ UNCHANGED <<storeVars, envVars>>

Reopen(r) ==
  /\ At(r, "reopen")
  /\ \/ ReopenForCollection(r, run[r].act) /\ Goto(r, "collect")
     \/ Refused(r, CanReopen(r, run[r].act))
  /\ UNCHANGED envVars

\* a forced generation names the latest one as its predecessor
Create(r) ==
  /\ At(r, "create")
  /\ \/ \E d \in Delivery, pred \in Delivery :
          /\ run[r].force => OfDate(run[r].date) # {} /\ pred = Latest(OfDate(run[r].date))
          /\ CreateDelivery(r, d, run[r].date, NextGeneration(run[r].date), run[r].force, pred)
          /\ run' = [run EXCEPT ![r].pc = "collect", ![r].act = d]
     \/ Refused(r, HoldsLease(r))
  /\ UNCHANGED envVars

\* fail_delivery for an exhausted budget; its exceptions are suppressed
GiveUp(r) ==
  /\ At(r, "giveup")
  /\ \/ FailDelivery(r, run[r].act) /\ Goto(r, "release")
     \/ Refused(r, CanFail(r, run[r].act))
  /\ UNCHANGED envVars

(***************************************************************************)
(* Collect, select, freeze.                                                *)
(***************************************************************************)
\* the heartbeat before collect_all
Collect(r) ==
  /\ At(r, "collect")
  /\ \/ HoldsLease(r) /\ Goto(r, "collected") /\ UNCHANGED storeVars
     \/ Refused(r, HoldsLease(r))
  /\ UNCHANGED envVars

\* record_source_results: every source failed, or some answered
Collected(r) ==
  /\ At(r, "collected")
  /\ \/ HoldsLease(r) /\ (Goto(r, "allFailed") \/ Goto(r, "select")) /\ UNCHANGED storeVars
     \/ Refused(r, HoldsLease(r))
  /\ UNCHANGED envVars

AllFailed(r) ==
  /\ At(r, "allFailed")
  /\ \/ RecordCollectionAttempt(r, run[r].act) /\ Goto(r, "defer")
     \/ Refused(r, HoldsLease(r))
  /\ UNCHANGED envVars

Defer(r) ==
  LET d == run[r].act
      over == ~RetryEnabled \/ BudgetExhausted(d, delivery[d].collections)
  IN
  /\ At(r, "defer")
  /\ \/ over /\ FailDelivery(r, d) /\ Goto(r, "release")
     \/ ~over /\ SetCollectionRetry(r, d) /\ Goto(r, "release")
     \/ Refused(r, IF over THEN CanFail(r, d) ELSE CanSetRetry(r, d))
  /\ UNCHANGED envVars

\* stories already in article_history are not selected
Unseen(digest) == \A k \in DOMAIN digest : digest[k] \cap history = {}

Select(r) ==
  /\ At(r, "select")
  /\ \E digest \in Digest :
       /\ Unseen(digest)
       /\ run' = [run EXCEPT ![r].pc = "prepare", ![r].draft = digest]
  /\ UNCHANGED <<storeVars, envVars>>

Prepare(r) ==
  LET d == run[r].act
      digest == run[r].draft
  IN
  /\ At(r, "prepare")
  /\ \/ /\ PrepareDelivery(r, d, digest, run[r].tgt)
        /\ run' = [run EXCEPT ![r].pc = "target", ![r].draft = <<>>]
     \/ Refused(r, CanPrepare(r, d, digest, run[r].tgt))
  /\ UNCHANGED envVars

(***************************************************************************)
(* Send the frozen outbox.                                                 *)
(***************************************************************************)
SameTarget(r) == delivery[run[r].act].target \in {NoTarget, run[r].tgt}

\* the frozen destination must be this process's destination
CheckTarget(r) ==
  LET d == run[r].act IN
  /\ At(r, "target")
  /\ \/ SameTarget(r) /\ Goto(r, "loop") /\ UNCHANGED storeVars
     \/ ~SameTarget(r) /\ MarkTargetMismatch(r, d, run[r].tgt) /\ Goto(r, "release")
     \/ ~SameTarget(r) /\ Refused(r, CanMarkMismatch(r, d))
  /\ UNCHANGED envVars

\* heartbeat, then due_chunks
Loop(r) ==
  LET due == DueChunks(run[r].act) IN
  /\ At(r, "loop")
  /\ \/ /\ HoldsLease(r)
        /\ run' = [run EXCEPT ![r].queue = due,
                              ![r].pc = IF due = {} THEN "release" ELSE "attempt"]
        /\ UNCHANGED storeVars
     \/ Refused(r, HoldsLease(r))
  /\ UNCHANGED envVars

Attempt(r) ==
  LET d == run[r].act
      k == Current(r)
      over == BudgetExhausted(d, chunk[d][k].attempts)
  IN
  /\ At(r, "attempt")
  /\ \/ over /\ Goto(r, "giveup") /\ UNCHANGED storeVars
     \/ ~over /\ BeginChunkAttempt(r, d, k) /\ Goto(r, "send")
     \/ ~over /\ Refused(r, CanBegin(r, d, k))
  /\ UNCHANGED envVars

\* What send_html reports: a message that appeared in the chat was confirmed
\* or its confirmation was lost; one that did not appear was refused, for a
\* while or for good, or the transport failed.
ReplyTo(landing) ==
  IF landing THEN {"accepted", "ambiguous"} ELSE {"retryable", "terminal", "ambiguous"}

\* No lease is checked here: the request may leave long after the lease ended.
Send(r) ==
  LET d == run[r].act
      k == Current(r)
  IN
  /\ At(r, "send")
  /\ \E landing \in BOOLEAN, reply \in Reply :
       /\ reply \in ReplyTo(landing)
       /\ run' = [run EXCEPT ![r].pc = "finish", ![r].reply = reply]
       /\ landed' = IF landing THEN [landed EXCEPT ![d][k] = @ + 1] ELSE landed
       /\ reached' = IF landing THEN [reached EXCEPT ![d] = @ \cup {run[r].tgt}] ELSE reached
  /\ UNCHANGED <<storeVars, today, faults>>

\* a retryable rejection is retried while policy, attempts and time allow
Retries(d, k) == RetryEnabled /\ ~BudgetExhausted(d, chunk[d][k].attempts)

\* the next chunk of the for loop, or the next turn of the while loop
AfterChunk(rest) == IF rest = {} THEN "loop" ELSE "attempt"

Finish(r) ==
  LET d == run[r].act
      k == Current(r)
      reply == run[r].reply
      rest == run[r].queue \ {k}
      retry == reply = "retryable" /\ Retries(d, k)
  IN
  /\ At(r, "finish")
  /\ \/ /\ reply = "accepted" /\ AcceptChunk(r, d, k)
        /\ run' = [run EXCEPT ![r].queue = rest, ![r].reply = "none", ![r].pc = AfterChunk(rest)]
     \/ reply = "ambiguous" /\ AmbiguousChunk(r, d, k) /\ Goto(r, "release")
     \/ retry /\ RejectChunkRetryable(r, d, k) /\ Goto(r, "release")
     \/ /\ reply \in {"retryable", "terminal"} /\ ~retry
        /\ RejectChunkTerminal(r, d, k, FALSE) /\ Goto(r, "release")
     \/ Refused(r, CanFinish(r, d, k))
  /\ UNCHANGED envVars

(***************************************************************************)
(* The except and finally clauses.                                         *)
(***************************************************************************)
\* delivery_has_inflight: the request may have crossed the wire, so the
\* delivery is left as it is
LeavesInFlight(r) == HasState(run[r].act, "in_flight")

FailsOnException(r) ==
  /\ ~LeavesInFlight(r)
  /\ delivery[run[r].act].state \notin Terminal \cup {"needs_attention", "retry_wait"}

Except(r) ==
  /\ At(r, "except")
  /\ \/ ~FailsOnException(r) /\ Goto(r, "release") /\ UNCHANGED storeVars
     \/ FailsOnException(r) /\ FailDelivery(r, run[r].act) /\ Goto(r, "release")
     \/ FailsOnException(r) /\ Refused(r, CanFail(r, run[r].act))
  /\ UNCHANGED envVars

\* what the finally clause does to the store
Releases(r) == ReleaseLease(r) \/ (~HoldsLease(r) /\ UNCHANGED storeVars)

Release(r) ==
  /\ At(r, "release")
  /\ Releases(r)
  /\ End(r)
  /\ UNCHANGED envVars

-----------------------------------------------------------------------------
(***************************************************************************)
(* Faults and the world.                                                   *)
(***************************************************************************)
\* Places that call the store and may see it fail (SQLite error, full disk,
\* guard gone); the transaction rolls back.
StorePlace == Place \ {"idle", "send"}

StoreFails(r) ==
  /\ run[r].pc \in StorePlace /\ Fault
  /\ Raise(r)
  /\ UNCHANGED <<storeVars, landed, reached, today>>

\* The stop event is seen after collection, in the loop, after a confirmed
\* chunk, and in the except clause.
Stops(r) ==
  /\ run[r].pc \in {"collected", "loop", "attempt", "except"} /\ Fault
  /\ Goto(r, "release")
  /\ UNCHANGED <<storeVars, landed, reached, today>>

Crash(r) ==
  /\ ~At(r, "idle") /\ Fault
  /\ End(r)
  /\ UNCHANGED <<storeVars, landed, reached, today>>

\* A live run outlives its lease only when it stalls: lease_ttl_seconds
\* exceeds the cycle deadline.  The lease of a dead one just runs out.
ExpireLease ==
  /\ LeaseExpires
  /\ IF \E r \in Run : lease.owner = r /\ ~At(r, "idle") THEN Fault ELSE UNCHANGED faults
  /\ UNCHANGED <<run, landed, reached, today>>

\* Exclusive maintenance authority excludes every process with a StateStore.
OperatorMayAct == \A r \in Run : At(r, "idle")

\* The operator resolves a chunk after looking into the chat.
Operator(d) ==
  /\ OperatorMayAct
  /\ \/ \E k \in Chunk : (HonestOperator => landed[d][k] > 0) /\ ResolveSent(d, k)
     \/ \E k \in Chunk : (HonestOperator => landed[d][k] = 0) /\ ResolveRetry(d, k)
     \/ \E t \in Target : ReconcileDelivery(d, t)
  /\ UNCHANGED <<run, envVars>>

Clock(d) ==
  /\ RetryDue(d) \/ (BudgetMayElapse /\ BudgetElapses(d))
  /\ UNCHANGED <<run, envVars>>

DayTurns ==
  /\ today < MaxDate
  /\ today' = today + 1
  /\ UNCHANGED <<storeVars, run, landed, reached, faults>>

Step(r) ==
  \/ Recover(r) \/ Acquire(r) \/ Plan(r) \/ Reopen(r) \/ Create(r) \/ GiveUp(r)
  \/ Collect(r) \/ Collected(r) \/ AllFailed(r) \/ Defer(r) \/ Select(r) \/ Prepare(r)
  \/ CheckTarget(r) \/ Loop(r) \/ Attempt(r) \/ Send(r) \/ Finish(r)
  \/ Except(r) \/ Release(r)

Starts(r) == \E t \in Target, force \in MayForce : Start(r, t, force)

Next ==
  \/ \E r \in Run : Starts(r) \/ Step(r) \/ StoreFails(r) \/ Stops(r) \/ Crash(r)
  \/ \E d \in Delivery : Operator(d) \/ Clock(d)
  \/ ExpireLease
  \/ DayTurns

Spec == Init /\ [][Next]_vars

\* A run that is not crashed takes its next step, the daemon keeps starting
\* runs, and time passes.  Nothing makes a fault, a stop or the operator act.
Fairness ==
  /\ \A r \in Run : WF_vars(Step(r))
  /\ WF_vars(\E r \in Run : Starts(r))
  /\ WF_vars(ExpireLease /\ UNCHANGED faults)
  /\ \A d \in Delivery : WF_vars(RetryDue(d) /\ UNCHANGED <<run, envVars>>)

FairSpec == Spec /\ Fairness

-----------------------------------------------------------------------------
(***************************************************************************)
(* Properties.                                                             *)
(***************************************************************************)
\* Types of the runs and of what Telegram has shown.
TypeOK ==
  /\ StoreTypeOK
  /\ run \in [Run -> RunState]
  /\ \A r \in Run : run[r].pc \in {"attempt", "send", "finish"} => run[r].queue # {} /\ run[r].act # 0
  /\ landed \in [Delivery -> [Chunk -> Nat]]
  /\ reached \in [Delivery -> SUBSET Target]
  /\ today \in Date
  /\ faults \in 0..MaxFaults

\* With an operator who looks before resolving, every chunk appears in the
\* chat at most once, and it has appeared if the outbox says it is sent,
\* whatever crashes, lost confirmations, store failures, expired leases and
\* concurrent runs do (the in_flight protocol of run_once as a whole).
ExactlyOnce ==
  \A d \in Delivery, k \in Chunk :
    /\ landed[d][k] <= 1
    /\ chunk[d][k].state = "sent" => landed[d][k] = 1

\* All messages of a delivery reach the one destination frozen with it, even
\* if runs with another TELEGRAM_CHAT_ID pick it up later.
OneDestination ==
  \A d \in Delivery : reached[d] \subseteq {delivery[d].target}

\* No two runs are between begin_chunk_attempt and finish_chunk for the same
\* delivery, although a run that lost its lease may still be sending.
OneSender ==
  \A q, r \in Run :
    run[q].pc = "send" /\ run[r].pc = "send" /\ run[q].act = run[r].act => q = r

\* A date has at most one delivery that is not completed, and it is the
\* latest: generations are added only on top of completed ones (--force), so
\* a failed or unresolved date is never planned again behind the operator's back.
OneOpenGeneration ==
  \A d, e \in Delivery :
    Exists(d) /\ Exists(e) /\ delivery[d].date = delivery[e].date /\ delivery[d].gen < delivery[e].gen
      => delivery[d].state \in Completed

\* No story appears in the chat twice: selection excludes what
\* article_history records, and a delivery whose messages are in doubt keeps
\* the next one from being planned.
NoRepeatedStory ==
  \A d, e \in Delivery, j, k \in Chunk :
    landed[d][j] > 0 /\ landed[e][k] > 0 /\ chunk[d][j].items \cap chunk[e][k].items # {}
      => <<d, j>> = <<e, k>>

\* docs/architecture.md: an acceptance-unknown transport result "enters
\* ambiguous and changes the delivery to needs_attention".
AmbiguousNeedsAttention ==
  \A d \in Delivery : HasState(d, "ambiguous") => delivery[d].state = "needs_attention"

\* The comment on the second recover_expired_lease of run_once: it "closes
\* the race where a lease was acquired between the prior inspection and
\* recovery", so a run that holds the lease plans with no attempt of an
\* earlier run left in flight.
RaceClosed ==
  \A r \in Run : At(r, "plan") /\ HoldsLease(r) => \A d \in Delivery : ~HasState(d, "in_flight")

\* Runs overlap finitely often: the daemon runs one cycle after the other
\* (run_daemon, behind the scheduler lease), and there are finitely many
\* manual invocations.  Without this, two runs can leap-frog for ever, each
\* recovering while the other holds the lease.
Alone == \A q, r \in Run : ~At(q, "idle") /\ ~At(r, "idle") => q = r

\* Every delivery settles: as long as faults and overlaps stop, it keeps
\* coming back to a final state or to the operator, never stuck in collecting,
\* prepared, sending or retry_wait.
Settles ==
  <>[]Alone =>
    \A d \in Delivery : Exists(d) ~> delivery[d].state \in Terminal \cup {"needs_attention"}

\* An attempt does not stay open for ever: it is finished or, after a crash
\* or a lost lease, declared ambiguous for the operator to see.
AttemptsClose ==
  <>[]Alone =>
    \A d \in Delivery, k \in Chunk :
      chunk[d][k].state = "in_flight" ~> chunk[d][k].state # "in_flight"

(***************************************************************************)
(* What the whole is for: see module DeliveryPromise.                      *)
(***************************************************************************)
Promise == INSTANCE DeliveryPromise WITH
  Careful <- HonestOperator,
  posted <- landed,
  acked <- [d \in Delivery |-> [k \in Chunk |-> chunk[d][k].state = "sent"]],
  pardons <- [d \in Delivery |-> [k \in Chunk |-> chunk[d][k].retries]]

\* run_once implements the promise.
KeepsPromise == Promise!Spec
=============================================================================
