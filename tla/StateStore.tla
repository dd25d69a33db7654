----------------------------- MODULE StateStore -----------------------------
(***************************************************************************)
(* The durable state of meco_news: the delivery lease, the deliveries, the *)
(* outbox chunks frozen with each of them, and the article history         *)
(* (meco_news/storage.py).  One action per StateStore method that changes  *)
(* state, taken by any caller the method accepts: a run that holds the     *)
(* delivery lease, a recovering run, or an operator.  Every method is one  *)
(* BEGIN IMMEDIATE transaction that re-checks the lease inside it, so it   *)
(* is one atomic step here.  How run_once strings them together is module  *)
(* RunOnce.                                                                *)
(*                                                                         *)
(* For each method M that can refuse, CanM is the condition under which it *)
(* commits; the method raises and rolls back otherwise.                    *)
(*                                                                         *)
(* Time is abstracted to three events: the lease's expires_at passes, a    *)
(* delivery's next_attempt_at passes, a delivery's max_elapsed_seconds     *)
(* passes.  A run's owner id and run id, two fresh UUIDs, are one value.   *)
(***************************************************************************)
EXTENDS Naturals, FiniteSets, Sequences

CONSTANTS
  Run,             \* invocations of run_once (owner_id, run_id)
  NoRun,           \* no owner
  Story,           \* news items, up to identity (fingerprint, url and title key)
  Target,          \* hashes of a Telegram destination (_target_snapshot)
  NoTarget,        \* the empty target_snapshot of an unprepared delivery
  Digest,          \* digests build_digest may return: one set of stories per chunk
  MaxDelivery,     \* bound: rows of the deliveries table
  MaxChunk,        \* bound: chunks of one delivery (MESSAGE limit of the digest)
  MaxDate,         \* bound: delivery dates
  MaxAttempts,     \* retry_policy.max_attempts, frozen in every delivery
  MaxResolutions   \* bound: audited retries of one chunk

ASSUME StoreAssumption ==
  /\ NoRun \notin Run
  /\ NoTarget \notin Target
  /\ MaxDelivery \in Nat \ {0}
  /\ MaxChunk \in Nat \ {0}
  /\ MaxDate \in Nat \ {0}
  /\ MaxAttempts \in Nat \ {0}
  /\ MaxResolutions \in Nat
  /\ Digest \subseteq Seq(SUBSET Story)
  /\ \A g \in Digest : Len(g) \in 1..MaxChunk

Delivery == 1..MaxDelivery
Chunk == 1..MaxChunk
Date == 1..MaxDate

VARIABLES
  lease,      \* the run_leases row of scope "delivery"; live: expires_at is in the future
  delivery,   \* the deliveries table
  chunk,      \* the outbox_chunks table, with each chunk's items and open attempt
  history     \* the stories article_history records as sent

storeVars == <<lease, delivery, chunk, history>>

(***************************************************************************)
(* Rows.                                                                   *)
(***************************************************************************)
Completed == {"completed", "completed_empty"}
Terminal == Completed \cup {"failed_terminal"}

DeliveryState ==
  Terminal \cup {"absent", "collecting", "retry_wait", "prepared",
                 "prepared_empty", "sending", "needs_attention"}

ChunkState == {"none", "pending", "in_flight", "sent", "retry_wait",
               "failed_terminal", "ambiguous"}

DeliveryRow ==
  [state : DeliveryState,
   date : Date,
   gen : Nat,                          \* generation
   target : Target \cup {NoTarget},    \* target_snapshot
   due : BOOLEAN,                      \* no recorded next_attempt_at is in the future
   spent : BOOLEAN,                    \* max_elapsed_seconds since the first attempt are over
   mismatch : BOOLEAN,                 \* terminal_error is "target snapshot mismatch..."
   collections : 0..MaxAttempts]       \* failed collection attempts, counted up to MaxAttempts

ChunkRow ==
  [state : ChunkState,
   items : SUBSET Story,               \* delivery_items with this chunk_index
   attempts : 0..MaxAttempts,          \* attempt_count, counted up to MaxAttempts
   run : Run \cup {NoRun},             \* run_id of the open delivery_attempts row
   safe : BOOLEAN,                     \* error_class is allowlisted for a terminal retry
   oneShot : BOOLEAN,                  \* the terminal retry has been used
   retries : 0..MaxResolutions]        \* "retry" rows in delivery_resolutions

NoDelivery == [state |-> "absent", date |-> 1, gen |-> 0, target |-> NoTarget,
               due |-> TRUE, spent |-> FALSE, mismatch |-> FALSE, collections |-> 0]

NoChunk == [state |-> "none", items |-> {}, attempts |-> 0, run |-> NoRun,
            safe |-> FALSE, oneShot |-> FALSE, retries |-> 0]

NoLease == [owner |-> NoRun, live |-> FALSE]

StoreInit ==
  /\ lease = NoLease
  /\ delivery = [d \in Delivery |-> NoDelivery]
  /\ chunk = [d \in Delivery |-> [k \in Chunk |-> NoChunk]]
  /\ history = {}

(***************************************************************************)
(* Queries.                                                                *)
(***************************************************************************)
Exists(d) == delivery[d].state # "absent"

IsActive(d) == delivery[d].state \notin Terminal \cup {"absent"}

ChunksOf(d) == {k \in Chunk : chunk[d][k].state # "none"}

ItemsOf(d) == UNION {chunk[d][k].items : k \in Chunk}

HasState(d, s) == \E k \in Chunk : chunk[d][k].state = s

Attempted(d) == delivery[d].collections > 0 \/ \E k \in Chunk : chunk[d][k].attempts > 0

DueChunks(d) ==
  {k \in Chunk : \/ chunk[d][k].state = "pending"
                 \/ chunk[d][k].state = "retry_wait" /\ delivery[d].due}

CountUp(n) == IF n < MaxAttempts THEN n + 1 ELSE n

\* retry_budget_exhausted, for a count of attempts of delivery d
BudgetExhausted(d, attempts) == attempts >= MaxAttempts \/ delivery[d].spent

(***************************************************************************)
(* Slips: what a plausible mistake would make of a definition below.  No   *)
(* action uses them; PROJECT.json pairs each with the property that        *)
(* notices it when it takes the definition's place.                        *)
(***************************************************************************)
SlipOrderUnchecked(d, k) == TRUE
SlipLastOfOpenOnly(d, k) ==
  \A j \in ChunksOf(d) \ {k} : chunk[d][j].state \notin {"in_flight", "ambiguous"}
SlipPrepareTwice(d) == TRUE
SlipHistoryOfDelivery(d, k) == ItemsOf(d)
SlipAttemptLeftOpen(d, k) ==
  IF chunk[d][k].state = "in_flight" THEN [chunk[d][k] EXCEPT !.state = "ambiguous"] ELSE chunk[d][k]
SlipReplayStranded(d, k) ==
  IF chunk[d][k].state = "in_flight"
  THEN [chunk[d][k] EXCEPT !.state = "pending", !.run = NoRun] ELSE chunk[d][k]
SlipResumeStranded(d) ==
  IF HasState(d, "in_flight") THEN [delivery[d] EXCEPT !.state = "sending"] ELSE delivery[d]

(***************************************************************************)
(* Guards and values the methods share.                                    *)
(***************************************************************************)
\* _assert_lease_owner and _assert_lease_owner_in_transaction
HoldsLease(r) == lease.owner = r /\ lease.live

EarlierSent(d, k) == \A j \in Chunk : j < k => chunk[d][j].state = "sent"

\* k is the only chunk of d that is not sent
LastUnsent(d, k) == \A j \in ChunksOf(d) \ {k} : chunk[d][j].state = "sent"

\* no delivery_items and no outbox_chunks row exists for d
Unprepared(d) == ChunksOf(d) = {}

\* _record_chunk_history
NewHistory(d, k) == chunk[d][k].items

CompletionState(d) == IF ItemsOf(d) = {} THEN "completed_empty" ELSE "completed"

(***************************************************************************)
(* The lease.                                                              *)
(***************************************************************************)
LeaseFree(r) == ~(lease.live /\ lease.owner # r)

AcquireLease(r) ==
  /\ LeaseFree(r)
  /\ lease' = [owner |-> r, live |-> TRUE]
  /\ UNCHANGED <<delivery, chunk, history>>

ReleaseLease(r) ==
  /\ HoldsLease(r)
  /\ lease' = NoLease
  /\ UNCHANGED <<delivery, chunk, history>>

\* expires_at passes: the row stays until it is recovered or taken over
LeaseExpires ==
  /\ lease.live
  /\ lease' = [lease EXCEPT !.live = FALSE]
  /\ UNCHANGED <<delivery, chunk, history>>

\* The row of chunk k of d after recovery: an open attempt may have reached
\* Telegram, so it becomes ambiguous.
Stranded(d, k) ==
  IF chunk[d][k].state = "in_flight"
  THEN [chunk[d][k] EXCEPT !.state = "ambiguous", !.run = NoRun, !.safe = FALSE]
  ELSE chunk[d][k]

AfterStranded(d) ==
  IF HasState(d, "in_flight") /\ delivery[d].state \notin Terminal
  THEN [delivery[d] EXCEPT !.state = "needs_attention"] ELSE delivery[d]

\* Any writer may recover; while a lease is live it does nothing.
RecoverExpiredLease ==
  /\ ~lease.live
  /\ chunk' = [d \in Delivery |-> [k \in Chunk |-> Stranded(d, k)]]
  /\ delivery' = [d \in Delivery |-> AfterStranded(d)]
  /\ lease' = NoLease
  /\ UNCHANGED history

(***************************************************************************)
(* Deliveries.                                                             *)
(***************************************************************************)
\* UNIQUE(delivery_date, generation), and the checks on a forced predecessor
CanCreate(r, d, date, gen, forced, pred) ==
  /\ HoldsLease(r)
  /\ \A e \in Delivery : Exists(e) <=> e < d          \* d is the next rowid
  /\ \A e \in Delivery : Exists(e) => <<delivery[e].date, delivery[e].gen>> # <<date, gen>>
  /\ forced => /\ Exists(pred)
               /\ delivery[pred].date = date
               /\ delivery[pred].state \in Completed
               /\ gen > delivery[pred].gen

CreateDelivery(r, d, date, gen, forced, pred) ==
  /\ CanCreate(r, d, date, gen, forced, pred)
  /\ delivery' = [delivery EXCEPT ![d] =
                    [NoDelivery EXCEPT !.state = "collecting", !.date = date, !.gen = gen]]
  /\ UNCHANGED <<lease, chunk, history>>

CanReopen(r, d) ==
  HoldsLease(r) /\ delivery[d].state = "retry_wait" /\ delivery[d].due

ReopenForCollection(r, d) ==
  /\ CanReopen(r, d)
  /\ delivery' = [delivery EXCEPT ![d] = [@ EXCEPT !.state = "collecting", !.mismatch = FALSE]]
  /\ UNCHANGED <<lease, chunk, history>>

\* The first attempt restarts the elapsed-time budget: it is measured from
\* the first attempt, and only until there is one from the delivery's start.
RecordCollectionAttempt(r, d) ==
  /\ HoldsLease(r) /\ Exists(d)
  /\ delivery' = [delivery EXCEPT ![d] =
                    [@ EXCEPT !.collections = CountUp(delivery[d].collections),
                              !.spent = delivery[d].spent /\ Attempted(d)]]
  /\ UNCHANGED <<lease, chunk, history>>

CanSetRetry(r, d) == HoldsLease(r) /\ delivery[d].state \in {"collecting", "retry_wait"}

SetCollectionRetry(r, d) ==
  /\ CanSetRetry(r, d)
  /\ delivery' = [delivery EXCEPT ![d] =
                    [@ EXCEPT !.state = "retry_wait", !.due = FALSE, !.mismatch = FALSE]]
  /\ UNCHANGED <<lease, chunk, history>>

CanFail(r, d) ==
  /\ HoldsLease(r) /\ Exists(d)
  /\ delivery[d].state \notin Terminal \cup {"needs_attention"}

FailDelivery(r, d) ==
  /\ CanFail(r, d)
  /\ delivery' = [delivery EXCEPT ![d] =
                    [@ EXCEPT !.state = "failed_terminal", !.mismatch = FALSE]]
  /\ UNCHANGED <<lease, chunk, history>>

\* Freezes the destination (unless it is frozen already), the items and the
\* chunks in one transaction.
CanPrepare(r, d, digest, t) ==
  /\ HoldsLease(r)
  /\ delivery[d].state \in {"collecting", "retry_wait"}
  /\ Unprepared(d)
  /\ \A j, k \in DOMAIN digest : j # k => digest[j] \cap digest[k] = {}
  /\ delivery[d].target \in {NoTarget, t}

PrepareDelivery(r, d, digest, t) ==
  /\ CanPrepare(r, d, digest, t)
  /\ chunk' = [chunk EXCEPT ![d] =
                 [k \in Chunk |->
                    IF k \in DOMAIN digest
                    THEN [NoChunk EXCEPT !.state = "pending", !.items = digest[k]]
                    ELSE @[k]]]
  /\ delivery' = [delivery EXCEPT ![d] =
                    [@ EXCEPT !.state = IF \A k \in DOMAIN digest : digest[k] = {}
                                        THEN "prepared_empty" ELSE "prepared",
                              !.target = t]]
  /\ UNCHANGED <<lease, history>>

\* A method call that finds the frozen destination equal to the current one
\* commits without a change.
CanMarkMismatch(r, d) == HoldsLease(r) /\ Exists(d)

MarkTargetMismatch(r, d, actual) ==
  /\ CanMarkMismatch(r, d)
  /\ delivery' = IF delivery[d].target = actual \/ delivery[d].state \in Terminal
                 THEN delivery
                 ELSE [delivery EXCEPT ![d] =
                         [@ EXCEPT !.state = "needs_attention", !.mismatch = TRUE]]
  /\ UNCHANGED <<lease, chunk, history>>

(***************************************************************************)
(* One send attempt: the intent is durable before the request leaves.      *)
(***************************************************************************)
CanBegin(r, d, k) ==
  /\ HoldsLease(r)
  /\ k \in DueChunks(d)
  /\ EarlierSent(d, k)
  /\ delivery[d].state \notin Terminal \cup {"needs_attention"}

BeginChunkAttempt(r, d, k) ==
  /\ CanBegin(r, d, k)
  /\ chunk' = [chunk EXCEPT ![d][k] =
                 [@ EXCEPT !.state = "in_flight", !.attempts = CountUp(chunk[d][k].attempts),
                           !.run = r, !.safe = FALSE]]
  /\ delivery' = [delivery EXCEPT ![d] =
                    [@ EXCEPT !.state = IF delivery[d].state = "collecting" THEN "collecting" ELSE "sending",
                              !.spent = delivery[d].spent /\ Attempted(d)]]
  /\ UNCHANGED <<lease, history>>

\* finish_chunk: the attempt is open and belongs to the caller
CanFinish(r, d, k) ==
  HoldsLease(r) /\ chunk[d][k].state = "in_flight" /\ chunk[d][k].run = r

AcceptChunk(r, d, k) ==
  /\ CanFinish(r, d, k)
  /\ chunk' = [chunk EXCEPT ![d][k] = [@ EXCEPT !.state = "sent", !.run = NoRun]]
  /\ history' = history \cup NewHistory(d, k)
  /\ delivery' = [delivery EXCEPT ![d] =
                    IF LastUnsent(d, k)
                    THEN [@ EXCEPT !.state = CompletionState(d), !.due = TRUE]
                    ELSE [@ EXCEPT !.state = "sending"]]
  /\ UNCHANGED lease

RejectChunkRetryable(r, d, k) ==
  /\ CanFinish(r, d, k)
  /\ chunk' = [chunk EXCEPT ![d][k] = [@ EXCEPT !.state = "retry_wait", !.run = NoRun]]
  /\ delivery' = [delivery EXCEPT ![d] = [@ EXCEPT !.state = "retry_wait", !.due = FALSE]]
  /\ UNCHANGED <<lease, history>>

RejectChunkTerminal(r, d, k, safe) ==
  /\ CanFinish(r, d, k)
  /\ chunk' = [chunk EXCEPT ![d][k] =
                 [@ EXCEPT !.state = "failed_terminal", !.run = NoRun, !.safe = safe]]
  /\ delivery' = [delivery EXCEPT ![d] =
                    [@ EXCEPT !.state = "failed_terminal", !.mismatch = FALSE]]
  /\ UNCHANGED <<lease, history>>

AmbiguousChunk(r, d, k) ==
  /\ CanFinish(r, d, k)
  /\ chunk' = [chunk EXCEPT ![d][k] = [@ EXCEPT !.state = "ambiguous", !.run = NoRun]]
  /\ delivery' = [delivery EXCEPT ![d] =
                    [@ EXCEPT !.state = "needs_attention", !.mismatch = FALSE]]
  /\ UNCHANGED <<lease, history>>

(***************************************************************************)
(* The operator, under exclusive maintenance authority.                    *)
(***************************************************************************)
ResolveSent(d, k) ==
  /\ chunk[d][k].state = "ambiguous"
  /\ chunk' = [chunk EXCEPT ![d][k] = [@ EXCEPT !.state = "sent"]]
  /\ history' = history \cup NewHistory(d, k)
  /\ delivery' = [delivery EXCEPT ![d] =
                    [@ EXCEPT !.state = IF LastUnsent(d, k) THEN CompletionState(d) ELSE "sending",
                              !.mismatch = FALSE]]
  /\ UNCHANGED lease

\* The retry half of resolve_chunk, for both states it accepts
Requeue(d, k, terminal) ==
  /\ chunk[d][k].retries < MaxResolutions
  /\ chunk' = [chunk EXCEPT ![d][k] =
                 [@ EXCEPT !.state = "pending", !.safe = FALSE,
                           !.oneShot = chunk[d][k].oneShot \/ terminal,
                           !.retries = chunk[d][k].retries + 1]]
  /\ delivery' = [delivery EXCEPT ![d] = [@ EXCEPT !.state = "sending", !.mismatch = FALSE]]
  /\ UNCHANGED <<lease, history>>

ResolveRetry(d, k) == chunk[d][k].state = "ambiguous" /\ Requeue(d, k, FALSE)

ResolveTerminalRetry(d, k) ==
  /\ chunk[d][k].state = "failed_terminal"
  /\ chunk[d][k].safe
  /\ ~HasState(d, "ambiguous") /\ ~HasState(d, "in_flight")
  /\ ~chunk[d][k].oneShot
  /\ Requeue(d, k, TRUE)

ReconcileDelivery(d, current) ==
  /\ delivery[d].state = "needs_attention" /\ delivery[d].mismatch
  /\ delivery[d].target = current
  /\ ChunksOf(d) # {}
  /\ \A k \in ChunksOf(d) : chunk[d][k].state = "pending" /\ chunk[d][k].attempts = 0
  /\ delivery' = [delivery EXCEPT ![d] = [@ EXCEPT !.state = "prepared", !.mismatch = FALSE]]
  /\ UNCHANGED <<lease, chunk, history>>

(***************************************************************************)
(* Time.                                                                   *)
(***************************************************************************)
RetryDue(d) ==
  /\ ~delivery[d].due
  /\ delivery' = [delivery EXCEPT ![d] = [@ EXCEPT !.due = TRUE]]
  /\ UNCHANGED <<lease, chunk, history>>

BudgetElapses(d) ==
  /\ Exists(d) /\ delivery[d].state \notin Completed /\ ~delivery[d].spent
  /\ delivery' = [delivery EXCEPT ![d] = [@ EXCEPT !.spent = TRUE]]
  /\ UNCHANGED <<lease, chunk, history>>

-----------------------------------------------------------------------------
DeliveryStep(r, d) ==
  \/ \E date \in Date, gen \in 0..MaxDelivery, forced \in BOOLEAN, pred \in Delivery :
       CreateDelivery(r, d, date, gen, forced, pred)
  \/ ReopenForCollection(r, d)
  \/ RecordCollectionAttempt(r, d)
  \/ SetCollectionRetry(r, d)
  \/ FailDelivery(r, d)
  \/ \E digest \in Digest, t \in Target : PrepareDelivery(r, d, digest, t)
  \/ \E t \in Target : MarkTargetMismatch(r, d, t)

ChunkStep(r, d, k) ==
  \/ BeginChunkAttempt(r, d, k)
  \/ AcceptChunk(r, d, k)
  \/ RejectChunkRetryable(r, d, k)
  \/ \E safe \in BOOLEAN : RejectChunkTerminal(r, d, k, safe)
  \/ AmbiguousChunk(r, d, k)

OperatorStep(d) ==
  \/ \E k \in Chunk : ResolveSent(d, k) \/ ResolveRetry(d, k) \/ ResolveTerminalRetry(d, k)
  \/ \E t \in Target : ReconcileDelivery(d, t)

StoreNext ==
  \/ \E r \in Run : AcquireLease(r) \/ ReleaseLease(r)
  \/ LeaseExpires
  \/ RecoverExpiredLease
  \/ \E r \in Run, d \in Delivery : DeliveryStep(r, d)
  \/ \E r \in Run, d \in Delivery, k \in Chunk : ChunkStep(r, d, k)
  \/ \E d \in Delivery : OperatorStep(d) \/ RetryDue(d) \/ BudgetElapses(d)

StoreSpec == StoreInit /\ [][StoreNext]_storeVars

-----------------------------------------------------------------------------
(***************************************************************************)
(* Properties.                                                             *)
(***************************************************************************)
LeaseOK ==
  /\ lease \in [owner : Run \cup {NoRun}, live : BOOLEAN]
  /\ lease.live => lease.owner \in Run

\* an attempt is open, under a run, exactly while its chunk is in flight
AttemptOK(c) ==
  /\ c.run \in Run <=> c.state = "in_flight"
  /\ c.safe => c.state = "failed_terminal"
  /\ c.state = "none" => c = NoChunk

\* Types, and the bookkeeping the rows owe each other: outbox_chunks against
\* the open delivery_attempts, and only a delivery that exists has chunks.
StoreTypeOK ==
  /\ LeaseOK
  /\ delivery \in [Delivery -> DeliveryRow]
  /\ chunk \in [Delivery -> [Chunk -> ChunkRow]]
  /\ history \subseteq Story
  /\ \A d \in Delivery : ~Exists(d) => delivery[d] = NoDelivery
  /\ \A d \in Delivery, k \in Chunk :
       AttemptOK(chunk[d][k]) /\ (chunk[d][k].state # "none" => Exists(d))

\* Chunks of a delivery are sent strictly in sequence: once a chunk has been
\* attempted, every earlier chunk is acknowledged, whatever retries,
\* recoveries and operator resolutions came in between (begin_chunk_attempt's
\* ordering check against every other transition of the outbox).
OutboxOrder ==
  \A d \in Delivery, k \in Chunk :
    chunk[d][k].state \notin {"none", "pending"} \/ chunk[d][k].attempts > 0
      => \A j \in 1..(k - 1) : chunk[d][j].state = "sent"

\* A chunk whose acceptance is unknown blocks its delivery: no transition
\* leaves the delivery in a state a run would pick up and send from
\* (needs_attention, or failed_terminal when the delivery had failed already).
AmbiguityBlocks ==
  \A d \in Delivery :
    HasState(d, "ambiguous") => delivery[d].state \in {"needs_attention", "failed_terminal"}

\* A delivery is completed exactly when it has chunks and all of them are
\* acknowledged: neither a recovery, nor a failure, nor an operator's
\* resolution completes it early or misses the completion.
CompletedIffAllSent ==
  \A d \in Delivery :
    delivery[d].state \in Completed
      <=> ChunksOf(d) # {} /\ \A k \in ChunksOf(d) : chunk[d][k].state = "sent"

\* article_history holds exactly the stories of acknowledged chunks: a story
\* is neither forgotten when its chunk is acknowledged nor recorded while its
\* chunk may still be unsent.
HistoryIsAcknowledged ==
  history = {s \in Story : \E d \in Delivery, k \in Chunk :
                           chunk[d][k].state = "sent" /\ s \in chunk[d][k].items}

\* What is frozen stays frozen: once a delivery has chunks, its destination,
\* its chunks and their items never change (prepare_delivery refuses a second
\* preparation even after a reopened collection), and an acknowledged chunk
\* is never sent again.
Frozen ==
  [][\A d \in Delivery :
       ChunksOf(d) # {} =>
         /\ delivery'[d].target = delivery[d].target
         /\ ChunksOf(d)' = ChunksOf(d)
         /\ \A k \in Chunk : /\ chunk'[d][k].items = chunk[d][k].items
                             /\ chunk[d][k].state = "sent" => chunk'[d][k] = chunk[d][k]]_storeVars

\* The end of a lease proves nothing about the request it covered: an open
\* attempt becomes sendable again only when its own run, still holding the
\* lease, reports a definite rejection, and an ambiguous chunk only by an
\* audited resolution.
NoBlindReplay ==
  [][\A d \in Delivery, k \in Chunk :
       LET old == chunk[d][k]
           new == chunk'[d][k]
       IN  /\ old.state = "in_flight" /\ new.state \in {"pending", "retry_wait"}
                => lease.live /\ lease.owner = old.run
           /\ old.state = "ambiguous" /\ new.state # "ambiguous"
                => new.state = "sent" \/ new.retries = old.retries + 1]_storeVars

\* PRODUCTION_READINESS_CLOSURE_IMPLEMENTATION_PLAN.md:1014: a terminal retry
\* is to "atomically transition the explicitly named failed_terminal chunk to
\* retry_wait with its delivery".
TerminalRetryWaits ==
  [][\A d \in Delivery, k \in Chunk :
       chunk[d][k].state = "failed_terminal" /\ chunk'[d][k].state # "failed_terminal"
         => chunk'[d][k].state = "retry_wait" /\ delivery'[d].state = "retry_wait"]_storeVars
=============================================================================
