--------------------------- MODULE StateStoreProofs ---------------------------
(***************************************************************************)
(* Theorems about StateStore, for every number of runs, deliveries and     *)
(* chunks, every set of digests and every retry budget.                    *)
(***************************************************************************)
EXTENDS StateStore, TLAPS

-----------------------------------------------------------------------------
(***************************************************************************)
(* Type correctness.  An action writes the lease, or one delivery row and  *)
(* at most one chunk row; recovery and preparation write several.          *)
(***************************************************************************)
LEMMA NoRowsTyped == NoDelivery \in DeliveryRow /\ NoChunk \in ChunkRow /\ AttemptOK(NoChunk)
BY StoreAssumption DEF NoDelivery, DeliveryRow, DeliveryState, Date,
                       NoChunk, ChunkRow, ChunkState, AttemptOK

LEMMA TypeInit == StoreInit => StoreTypeOK
BY StoreAssumption DEF StoreInit, StoreTypeOK, LeaseOK, AttemptOK, NoLease, NoDelivery, NoChunk, Exists,
   DeliveryRow, ChunkRow, DeliveryState, ChunkState, Terminal, Completed, Delivery, Chunk, Date

\* The tables are typed if they do not change.
LEMMA TypeSameTables ==
  ASSUME StoreTypeOK, LeaseOK', UNCHANGED <<delivery, chunk, history>>
  PROVE  StoreTypeOK'
BY DEF StoreTypeOK, Exists

\* Writing a well-typed row of an existing delivery keeps the types.
LEMMA TypeDeliveryRow ==
  ASSUME StoreTypeOK,
         NEW d \in Delivery, NEW row \in DeliveryRow, row.state # "absent",
         delivery' = [delivery EXCEPT ![d] = row],
         UNCHANGED <<lease, chunk, history>>
  PROVE  StoreTypeOK'
BY DEF StoreTypeOK, LeaseOK, Exists

\* The same, with a chunk of the delivery and, possibly, the history.
LEMMA TypeChunkRow ==
  ASSUME StoreTypeOK,
         NEW d \in Delivery, NEW row \in DeliveryRow, row.state # "absent",
         NEW k \in Chunk, NEW c \in ChunkRow, AttemptOK(c),
         delivery' = [delivery EXCEPT ![d] = row],
         chunk' = [chunk EXCEPT ![d][k] = c],
         history' \subseteq Story,
         UNCHANGED lease
  PROVE  StoreTypeOK'
BY DEF StoreTypeOK, LeaseOK, Exists

LEMMA TypeLease ==
  ASSUME StoreTypeOK, NEW r \in Run,
         AcquireLease(r) \/ ReleaseLease(r) \/ LeaseExpires
  PROVE  StoreTypeOK'
<1>1. LeaseOK'
  <2>1. CASE AcquireLease(r)
    BY <2>1 DEF AcquireLease, LeaseOK
  <2>2. CASE ReleaseLease(r)
    BY <2>2 DEF ReleaseLease, NoLease, LeaseOK
  <2>3. CASE LeaseExpires
    BY <2>3 DEF StoreTypeOK, LeaseExpires, LeaseOK
  <2> QED BY <2>1, <2>2, <2>3
<1>2. UNCHANGED <<delivery, chunk, history>>
  BY DEF AcquireLease, ReleaseLease, LeaseExpires
<1> QED BY <1>1, <1>2, TypeSameTables

LEMMA TypeCreate ==
  ASSUME StoreTypeOK, NEW r \in Run, NEW d \in Delivery,
         NEW date \in Date, NEW gen \in 0..MaxDelivery, NEW forced \in BOOLEAN, NEW pred \in Delivery,
         CreateDelivery(r, d, date, gen, forced, pred)
  PROVE  StoreTypeOK'
<1> DEFINE row == [NoDelivery EXCEPT !.state = "collecting", !.date = date, !.gen = gen]
<1>1. row \in DeliveryRow /\ row.state # "absent"
  <2>1. NoDelivery \in DeliveryRow
    BY NoRowsTyped
  <2>2. gen \in Nat
    BY StoreAssumption DEF Delivery
  <2>3. QED BY <2>1, <2>2 DEF DeliveryRow, DeliveryState
<1>2. delivery' = [delivery EXCEPT ![d] = row] /\ UNCHANGED <<lease, chunk, history>>
  BY DEF CreateDelivery
<1> HIDE DEF row
<1> QED BY <1>1, <1>2, TypeDeliveryRow

LEMMA RowTyped ==
  ASSUME StoreTypeOK, NEW d \in Delivery
  PROVE  /\ delivery[d] \in DeliveryRow
         /\ delivery[d].state = "absent" => delivery[d] = NoDelivery
BY DEF StoreTypeOK, Exists

\* The actions of a run that edit one row of an existing delivery.
LEMMA TypeDelivery ==
  ASSUME StoreTypeOK, NEW r \in Run, NEW d \in Delivery,
         \/ ReopenForCollection(r, d)
         \/ RecordCollectionAttempt(r, d)
         \/ SetCollectionRetry(r, d)
         \/ FailDelivery(r, d)
  PROVE  StoreTypeOK'
<1>1. delivery[d] \in DeliveryRow /\ (delivery[d].state = "absent" => delivery[d] = NoDelivery)
  BY RowTyped
<1>2. CASE ReopenForCollection(r, d)
  <2> DEFINE row == [delivery[d] EXCEPT !.state = "collecting", !.mismatch = FALSE]
  <2>1. row \in DeliveryRow /\ row.state # "absent"
    BY <1>1 DEF DeliveryRow, DeliveryState
  <2>2. delivery' = [delivery EXCEPT ![d] = row] /\ UNCHANGED <<lease, chunk, history>>
    BY <1>2 DEF ReopenForCollection
  <2> HIDE DEF row
  <2> QED BY <2>1, <2>2, TypeDeliveryRow
<1>3. CASE RecordCollectionAttempt(r, d)
  <2> DEFINE row == [delivery[d] EXCEPT !.collections = CountUp(delivery[d].collections),
                                        !.spent = delivery[d].spent /\ Attempted(d)]
  <2>1. row \in DeliveryRow /\ row.state # "absent"
    <3>1. CountUp(delivery[d].collections) \in 0..MaxAttempts
      BY <1>1, StoreAssumption DEF DeliveryRow, CountUp
    <3>2. (delivery[d].spent /\ Attempted(d)) \in BOOLEAN
      OBVIOUS
    <3>3. delivery[d].state # "absent"
      BY <1>3 DEF RecordCollectionAttempt, Exists
    <3> QED BY <1>1, <3>1, <3>2, <3>3 DEF DeliveryRow
  <2>2. delivery' = [delivery EXCEPT ![d] = row] /\ UNCHANGED <<lease, chunk, history>>
    BY <1>3 DEF RecordCollectionAttempt
  <2> HIDE DEF row
  <2> QED BY <2>1, <2>2, TypeDeliveryRow
<1>4. CASE SetCollectionRetry(r, d)
  <2> DEFINE row == [delivery[d] EXCEPT !.state = "retry_wait", !.due = FALSE, !.mismatch = FALSE]
  <2>1. row \in DeliveryRow /\ row.state # "absent"
    BY <1>1, <1>4 DEF DeliveryRow, DeliveryState
  <2>2. delivery' = [delivery EXCEPT ![d] = row] /\ UNCHANGED <<lease, chunk, history>>
    BY <1>4 DEF SetCollectionRetry
  <2> HIDE DEF row
  <2> QED BY <2>1, <2>2, TypeDeliveryRow
<1>5. CASE FailDelivery(r, d)
  <2> DEFINE row == [delivery[d] EXCEPT !.state = "failed_terminal", !.mismatch = FALSE]
  <2>1. row \in DeliveryRow /\ row.state # "absent"
    BY <1>1, <1>5 DEF DeliveryRow, DeliveryState, Terminal
  <2>2. delivery' = [delivery EXCEPT ![d] = row] /\ UNCHANGED <<lease, chunk, history>>
    BY <1>5 DEF FailDelivery
  <2> HIDE DEF row
  <2> QED BY <2>1, <2>2, TypeDeliveryRow
<1> QED BY <1>2, <1>3, <1>4, <1>5

LEMMA TypeTarget ==
  ASSUME StoreTypeOK, NEW d \in Delivery, NEW t \in Target,
         (\E r \in Run : MarkTargetMismatch(r, d, t)) \/ ReconcileDelivery(d, t)
  PROVE  StoreTypeOK'
<1>1. delivery[d] \in DeliveryRow /\ (delivery[d].state = "absent" => delivery[d] = NoDelivery)
  BY RowTyped
<1>2. CASE \E r \in Run : MarkTargetMismatch(r, d, t)
  <2> DEFINE row == IF delivery[d].target = t \/ delivery[d].state \in Terminal
                    THEN delivery[d]
                    ELSE [delivery[d] EXCEPT !.state = "needs_attention", !.mismatch = TRUE]
  <2>1. row \in DeliveryRow /\ row.state # "absent"
    BY <1>1, <1>2 DEF DeliveryRow, DeliveryState, MarkTargetMismatch, CanMarkMismatch, Exists
  <2>2. delivery' = [delivery EXCEPT ![d] = row] /\ UNCHANGED <<lease, chunk, history>>
    BY <1>2 DEF MarkTargetMismatch, StoreTypeOK
  <2> HIDE DEF row
  <2> QED BY <2>1, <2>2, TypeDeliveryRow
<1>3. CASE ReconcileDelivery(d, t)
  <2> DEFINE row == [delivery[d] EXCEPT !.state = "prepared", !.mismatch = FALSE]
  <2>1. row \in DeliveryRow /\ row.state # "absent"
    BY <1>1, <1>3 DEF DeliveryRow, DeliveryState
  <2>2. delivery' = [delivery EXCEPT ![d] = row] /\ UNCHANGED <<lease, chunk, history>>
    BY <1>3 DEF ReconcileDelivery
  <2> HIDE DEF row
  <2> QED BY <2>1, <2>2, TypeDeliveryRow
<1> QED BY <1>2, <1>3

LEMMA TypeTime ==
  ASSUME StoreTypeOK, NEW d \in Delivery, RetryDue(d) \/ BudgetElapses(d)
  PROVE  StoreTypeOK'
<1>1. delivery[d] \in DeliveryRow /\ (delivery[d].state = "absent" => delivery[d] = NoDelivery)
  BY RowTyped
<1>2. CASE RetryDue(d)
  <2> DEFINE row == [delivery[d] EXCEPT !.due = TRUE]
  <2>1. row \in DeliveryRow /\ row.state # "absent"
    <3>1. NoDelivery.due
      BY DEF NoDelivery
    <3>2. delivery[d].state # "absent"
      BY <1>1, <1>2, <3>1 DEF RetryDue
    <3> QED BY <1>1, <3>2 DEF DeliveryRow
  <2>2. delivery' = [delivery EXCEPT ![d] = row] /\ UNCHANGED <<lease, chunk, history>>
    BY <1>2 DEF RetryDue
  <2> HIDE DEF row
  <2> QED BY <2>1, <2>2, TypeDeliveryRow
<1>3. CASE BudgetElapses(d)
  <2> DEFINE row == [delivery[d] EXCEPT !.spent = TRUE]
  <2>1. row \in DeliveryRow /\ row.state # "absent"
    BY <1>1, <1>3 DEF DeliveryRow, DeliveryState, BudgetElapses, Exists
  <2>2. delivery' = [delivery EXCEPT ![d] = row] /\ UNCHANGED <<lease, chunk, history>>
    BY <1>3 DEF BudgetElapses
  <2> HIDE DEF row
  <2> QED BY <2>1, <2>2, TypeDeliveryRow
<1> QED BY <1>2, <1>3

LEMMA TypePrepare ==
  ASSUME StoreTypeOK, NEW r \in Run, NEW d \in Delivery, NEW digest \in Digest, NEW t \in Target,
         PrepareDelivery(r, d, digest, t)
  PROVE  StoreTypeOK'
<1> DEFINE row == [delivery[d] EXCEPT !.state = IF \A k \in DOMAIN digest : digest[k] = {}
                                                THEN "prepared_empty" ELSE "prepared",
                                      !.target = t]
           c(k) == [NoChunk EXCEPT !.state = "pending", !.items = digest[k]]
           cs == [k \in Chunk |-> IF k \in DOMAIN digest THEN c(k) ELSE chunk[d][k]]
<1>1. row \in DeliveryRow /\ row.state # "absent"
  BY ZenonT(60) DEF StoreTypeOK, DeliveryRow, DeliveryState
<1>2. ASSUME NEW k \in DOMAIN digest
      PROVE  c(k) \in ChunkRow /\ AttemptOK(c(k)) /\ c(k).state # "none"
  <2>1. digest[k] \in SUBSET Story
    BY StoreAssumption
  <2> QED BY <2>1, NoRowsTyped, StoreAssumption DEF ChunkRow, ChunkState, AttemptOK, NoChunk
<1>3. /\ delivery' = [delivery EXCEPT ![d] = row]
      /\ chunk' = [chunk EXCEPT ![d] = cs]
      /\ UNCHANGED <<lease, history>>
  BY DEF PrepareDelivery
<1> HIDE DEF row, c
<1>4. \A k \in Chunk : cs[k] \in ChunkRow /\ AttemptOK(cs[k])
  BY <1>2 DEF StoreTypeOK
<1>5. cs \in [Chunk -> ChunkRow]
  BY <1>4
<1> HIDE DEF cs
<1> QED BY <1>1, <1>3, <1>4, <1>5 DEF StoreTypeOK, LeaseOK, Exists

\* The actions that edit one chunk and its delivery.
LEMMA TypeChunk ==
  ASSUME StoreTypeOK, NEW r \in Run, NEW d \in Delivery, NEW k \in Chunk, NEW safe \in BOOLEAN,
         \/ BeginChunkAttempt(r, d, k)
         \/ AcceptChunk(r, d, k)
         \/ RejectChunkRetryable(r, d, k)
         \/ RejectChunkTerminal(r, d, k, safe)
         \/ AmbiguousChunk(r, d, k)
  PROVE  StoreTypeOK'
<1>1. /\ delivery[d] \in DeliveryRow
      /\ chunk[d][k] \in ChunkRow
      /\ AttemptOK(chunk[d][k])
      /\ history \subseteq Story
  BY DEF StoreTypeOK
<1>2. CompletionState(d) \in DeliveryState \ {"absent"}
  BY DEF CompletionState, DeliveryState, Terminal, Completed
<1>3. NewHistory(d, k) \subseteq Story
  BY <1>1 DEF NewHistory, ChunkRow
<1>4. r # NoRun /\ NoRun \notin Run
  BY StoreAssumption
<1> USE DEF DeliveryRow, ChunkRow
<1>5. CASE BeginChunkAttempt(r, d, k)
  <2> DEFINE row == [delivery[d] EXCEPT !.state = IF delivery[d].state = "collecting"
                                                  THEN "collecting" ELSE "sending",
                                        !.spent = delivery[d].spent /\ Attempted(d)]
             c == [chunk[d][k] EXCEPT !.state = "in_flight", !.attempts = CountUp(chunk[d][k].attempts),
                                      !.run = r, !.safe = FALSE]
  <2>4. (delivery[d].spent /\ Attempted(d)) \in BOOLEAN
    OBVIOUS
  <2>5. CountUp(chunk[d][k].attempts) \in 0..MaxAttempts
    BY <1>1, StoreAssumption DEF CountUp
  <2>1. row \in DeliveryRow /\ row.state # "absent"
    BY <1>1, <2>4 DEF DeliveryState
  <2>2. c \in ChunkRow /\ AttemptOK(c)
    BY <1>1, <1>4, <2>5 DEF ChunkState, AttemptOK
  <2>3. /\ delivery' = [delivery EXCEPT ![d] = row]
        /\ chunk' = [chunk EXCEPT ![d][k] = c]
        /\ history' \subseteq Story
        /\ UNCHANGED lease
    BY <1>1, <1>3, <1>5 DEF BeginChunkAttempt
  <2> HIDE DEF row, c
  <2> QED BY <2>1, <2>2, <2>3, TypeChunkRow
<1>6. CASE AcceptChunk(r, d, k)
  <2> DEFINE row == IF LastUnsent(d, k)
                    THEN [delivery[d] EXCEPT !.state = CompletionState(d), !.due = TRUE]
                    ELSE [delivery[d] EXCEPT !.state = "sending"]
             c == [chunk[d][k] EXCEPT !.state = "sent", !.run = NoRun]
  <2>1. row \in DeliveryRow /\ row.state # "absent"
    BY <1>1, <1>2 DEF DeliveryState
  <2>2. c \in ChunkRow /\ AttemptOK(c)
    BY <1>1, <1>4, <1>6 DEF ChunkState, AttemptOK, AcceptChunk, CanFinish
  <2>3. /\ delivery' = [delivery EXCEPT ![d] = row]
        /\ chunk' = [chunk EXCEPT ![d][k] = c]
        /\ history' \subseteq Story
        /\ UNCHANGED lease
    BY <1>1, <1>3, <1>6 DEF AcceptChunk
  <2> HIDE DEF row, c
  <2> QED BY <2>1, <2>2, <2>3, TypeChunkRow
<1>7. CASE RejectChunkRetryable(r, d, k)
  <2> DEFINE row == [delivery[d] EXCEPT !.state = "retry_wait", !.due = FALSE]
             c == [chunk[d][k] EXCEPT !.state = "retry_wait", !.run = NoRun]
  <2>1. row \in DeliveryRow /\ row.state # "absent"
    BY <1>1 DEF DeliveryState
  <2>2. c \in ChunkRow /\ AttemptOK(c)
    BY <1>1, <1>4, <1>7 DEF ChunkState, AttemptOK, RejectChunkRetryable, CanFinish
  <2>3. /\ delivery' = [delivery EXCEPT ![d] = row]
        /\ chunk' = [chunk EXCEPT ![d][k] = c]
        /\ history' \subseteq Story
        /\ UNCHANGED lease
    BY <1>1, <1>3, <1>7 DEF RejectChunkRetryable
  <2> HIDE DEF row, c
  <2> QED BY <2>1, <2>2, <2>3, TypeChunkRow
<1>8. CASE RejectChunkTerminal(r, d, k, safe)
  <2> DEFINE row == [delivery[d] EXCEPT !.state = "failed_terminal", !.mismatch = FALSE]
             c == [chunk[d][k] EXCEPT !.state = "failed_terminal", !.run = NoRun, !.safe = safe]
  <2>1. row \in DeliveryRow /\ row.state # "absent"
    BY <1>1 DEF DeliveryState, Terminal
  <2>2. c \in ChunkRow /\ AttemptOK(c)
    BY <1>1, <1>4 DEF ChunkState, AttemptOK
  <2>3. /\ delivery' = [delivery EXCEPT ![d] = row]
        /\ chunk' = [chunk EXCEPT ![d][k] = c]
        /\ history' \subseteq Story
        /\ UNCHANGED lease
    BY <1>1, <1>3, <1>8 DEF RejectChunkTerminal
  <2> HIDE DEF row, c
  <2> QED BY <2>1, <2>2, <2>3, TypeChunkRow
<1>9. CASE AmbiguousChunk(r, d, k)
  <2> DEFINE row == [delivery[d] EXCEPT !.state = "needs_attention", !.mismatch = FALSE]
             c == [chunk[d][k] EXCEPT !.state = "ambiguous", !.run = NoRun]
  <2>1. row \in DeliveryRow /\ row.state # "absent"
    BY <1>1 DEF DeliveryState
  <2>2. c \in ChunkRow /\ AttemptOK(c)
    BY <1>1, <1>4, <1>9 DEF ChunkState, AttemptOK, AmbiguousChunk, CanFinish
  <2>3. /\ delivery' = [delivery EXCEPT ![d] = row]
        /\ chunk' = [chunk EXCEPT ![d][k] = c]
        /\ history' \subseteq Story
        /\ UNCHANGED lease
    BY <1>1, <1>3, <1>9 DEF AmbiguousChunk
  <2> HIDE DEF row, c
  <2> QED BY <2>1, <2>2, <2>3, TypeChunkRow
<1> QED BY <1>5, <1>6, <1>7, <1>8, <1>9

LEMMA TypeResolve ==
  ASSUME StoreTypeOK, NEW d \in Delivery, NEW k \in Chunk,
         ResolveSent(d, k) \/ ResolveRetry(d, k) \/ ResolveTerminalRetry(d, k)
  PROVE  StoreTypeOK'
<1>1. /\ delivery[d] \in DeliveryRow
      /\ chunk[d][k] \in ChunkRow
      /\ AttemptOK(chunk[d][k])
      /\ history \subseteq Story
  BY DEF StoreTypeOK
<1>2. CompletionState(d) \in DeliveryState \ {"absent"}
  BY DEF CompletionState, DeliveryState, Terminal, Completed
<1>3. NewHistory(d, k) \subseteq Story
  BY <1>1 DEF NewHistory, ChunkRow
<1>4. NoRun \notin Run
  BY StoreAssumption
<1> USE DEF DeliveryRow, ChunkRow
<1>5. CASE ResolveSent(d, k)
  <2> DEFINE row == [delivery[d] EXCEPT !.state = IF LastUnsent(d, k) THEN CompletionState(d)
                                                                  ELSE "sending",
                                        !.mismatch = FALSE]
             c == [chunk[d][k] EXCEPT !.state = "sent"]
  <2>1. row \in DeliveryRow /\ row.state # "absent"
    BY <1>1, <1>2 DEF DeliveryState
  <2>2. c \in ChunkRow /\ AttemptOK(c)
    BY <1>1, <1>4, <1>5 DEF ChunkState, AttemptOK, ResolveSent
  <2>3. /\ delivery' = [delivery EXCEPT ![d] = row]
        /\ chunk' = [chunk EXCEPT ![d][k] = c]
        /\ history' \subseteq Story
        /\ UNCHANGED lease
    BY <1>1, <1>3, <1>5 DEF ResolveSent
  <2> HIDE DEF row, c
  <2> QED BY <2>1, <2>2, <2>3, TypeChunkRow
<1>6. ASSUME NEW terminal \in BOOLEAN, Requeue(d, k, terminal),
              chunk[d][k].state \in {"ambiguous", "failed_terminal"}
       PROVE  StoreTypeOK'
  <2> DEFINE row == [delivery[d] EXCEPT !.state = "sending", !.mismatch = FALSE]
             c == [chunk[d][k] EXCEPT !.state = "pending", !.safe = FALSE,
                                      !.oneShot = chunk[d][k].oneShot \/ terminal,
                                      !.retries = chunk[d][k].retries + 1]
  <2>1. row \in DeliveryRow /\ row.state # "absent"
    BY <1>1 DEF DeliveryState
  <2>2. chunk[d][k].retries + 1 \in 0..MaxResolutions
    BY <1>1, <1>6, StoreAssumption, SMTT(30) DEF Requeue
  <2>3. (chunk[d][k].oneShot \/ terminal) \in BOOLEAN
    OBVIOUS
  <2>4. c \in ChunkRow /\ AttemptOK(c)
    BY <1>1, <1>4, <1>6, <2>2, <2>3 DEF ChunkState, AttemptOK
  <2>5. /\ delivery' = [delivery EXCEPT ![d] = row]
        /\ chunk' = [chunk EXCEPT ![d][k] = c]
        /\ history' \subseteq Story
        /\ UNCHANGED lease
    BY <1>1, <1>6 DEF Requeue
  <2> HIDE DEF row, c
  <2> QED BY <2>1, <2>4, <2>5, TypeChunkRow
<1>7. CASE ResolveRetry(d, k) \/ ResolveTerminalRetry(d, k)
  BY <1>6, <1>7 DEF ResolveRetry, ResolveTerminalRetry
<1> QED BY <1>5, <1>7

\* Recovery rewrites every chunk in flight and its delivery.
LEMMA TypeRecover ==
  ASSUME StoreTypeOK, RecoverExpiredLease
  PROVE  StoreTypeOK'
<1>1. ASSUME NEW d \in Delivery, NEW k \in Chunk
      PROVE  /\ Stranded(d, k) \in ChunkRow
             /\ AttemptOK(Stranded(d, k))
             /\ Stranded(d, k).state # "none" => chunk[d][k].state # "none"
  <2>1. chunk[d][k] \in ChunkRow /\ AttemptOK(chunk[d][k])
    BY DEF StoreTypeOK
  <2> QED BY <2>1, StoreAssumption DEF AttemptOK, Stranded, ChunkRow, ChunkState
<1>2. ASSUME NEW d \in Delivery
      PROVE  /\ AfterStranded(d) \in DeliveryRow
             /\ AfterStranded(d).state = "absent" <=> delivery[d].state = "absent"
             /\ delivery[d].state = "absent" => AfterStranded(d) = delivery[d]
  <2>1. HasState(d, "in_flight") => delivery[d].state # "absent"
    BY DEF StoreTypeOK, HasState, Exists
  <2> QED BY <2>1, ZenonT(60) DEF StoreTypeOK, AfterStranded, DeliveryRow, DeliveryState
<1>3. /\ chunk' = [d \in Delivery |-> [k \in Chunk |-> Stranded(d, k)]]
      /\ delivery' = [d \in Delivery |-> AfterStranded(d)]
      /\ history' = history
  BY DEF RecoverExpiredLease
<1>4. LeaseOK'
  BY DEF RecoverExpiredLease, NoLease, LeaseOK
<1> QED BY <1>1, <1>2, <1>3, <1>4 DEF StoreTypeOK, Exists

LEMMA TypeStep ==
  ASSUME StoreTypeOK, [StoreNext]_storeVars
  PROVE  StoreTypeOK'
<1>1. CASE \E r \in Run : AcquireLease(r) \/ ReleaseLease(r)
  BY <1>1, TypeLease
<1>2. CASE LeaseExpires
  <2>1. LeaseOK' /\ UNCHANGED <<delivery, chunk, history>>
    BY <1>2 DEF LeaseExpires, LeaseOK, StoreTypeOK
  <2> QED BY <2>1, TypeSameTables
<1>3. CASE RecoverExpiredLease
  BY <1>3, TypeRecover
<1>4. ASSUME NEW r \in Run, NEW d \in Delivery, DeliveryStep(r, d)
      PROVE  StoreTypeOK'
  BY <1>4, TypeCreate, TypeDelivery, TypePrepare, TypeTarget DEF DeliveryStep
<1>5. ASSUME NEW r \in Run, NEW d \in Delivery, NEW k \in Chunk, ChunkStep(r, d, k)
      PROVE  StoreTypeOK'
  <2>1. ASSUME NEW safe \in BOOLEAN, RejectChunkTerminal(r, d, k, safe)
        PROVE  StoreTypeOK'
    BY <2>1, TypeChunk
  <2>2. FALSE \in BOOLEAN
    OBVIOUS
  <2> QED BY <1>5, <2>1, <2>2, TypeChunk DEF ChunkStep
<1>6. ASSUME NEW d \in Delivery, OperatorStep(d) \/ RetryDue(d) \/ BudgetElapses(d)
      PROVE  StoreTypeOK'
  BY <1>6, TypeResolve, TypeTarget, TypeTime DEF OperatorStep
<1>7. CASE UNCHANGED storeVars
  BY <1>7 DEF storeVars, StoreTypeOK, LeaseOK, Exists
<1> QED BY <1>1, <1>2, <1>3, <1>4, <1>5, <1>6, <1>7 DEF StoreNext

\* The rows of the store are well typed, and an attempt is open exactly while
\* its chunk is in flight, in every reachable state.
THEOREM TypeCorrect == StoreSpec => []StoreTypeOK
BY TypeInit, TypeStep, PTL DEF StoreSpec

-----------------------------------------------------------------------------
(***************************************************************************)
(* What a step does to the outbox.  Most actions leave it alone; recovery  *)
(* and preparation rewrite several chunks; every other one moves a single  *)
(* chunk that was attempted or is next in order.                           *)
(***************************************************************************)
QuietStep == UNCHANGED <<chunk, history>>

Prepares ==
  \E r \in Run, d \in Delivery, digest \in Digest, t \in Target : PrepareDelivery(r, d, digest, t)

\* the chunk has been attempted at some time
Touched(c) == c.state \notin {"none", "pending"} \/ c.attempts > 0

\* the open attempt has ended as far as the sender is concerned
Reopened(old, new) == old.state = "in_flight" /\ new.state \in {"pending", "retry_wait"}

MoveOf(d, k, old, new) ==
  /\ chunk' = [chunk EXCEPT ![d][k] = new]
  /\ old.state \notin {"none", "sent"}
  /\ new.state # "none" /\ new.items = old.items
  /\ Touched(old) \/ EarlierSent(d, k)
  /\ history' = IF new.state = "sent" THEN history \cup old.items ELSE history
  /\ Reopened(old, new) => lease.live /\ lease.owner = old.run
  /\ old.state = "ambiguous" /\ new.state # "ambiguous"
       => new.state = "sent" \/ new.retries = old.retries + 1

\* states from which no run sends
Blocked == {"needs_attention", "failed_terminal"}

\* what becomes of the delivery of the chunk
FollowOf(d, k, old, new, row) ==
  /\ delivery' = [delivery EXCEPT ![d] = row]
  /\ row.state \in Completed <=> new.state = "sent" /\ LastUnsent(d, k)
  /\ \/ row.state \in Blocked
     \/ /\ new.state # "ambiguous"
        /\ \/ old.state \in {"in_flight", "ambiguous"}
           \/ delivery[d].state \notin Blocked
           \/ ~HasState(d, "ambiguous")

OneChunkMoves ==
  \E d \in Delivery, k \in Chunk : \E new \in ChunkRow, row \in DeliveryRow :
    MoveOf(d, k, chunk[d][k], new) /\ FollowOf(d, k, chunk[d][k], new, row)

LEMMA RunMovesChunk ==
  ASSUME StoreTypeOK, NEW r \in Run, NEW d \in Delivery, NEW k \in Chunk, ChunkStep(r, d, k)
  PROVE  OneChunkMoves
<1> DEFINE old == chunk[d][k]
<1>1. StoreTypeOK'
  BY TypeStep DEF StoreNext
<1> DEFINE new == chunk'[d][k]
           row == delivery'[d]
<1>2. new \in ChunkRow /\ old \in ChunkRow /\ row \in DeliveryRow /\ delivery[d] \in DeliveryRow
  BY <1>1 DEF StoreTypeOK
<1> SUFFICES MoveOf(d, k, old, new) /\ FollowOf(d, k, old, new, row)
  BY <1>2 DEF OneChunkMoves
<1> USE DEF MoveOf, FollowOf, Touched, Reopened, ChunkRow, DeliveryRow, StoreTypeOK, Blocked, Completed
<1>3. CASE BeginChunkAttempt(r, d, k)
  BY <1>2, <1>3, ZenonT(60) DEF BeginChunkAttempt, CanBegin, DueChunks, Terminal
<1>4. CASE AcceptChunk(r, d, k)
  BY <1>2, <1>4, ZenonT(60) DEF AcceptChunk, CanFinish, NewHistory, CompletionState
<1>5. CASE RejectChunkRetryable(r, d, k)
  BY <1>2, <1>5, ZenonT(60) DEF RejectChunkRetryable, CanFinish, HoldsLease
<1>6. ASSUME NEW safe \in BOOLEAN, RejectChunkTerminal(r, d, k, safe)
      PROVE  MoveOf(d, k, old, new) /\ FollowOf(d, k, old, new, row)
  BY <1>2, <1>6, ZenonT(60) DEF RejectChunkTerminal, CanFinish
<1>7. CASE AmbiguousChunk(r, d, k)
  BY <1>2, <1>7, ZenonT(60) DEF AmbiguousChunk, CanFinish
<1> QED BY <1>3, <1>4, <1>5, <1>6, <1>7 DEF ChunkStep

LEMMA OperatorMovesChunk ==
  ASSUME StoreTypeOK, NEW d \in Delivery, NEW k \in Chunk,
         ResolveSent(d, k) \/ ResolveRetry(d, k) \/ ResolveTerminalRetry(d, k)
  PROVE  OneChunkMoves
<1> DEFINE old == chunk[d][k]
<1>1. StoreTypeOK'
  BY TypeResolve
<1> DEFINE new == chunk'[d][k]
           row == delivery'[d]
<1>2. new \in ChunkRow /\ old \in ChunkRow /\ row \in DeliveryRow /\ delivery[d] \in DeliveryRow
  BY <1>1 DEF StoreTypeOK
<1> SUFFICES MoveOf(d, k, old, new) /\ FollowOf(d, k, old, new, row)
  BY <1>2 DEF OneChunkMoves
<1> USE DEF MoveOf, FollowOf, Touched, Reopened, ChunkRow, DeliveryRow, StoreTypeOK, Blocked, Completed
<1>3. CASE ResolveSent(d, k)
  BY <1>2, <1>3, ZenonT(60) DEF ResolveSent, NewHistory, CompletionState
<1>4. CASE ResolveRetry(d, k)
  BY <1>2, <1>4, ZenonT(60) DEF ResolveRetry, Requeue
<1>5. CASE ResolveTerminalRetry(d, k)
  BY <1>2, <1>5, ZenonT(60) DEF ResolveTerminalRetry, Requeue
<1> QED BY <1>3, <1>4, <1>5

LEMMA OutboxSteps ==
  ASSUME StoreTypeOK, StoreNext
  PROVE  QuietStep \/ RecoverExpiredLease \/ Prepares \/ OneChunkMoves
<1>1. ASSUME NEW r \in Run, AcquireLease(r) \/ ReleaseLease(r)
      PROVE  QuietStep
  BY <1>1 DEF AcquireLease, ReleaseLease, QuietStep
<1>2. LeaseExpires => QuietStep
  BY DEF LeaseExpires, QuietStep
<1>3. ASSUME NEW r \in Run, NEW d \in Delivery, DeliveryStep(r, d)
      PROVE  QuietStep \/ Prepares
  BY <1>3 DEF DeliveryStep, CreateDelivery, ReopenForCollection, RecordCollectionAttempt,
     SetCollectionRetry, FailDelivery, MarkTargetMismatch, QuietStep, Prepares
<1>4. ASSUME NEW r \in Run, NEW d \in Delivery, NEW k \in Chunk, ChunkStep(r, d, k)
      PROVE  OneChunkMoves
  BY <1>4, RunMovesChunk
<1>5. ASSUME NEW d \in Delivery, OperatorStep(d)
      PROVE  QuietStep \/ OneChunkMoves
  BY <1>5, OperatorMovesChunk DEF OperatorStep, ReconcileDelivery, QuietStep
<1>6. ASSUME NEW d \in Delivery, RetryDue(d) \/ BudgetElapses(d)
      PROVE  QuietStep
  BY <1>6 DEF RetryDue, BudgetElapses, QuietStep
<1> QED BY <1>1, <1>2, <1>3, <1>4, <1>5, <1>6 DEF StoreNext

-----------------------------------------------------------------------------
(***************************************************************************)
(* Order.  Acknowledged chunks stay acknowledged, and the only step that   *)
(* touches a chunk for the first time requires the earlier ones sent.      *)
(***************************************************************************)
LEMMA OrderInit == StoreInit => OutboxOrder
BY DEF StoreInit, OutboxOrder, NoChunk

LEMMA OrderStep ==
  ASSUME StoreTypeOK, OutboxOrder, [StoreNext]_storeVars
  PROVE  OutboxOrder'
<1> SUFFICES ASSUME NEW d \in Delivery, NEW k \in Chunk, Touched(chunk'[d][k]), NEW j \in 1..(k - 1)
             PROVE  chunk'[d][j].state = "sent"
  BY DEF OutboxOrder, Touched
<1>1. j \in Chunk /\ j < k
  BY StoreAssumption DEF Chunk
<1>2. Touched(chunk[d][k]) => chunk[d][j].state = "sent"
  BY DEF OutboxOrder, Touched
<1>3. CASE QuietStep \/ UNCHANGED storeVars
  BY <1>2, <1>3 DEF QuietStep, storeVars
<1>4. CASE RecoverExpiredLease
  <2>1. chunk'[d][k] = Stranded(d, k) /\ chunk'[d][j] = Stranded(d, j)
    BY <1>1, <1>4 DEF RecoverExpiredLease
  <2>2. Touched(chunk[d][k])
    BY <2>1 DEF Touched, Stranded
  <2> QED BY <1>2, <2>1, <2>2 DEF Stranded
<1>5. CASE Prepares
  <2>1. PICK r \in Run, e \in Delivery, digest \in Digest, t \in Target : PrepareDelivery(r, e, digest, t)
    BY <1>5 DEF Prepares
  <2>2. CASE d = e
    <3>1. chunk[d][k] = NoChunk
      BY <2>1, <2>2 DEF PrepareDelivery, CanPrepare, Unprepared, ChunksOf, StoreTypeOK, AttemptOK
    <3>2. chunk'[d][k] = IF k \in DOMAIN digest
                         THEN [NoChunk EXCEPT !.state = "pending", !.items = digest[k]]
                         ELSE chunk[d][k]
      BY <2>1, <2>2 DEF PrepareDelivery, StoreTypeOK
    <3> QED BY <3>1, <3>2 DEF Touched, NoChunk
  <2>3. CASE d # e
    BY <1>1, <1>2, <2>1, <2>3 DEF PrepareDelivery, StoreTypeOK
  <2> QED BY <2>2, <2>3
<1>6. CASE OneChunkMoves
  <2>1. PICK e \in Delivery, i \in Chunk, new \in ChunkRow :
                MoveOf(e, i, chunk[e][i], new)
    BY <1>6 DEF OneChunkMoves
  <2>2. chunk[d][j].state = "sent"
    <3>1. CASE <<d, k>> = <<e, i>>
      BY <1>1, <1>2, <2>1, <3>1 DEF MoveOf, EarlierSent
    <3>2. CASE <<d, k>> # <<e, i>>
      BY <1>2, <2>1, <3>2 DEF MoveOf, StoreTypeOK
    <3> QED BY <3>1, <3>2
  <2>3. <<d, j>> # <<e, i>>
    BY <2>1, <2>2 DEF MoveOf
  <2> QED BY <1>1, <2>1, <2>2, <2>3 DEF MoveOf, StoreTypeOK
<1> QED BY <1>3, <1>4, <1>5, <1>6, OutboxSteps

\* In every reachable state the chunks of a delivery have been attempted in
\* sequence: a chunk that was ever attempted has only acknowledged ones before it.
THEOREM SentInOrder == StoreSpec => []OutboxOrder
<1>1. StoreInit => StoreTypeOK /\ OutboxOrder
  BY TypeInit, OrderInit
<1>2. StoreTypeOK /\ OutboxOrder /\ [StoreNext]_storeVars => (StoreTypeOK /\ OutboxOrder)'
  BY TypeStep, OrderStep
<1> QED BY <1>1, <1>2, PTL DEF StoreSpec

-----------------------------------------------------------------------------
(***************************************************************************)
(* Memory: the history follows the acknowledgements, what is frozen stays  *)
(* frozen, and no attempt is replayed blindly.                             *)
(***************************************************************************)
LEMMA HistoryInit == StoreInit => HistoryIsAcknowledged
BY DEF StoreInit, HistoryIsAcknowledged, NoChunk

LEMMA HistoryStep ==
  ASSUME StoreTypeOK, HistoryIsAcknowledged, [StoreNext]_storeVars
  PROVE  HistoryIsAcknowledged'
<1> DEFINE Tells(c, s) == c.state = "sent" /\ s \in c.items
<1>1. ASSUME history' = history,
             \A d \in Delivery, k \in Chunk, s \in Story : Tells(chunk'[d][k], s) <=> Tells(chunk[d][k], s)
      PROVE  HistoryIsAcknowledged'
  BY <1>1 DEF HistoryIsAcknowledged
<1>2. CASE QuietStep \/ UNCHANGED storeVars
  BY <1>2 DEF QuietStep, storeVars, HistoryIsAcknowledged
<1>3. CASE RecoverExpiredLease
  <2>1. \A d \in Delivery, k \in Chunk : chunk[d][k] \in ChunkRow /\ chunk'[d][k] = Stranded(d, k)
    BY <1>3 DEF RecoverExpiredLease, StoreTypeOK
  <2>2. \A d \in Delivery, k \in Chunk, s \in Story : Tells(chunk'[d][k], s) <=> Tells(chunk[d][k], s)
    BY <2>1 DEF Stranded, ChunkRow
  <2> QED BY <1>1, <1>3, <2>2 DEF RecoverExpiredLease
<1>4. CASE Prepares
  <2>1. PICK r \in Run, e \in Delivery, digest \in Digest, t \in Target : PrepareDelivery(r, e, digest, t)
    BY <1>4 DEF Prepares
  <2>2. ASSUME NEW d \in Delivery, NEW k \in Chunk, chunk'[d][k] # chunk[d][k]
        PROVE  chunk[d][k].state = "none" /\ chunk'[d][k].state = "pending"
    <3>1. d = e
      BY <2>1, <2>2 DEF PrepareDelivery, StoreTypeOK
    <3>2. chunk[d][k].state = "none"
      BY <2>1, <3>1 DEF PrepareDelivery, CanPrepare, Unprepared, ChunksOf
    <3>3. chunk'[d][k] = IF k \in DOMAIN digest
                         THEN [NoChunk EXCEPT !.state = "pending", !.items = digest[k]]
                         ELSE chunk[d][k]
      BY <2>1, <3>1 DEF PrepareDelivery, StoreTypeOK
    <3> QED BY <2>2, <3>2, <3>3 DEF NoChunk
  <2>3. \A d \in Delivery, k \in Chunk, s \in Story : Tells(chunk'[d][k], s) <=> Tells(chunk[d][k], s)
    BY <2>2
  <2> QED BY <1>1, <2>1, <2>3 DEF PrepareDelivery
<1>5. CASE OneChunkMoves
  <2>1. PICK e \in Delivery, i \in Chunk, new \in ChunkRow :
                MoveOf(e, i, chunk[e][i], new)
    BY <1>5 DEF OneChunkMoves
  <2>2. chunk'[e][i] = new /\ new.items = chunk[e][i].items /\ chunk[e][i].state # "sent"
    BY <2>1 DEF MoveOf, StoreTypeOK
  <2>3. \A d \in Delivery, k \in Chunk : <<d, k>> # <<e, i>> => chunk'[d][k] = chunk[d][k]
    BY <2>1 DEF MoveOf, StoreTypeOK
  <2>4. CASE new.state = "sent"
    <3>1. history' = history \cup new.items /\ new.items \subseteq Story
      BY <2>1, <2>2, <2>4 DEF MoveOf, ChunkRow
    <3>2. ASSUME NEW s \in Story
          PROVE  (\E d \in Delivery, k \in Chunk : Tells(chunk'[d][k], s))
                   <=> s \in new.items \/ \E d \in Delivery, k \in Chunk : Tells(chunk[d][k], s)
      BY <2>2, <2>3, <2>4
    <3> QED BY <3>1, <3>2 DEF HistoryIsAcknowledged
  <2>5. CASE new.state # "sent"
    <3>1. history' = history
      BY <2>1, <2>5 DEF MoveOf
    <3>2. \A d \in Delivery, k \in Chunk, s \in Story : Tells(chunk'[d][k], s) <=> Tells(chunk[d][k], s)
      BY <2>2, <2>3, <2>5
    <3> QED BY <1>1, <3>1, <3>2
  <2> QED BY <2>4, <2>5
<1> QED BY <1>2, <1>3, <1>4, <1>5, OutboxSteps

\* article_history always holds exactly the stories of acknowledged chunks.
THEOREM HistoryExact == StoreSpec => []HistoryIsAcknowledged
<1>1. StoreInit => StoreTypeOK /\ HistoryIsAcknowledged
  BY TypeInit, HistoryInit
<1>2. StoreTypeOK /\ HistoryIsAcknowledged /\ [StoreNext]_storeVars => (StoreTypeOK /\ HistoryIsAcknowledged)'
  BY TypeStep, HistoryStep
<1> QED BY <1>1, <1>2, PTL DEF StoreSpec

\* A step that rewrites a delivery row and keeps its destination keeps it.
LEMMA TargetKept ==
  ASSUME StoreTypeOK, NEW d \in Delivery, NEW e \in Delivery, NEW row,
         delivery' = [delivery EXCEPT ![e] = row],
         row.target = delivery[e].target
  PROVE  delivery'[d].target = delivery[d].target
BY DEF StoreTypeOK

LEMMA DeliveryStepKeepsTarget ==
  ASSUME StoreTypeOK, NEW r \in Run, NEW d \in Delivery, NEW e \in Delivery,
         \/ ReopenForCollection(r, e)
         \/ RecordCollectionAttempt(r, e)
         \/ SetCollectionRetry(r, e)
         \/ FailDelivery(r, e)
         \/ \E t \in Target : MarkTargetMismatch(r, e, t)
  PROVE  delivery'[d].target = delivery[d].target
<1>1. delivery[e] \in DeliveryRow
  BY DEF StoreTypeOK
<1> USE DEF DeliveryRow
<1>2. CASE ReopenForCollection(r, e)
  BY <1>1, <1>2, TargetKept DEF ReopenForCollection
<1>3. CASE RecordCollectionAttempt(r, e)
  BY <1>1, <1>3, TargetKept DEF RecordCollectionAttempt
<1>4. CASE SetCollectionRetry(r, e)
  BY <1>1, <1>4, TargetKept DEF SetCollectionRetry
<1>5. CASE FailDelivery(r, e)
  BY <1>1, <1>5, TargetKept DEF FailDelivery
<1>6. CASE \E t \in Target : MarkTargetMismatch(r, e, t)
  BY <1>1, <1>6, TargetKept DEF MarkTargetMismatch
<1> QED BY <1>2, <1>3, <1>4, <1>5, <1>6

LEMMA ChunkStepKeepsTarget ==
  ASSUME StoreTypeOK, NEW d \in Delivery, NEW e \in Delivery, NEW k \in Chunk,
         (\E r \in Run : ChunkStep(r, e, k)) \/ ResolveSent(e, k) \/ ResolveRetry(e, k)
           \/ ResolveTerminalRetry(e, k)
  PROVE  delivery'[d].target = delivery[d].target
<1>1. delivery[e] \in DeliveryRow
  BY DEF StoreTypeOK
<1> USE DEF DeliveryRow
<1>2. ASSUME NEW r \in Run, BeginChunkAttempt(r, e, k)
      PROVE  delivery'[d].target = delivery[d].target
  BY <1>1, <1>2, TargetKept DEF BeginChunkAttempt
<1>3. ASSUME NEW r \in Run, AcceptChunk(r, e, k)
      PROVE  delivery'[d].target = delivery[d].target
  BY <1>1, <1>3, TargetKept DEF AcceptChunk
<1>4. ASSUME NEW r \in Run, RejectChunkRetryable(r, e, k)
      PROVE  delivery'[d].target = delivery[d].target
  BY <1>1, <1>4, TargetKept DEF RejectChunkRetryable
<1>5. ASSUME NEW r \in Run, NEW safe \in BOOLEAN, RejectChunkTerminal(r, e, k, safe)
      PROVE  delivery'[d].target = delivery[d].target
  BY <1>1, <1>5, TargetKept DEF RejectChunkTerminal
<1>6. ASSUME NEW r \in Run, AmbiguousChunk(r, e, k)
      PROVE  delivery'[d].target = delivery[d].target
  BY <1>1, <1>6, TargetKept DEF AmbiguousChunk
<1>7. CASE ResolveSent(e, k)
  BY <1>1, <1>7, TargetKept DEF ResolveSent
<1>8. ASSUME NEW terminal \in BOOLEAN, Requeue(e, k, terminal)
      PROVE  delivery'[d].target = delivery[d].target
  BY <1>1, <1>8, TargetKept DEF Requeue
<1>9. CASE ResolveRetry(e, k) \/ ResolveTerminalRetry(e, k)
  BY <1>8, <1>9 DEF ResolveRetry, ResolveTerminalRetry
<1> QED BY <1>2, <1>3, <1>4, <1>5, <1>6, <1>7, <1>9 DEF ChunkStep

\* The target_snapshot is written only when the delivery is created or prepared.
LEMMA TargetSteps ==
  ASSUME StoreTypeOK, StoreNext, NEW d \in Delivery, ChunksOf(d) # {}
  PROVE  delivery'[d].target = delivery[d].target
<1>1. delivery[d] \in DeliveryRow
  BY DEF StoreTypeOK
<1>2. ASSUME NEW r \in Run, AcquireLease(r) \/ ReleaseLease(r)
      PROVE  delivery' = delivery
  BY <1>2 DEF AcquireLease, ReleaseLease
<1>3. LeaseExpires => delivery' = delivery
  BY DEF LeaseExpires
<1>4. CASE RecoverExpiredLease
  BY <1>1, <1>4 DEF RecoverExpiredLease, AfterStranded, DeliveryRow
<1>5. ASSUME NEW r \in Run, NEW e \in Delivery, DeliveryStep(r, e)
      PROVE  delivery'[d].target = delivery[d].target
  <2>1. ASSUME NEW date \in Date, NEW gen \in 0..MaxDelivery, NEW forced \in BOOLEAN, NEW pred \in Delivery,
               CreateDelivery(r, e, date, gen, forced, pred)
        PROVE  delivery'[d] = delivery[d]
    <3>1. ~Exists(e)
      BY <2>1 DEF CreateDelivery, CanCreate, Delivery
    <3>2. d # e
      BY <3>1 DEF ChunksOf, StoreTypeOK
    <3> QED BY <2>1, <3>2 DEF CreateDelivery, StoreTypeOK
  <2>2. ASSUME NEW digest \in Digest, NEW t \in Target, PrepareDelivery(r, e, digest, t)
        PROVE  delivery'[d] = delivery[d]
    <3>1. d # e
      BY <2>2 DEF PrepareDelivery, CanPrepare, Unprepared
    <3> QED BY <2>2, <3>1 DEF PrepareDelivery, StoreTypeOK
  <2> QED BY <1>5, <2>1, <2>2, DeliveryStepKeepsTarget DEF DeliveryStep
<1>6. ASSUME NEW r \in Run, NEW e \in Delivery, NEW k \in Chunk, ChunkStep(r, e, k)
      PROVE  delivery'[d].target = delivery[d].target
  BY <1>6, ChunkStepKeepsTarget
<1>7. ASSUME NEW e \in Delivery, OperatorStep(e) \/ RetryDue(e) \/ BudgetElapses(e)
      PROVE  delivery'[d].target = delivery[d].target
  <2>1. delivery[e] \in DeliveryRow
    BY DEF StoreTypeOK
  <2> USE DEF DeliveryRow
  <2>2. CASE \E t \in Target : ReconcileDelivery(e, t)
    BY <2>1, <2>2, TargetKept DEF ReconcileDelivery
  <2>3. CASE RetryDue(e)
    BY <2>1, <2>3, TargetKept DEF RetryDue
  <2>4. CASE BudgetElapses(e)
    BY <2>1, <2>4, TargetKept DEF BudgetElapses
  <2> QED BY <1>7, <2>2, <2>3, <2>4, ChunkStepKeepsTarget DEF OperatorStep
<1> QED BY <1>2, <1>3, <1>4, <1>5, <1>6, <1>7 DEF StoreNext

LEMMA ChunksKept ==
  ASSUME StoreTypeOK, StoreNext, NEW d \in Delivery, ChunksOf(d) # {}, NEW k \in Chunk
  PROVE  /\ chunk'[d][k].state = "none" <=> chunk[d][k].state = "none"
         /\ chunk'[d][k].items = chunk[d][k].items
         /\ chunk[d][k].state = "sent" => chunk'[d][k] = chunk[d][k]
<1>1. chunk[d][k] \in ChunkRow
  BY DEF StoreTypeOK
<1>2. CASE QuietStep
  BY <1>2 DEF QuietStep
<1>3. CASE RecoverExpiredLease
  BY <1>1, <1>3 DEF RecoverExpiredLease, Stranded, ChunkRow
<1>4. CASE Prepares
  BY <1>4 DEF Prepares, PrepareDelivery, CanPrepare, Unprepared, StoreTypeOK
<1>5. CASE OneChunkMoves
  BY <1>5 DEF OneChunkMoves, MoveOf, StoreTypeOK
<1> QED BY <1>2, <1>3, <1>4, <1>5, OutboxSteps

\* Once a delivery has chunks, its destination and items never change, and an
\* acknowledged chunk never moves again.
THEOREM FrozenForEver == StoreSpec => Frozen
<1>1. StoreTypeOK /\ [StoreNext]_storeVars
        => [\A d \in Delivery :
              ChunksOf(d) # {} =>
                /\ delivery'[d].target = delivery[d].target
                /\ ChunksOf(d)' = ChunksOf(d)
                /\ \A k \in Chunk : /\ chunk'[d][k].items = chunk[d][k].items
                                    /\ chunk[d][k].state = "sent" => chunk'[d][k] = chunk[d][k]]_storeVars
  <2>1. ASSUME StoreTypeOK, StoreNext, NEW d \in Delivery, ChunksOf(d) # {}
        PROVE  /\ delivery'[d].target = delivery[d].target
               /\ ChunksOf(d)' = ChunksOf(d)
               /\ \A k \in Chunk : /\ chunk'[d][k].items = chunk[d][k].items
                                   /\ chunk[d][k].state = "sent" => chunk'[d][k] = chunk[d][k]
    BY <2>1, TargetSteps, ChunksKept DEF ChunksOf
  <2> QED BY <2>1
<1> QED BY <1>1, TypeInit, TypeStep, PTL DEF StoreSpec, Frozen

\* An open attempt becomes sendable again only when its own run, holding the
\* lease, reports a rejection; an ambiguous chunk only by an audited resolution.
THEOREM NeverBlindReplay == StoreSpec => NoBlindReplay
<1>1. ASSUME StoreTypeOK, StoreNext, NEW d \in Delivery, NEW k \in Chunk
      PROVE  /\ Reopened(chunk[d][k], chunk'[d][k]) => lease.live /\ lease.owner = chunk[d][k].run
             /\ chunk[d][k].state = "ambiguous" /\ chunk'[d][k].state # "ambiguous"
                  => chunk'[d][k].state = "sent" \/ chunk'[d][k].retries = chunk[d][k].retries + 1
  <2>1. CASE QuietStep
    BY <2>1 DEF QuietStep, Reopened
  <2>2. CASE RecoverExpiredLease
    <3>1. chunk[d][k] \in ChunkRow /\ chunk'[d][k] = Stranded(d, k)
      BY <1>1, <2>2 DEF RecoverExpiredLease, StoreTypeOK
    <3> QED BY <3>1 DEF Stranded, ChunkRow, Reopened
  <2>3. CASE Prepares
    <3>1. PICK r \in Run, e \in Delivery, digest \in Digest, t \in Target : PrepareDelivery(r, e, digest, t)
      BY <2>3 DEF Prepares
    <3>2. CASE d = e
      BY <1>1, <3>1, <3>2 DEF PrepareDelivery, CanPrepare, Unprepared, ChunksOf, Reopened
    <3>3. CASE d # e
      BY <1>1, <3>1, <3>3 DEF PrepareDelivery, StoreTypeOK, Reopened
    <3> QED BY <3>2, <3>3
  <2>4. CASE OneChunkMoves
    <3>1. PICK e \in Delivery, i \in Chunk, new \in ChunkRow :
                MoveOf(e, i, chunk[e][i], new)
      BY <2>4 DEF OneChunkMoves
    <3>2. CASE <<d, k>> = <<e, i>>
      BY <1>1, <3>1, <3>2 DEF MoveOf, StoreTypeOK
    <3>3. CASE <<d, k>> # <<e, i>>
      BY <1>1, <3>1, <3>3 DEF MoveOf, StoreTypeOK, Reopened
    <3> QED BY <3>2, <3>3
  <2> QED BY <1>1, <2>1, <2>2, <2>3, <2>4, OutboxSteps
<1>2. StoreTypeOK /\ [StoreNext]_storeVars
        => [\A d \in Delivery, k \in Chunk :
              LET old == chunk[d][k]
                  new == chunk'[d][k]
              IN  /\ old.state = "in_flight" /\ new.state \in {"pending", "retry_wait"}
                       => lease.live /\ lease.owner = old.run
                  /\ old.state = "ambiguous" /\ new.state # "ambiguous"
                       => new.state = "sent" \/ new.retries = old.retries + 1]_storeVars
  BY <1>1 DEF Reopened
<1> QED BY <1>2, TypeInit, TypeStep, PTL DEF StoreSpec, NoBlindReplay

-----------------------------------------------------------------------------
(***************************************************************************)
(* Completion and ambiguity: what the state of a delivery says about its   *)
(* chunks.                                                                 *)
(***************************************************************************)
\* Steps that leave the outbox alone.
DeliveryOnly(d) ==
  /\ chunk' = chunk
  /\ delivery'[d].state \in Completed <=> delivery[d].state \in Completed
  /\ delivery[d].state \in Blocked /\ HasState(d, "ambiguous") => delivery'[d].state \in Blocked

LEMMA DeliveryOnlySteps ==
  ASSUME StoreTypeOK, NEW r \in Run, NEW e \in Delivery, NEW d \in Delivery, DeliveryStep(r, e)
  PROVE  Prepares \/ DeliveryOnly(d)
<1>1. delivery[d] \in DeliveryRow /\ delivery[e] \in DeliveryRow
  BY DEF StoreTypeOK
<1> USE DEF DeliveryOnly, DeliveryRow, StoreTypeOK, Blocked, Completed
<1>2. ASSUME NEW date \in Date, NEW gen \in 0..MaxDelivery, NEW forced \in BOOLEAN, NEW pred \in Delivery,
             CreateDelivery(r, e, date, gen, forced, pred)
      PROVE  DeliveryOnly(d)
  <2>1. delivery[e].state = "absent"
    BY <1>2 DEF CreateDelivery, CanCreate, Exists, Delivery
  <2> QED BY <1>1, <1>2, <2>1 DEF CreateDelivery, NoDelivery
<1>3. CASE ReopenForCollection(r, e)
  BY <1>1, <1>3 DEF ReopenForCollection, CanReopen
<1>4. CASE RecordCollectionAttempt(r, e)
  BY <1>1, <1>4 DEF RecordCollectionAttempt
<1>5. CASE SetCollectionRetry(r, e)
  BY <1>1, <1>5 DEF SetCollectionRetry, CanSetRetry
<1>6. CASE FailDelivery(r, e)
  BY <1>1, <1>6 DEF FailDelivery, CanFail, Terminal
<1>7. ASSUME NEW t \in Target, MarkTargetMismatch(r, e, t)
      PROVE  DeliveryOnly(d)
  BY <1>1, <1>7 DEF MarkTargetMismatch, Terminal
<1> QED BY <1>2, <1>3, <1>4, <1>5, <1>6, <1>7 DEF DeliveryStep, Prepares

LEMMA SmallSteps ==
  ASSUME StoreTypeOK, [StoreNext]_storeVars, NEW d \in Delivery
  PROVE  DeliveryOnly(d) \/ RecoverExpiredLease \/ Prepares \/ OneChunkMoves
<1>1. delivery[d] \in DeliveryRow
  BY DEF StoreTypeOK
<1>2. ASSUME UNCHANGED <<delivery, chunk>>
      PROVE  DeliveryOnly(d)
  BY <1>2 DEF DeliveryOnly
<1>3. ASSUME NEW r \in Run, AcquireLease(r) \/ ReleaseLease(r)
      PROVE  DeliveryOnly(d)
  BY <1>2, <1>3 DEF AcquireLease, ReleaseLease
<1>4. CASE LeaseExpires \/ UNCHANGED storeVars
  BY <1>2, <1>4 DEF LeaseExpires, storeVars
<1>5. ASSUME NEW r \in Run, NEW e \in Delivery, NEW k \in Chunk, ChunkStep(r, e, k)
      PROVE  OneChunkMoves
  BY <1>5, RunMovesChunk
<1>6. ASSUME NEW e \in Delivery, NEW t \in Target, ReconcileDelivery(e, t)
      PROVE  DeliveryOnly(d)
  <2>1. ~HasState(e, "ambiguous")
    BY <1>6 DEF ReconcileDelivery, HasState, ChunksOf
  <2>2. delivery[e] \in DeliveryRow
    BY DEF StoreTypeOK
  <2> QED BY <1>1, <1>6, <2>1, <2>2
        DEF ReconcileDelivery, DeliveryOnly, DeliveryRow, StoreTypeOK, Blocked, Completed
<1>7. ASSUME NEW e \in Delivery, OperatorStep(e)
      PROVE  DeliveryOnly(d) \/ OneChunkMoves
  BY <1>6, <1>7, OperatorMovesChunk DEF OperatorStep
<1>8. ASSUME NEW e \in Delivery, RetryDue(e) \/ BudgetElapses(e)
      PROVE  DeliveryOnly(d)
  <2>1. delivery[e] \in DeliveryRow
    BY DEF StoreTypeOK
  <2>2. CASE RetryDue(e)
    BY <1>1, <2>1, <2>2 DEF RetryDue, DeliveryOnly, DeliveryRow, StoreTypeOK
  <2>3. CASE BudgetElapses(e)
    BY <1>1, <2>1, <2>3 DEF BudgetElapses, DeliveryOnly, DeliveryRow, StoreTypeOK
  <2> QED BY <1>8, <2>2, <2>3
<1>9. ASSUME NEW r \in Run, NEW e \in Delivery, DeliveryStep(r, e)
      PROVE  Prepares \/ DeliveryOnly(d)
  BY <1>9, DeliveryOnlySteps
<1> QED BY <1>3, <1>4, <1>5, <1>7, <1>8, <1>9 DEF StoreNext

\* all chunks of d are acknowledged, and there are some
AllSent(d) == ChunksOf(d) # {} /\ \A k \in ChunksOf(d) : chunk[d][k].state = "sent"

LEMMA CompletionInit == StoreInit => CompletedIffAllSent
BY DEF StoreInit, CompletedIffAllSent, NoDelivery, NoChunk, ChunksOf, Completed

LEMMA CompletionStep ==
  ASSUME StoreTypeOK, CompletedIffAllSent, [StoreNext]_storeVars
  PROVE  CompletedIffAllSent'
<1> SUFFICES ASSUME NEW d \in Delivery
             PROVE  delivery'[d].state \in Completed <=> AllSent(d)'
  BY DEF CompletedIffAllSent, AllSent
<1>1. delivery[d].state \in Completed <=> AllSent(d)
  BY DEF CompletedIffAllSent, AllSent
<1>2. delivery[d] \in DeliveryRow /\ \A k \in Chunk : chunk[d][k] \in ChunkRow
  BY DEF StoreTypeOK
<1>3. CASE DeliveryOnly(d)
  BY <1>1, <1>3 DEF DeliveryOnly, AllSent, ChunksOf
<1>4. CASE RecoverExpiredLease
  <2>1. \A k \in Chunk : chunk'[d][k] = Stranded(d, k)
    BY <1>4 DEF RecoverExpiredLease
  <2>2. \A k \in Chunk : /\ chunk'[d][k].state = "none" <=> chunk[d][k].state = "none"
                         /\ chunk'[d][k].state = "sent" <=> chunk[d][k].state = "sent"
    BY <1>2, <2>1 DEF Stranded, ChunkRow
  <2>3. delivery'[d].state \in Completed <=> delivery[d].state \in Completed
    BY <1>2, <1>4 DEF RecoverExpiredLease, AfterStranded, DeliveryRow, Terminal, Completed
  <2> QED BY <1>1, <2>2, <2>3 DEF AllSent, ChunksOf
<1>5. CASE Prepares
  <2>1. PICK r \in Run, e \in Delivery, digest \in Digest, t \in Target : PrepareDelivery(r, e, digest, t)
    BY <1>5 DEF Prepares
  <2>2. CASE d = e
    <3>1. delivery'[d].state \notin Completed
      BY <1>2, <2>1, <2>2 DEF PrepareDelivery, StoreTypeOK, Completed, DeliveryRow
    <3>2. 1 \in DOMAIN digest /\ 1 \in Chunk
      BY StoreAssumption DEF Chunk
    <3>3. chunk'[d][1] = [NoChunk EXCEPT !.state = "pending", !.items = digest[1]]
      BY <2>1, <2>2, <3>2 DEF PrepareDelivery, StoreTypeOK
    <3> QED BY <3>1, <3>2, <3>3 DEF AllSent, ChunksOf, NoChunk
  <2>3. CASE d # e
    BY <1>1, <2>1, <2>3 DEF PrepareDelivery, StoreTypeOK, AllSent, ChunksOf
  <2> QED BY <2>2, <2>3
<1>6. CASE OneChunkMoves
  <2>1. PICK e \in Delivery, i \in Chunk, new \in ChunkRow, row \in DeliveryRow :
                MoveOf(e, i, chunk[e][i], new) /\ FollowOf(e, i, chunk[e][i], new, row)
    BY <1>6 DEF OneChunkMoves
  <2>2. CASE d = e
    <3>1. delivery'[d] = row /\ chunk'[d][i] = new
      BY <2>1, <2>2 DEF MoveOf, FollowOf, StoreTypeOK
    <3>2. \A k \in Chunk \ {i} : chunk'[d][k] = chunk[d][k]
      BY <2>1, <2>2 DEF MoveOf, StoreTypeOK
    <3>3. AllSent(d)' <=> new.state = "sent" /\ LastUnsent(d, i)
      BY <2>1, <3>1, <3>2 DEF AllSent, ChunksOf, LastUnsent, MoveOf
    <3> QED BY <2>1, <2>2, <3>1, <3>3 DEF FollowOf
  <2>3. CASE d # e
    BY <1>1, <2>1, <2>3 DEF MoveOf, FollowOf, StoreTypeOK, AllSent, ChunksOf
  <2> QED BY <2>2, <2>3
<1> QED BY <1>3, <1>4, <1>5, <1>6, SmallSteps

\* A delivery is completed exactly when all its chunks are acknowledged.
THEOREM CompletionExact == StoreSpec => []CompletedIffAllSent
<1>1. StoreInit => StoreTypeOK /\ CompletedIffAllSent
  BY TypeInit, CompletionInit
<1>2. StoreTypeOK /\ CompletedIffAllSent /\ [StoreNext]_storeVars => (StoreTypeOK /\ CompletedIffAllSent)'
  BY TypeStep, CompletionStep
<1> QED BY <1>1, <1>2, PTL DEF StoreSpec

\* The inductive invariant behind AmbiguityBlocks.  Order matters: it is
\* because at most one chunk of a delivery is in flight or ambiguous that
\* resolving or finishing it leaves no other one behind.  Completion matters
\* to recovery, which spares completed deliveries.
StoreInv == StoreTypeOK /\ OutboxOrder /\ CompletedIffAllSent /\ AmbiguityBlocks

LEMMA OneOpenChunk ==
  ASSUME StoreTypeOK, OutboxOrder, NEW d \in Delivery, NEW i \in Chunk, NEW j \in Chunk,
         chunk[d][i].state \in {"in_flight", "ambiguous"},
         chunk[d][j].state \in {"in_flight", "ambiguous"}
  PROVE  i = j
<1>1. ASSUME NEW k \in Chunk, NEW l \in Chunk, chunk[d][k].state \in {"in_flight", "ambiguous"}, l < k
      PROVE  chunk[d][l].state = "sent"
  <2>1. l \in 1..(k - 1)
    BY <1>1, StoreAssumption DEF Chunk
  <2> QED BY <1>1, <2>1 DEF OutboxOrder
<1>2. i \in Nat /\ j \in Nat
  BY StoreAssumption DEF Chunk
<1>3. ~(i < j) /\ ~(j < i)
  BY <1>1
<1> QED BY <1>2, <1>3

LEMMA AmbiguityStep ==
  ASSUME StoreInv, [StoreNext]_storeVars
  PROVE  AmbiguityBlocks'
<1> USE DEF StoreInv
<1> SUFFICES ASSUME NEW d \in Delivery, HasState(d, "ambiguous")'
             PROVE  delivery'[d].state \in Blocked
  BY DEF AmbiguityBlocks, Blocked
<1>1. HasState(d, "ambiguous") => delivery[d].state \in Blocked
  BY DEF AmbiguityBlocks, Blocked
<1>2. delivery[d] \in DeliveryRow /\ \A k \in Chunk : chunk[d][k] \in ChunkRow
  BY DEF StoreTypeOK
<1>3. CASE DeliveryOnly(d)
  BY <1>1, <1>3 DEF DeliveryOnly, HasState
<1>4. CASE RecoverExpiredLease
  <2>1. PICK k \in Chunk : Stranded(d, k).state = "ambiguous"
    BY <1>4 DEF RecoverExpiredLease, HasState
  <2>2. chunk[d][k].state \in {"in_flight", "ambiguous"}
    BY <1>2, <2>1 DEF Stranded, ChunkRow
  <2>3. delivery[d].state \notin Completed
    BY <2>2 DEF CompletedIffAllSent, ChunksOf
  <2>4. HasState(d, "in_flight") \/ delivery[d].state \in Blocked
    BY <1>1, <2>2 DEF HasState
  <2> QED BY <1>2, <1>4, <2>3, <2>4
        DEF RecoverExpiredLease, AfterStranded, Blocked, Terminal, DeliveryRow
<1>5. CASE Prepares
  <2>1. PICK r \in Run, e \in Delivery, digest \in Digest, t \in Target : PrepareDelivery(r, e, digest, t)
    BY <1>5 DEF Prepares
  <2>2. PICK k \in Chunk : chunk'[d][k].state = "ambiguous"
    BY DEF HasState
  <2>3. d # e
    <3>1. ASSUME d = e
          PROVE  FALSE
      <4>1. chunk[d][k].state = "none"
        BY <2>1, <3>1 DEF PrepareDelivery, CanPrepare, Unprepared, ChunksOf
      <4>2. chunk'[d][k] = IF k \in DOMAIN digest
                           THEN [NoChunk EXCEPT !.state = "pending", !.items = digest[k]]
                           ELSE chunk[d][k]
        BY <2>1, <3>1 DEF PrepareDelivery, StoreTypeOK
      <4> QED BY <2>2, <4>1, <4>2 DEF NoChunk
    <3> QED BY <3>1
  <2> QED BY <1>1, <2>1, <2>2, <2>3 DEF PrepareDelivery, StoreTypeOK, HasState
<1>6. CASE OneChunkMoves
  <2>1. PICK e \in Delivery, i \in Chunk, new \in ChunkRow, row \in DeliveryRow :
                MoveOf(e, i, chunk[e][i], new) /\ FollowOf(e, i, chunk[e][i], new, row)
    BY <1>6 DEF OneChunkMoves
  <2>2. PICK k \in Chunk : chunk'[d][k].state = "ambiguous"
    BY DEF HasState
  <2>3. CASE d = e
    <3>1. delivery'[d] = row /\ chunk'[d][i] = new
      BY <2>1, <2>3 DEF MoveOf, FollowOf, StoreTypeOK
    <3>2. CASE row.state \in Blocked
      BY <3>1, <3>2
    <3>3. CASE row.state \notin Blocked
      <4>1. k # i
        BY <2>1, <2>2, <3>1, <3>3 DEF FollowOf
      <4>2. chunk[d][k].state = "ambiguous"
        BY <2>1, <2>2, <2>3, <4>1 DEF MoveOf, StoreTypeOK
      <4>3. chunk[d][i].state \notin {"in_flight", "ambiguous"}
        BY <4>1, <4>2, OneOpenChunk
      <4>4. HasState(d, "ambiguous") /\ delivery[d].state \in Blocked
        BY <1>1, <4>2 DEF HasState
      <4> QED BY <2>1, <2>3, <3>3, <4>3, <4>4 DEF FollowOf
    <3> QED BY <3>2, <3>3
  <2>4. CASE d # e
    BY <1>1, <2>1, <2>2, <2>4 DEF MoveOf, FollowOf, StoreTypeOK, HasState
  <2> QED BY <2>3, <2>4
<1> QED BY <1>3, <1>4, <1>5, <1>6, SmallSteps

\* A delivery with a chunk whose acceptance is unknown is never in a state
\* from which a run would send.
THEOREM AmbiguityBlocked == StoreSpec => []AmbiguityBlocks
<1>1. StoreInit => StoreInv
  BY TypeInit, OrderInit, CompletionInit
  DEF StoreInv, StoreInit, AmbiguityBlocks, HasState, NoChunk
<1>2. StoreInv /\ [StoreNext]_storeVars => StoreInv'
  BY TypeStep, OrderStep, CompletionStep, AmbiguityStep DEF StoreInv
<1>3. StoreInv => AmbiguityBlocks
  BY DEF StoreInv
<1> QED BY <1>1, <1>2, <1>3, PTL DEF StoreSpec

=============================================================================
