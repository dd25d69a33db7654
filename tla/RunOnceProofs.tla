--------------------------- MODULE RunOnceProofs ----------------------------
(***************************************************************************)
(* Theorems about run_once, for any number of runs, deliveries, chunks,    *)
(* faults and audited retries, in three parts: it uses the store only      *)
(* through its methods (UsesStoreOnly), so that every theorem about        *)
(* StateStore holds of it; what it does to the chat (SendersAreAlone,      *)
(* NoSecondCopy, PromiseKept, OneChatPerDelivery); and what it plans       *)
(* (GenerationsStack, DoubtIsShown, NoStoryTwice).                         *)
(***************************************************************************)
EXTENDS RunOnce, StateStoreProofs, WellFoundedInduction

-----------------------------------------------------------------------------
(***************************************************************************)
(* The store is used through its methods.  Every step of a run but planning *)
(* repeats the guard of the method it calls.  Planning must find a free    *)
(* number and a new generation, which follows from Numbered; the rest of   *)
(* RunInv types the locals of the runs.                                    *)
(***************************************************************************)
LEMMA LeastNatural ==
  ASSUME NEW S, S \subseteq Nat, S # {}
  PROVE  \E m \in S : \A n \in S : m <= n
<1>1. \E m \in S : \A n \in S : ~ (<<n, m>> \in OpToRel(<, Nat))
  BY NatLessThanWellFounded, WFMin, Zenon
<1>2. \A m, n \in Nat : ~ (<<n, m>> \in OpToRel(<, Nat)) => m <= n
  BY DEF OpToRel
<1> QED BY <1>1, <1>2

LEMMA GreatestNatural ==
  ASSUME NEW b \in Nat, NEW S, S \subseteq 0..b, S # {}
  PROVE  \E m \in S : \A n \in S : n <= m
<1> DEFINE G == {b - n : n \in S}
<1>1. \A n \in S : n \in Nat /\ n <= b /\ b - n \in Nat
  OBVIOUS
<1>2. \A n \in S : b - n \in G
  OBVIOUS
<1>3. \A g \in G : \E n \in S : g = b - n
  OBVIOUS
<1> HIDE DEF G
<1>4. G \subseteq Nat /\ G # {}
  BY <1>1, <1>2, <1>3
<1>5. PICK m \in G : \A n \in G : m <= n
  BY <1>4, LeastNatural
<1>6. PICK d \in S : m = b - d
  BY <1>3
<1>7. \A n \in S : n <= d
  BY <1>1, <1>2, <1>5, <1>6
<1> QED BY <1>7

\* The planning rules choose by Latest and by the greatest number.
LEMMA LatestExists ==
  ASSUME StoreTypeOK, NEW S, S \subseteq Delivery, S # {}, \A d \in S : delivery[d].gen <= MaxDelivery
  PROVE  Latest(S) \in S /\ \A e \in S : delivery[e].gen <= delivery[Latest(S)].gen
<1> DEFINE G == {MaxDelivery - delivery[d].gen : d \in S}
<1>1. \A d \in S : delivery[d].gen \in Nat
  BY DEF StoreTypeOK, DeliveryRow
<1>2. G \subseteq Nat /\ G # {}
  BY <1>1, StoreAssumption
<1> HIDE DEF G
<1>3. PICK m \in G : \A n \in G : m <= n
  BY <1>2, LeastNatural
<1>4. PICK d \in S : m = MaxDelivery - delivery[d].gen
  BY <1>3 DEF G
<1>5. \A e \in S : MaxDelivery - delivery[e].gen \in G
  BY DEF G
<1>6. \A e \in S : delivery[e].gen <= delivery[d].gen
  BY <1>1, <1>3, <1>4, <1>5, StoreAssumption
<1> QED BY <1>4, <1>6, Zenon DEF Latest

-----------------------------------------------------------------------------
\* the places where the run has chosen a delivery, and where it is at a chunk
WithDelivery == {"reopen", "giveup", "collect", "collected", "allFailed", "defer", "select",
                 "prepare", "target", "loop", "attempt", "send", "finish", "except"}
AtChunk == {"attempt", "send", "finish"}

\* the locals of a run have their types where they are used
RunOK(x) ==
  /\ x \in RunState
  /\ x.pc # "idle" => x.tgt \in Target
  /\ x.pc \in WithDelivery => x.act \in Delivery
  /\ x.pc = "prepare" => x.draft \in Digest
  /\ x.pc \in AtChunk => x.queue # {}

RunsOK ==
  /\ run \in [Run -> RunState]
  /\ \A r \in Run : RunOK(run[r])
  /\ today \in Date

\* what a step of a run does to its locals
LEMMA RunWrites ==
  ASSUME RunsOK, NEW r \in Run, NEW x, RunOK(x), run' = [run EXCEPT ![r] = x], UNCHANGED today
  PROVE  RunsOK'
BY DEF RunsOK, RunOK

LEMMA IdleOK == RunOK(Idle)
BY StoreAssumption DEF RunOK, Idle, RunState, Place, WithDelivery, AtChunk, Date, Chunk, Reply

LEMMA GoesOn ==
  ASSUME RunsOK, NEW r \in Run, NEW p \in Place, Goto(r, p), UNCHANGED today,
         ~At(r, "idle"),
         p \in WithDelivery => run[r].act \in Delivery,
         p # "prepare",
         p \in AtChunk => run[r].queue # {}
  PROVE  RunsOK'
<1> DEFINE x == [run[r] EXCEPT !.pc = p]
<1>1. run' = [run EXCEPT ![r] = x]
  BY DEF Goto, RunsOK
<1>2. RunOK(x)
  BY DEF RunsOK, RunOK, RunState, At
<1> HIDE DEF x
<1> QED BY <1>1, <1>2, RunWrites

LEMMA RunEnds ==
  ASSUME RunsOK, NEW r \in Run, End(r), UNCHANGED today
  PROVE  RunsOK'
BY IdleOK, RunWrites DEF End

LEMMA Raises ==
  ASSUME RunsOK, NEW r \in Run, Raise(r), run[r].pc \in StorePlace, UNCHANGED today
  PROVE  RunsOK'
<1>1. End(r) \/ Goto(r, "release") \/ (run[r].pc \in WithDelivery /\ Goto(r, "except"))
  BY DEF Raise, StorePlace, Place, WithDelivery
<1>2. ~At(r, "idle")
  BY DEF At, StorePlace
<1>3. RunOK(run[r])
  BY DEF RunsOK
<1>4. CASE End(r)
  BY <1>4, RunEnds
<1>5. CASE Goto(r, "release")
  BY <1>5, <1>2, GoesOn DEF Place, WithDelivery, AtChunk
<1>6. CASE run[r].pc \in WithDelivery /\ Goto(r, "except")
  BY <1>6, <1>2, <1>3, GoesOn DEF Place, AtChunk, RunOK
<1> QED BY <1>1, <1>4, <1>5, <1>6

LEMMA CurrentIsLeast ==
  ASSUME RunsOK, NEW r \in Run, run[r].pc \in AtChunk
  PROVE  /\ Current(r) \in run[r].queue /\ Current(r) \in Chunk
         /\ \A j \in run[r].queue : Current(r) <= j
<1>1. run[r].queue \subseteq Chunk /\ run[r].queue # {}
  BY DEF RunsOK, RunOK, RunState
<1>2. run[r].queue \subseteq Nat
  BY <1>1, StoreAssumption DEF Chunk
<1>3. \E k \in run[r].queue : \A j \in run[r].queue : k <= j
  BY <1>1, <1>2, LeastNatural
<1>4. Current(r) \in run[r].queue /\ \A j \in run[r].queue : Current(r) <= j
  BY <1>3, Zenon DEF Current
<1> QED BY <1>1, <1>4

LEMMA PlaceFacts ==
  ASSUME RunsOK, NEW r \in Run
  PROVE  /\ run[r] \in RunState
         /\ ~At(r, "idle") => run[r].tgt \in Target
         /\ run[r].pc \in WithDelivery => run[r].act \in Delivery
         /\ At(r, "prepare") => run[r].draft \in Digest
         /\ run[r].pc \in AtChunk => run[r].queue # {}
BY DEF RunsOK, RunOK, At

LEMMA ResumeIsActive ==
  ASSUME StoreTypeOK, NEW date, Actives # {}, \A d \in Delivery : delivery[d].gen <= MaxDelivery
  PROVE  ToResume(date) \in Actives
<1>1. CASE Actives \cap OfDate(date) # {}
  BY <1>1, LatestExists DEF Actives, ToResume
<1>2. CASE Actives \cap OfDate(date) = {}
  <2>1. Actives \subseteq 0..MaxDelivery /\ MaxDelivery \in Nat
    BY StoreAssumption DEF Actives, Delivery
  <2>2. \E d \in Actives : \A e \in Actives : e <= d
    BY <2>1, GreatestNatural
  <2> QED BY <1>2, <2>2, Zenon DEF ToResume
<1> QED BY <1>1, <1>2

\* What planning relies on: the rows of the deliveries are numbered as they are created.
Numbered == \A d \in Delivery : delivery[d].gen < d

RunInv == StoreTypeOK /\ RunsOK /\ Numbered

LEMMA GenerationsBounded ==
  ASSUME RunInv
  PROVE  \A d \in Delivery : delivery[d].gen \in Nat /\ delivery[d].gen <= MaxDelivery
BY StoreAssumption DEF RunInv, Numbered, StoreTypeOK, DeliveryRow, Delivery

LEMMA RunsStay ==
  ASSUME RunsOK, UNCHANGED <<run, today>>
  PROVE  RunsOK'
BY DEF RunsOK, RunOK

\* one step per place of run_once
LEMMA StepKeepsRuns ==
  ASSUME RunInv, NEW r \in Run, Step(r)
  PROVE  RunsOK'
<1> USE DEF envVars, At
<1>1. RunsOK /\ StoreTypeOK
  BY DEF RunInv
<1>2. /\ run[r] \in RunState
      /\ ~At(r, "idle") => run[r].tgt \in Target
      /\ run[r].pc \in WithDelivery => run[r].act \in Delivery
      /\ At(r, "prepare") => run[r].draft \in Digest
      /\ run[r].pc \in AtChunk => run[r].queue # {}
  BY <1>1, PlaceFacts
<1> DEFINE here == run[r].pc
<1>3. ASSUME NEW p \in Place, Goto(r, p), UNCHANGED today, here # "idle", here \notin {"send", "finish"},
             p \in WithDelivery => here \in WithDelivery, p # "prepare", p \notin AtChunk
      PROVE  RunsOK'
  BY <1>1, <1>2, <1>3, GoesOn
<1>4. ASSUME NEW ok, Refused(r, ok), UNCHANGED today, here \in StorePlace
      PROVE  RunsOK'
  BY <1>1, <1>4, Raises DEF Refused
<1>5. CASE Recover(r)
  BY <1>1, <1>5, <1>3 DEF Recover, Place, WithDelivery, AtChunk
<1>6. CASE Acquire(r)
  BY <1>1, <1>6, <1>3, RunEnds DEF Acquire, Place, WithDelivery, AtChunk
<1>7. CASE Plan(r)
  <2>1. CASE Actives # {}
    <3> DEFINE d == ToResume(run[r].date)
               p == IF run[r].force THEN "release" ELSE ResumeAt(d)
    <3>1. d \in Delivery
      BY <2>1, <1>1, GenerationsBounded, ResumeIsActive DEF Actives
    <3>2. p \in Place \ ({"idle", "prepare"} \cup AtChunk)
      BY DEF ResumeAt, Place, AtChunk
    <3>3. run' = [run EXCEPT ![r].act = d, ![r].pc = p] /\ UNCHANGED today
      BY <1>7, <2>1 DEF Plan
    <3> HIDE DEF d, p
    <3> DEFINE x == [run[r] EXCEPT !.act = d, !.pc = p]
    <3>4. RunOK(x)
      BY <1>2, <1>7, <3>1, <3>2 DEF Plan, RunOK, RunState
    <3>5. run' = [run EXCEPT ![r] = x]
      BY <1>1, <3>3 DEF RunsOK
    <3> HIDE DEF x
    <3> QED BY <1>1, <3>3, <3>4, <3>5, RunWrites
  <2>2. CASE Actives = {}
    BY <1>7, <2>2, <1>3 DEF Plan, Place, WithDelivery, AtChunk
  <2> QED BY <2>1, <2>2
<1>8. CASE Reopen(r)
  BY <1>8, <1>3, <1>4 DEF Reopen, Place, StorePlace, WithDelivery, AtChunk
<1>9. CASE Create(r)
  <2>1. ASSUME NEW d \in Delivery, run' = [run EXCEPT ![r].pc = "collect", ![r].act = d], UNCHANGED today
        PROVE  RunsOK'
    <3> DEFINE x == [run[r] EXCEPT !.pc = "collect", !.act = d]
    <3>1. RunOK(x)
      BY <1>2, <1>9, <2>1 DEF Create, RunOK, RunState, Place, WithDelivery, AtChunk
    <3>2. run' = [run EXCEPT ![r] = x]
      BY <1>1, <2>1 DEF RunsOK
    <3> HIDE DEF x
    <3> QED BY <1>1, <2>1, <3>1, <3>2, RunWrites
  <2> QED BY <1>9, <2>1, <1>4 DEF Create, Place, StorePlace
<1>10. CASE GiveUp(r)
  BY <1>10, <1>3, <1>4 DEF GiveUp, Place, StorePlace, WithDelivery, AtChunk
<1>11. CASE Collect(r)
  BY <1>11, <1>3, <1>4 DEF Collect, Place, StorePlace, WithDelivery, AtChunk
<1>12. CASE Collected(r)
  BY <1>12, <1>3, <1>4 DEF Collected, Place, StorePlace, WithDelivery, AtChunk
<1>13. CASE AllFailed(r)
  BY <1>13, <1>3, <1>4 DEF AllFailed, Place, StorePlace, WithDelivery, AtChunk
<1>14. CASE Defer(r)
  BY <1>14, <1>3, <1>4 DEF Defer, Place, StorePlace, WithDelivery, AtChunk
<1>15. CASE Select(r)
  <2>1. PICK digest \in Digest : run' = [run EXCEPT ![r].pc = "prepare", ![r].draft = digest]
    BY <1>15 DEF Select
  <2> DEFINE x == [run[r] EXCEPT !.pc = "prepare", !.draft = digest]
  <2>2. RunOK(x)
    BY <1>2, <1>15 DEF Select, RunOK, RunState, Place, WithDelivery, AtChunk
  <2>3. run' = [run EXCEPT ![r] = x] /\ UNCHANGED today
    BY <1>1, <1>15, <2>1 DEF RunsOK, Select
  <2> HIDE DEF x
  <2> QED BY <1>1, <2>2, <2>3, RunWrites
<1>16. CASE Prepare(r)
  <2>1. ASSUME run' = [run EXCEPT ![r].pc = "target", ![r].draft = <<>>], UNCHANGED today
        PROVE  RunsOK'
    <3> DEFINE x == [run[r] EXCEPT !.pc = "target", !.draft = <<>>]
    <3>1. RunOK(x)
      BY <1>2, <1>16 DEF Prepare, RunOK, RunState, Place, WithDelivery, AtChunk
    <3>2. run' = [run EXCEPT ![r] = x]
      BY <1>1, <2>1 DEF RunsOK
    <3> HIDE DEF x
    <3> QED BY <1>1, <2>1, <3>1, <3>2, RunWrites
  <2> QED BY <1>16, <2>1, <1>4 DEF Prepare, Place, StorePlace
<1>17. CASE CheckTarget(r)
  BY <1>17, <1>3, <1>4 DEF CheckTarget, Place, StorePlace, WithDelivery, AtChunk
<1>18. CASE Loop(r)
  <2>1. ASSUME NEW due \in SUBSET Chunk, UNCHANGED today,
               run' = [run EXCEPT ![r].queue = due, ![r].pc = IF due = {} THEN "release" ELSE "attempt"]
        PROVE  RunsOK'
    <3> DEFINE x == [run[r] EXCEPT !.queue = due, !.pc = IF due = {} THEN "release" ELSE "attempt"]
    <3>1. RunOK(x)
      BY <1>2, <1>18 DEF Loop, RunOK, RunState, Place, WithDelivery, AtChunk
    <3>2. run' = [run EXCEPT ![r] = x]
      BY <1>1, <2>1 DEF RunsOK
    <3> HIDE DEF x
    <3> QED BY <1>1, <2>1, <3>1, <3>2, RunWrites
  <2>2. DueChunks(run[r].act) \in SUBSET Chunk
    BY DEF DueChunks
  <2> HIDE DEF here
  <2>3. CASE Refused(r, HoldsLease(r))
    BY <1>18, <2>3, <1>4 DEF Loop, Place, StorePlace, here
  <2> QED BY <1>18, <2>1, <2>2, <2>3 DEF Loop
<1>19. CASE Attempt(r)
  <2>1. CASE Goto(r, "giveup")
    BY <1>19, <2>1, <1>3 DEF Attempt, Place, WithDelivery, AtChunk
  <2>2. CASE Goto(r, "send")
    BY <1>1, <1>2, <1>19, <2>2, GoesOn DEF Attempt, Place, WithDelivery, AtChunk
  <2> QED BY <1>19, <2>1, <2>2, <1>4 DEF Attempt, Place, StorePlace
<1>20. CASE Send(r)
  <2>1. PICK reply \in Reply : run' = [run EXCEPT ![r].pc = "finish", ![r].reply = reply]
    BY <1>20 DEF Send
  <2> DEFINE x == [run[r] EXCEPT !.pc = "finish", !.reply = reply]
  <2>2. RunOK(x)
    BY <1>2, <1>20 DEF Send, RunOK, RunState, Place, WithDelivery, AtChunk
  <2>3. run' = [run EXCEPT ![r] = x] /\ UNCHANGED today
    BY <1>1, <1>20, <2>1 DEF RunsOK, Send
  <2> HIDE DEF x
  <2> QED BY <1>1, <2>2, <2>3, RunWrites
<1>21. CASE Finish(r)
  <2>1. ASSUME NEW rest \in SUBSET Chunk, UNCHANGED today,
               run' = [run EXCEPT ![r].queue = rest, ![r].reply = "none", ![r].pc = AfterChunk(rest)]
        PROVE  RunsOK'
    <3> DEFINE x == [run[r] EXCEPT !.queue = rest, !.reply = "none", !.pc = AfterChunk(rest)]
    <3>1. RunOK(x)
      BY <1>2, <1>21 DEF Finish, RunOK, RunState, Reply, Place, WithDelivery, AtChunk, AfterChunk
    <3>2. run' = [run EXCEPT ![r] = x]
      BY <1>1, <2>1 DEF RunsOK
    <3> HIDE DEF x
    <3> QED BY <1>1, <2>1, <3>1, <3>2, RunWrites
  <2>2. run[r].queue \ {Current(r)} \in SUBSET Chunk
    BY <1>2 DEF RunState
  <2>3. CASE Goto(r, "release")
    BY <1>1, <1>21, <2>3, GoesOn DEF Finish, Place, WithDelivery, AtChunk
  <2>4. ASSUME NEW ok, Refused(r, ok)
        PROVE  RunsOK'
    BY <1>21, <2>4, <1>4 DEF Finish, Place, StorePlace
  <2> QED BY <1>21, <2>1, <2>2, <2>3, <2>4 DEF Finish
<1>22. CASE Except(r)
  BY <1>22, <1>3, <1>4 DEF Except, Place, StorePlace, WithDelivery, AtChunk
<1>23. CASE Release(r)
  BY <1>1, <1>23, RunEnds DEF Release
<1> QED BY <1>5, <1>6, <1>7, <1>8, <1>9, <1>10, <1>11, <1>12, <1>13, <1>14, <1>15, <1>16,
           <1>17, <1>18, <1>19, <1>20, <1>21, <1>22, <1>23 DEF Step

-----------------------------------------------------------------------------
\* generations change only when a delivery is created
KeepsGenerations == \A e \in Delivery : delivery'[e].gen = delivery[e].gen

LEMMA RowKeepsGenerations ==
  ASSUME StoreTypeOK, NEW d \in Delivery, NEW row, row.gen = delivery[d].gen,
         delivery' = [delivery EXCEPT ![d] = row]
  PROVE  KeepsGenerations
BY DEF KeepsGenerations, StoreTypeOK

LEMMA DeliveryGenerations ==
  ASSUME StoreTypeOK, NEW r \in Run, NEW d \in Delivery,
         \/ ReopenForCollection(r, d) \/ RecordCollectionAttempt(r, d) \/ SetCollectionRetry(r, d)
         \/ FailDelivery(r, d) \/ (\E digest \in Digest, t \in Target : PrepareDelivery(r, d, digest, t))
         \/ (\E t \in Target : MarkTargetMismatch(r, d, t) \/ ReconcileDelivery(d, t))
         \/ RetryDue(d) \/ BudgetElapses(d)
  PROVE  KeepsGenerations
<1>1. delivery[d] \in DeliveryRow
  BY DEF StoreTypeOK
<1> USE <1>1, RowKeepsGenerations DEF DeliveryRow
<1>2. CASE ReopenForCollection(r, d)
  BY <1>2 DEF ReopenForCollection
<1>3. CASE RecordCollectionAttempt(r, d)
  BY <1>3 DEF RecordCollectionAttempt
<1>4. CASE SetCollectionRetry(r, d)
  BY <1>4 DEF SetCollectionRetry
<1>5. CASE FailDelivery(r, d)
  BY <1>5 DEF FailDelivery
<1>6. CASE \E digest \in Digest, t \in Target : PrepareDelivery(r, d, digest, t)
  BY <1>6 DEF PrepareDelivery
<1>7. CASE \E t \in Target : MarkTargetMismatch(r, d, t)
  BY <1>7 DEF MarkTargetMismatch, KeepsGenerations
<1>8. CASE \E t \in Target : ReconcileDelivery(d, t)
  <2> DEFINE row == [delivery[d] EXCEPT !.state = "prepared", !.mismatch = FALSE]
  <2>1. row.gen = delivery[d].gen
    BY <1>1
  <2>2. delivery' = [delivery EXCEPT ![d] = row]
    BY <1>8 DEF ReconcileDelivery
  <2> HIDE DEF row
  <2> QED BY <2>1, <2>2
<1>9. CASE RetryDue(d)
  BY <1>9 DEF RetryDue
<1>10. CASE BudgetElapses(d)
  BY <1>10 DEF BudgetElapses
<1> QED BY <1>2, <1>3, <1>4, <1>5, <1>6, <1>7, <1>8, <1>9, <1>10

LEMMA ChunkGenerations ==
  ASSUME StoreTypeOK, NEW d \in Delivery, NEW k \in Chunk,
         (\E r \in Run : ChunkStep(r, d, k)) \/ ResolveSent(d, k) \/ ResolveRetry(d, k)
  PROVE  KeepsGenerations
<1>1. delivery[d] \in DeliveryRow
  BY DEF StoreTypeOK
<1> USE <1>1, RowKeepsGenerations DEF DeliveryRow
<1>2. ASSUME NEW r \in Run, BeginChunkAttempt(r, d, k)
      PROVE  KeepsGenerations
  BY <1>2 DEF BeginChunkAttempt
<1>3. ASSUME NEW r \in Run, AcceptChunk(r, d, k)
      PROVE  KeepsGenerations
  BY <1>3 DEF AcceptChunk
<1>4. ASSUME NEW r \in Run, RejectChunkRetryable(r, d, k)
      PROVE  KeepsGenerations
  BY <1>4 DEF RejectChunkRetryable
<1>5. ASSUME NEW r \in Run, NEW safe \in BOOLEAN, RejectChunkTerminal(r, d, k, safe)
      PROVE  KeepsGenerations
  BY <1>5 DEF RejectChunkTerminal
<1>6. ASSUME NEW r \in Run, AmbiguousChunk(r, d, k)
      PROVE  KeepsGenerations
  BY <1>6 DEF AmbiguousChunk
<1>7. CASE ResolveSent(d, k)
  BY <1>7 DEF ResolveSent
<1>8. CASE ResolveRetry(d, k)
  BY <1>8 DEF ResolveRetry, Requeue
<1> QED BY <1>2, <1>3, <1>4, <1>5, <1>6, <1>7, <1>8 DEF ChunkStep

LEMMA RecoveryGenerations ==
  ASSUME StoreTypeOK, RecoverExpiredLease
  PROVE  KeepsGenerations
BY DEF RecoverExpiredLease, KeepsGenerations, AfterStranded, StoreTypeOK, DeliveryRow

LEMMA NextGenerationBound ==
  ASSUME RunInv, NEW d \in Delivery, NEW date \in Date, \A e \in Delivery : Exists(e) <=> e < d
  PROVE  NextGeneration(date) \in 0..MaxDelivery /\ NextGeneration(date) < d
<1>1. CASE OfDate(date) = {}
  BY <1>1, StoreAssumption DEF NextGeneration, Delivery
<1>2. CASE OfDate(date) # {}
  <2> DEFINE e == Latest(OfDate(date))
  <2>1. e \in OfDate(date)
    BY <1>2, GenerationsBounded, LatestExists DEF OfDate, RunInv
  <2>2. e \in Delivery /\ e < d
    BY <2>1 DEF OfDate
  <2>3. delivery[e].gen \in Nat /\ delivery[e].gen < e
    BY <2>2, GenerationsBounded DEF RunInv, Numbered
  <2>4. NextGeneration(date) = delivery[e].gen + 1
    BY <1>2 DEF NextGeneration
  <2> HIDE DEF e
  <2> QED BY <2>2, <2>3, <2>4, StoreAssumption DEF Delivery
<1> QED BY <1>1, <1>2

\* what every step must do: use a method of the store, and keep the numbers
UsesStore == [StoreNext]_storeVars /\ Numbered'

LEMMA QuietUse ==
  ASSUME RunInv, UNCHANGED storeVars
  PROVE  UsesStore
BY DEF UsesStore, RunInv, Numbered, storeVars

LEMMA UseByStep ==
  ASSUME RunInv, StoreNext, KeepsGenerations
  PROVE  UsesStore
BY DEF UsesStore, RunInv, Numbered, KeepsGenerations

LEMMA UseByDelivery ==
  ASSUME RunInv, NEW r \in Run, NEW d \in Delivery,
         \/ ReopenForCollection(r, d) \/ RecordCollectionAttempt(r, d) \/ SetCollectionRetry(r, d)
         \/ FailDelivery(r, d) \/ (\E digest \in Digest, t \in Target : PrepareDelivery(r, d, digest, t))
         \/ (\E t \in Target : MarkTargetMismatch(r, d, t))
  PROVE  UsesStore
<1>1. StoreNext
  <2>1. DeliveryStep(r, d)
    BY DEF DeliveryStep
  <2> QED BY <2>1 DEF StoreNext
<1>2. KeepsGenerations
  BY DeliveryGenerations DEF RunInv
<1> QED BY <1>1, <1>2, UseByStep

LEMMA UseByChunk ==
  ASSUME RunInv, NEW r \in Run, NEW d \in Delivery, NEW k \in Chunk, ChunkStep(r, d, k)
  PROVE  UsesStore
<1>1. StoreNext
  BY DEF StoreNext
<1>2. KeepsGenerations
  BY ChunkGenerations DEF RunInv
<1> QED BY <1>1, <1>2, UseByStep

LEMMA StepUsesStore ==
  ASSUME RunInv, NEW r \in Run, Step(r)
  PROVE  UsesStore
<1> USE DEF At
<1> DEFINE d == run[r].act
           k == Current(r)
<1>1. RunsOK
  BY DEF RunInv
<1>2. /\ run[r] \in RunState
      /\ ~At(r, "idle") => run[r].tgt \in Target
      /\ run[r].pc \in WithDelivery => run[r].act \in Delivery
      /\ At(r, "prepare") => run[r].draft \in Digest
      /\ run[r].pc \in AtChunk => run[r].queue # {}
  BY <1>1, PlaceFacts
<1>3. run[r].pc \in WithDelivery => d \in Delivery
  BY <1>2
<1>4. run[r].pc \in AtChunk => k \in Chunk
  BY <1>1, CurrentIsLeast
<1>5. CASE UNCHANGED storeVars
  BY <1>5, QuietUse
<1>6. \A ok : Refused(r, ok) => UNCHANGED storeVars
  BY DEF Refused
<1> HIDE DEF d, k
<1>7. CASE Recover(r)
  <2>1. RecoverExpiredLease => StoreNext /\ KeepsGenerations
    BY RecoveryGenerations DEF StoreNext, RunInv
  <2> QED BY <1>5, <1>7, <2>1, UseByStep DEF Recover, Recovers
<1>8. CASE Acquire(r)
  <2>1. AcquireLease(r) => StoreNext /\ KeepsGenerations
    BY DEF StoreNext, AcquireLease, KeepsGenerations
  <2> QED BY <1>5, <1>8, <2>1, UseByStep DEF Acquire
<1>9. CASE Plan(r) \/ Collect(r) \/ Collected(r) \/ Select(r) \/ Loop(r) \/ Send(r)
  BY <1>5, <1>6, <1>9 DEF Plan, Collect, Collected, Select, Loop, Send
<1>10. CASE Reopen(r)
  BY <1>3, <1>5, <1>6, <1>10, UseByDelivery DEF Reopen, WithDelivery, d
<1>11. CASE Create(r)
  <2>1. ASSUME NEW e \in Delivery, NEW pred \in Delivery,
               CreateDelivery(r, e, run[r].date, NextGeneration(run[r].date), run[r].force, pred)
        PROVE  UsesStore
    <3> DEFINE gen == NextGeneration(run[r].date)
    <3>1. run[r].date \in Date /\ run[r].force \in BOOLEAN
      BY <1>2 DEF RunState
    <3>2. \A f \in Delivery : Exists(f) <=> f < e
      BY <2>1 DEF CreateDelivery, CanCreate
    <3>3. gen \in 0..MaxDelivery /\ gen < e
      BY <3>1, <3>2, NextGenerationBound
    <3> HIDE DEF gen
    <3>4. StoreNext
      <4>1. DeliveryStep(r, e)
        BY <2>1, <3>1, <3>3 DEF DeliveryStep, gen
      <4> QED BY <4>1 DEF StoreNext
    <3>5. Numbered'
      BY <2>1, <3>3 DEF CreateDelivery, RunInv, Numbered, StoreTypeOK, DeliveryRow, NoDelivery, gen
    <3> QED BY <3>4, <3>5 DEF UsesStore
  <2> QED BY <1>5, <1>6, <1>11, <2>1 DEF Create
<1>12. CASE GiveUp(r)
  BY <1>3, <1>5, <1>6, <1>12, UseByDelivery DEF GiveUp, WithDelivery, d
<1>13. CASE AllFailed(r)
  BY <1>3, <1>5, <1>6, <1>13, UseByDelivery DEF AllFailed, WithDelivery, d
<1>14. CASE Defer(r)
  BY <1>3, <1>5, <1>6, <1>14, UseByDelivery DEF Defer, WithDelivery, d
<1>15. CASE Prepare(r)
  <2>1. d \in Delivery /\ run[r].draft \in Digest /\ run[r].tgt \in Target
    BY <1>2, <1>3, <1>15 DEF Prepare, WithDelivery
  <2> QED BY <1>5, <1>6, <1>15, <2>1, UseByDelivery DEF Prepare, d
<1>16. CASE CheckTarget(r)
  <2>1. d \in Delivery /\ run[r].tgt \in Target
    BY <1>2, <1>3, <1>16 DEF CheckTarget, WithDelivery
  <2> QED BY <1>5, <1>6, <1>16, <2>1, UseByDelivery DEF CheckTarget, d
<1>17. CASE Attempt(r)
  <2>1. d \in Delivery /\ k \in Chunk
    BY <1>3, <1>4, <1>17 DEF Attempt, WithDelivery, AtChunk
  <2> QED BY <1>5, <1>6, <1>17, <2>1, UseByChunk DEF Attempt, ChunkStep, d, k
<1>18. CASE Finish(r)
  <2>1. d \in Delivery /\ k \in Chunk
    BY <1>3, <1>4, <1>18 DEF Finish, WithDelivery, AtChunk
  <2> QED BY <1>5, <1>6, <1>18, <2>1, UseByChunk DEF Finish, ChunkStep, d, k
<1>19. CASE Except(r)
  BY <1>3, <1>5, <1>6, <1>19, UseByDelivery DEF Except, WithDelivery, d
<1>20. CASE Release(r)
  <2>1. ReleaseLease(r) => StoreNext /\ KeepsGenerations
    BY DEF StoreNext, ReleaseLease, KeepsGenerations
  <2> QED BY <1>5, <1>20, <2>1, UseByStep DEF Release, Releases
<1> QED BY <1>7, <1>8, <1>9, <1>10, <1>11, <1>12, <1>13, <1>14, <1>15, <1>16, <1>17, <1>18,
           <1>19, <1>20 DEF Step

LEMMA WorldKeepsRuns ==
  ASSUME RunInv, Next, \A r \in Run : ~Step(r)
  PROVE  RunsOK'
<1> USE DEF At, envVars
<1>1. RunsOK
  BY DEF RunInv
<1>2. ASSUME NEW r \in Run, Starts(r)
      PROVE  RunsOK'
  <2>1. PICK t \in Target, force \in MayForce : Start(r, t, force)
    BY <1>2 DEF Starts
  <2> DEFINE x == [Idle EXCEPT !.pc = "recover", !.date = today, !.tgt = t, !.force = force]
  <2>2. RunOK(x)
    BY <1>1, IdleOK, RunAssumption, ZenonT(60) DEF RunsOK, RunOK, RunState, Idle, Place, WithDelivery, AtChunk
  <2>3. run' = [run EXCEPT ![r] = x] /\ UNCHANGED today
    BY <2>1 DEF Start
  <2> HIDE DEF x
  <2> QED BY <1>1, <2>2, <2>3, RunWrites
<1>3. ASSUME NEW r \in Run, StoreFails(r)
      PROVE  RunsOK'
  BY <1>1, <1>3, Raises DEF StoreFails
<1>4. ASSUME NEW r \in Run, Stops(r)
      PROVE  RunsOK'
  BY <1>1, <1>4, GoesOn DEF Stops, Place, WithDelivery, AtChunk
<1>5. ASSUME NEW r \in Run, Crash(r)
      PROVE  RunsOK'
  BY <1>1, <1>5, RunEnds DEF Crash
<1>6. ASSUME NEW d \in Delivery, Operator(d) \/ Clock(d)
      PROVE  RunsOK'
  BY <1>1, <1>6, RunsStay DEF Operator, Clock
<1>7. CASE ExpireLease
  BY <1>1, <1>7, RunsStay DEF ExpireLease
<1>8. CASE DayTurns
  BY <1>1, <1>8, StoreAssumption DEF DayTurns, RunsOK, RunOK, Date
<1> QED BY <1>2, <1>3, <1>4, <1>5, <1>6, <1>7, <1>8 DEF Next

LEMMA WorldUsesStore ==
  ASSUME RunInv, Next, \A r \in Run : ~Step(r)
  PROVE  UsesStore
<1>1. ASSUME NEW r \in Run, Starts(r) \/ StoreFails(r) \/ Stops(r) \/ Crash(r)
      PROVE  UsesStore
  BY <1>1, QuietUse DEF Starts, Start, StoreFails, Stops, Crash
<1>2. CASE DayTurns
  BY <1>2, QuietUse DEF DayTurns
<1>3. CASE ExpireLease
  BY <1>3, UseByStep DEF ExpireLease, LeaseExpires, StoreNext, KeepsGenerations
<1>4. ASSUME NEW d \in Delivery, Operator(d)
      PROVE  UsesStore
  <2>1. OperatorStep(d)
    BY <1>4 DEF Operator, OperatorStep
  <2>2. ASSUME NEW t \in Target, ReconcileDelivery(d, t)
        PROVE  KeepsGenerations
    BY <2>2, RowKeepsGenerations DEF ReconcileDelivery, RunInv, StoreTypeOK, DeliveryRow
  <2>3. KeepsGenerations
    BY <1>4, <2>2, ChunkGenerations DEF Operator, RunInv
  <2> QED BY <2>1, <2>3, UseByStep DEF StoreNext
<1>5. ASSUME NEW d \in Delivery, Clock(d)
      PROVE  UsesStore
  <2>1. RetryDue(d) \/ BudgetElapses(d)
    BY <1>5 DEF Clock
  <2>2. KeepsGenerations
    BY <2>1, RowKeepsGenerations DEF RetryDue, BudgetElapses, RunInv, StoreTypeOK, DeliveryRow
  <2> QED BY <2>1, <2>2, UseByStep DEF StoreNext
<1> QED BY <1>1, <1>2, <1>3, <1>4, <1>5 DEF Next

LEMMA NextStep ==
  ASSUME RunInv, [Next]_vars
  PROVE  RunInv' /\ [StoreNext]_storeVars
<1>1. RunsOK' /\ UsesStore
  <2>1. CASE UNCHANGED vars
    BY <2>1, RunsStay, QuietUse DEF vars, envVars, RunInv
  <2>2. CASE \E r \in Run : Step(r)
    BY <2>2, StepKeepsRuns, StepUsesStore
  <2>3. CASE Next /\ \A r \in Run : ~Step(r)
    BY <2>3, WorldKeepsRuns, WorldUsesStore
  <2> QED BY <2>1, <2>2, <2>3
<1>2. StoreTypeOK'
  BY <1>1, TypeStep DEF UsesStore, RunInv
<1> QED BY <1>1, <1>2 DEF RunInv, UsesStore

LEMMA RunInit == Init => RunInv
<1> SUFFICES ASSUME Init PROVE RunInv
  OBVIOUS
<1>1. StoreTypeOK
  BY TypeInit DEF Init
<1>2. RunsOK
  BY IdleOK, StoreAssumption DEF Init, RunsOK, RunOK, Date
<1>3. Numbered
  BY StoreAssumption DEF Init, StoreInit, Numbered, NoDelivery, Delivery
<1> QED BY <1>1, <1>2, <1>3 DEF RunInv

\* run_once changes the store through its methods only.
THEOREM UsesStoreOnly == Spec => StoreSpec
<1>1. Init => StoreInit
  BY DEF Init
<1> QED BY <1>1, RunInit, NextStep, PTL DEF Spec, StoreSpec

-----------------------------------------------------------------------------
(***************************************************************************)
(* The chat: one sender at a time (OneSender), no second copy of a chunk   *)
(* with an honest operator (ExactlyOnce), the promise of the outbox as a   *)
(* refinement (KeepsPromise), and one chat per delivery (OneDestination).  *)
(*                                                                         *)
(* The invariant behind the first three is SendInv: a run between          *)
(* begin_chunk_attempt and finish_chunk has its chunk open, which by       *)
(* OutboxOrder leaves no other chunk of the delivery to begin; and the     *)
(* copies in the chat are counted against the retries that were granted.   *)
(***************************************************************************)
Sending(r) == run[r].pc \in {"send", "finish"}
OpenStates == {"in_flight", "ambiguous"}
UnsentStates == {"none", "pending", "retry_wait", "failed_terminal"}

\* The chunk a run is sending is under its own attempt, or in doubt.
Owned ==
  \A r \in Run : Sending(r) =>
    /\ chunk[run[r].act][Current(r)].state \in OpenStates
    /\ chunk[run[r].act][Current(r)].state = "in_flight" => chunk[run[r].act][Current(r)].run = r

OneSending == \A q, r \in Run : Sending(q) /\ Sending(r) /\ run[q].act = run[r].act => q = r

\* the copies of a chunk that may be in the chat before another one is sent
Allowance(d, k) == IF HonestOperator THEN 0 ELSE chunk[d][k].retries

\* The chat against the row of one chunk.
Tally(d, k) ==
  /\ landed[d][k] <= Allowance(d, k) + 1
  /\ chunk[d][k].state \in UnsentStates => landed[d][k] <= Allowance(d, k)
  /\ chunk[d][k].state = "sent" /\ HonestOperator => landed[d][k] > 0

\* The chat against what a run knows of the chunk it is sending.
ReplyTally(r) ==
  LET n == landed[run[r].act][Current(r)]
      m == Allowance(run[r].act, Current(r))
  IN  /\ run[r].pc = "send" => n <= m
      /\ run[r].pc = "finish" /\ run[r].reply \in {"retryable", "terminal"} => n <= m
      /\ run[r].pc = "finish" /\ run[r].reply = "accepted" => n > 0

SendInv ==
  /\ Owned
  /\ OneSending
  /\ landed \in [Delivery -> [Chunk -> Nat]]
  /\ \A d \in Delivery, k \in Chunk : Tally(d, k)
  /\ \A r \in Run : Sending(r) => ReplyTally(r)

ChatInv == RunInv /\ OutboxOrder /\ SendInv

LEMMA SameRunSameChunk ==
  ASSUME NEW r \in Run, run'[r].queue = run[r].queue
  PROVE  Current(r)' = Current(r)
BY Zenon DEF Current

LEMMA SenderTyped ==
  ASSUME RunInv, NEW r \in Run, run[r].pc \in AtChunk
  PROVE  run[r].act \in Delivery /\ Current(r) \in Chunk
BY PlaceFacts, CurrentIsLeast DEF RunInv, WithDelivery, AtChunk

LEMMA ChunkTyped ==
  ASSUME RunInv, NEW d \in Delivery, NEW k \in Chunk
  PROVE  chunk[d][k] \in ChunkRow
BY DEF RunInv, StoreTypeOK

\* A sender that goes on as it was, with the row and the copies of its chunk
\* as they were or the row in doubt, keeps its part of the invariant.
LEMMA SenderRests ==
  ASSUME SendInv, NEW q \in Run, Sending(q), run'[q] = run[q],
         LET d == run[q].act
             k == Current(q)
         IN  /\ chunk'[d][k].state = chunk[d][k].state \/ chunk'[d][k].state = "ambiguous"
             /\ chunk'[d][k].state = "in_flight" => chunk'[d][k].run = chunk[d][k].run
             /\ chunk'[d][k].retries = chunk[d][k].retries
             /\ landed'[d][k] = landed[d][k]
  PROVE  /\ Sending(q)' => /\ chunk'[run'[q].act][Current(q)'].state \in OpenStates
                           /\ chunk'[run'[q].act][Current(q)'].state = "in_flight"
                                => chunk'[run'[q].act][Current(q)'].run = q
         /\ ReplyTally(q)'
<1>1. Current(q)' = Current(q)
  BY SameRunSameChunk
<1>2. Allowance(run[q].act, Current(q))' = IF HonestOperator THEN 0 ELSE chunk'[run[q].act][Current(q)].retries
  BY <1>1 DEF Allowance
<1> QED BY <1>1, <1>2 DEF SendInv, Owned, Sending, OpenStates, ReplyTally, Allowance

\* Steps that write neither an attempt nor the chat.
LEMMA ChatRests ==
  ASSUME SendInv, UNCHANGED <<chunk, landed>>,
         \A q \in Run : Sending(q)' => run'[q] = run[q]
  PROVE  SendInv'
<1>1. \A q \in Run : Sending(q)' => Sending(q) /\ run'[q] = run[q] /\ Current(q)' = Current(q)
  BY SameRunSameChunk DEF Sending
<1>2. Owned'
  BY <1>1 DEF SendInv, Owned
<1>3. OneSending'
  BY <1>1 DEF SendInv, OneSending
<1>4. \A d, k : Allowance(d, k)' = Allowance(d, k)
  BY DEF Allowance
<1>5. \A d \in Delivery, k \in Chunk : Tally(d, k)'
  BY <1>4 DEF SendInv, Tally
<1>6. ASSUME NEW q \in Run, Sending(q)'
      PROVE  ReplyTally(q)'
  <2>1. /\ Sending(q) /\ run'[q] = run[q] /\ Current(q)' = Current(q)
        /\ Allowance(run[q].act, Current(q))' = Allowance(run[q].act, Current(q))
    BY <1>1, <1>6 DEF Allowance
  <2> QED BY <2>1 DEF SendInv, ReplyTally
<1>7. landed' \in [Delivery -> [Chunk -> Nat]]
  BY DEF SendInv
<1> QED BY <1>2, <1>3, <1>5, <1>6, <1>7 DEF SendInv

LEMMA RunRests ==
  ASSUME SendInv, RunsOK, NEW r \in Run, NEW x, run' = [run EXCEPT ![r] = x],
         x.pc \notin {"send", "finish"}, UNCHANGED <<chunk, landed>>
  PROVE  SendInv'
<1>1. \A q \in Run : Sending(q)' => run'[q] = run[q]
  BY DEF Sending, RunsOK
<1> QED BY <1>1, ChatRests

LEMMA GoesQuietly ==
  ASSUME SendInv, RunsOK, NEW r \in Run, NEW p, Goto(r, p),
         p \notin {"send", "finish"}, UNCHANGED <<chunk, landed>>
  PROVE  SendInv'
<1>1. run' = [run EXCEPT ![r] = [run[r] EXCEPT !.pc = p]] /\ [run[r] EXCEPT !.pc = p].pc = p
  BY DEF Goto, RunsOK, RunState
<1> QED BY <1>1, RunRests

LEMMA EndsQuietly ==
  ASSUME SendInv, RunsOK, NEW r \in Run, End(r), UNCHANGED <<chunk, landed>>
  PROVE  SendInv'
BY RunRests DEF End, Idle

LEMMA RaisesQuietly ==
  ASSUME SendInv, RunsOK, NEW r \in Run, Raise(r), UNCHANGED <<chunk, landed>>
  PROVE  SendInv'
BY GoesQuietly, EndsQuietly DEF Raise

-----------------------------------------------------------------------------
(***************************************************************************)
(* Steps that rewrite chunks.                                              *)
(***************************************************************************)
\* One chunk moves that no run is sending afterwards.
LEMMA ChunkMoves ==
  ASSUME RunInv, SendInv, NEW d \in Delivery, NEW k \in Chunk, UNCHANGED landed,
         \A e \in Delivery, j \in Chunk : <<e, j>> # <<d, k>> => chunk'[e][j] = chunk[e][j],
         \A q \in Run : Sending(q)' =>
           Sending(q) /\ run'[q] = run[q] /\ <<run[q].act, Current(q)>> # <<d, k>>,
         Tally(d, k)'
  PROVE  SendInv'
<1>2. ASSUME NEW q \in Run, Sending(q)'
      PROVE  /\ Sending(q) /\ run'[q] = run[q]
             /\ chunk'[run[q].act][Current(q)] = chunk[run[q].act][Current(q)]
    <2>1. Sending(q) /\ run[q].act \in Delivery /\ Current(q) \in Chunk
      BY <1>2, SenderTyped DEF Sending, AtChunk
    <2> QED BY <1>2, <2>1
<1>3. Owned' /\ \A q \in Run : Sending(q)' => ReplyTally(q)'
  BY <1>2, SenderRests DEF Owned
<1>4. OneSending'
  BY <1>2 DEF SendInv, OneSending
<1>5. \A e \in Delivery, j \in Chunk : Tally(e, j)'
  <2>1. ASSUME NEW e \in Delivery, NEW j \in Chunk, <<e, j>> # <<d, k>>
        PROVE  Tally(e, j)'
    <3>1. chunk'[e][j] = chunk[e][j] /\ Allowance(e, j)' = Allowance(e, j)
      BY <2>1 DEF Allowance
    <3> QED BY <3>1 DEF SendInv, Tally
  <2> QED BY <2>1
<1>6. landed' \in [Delivery -> [Chunk -> Nat]]
  BY DEF SendInv
<1> QED BY <1>3, <1>4, <1>5, <1>6 DEF SendInv

\* Recovery leaves what was in flight in doubt.
LEMMA RecoveryKeepsChat ==
  ASSUME RunInv, SendInv, RecoverExpiredLease, UNCHANGED landed,
         \A q \in Run : Sending(q)' => Sending(q) /\ run'[q] = run[q]
  PROVE  SendInv'
<1>1. ASSUME NEW d \in Delivery, NEW k \in Chunk
      PROVE  /\ chunk'[d][k].state = chunk[d][k].state \/ chunk'[d][k].state = "ambiguous"
             /\ chunk'[d][k].state = "in_flight" => chunk'[d][k].run = chunk[d][k].run
             /\ chunk'[d][k].retries = chunk[d][k].retries
  <2>1. chunk'[d][k] = Stranded(d, k) /\ chunk[d][k] \in ChunkRow
    BY ChunkTyped DEF RecoverExpiredLease
  <2> QED BY <2>1 DEF Stranded, ChunkRow
<1>2. ASSUME NEW q \in Run, Sending(q)'
      PROVE  Sending(q) /\ run'[q] = run[q] /\ run[q].act \in Delivery /\ Current(q) \in Chunk
  BY <1>2, SenderTyped DEF Sending, AtChunk
<1>3. Owned' /\ \A q \in Run : Sending(q)' => ReplyTally(q)'
  BY <1>1, <1>2, SenderRests DEF Owned
<1>4. OneSending'
  BY <1>2 DEF SendInv, OneSending
<1>5. ASSUME NEW d \in Delivery, NEW k \in Chunk
      PROVE  Tally(d, k)'
  <2>1. Allowance(d, k)' = Allowance(d, k)
    BY <1>1 DEF Allowance
  <2> QED BY <1>1, <2>1 DEF SendInv, Tally, UnsentStates
<1>6. landed' \in [Delivery -> [Chunk -> Nat]]
  BY DEF SendInv
<1> QED BY <1>3, <1>4, <1>5, <1>6 DEF SendInv

\* A delivery without chunks has no sender, so its chunks may be written.
LEMMA PreparationKeepsChat ==
  ASSUME RunInv, SendInv, NEW r \in Run, NEW d \in Delivery, NEW digest, NEW t,
         PrepareDelivery(r, d, digest, t), UNCHANGED landed,
         \A q \in Run : Sending(q)' => Sending(q) /\ run'[q] = run[q]
  PROVE  SendInv'
<1>1. \A k \in Chunk : chunk[d][k] = NoChunk
  BY DEF PrepareDelivery, CanPrepare, Unprepared, ChunksOf, RunInv, StoreTypeOK, AttemptOK
<1>2. /\ \A e \in Delivery, j \in Chunk : e # d => chunk'[e][j] = chunk[e][j]
      /\ \A k \in Chunk : chunk'[d][k].state \in UnsentStates /\ chunk'[d][k].retries = 0
  <2> DEFINE Fresh(items) == [NoChunk EXCEPT !.state = "pending", !.items = items]
  <2>1. \A k \in Chunk : chunk'[d][k] = Fresh(digest[k]) \/ chunk'[d][k] = NoChunk
    BY <1>1 DEF PrepareDelivery, RunInv, StoreTypeOK
  <2>2. \A e \in Delivery, j \in Chunk : e # d => chunk'[e][j] = chunk[e][j]
    BY DEF PrepareDelivery, RunInv, StoreTypeOK
  <2>3. \A items : Fresh(items).state = "pending" /\ Fresh(items).retries = 0
    BY DEF NoChunk
  <2>4. NoChunk.state = "none" /\ NoChunk.retries = 0
    BY DEF NoChunk
  <2> HIDE DEF Fresh
  <2>5. \A k \in Chunk : chunk'[d][k].state \in {"pending", "none"} /\ chunk'[d][k].retries = 0
    BY <2>1, <2>3, <2>4
  <2> QED BY <2>2, <2>5 DEF UnsentStates
<1>3. ASSUME NEW q \in Run, Sending(q)'
      PROVE  /\ Sending(q) /\ run'[q] = run[q]
             /\ chunk'[run[q].act][Current(q)] = chunk[run[q].act][Current(q)]
    <2>1. Sending(q) /\ run'[q] = run[q] /\ run[q].act \in Delivery /\ Current(q) \in Chunk
      BY <1>3, SenderTyped DEF Sending, AtChunk
    <2>2. run[q].act # d
      BY <1>1, <2>1 DEF SendInv, Owned, NoChunk, OpenStates
    <2> QED BY <1>2, <2>1, <2>2
<1>4. Owned' /\ \A q \in Run : Sending(q)' => ReplyTally(q)'
  BY <1>3, SenderRests DEF Owned
<1>5. OneSending'
  BY <1>3 DEF SendInv, OneSending
<1>6. ASSUME NEW e \in Delivery, NEW j \in Chunk
      PROVE  Tally(e, j)'
  <2>1. CASE e = d
    <3>1. Allowance(d, j) = 0 /\ landed[d][j] <= 0
      BY <1>1 DEF SendInv, Tally, Allowance, NoChunk, UnsentStates
    <3>2. Allowance(d, j)' = 0 /\ chunk'[d][j].state \in UnsentStates
      BY <1>2 DEF Allowance
    <3> QED BY <2>1, <3>1, <3>2 DEF Tally, UnsentStates, SendInv
  <2>2. CASE e # d
    <3>1. chunk'[e][j] = chunk[e][j] /\ Allowance(e, j)' = Allowance(e, j)
      BY <1>2, <2>2 DEF Allowance
    <3> QED BY <3>1 DEF SendInv, Tally
  <2> QED BY <2>1, <2>2
<1>7. landed' \in [Delivery -> [Chunk -> Nat]]
  BY DEF SendInv
<1> QED BY <1>4, <1>5, <1>6, <1>7 DEF SendInv

\* A chunk that is open or due has every earlier chunk acknowledged, so
\* while one is open no other of its delivery can begin, nor can it itself.
LEMMA OpenExcludesBegin ==
  ASSUME RunInv, OutboxOrder, NEW r \in Run, NEW d \in Delivery, NEW k \in Chunk, CanBegin(r, d, k),
         NEW j \in Chunk
  PROVE  chunk[d][j].state \notin OpenStates
<1>1. chunk[d][k].state \in {"pending", "retry_wait"} /\ \A i \in Chunk : i < k => chunk[d][i].state = "sent"
  BY DEF CanBegin, DueChunks, EarlierSent
<1>2. SUFFICES ASSUME chunk[d][j].state \in OpenStates PROVE FALSE
  OBVIOUS
<1>3. \A i \in 1..(j - 1) : chunk[d][i].state = "sent"
  BY <1>2 DEF OutboxOrder, OpenStates
<1>4. j < k \/ j = k \/ k \in 1..(j - 1)
  BY StoreAssumption DEF Chunk
<1> QED BY <1>1, <1>2, <1>3, <1>4 DEF OpenStates

LEMMA BeginKeepsChat ==
  ASSUME ChatInv, NEW r \in Run, At(r, "attempt"), NEW d \in Delivery, NEW k \in Chunk,
         run[r].act = d, Current(r) = k,
         BeginChunkAttempt(r, d, k), Goto(r, "send"), UNCHANGED landed
  PROVE  SendInv'
<1>1. RunInv /\ OutboxOrder /\ SendInv /\ RunsOK
  BY DEF ChatInv, RunInv
<1>2. run'[r] = [run[r] EXCEPT !.pc = "send"] /\ \A q \in Run : q # r => run'[q] = run[q]
  BY <1>1 DEF Goto, RunsOK
<1>3. run'[r].pc = "send" /\ run'[r].act = d /\ Current(r)' = k
  <2>1. run[r] \in RunState
    BY <1>1 DEF RunsOK
  <2> QED BY <1>2, <2>1, SameRunSameChunk DEF RunState
<1>4. \A j \in Chunk : chunk[d][j].state \notin OpenStates
  BY <1>1, OpenExcludesBegin DEF BeginChunkAttempt
<1>5. chunk[d][k].state \in {"pending", "retry_wait"} /\ chunk[d][k] \in ChunkRow
  BY <1>1, ChunkTyped DEF BeginChunkAttempt, CanBegin, DueChunks
<1>6. /\ chunk'[d][k].state = "in_flight" /\ chunk'[d][k].run = r
      /\ chunk'[d][k].retries = chunk[d][k].retries
      /\ \A e \in Delivery, j \in Chunk : <<e, j>> # <<d, k>> => chunk'[e][j] = chunk[e][j]
  <2>1. chunk' = [chunk EXCEPT ![d][k] = [@ EXCEPT !.state = "in_flight",
                                !.attempts = CountUp(chunk[d][k].attempts), !.run = r, !.safe = FALSE]]
    BY DEF BeginChunkAttempt
  <2>2. chunk \in [Delivery -> [Chunk -> ChunkRow]]
    BY <1>1 DEF RunInv, StoreTypeOK
  <2> QED BY <1>1, <1>5, <2>1, <2>2 DEF ChunkRow
<1>7. ASSUME NEW q \in Run, q # r, Sending(q)'
      PROVE  /\ Sending(q) /\ run'[q] = run[q] /\ run[q].act # d
             /\ chunk'[run[q].act][Current(q)] = chunk[run[q].act][Current(q)]
  <2>1. Sending(q) /\ run'[q] = run[q] /\ run[q].act \in Delivery /\ Current(q) \in Chunk
    BY <1>1, <1>2, <1>7, SenderTyped DEF Sending, AtChunk
  <2>2. run[q].act # d
    BY <1>1, <1>4, <2>1 DEF SendInv, Owned
  <2> QED BY <1>6, <2>1, <2>2
<1>8. Allowance(d, k)' = Allowance(d, k) /\ landed'[d][k] = landed[d][k] /\ landed[d][k] <= Allowance(d, k)
  <2>1. Allowance(d, k)' = Allowance(d, k) /\ landed'[d][k] = landed[d][k]
    BY <1>6 DEF Allowance
  <2>2. chunk[d][k].state \in UnsentStates /\ Tally(d, k)
    BY <1>1, <1>5 DEF SendInv, UnsentStates
  <2> QED BY <2>1, <2>2 DEF Tally
<1>9. ReplyTally(r)'
  <2>1. Allowance(run[r].act, Current(r))' = Allowance(d, k)
    BY <1>3, <1>6 DEF Allowance
  <2> QED BY <1>3, <1>8, <2>1 DEF ReplyTally
<1>10. \A q \in Run : q # r /\ Sending(q)' => ReplyTally(q)'
  BY <1>1, <1>7, SenderRests
<1>11. Owned'
  <2>1. ASSUME NEW q \in Run, q # r, Sending(q)'
        PROVE  /\ chunk'[run'[q].act][Current(q)'].state \in OpenStates
               /\ chunk'[run'[q].act][Current(q)'].state = "in_flight"
                    => chunk'[run'[q].act][Current(q)'].run = q
    BY <1>1, <1>7, <2>1, SenderRests
  <2> QED BY <1>3, <1>6, <2>1 DEF Owned, OpenStates
<1>12. OneSending'
  <2>1. \A q \in Run : q # r /\ Sending(q)' => Sending(q) /\ run'[q].act = run[q].act /\ run'[q].act # d
    BY <1>7
  <2> QED BY <1>1, <1>3, <2>1 DEF SendInv, OneSending
<1>13. ASSUME NEW e \in Delivery, NEW j \in Chunk
       PROVE  Tally(e, j)'
  <2>1. CASE <<e, j>> = <<d, k>>
    BY <1>1, <1>6, <1>8, <2>1 DEF Tally, UnsentStates, SendInv, Allowance, ChunkRow
  <2>2. CASE <<e, j>> # <<d, k>>
    <3>1. chunk'[e][j] = chunk[e][j] /\ Allowance(e, j)' = Allowance(e, j)
      BY <1>6, <2>2 DEF Allowance
    <3> QED BY <1>1, <3>1 DEF SendInv, Tally
  <2> QED BY <2>1, <2>2
<1>14. landed' \in [Delivery -> [Chunk -> Nat]]
  BY <1>1 DEF SendInv
<1> QED BY <1>9, <1>10, <1>11, <1>12, <1>13, <1>14 DEF SendInv

\* The request leaves: at most one copy more, of a chunk nobody else sends.
LEMMA SendKeepsChat ==
  ASSUME ChatInv, NEW r \in Run, Send(r), NEW d \in Delivery, NEW k \in Chunk,
         run[r].act = d, Current(r) = k
  PROVE  SendInv'
<1>1. RunInv /\ SendInv /\ RunsOK /\ At(r, "send") /\ UNCHANGED chunk
  BY DEF ChatInv, RunInv, Send, storeVars
<1>2. PICK landing \in BOOLEAN, reply \in Reply :
        /\ reply \in ReplyTo(landing)
        /\ run' = [run EXCEPT ![r].pc = "finish", ![r].reply = reply]
        /\ landed' = IF landing THEN [landed EXCEPT ![d][k] = @ + 1] ELSE landed
  BY DEF Send
<1>3. /\ run'[r].pc = "finish" /\ run'[r].act = d /\ Current(r)' = k /\ run'[r].reply = reply
      /\ \A q \in Run : q # r => run'[q] = run[q]
  <2>1. run[r] \in RunState
    BY <1>1 DEF RunsOK
  <2> QED BY <1>1, <1>2, <2>1, SameRunSameChunk DEF RunState, RunsOK
<1>4. Sending(r) /\ \A e, j : Allowance(e, j)' = Allowance(e, j)
  BY <1>1 DEF Sending, At, Allowance
<1>5. /\ landed' \in [Delivery -> [Chunk -> Nat]]
      /\ landed'[d][k] = landed[d][k] + (IF landing THEN 1 ELSE 0)
      /\ \A e \in Delivery, j \in Chunk : <<e, j>> # <<d, k>> => landed'[e][j] = landed[e][j]
  BY <1>1, <1>2 DEF SendInv
<1>6. ASSUME NEW q \in Run, q # r, Sending(q)'
      PROVE  /\ Sending(q) /\ run'[q] = run[q] /\ run[q].act # d
             /\ landed'[run[q].act][Current(q)] = landed[run[q].act][Current(q)]
  <2>1. Sending(q) /\ run'[q] = run[q] /\ run[q].act \in Delivery /\ Current(q) \in Chunk
    BY <1>1, <1>3, <1>6, SenderTyped DEF Sending, AtChunk
  <2>2. run[q].act # d
    BY <1>1, <1>4, <1>6, <2>1 DEF SendInv, OneSending
  <2> QED BY <1>5, <2>1, <2>2
<1>7. landed[d][k] <= Allowance(d, k) /\ landed[d][k] \in Nat
      /\ chunk[d][k].state \in OpenStates /\ (chunk[d][k].state = "in_flight" => chunk[d][k].run = r)
  BY <1>1, <1>4 DEF SendInv, ReplyTally, At, Owned
<1>8. ReplyTally(r)'
  <2>1. Allowance(run[r].act, Current(r))' = Allowance(d, k)
    BY <1>1, <1>3 DEF Allowance
  <2>2. landed'[run'[r].act][Current(r)'] = landed'[d][k]
    BY <1>3
  <2>3. (reply \in {"retryable", "terminal"} => ~landing) /\ (reply = "accepted" => landing)
    BY <1>2 DEF ReplyTo
  <2> QED BY <1>3, <1>5, <1>7, <2>1, <2>2, <2>3 DEF ReplyTally
<1>9. \A q \in Run : q # r /\ Sending(q)' => ReplyTally(q)'
  BY <1>1, <1>6, SenderRests
<1>10. Owned'
  <2>1. ASSUME NEW q \in Run, q # r, Sending(q)'
        PROVE  /\ chunk'[run'[q].act][Current(q)'].state \in OpenStates
               /\ chunk'[run'[q].act][Current(q)'].state = "in_flight"
                    => chunk'[run'[q].act][Current(q)'].run = q
    BY <1>1, <1>6, <2>1, SenderRests
  <2> QED BY <1>1, <1>3, <1>7, <2>1 DEF Owned
<1>11. OneSending'
  <2>1. \A q \in Run : q # r /\ Sending(q)' => Sending(q) /\ run'[q].act = run[q].act /\ run'[q].act # d
    BY <1>6
  <2> QED BY <1>1, <1>3, <2>1 DEF SendInv, OneSending
<1>12. ASSUME NEW e \in Delivery, NEW j \in Chunk
       PROVE  Tally(e, j)'
  <2>1. CASE <<e, j>> = <<d, k>>
    <3>1. e = d /\ j = k /\ chunk'[d][k].state \in OpenStates
      BY <1>1, <1>7, <2>1
    <3>2. Allowance(d, k) \in Nat
      BY <1>1, ChunkTyped, StoreAssumption DEF Allowance, ChunkRow
    <3>3. Allowance(d, k)' = Allowance(d, k)
      BY <1>4
    <3>4. landed'[d][k] <= Allowance(d, k) + 1
      BY <1>5, <1>7, <3>2
    <3> QED BY <3>1, <3>3, <3>4 DEF Tally, UnsentStates, OpenStates
  <2>2. CASE <<e, j>> # <<d, k>>
    BY <1>1, <1>4, <1>5, <2>2 DEF SendInv, Tally
  <2> QED BY <2>1, <2>2
<1> QED BY <1>5, <1>8, <1>9, <1>10, <1>11, <1>12 DEF SendInv

\* What finish_chunk writes: one row, according to the reply.
OutcomeWritten(r, d, k) ==
  /\ \A e \in Delivery, j \in Chunk : <<e, j>> # <<d, k>> => chunk'[e][j] = chunk[e][j]
  /\ chunk'[d][k].retries = chunk[d][k].retries
  /\ \/ run[r].reply = "accepted" /\ chunk'[d][k].state = "sent"
     \/ run[r].reply = "ambiguous" /\ chunk'[d][k].state = "ambiguous"
     \/ run[r].reply \in {"retryable", "terminal"} /\ chunk'[d][k].state \in UnsentStates

LEMMA FinishWrites ==
  ASSUME RunInv, NEW r \in Run, Finish(r), NEW d \in Delivery, NEW k \in Chunk,
         run[r].act = d, Current(r) = k
  PROVE  (\E ok : Refused(r, ok)) \/ OutcomeWritten(r, d, k)
<1>1. chunk[d][k] \in ChunkRow /\ chunk \in [Delivery -> [Chunk -> ChunkRow]]
  BY ChunkTyped DEF RunInv, StoreTypeOK
<1>2. CASE run[r].reply = "accepted" /\ AcceptChunk(r, d, k)
  BY <1>1, <1>2 DEF AcceptChunk, ChunkRow, OutcomeWritten
<1>3. CASE run[r].reply = "ambiguous" /\ AmbiguousChunk(r, d, k)
  BY <1>1, <1>3 DEF AmbiguousChunk, ChunkRow, OutcomeWritten
<1>4. CASE run[r].reply \in {"retryable", "terminal"} /\ RejectChunkRetryable(r, d, k)
  BY <1>1, <1>4 DEF RejectChunkRetryable, ChunkRow, UnsentStates, OutcomeWritten
<1>5. CASE run[r].reply \in {"retryable", "terminal"} /\ RejectChunkTerminal(r, d, k, FALSE)
  BY <1>1, <1>5 DEF RejectChunkTerminal, ChunkRow, UnsentStates, OutcomeWritten
<1> QED BY <1>2, <1>3, <1>4, <1>5 DEF Finish

\* The outcome is written down, and the run is no longer sending.
LEMMA FinishKeepsChat ==
  ASSUME ChatInv, NEW r \in Run, Finish(r), NEW d \in Delivery, NEW k \in Chunk,
         run[r].act = d, Current(r) = k
  PROVE  SendInv'
<1>1. RunInv /\ SendInv /\ RunsOK /\ At(r, "finish") /\ UNCHANGED landed
  BY DEF ChatInv, RunInv, Finish, envVars
<1>2. Sending(r)
  BY <1>1 DEF Sending, At
<1>3. CASE \E ok : Refused(r, ok)
  BY <1>1, <1>3, RaisesQuietly DEF Refused, storeVars
<1>4. CASE OutcomeWritten(r, d, k)
  <2>1. ASSUME NEW q \in Run, Sending(q)'
        PROVE  Sending(q) /\ run'[q] = run[q] /\ <<run[q].act, Current(q)>> # <<d, k>>
    <3>1. (\A p \in Run : p # r => run'[p] = run[p]) /\ run'[r].pc \notin {"send", "finish"}
      <4>1. run[r] \in RunState
        BY <1>1 DEF RunsOK
      <4>2. \/ Goto(r, "release")
            \/ \E rest : run' = [run EXCEPT ![r].queue = rest, ![r].reply = "none", ![r].pc = AfterChunk(rest)]
            \/ \E ok : Refused(r, ok)
        BY DEF Finish
      <4>3. CASE Goto(r, "release")
        BY <1>1, <4>1, <4>3 DEF Goto, RunState, RunsOK
      <4>4. CASE \E rest : run' = [run EXCEPT ![r].queue = rest, ![r].reply = "none", ![r].pc = AfterChunk(rest)]
        BY <1>1, <4>1, <4>4 DEF AfterChunk, RunState, RunsOK
      <4>5. CASE \E ok : Refused(r, ok)
        BY <1>1, <4>1, <4>5 DEF Refused, Raise, Goto, End, Idle, RunState, RunsOK
      <4> QED BY <4>2, <4>3, <4>4, <4>5
    <3>2. q # r /\ run'[q] = run[q] /\ Sending(q)
      BY <2>1, <3>1 DEF Sending
    <3> QED BY <1>1, <1>2, <3>2, SMTT(30) DEF SendInv, OneSending
  <2>2. chunk'[d][k].retries = chunk[d][k].retries
    BY <1>4 DEF OutcomeWritten
  <2>3. Tally(d, k)'
    <3>1. Allowance(d, k)' = Allowance(d, k)
      BY <2>2 DEF Allowance
    <3>2. Tally(d, k) /\ ReplyTally(r) /\ run[r].pc = "finish"
      BY <1>1, <1>2 DEF SendInv, At
    <3> QED BY <1>1, <1>4, <3>1, <3>2 DEF Tally, ReplyTally, UnsentStates, OutcomeWritten
  <2> QED BY <1>1, <1>4, <2>1, <2>3, ChunkMoves DEF OutcomeWritten
<1> QED BY <1>3, <1>4, FinishWrites DEF ChatInv

\* What an operator's resolution writes: one row, after a look into the chat
\* if the operator is honest.
ResolutionWritten(d, k) ==
  /\ \A e \in Delivery, j \in Chunk : <<e, j>> # <<d, k>> => chunk'[e][j] = chunk[e][j]
  /\ \/ /\ chunk'[d][k].state = "sent" /\ chunk'[d][k].retries = chunk[d][k].retries
        /\ HonestOperator => landed[d][k] > 0
     \/ /\ chunk'[d][k].state = "pending" /\ chunk'[d][k].retries = chunk[d][k].retries + 1
        /\ HonestOperator => landed[d][k] = 0

LEMMA OperatorWrites ==
  ASSUME RunInv, NEW d \in Delivery, Operator(d)
  PROVE  UNCHANGED chunk \/ \E k \in Chunk : chunk[d][k].state = "ambiguous" /\ ResolutionWritten(d, k)
<1>1. \A k \in Chunk : chunk[d][k] \in ChunkRow /\ chunk \in [Delivery -> [Chunk -> ChunkRow]]
  BY ChunkTyped DEF RunInv, StoreTypeOK
<1>2. ASSUME NEW k \in Chunk, HonestOperator => landed[d][k] > 0, ResolveSent(d, k)
      PROVE  chunk[d][k].state = "ambiguous" /\ ResolutionWritten(d, k)
  BY <1>1, <1>2 DEF ResolveSent, ChunkRow, ResolutionWritten
<1>3. ASSUME NEW k \in Chunk, HonestOperator => landed[d][k] = 0, ResolveRetry(d, k)
      PROVE  chunk[d][k].state = "ambiguous" /\ ResolutionWritten(d, k)
  BY <1>1, <1>3 DEF ResolveRetry, Requeue, ChunkRow, ResolutionWritten
<1>4. \A t : ReconcileDelivery(d, t) => UNCHANGED chunk
  BY DEF ReconcileDelivery
<1> QED BY <1>2, <1>3, <1>4 DEF Operator

\* The operator acts while nobody sends; an honest one resolves what the chat shows.
LEMMA OperatorKeepsChat ==
  ASSUME ChatInv, NEW d \in Delivery, Operator(d)
  PROVE  SendInv'
<1>1. RunInv /\ SendInv /\ UNCHANGED <<run, landed>>
  BY DEF ChatInv, Operator, envVars
<1>2. \A q \in Run : ~Sending(q)'
  BY <1>1 DEF Operator, OperatorMayAct, At, Sending
<1>3. CASE UNCHANGED chunk
  BY <1>1, <1>2, <1>3, ChatRests
<1>4. ASSUME NEW k \in Chunk, ResolutionWritten(d, k)
      PROVE  SendInv'
  <2>1. chunk[d][k] \in ChunkRow
    BY <1>1, ChunkTyped
  <2>2. /\ Allowance(d, k) = IF HonestOperator THEN 0 ELSE chunk[d][k].retries
        /\ Allowance(d, k)' = IF HonestOperator THEN 0 ELSE chunk'[d][k].retries
        /\ chunk[d][k].retries \in Nat
    BY <2>1, StoreAssumption DEF Allowance, ChunkRow
  <2>3. Tally(d, k) /\ landed[d][k] \in Nat /\ landed' = landed
    BY <1>1 DEF SendInv
  <2>4. Tally(d, k)'
    BY <1>4, <2>2, <2>3 DEF Tally, UnsentStates, ResolutionWritten
  <2> QED BY <1>1, <1>2, <1>4, <2>4, ChunkMoves DEF ResolutionWritten
<1> QED BY <1>1, <1>3, <1>4, OperatorWrites

LEMMA StepKeepsChat ==
  ASSUME ChatInv, NEW r \in Run, Step(r)
  PROVE  SendInv'
<1> USE DEF envVars, At
<1>1. RunInv /\ SendInv /\ RunsOK
  BY DEF ChatInv, RunInv
<1>2. run[r] \in RunState /\ (run[r].pc \in AtChunk => run[r].act \in Delivery /\ Current(r) \in Chunk)
  BY <1>1, SenderTyped DEF RunsOK
<1>3. ASSUME NEW p, Goto(r, p), p \notin {"send", "finish"}, UNCHANGED <<chunk, landed>>
      PROVE  SendInv'
  BY <1>1, <1>3, GoesQuietly
<1>4. ASSUME NEW ok, Refused(r, ok), UNCHANGED landed
      PROVE  SendInv'
  BY <1>1, <1>4, RaisesQuietly DEF Refused, storeVars
<1>5. ASSUME NEW x, run' = [run EXCEPT ![r] = x], x.pc \notin {"send", "finish"}
      PROVE  \A q \in Run : Sending(q)' => Sending(q) /\ run'[q] = run[q]
  BY <1>1, <1>5 DEF Sending, RunsOK
<1>6. ASSUME NEW p, Goto(r, p)
      PROVE  run' = [run EXCEPT ![r] = [run[r] EXCEPT !.pc = p]] /\ [run[r] EXCEPT !.pc = p].pc = p
  BY <1>2, <1>6 DEF Goto, RunState
<1>7. CASE Recover(r)
  <2>1. PICK p \in {"acquire", "plan"} : Goto(r, p)
    BY <1>7 DEF Recover
  <2>2. \A q \in Run : Sending(q)' => Sending(q) /\ run'[q] = run[q]
    BY <2>1, <1>5, <1>6
  <2>3. CASE RecoverExpiredLease
    BY <1>1, <1>7, <2>2, <2>3, RecoveryKeepsChat DEF Recover
  <2>4. CASE UNCHANGED storeVars
    BY <1>3, <1>7, <2>1, <2>4 DEF Recover, storeVars
  <2> QED BY <1>7, <2>3, <2>4 DEF Recover, Recovers
<1>8. CASE Acquire(r)
  BY <1>1, <1>3, <1>8, EndsQuietly DEF Acquire, AcquireLease, storeVars
<1>9. CASE Plan(r)
  <2>1. PICK p, a : run' = [run EXCEPT ![r].act = a, ![r].pc = p] \/ run' = [run EXCEPT ![r].pc = p]
    BY <1>9 DEF Plan, Goto
  <2>2. run'[r].pc \notin {"send", "finish"}
    BY <1>1, <1>2, <1>9 DEF Plan, Goto, ResumeAt, RunsOK, RunState
  <2>3. \A q \in Run : Sending(q)' => run'[q] = run[q]
    BY <1>1, <2>1, <2>2 DEF Sending, RunsOK
  <2> QED BY <1>1, <1>9, <2>3, ChatRests DEF Plan, storeVars
<1>10. CASE Reopen(r)
  BY <1>3, <1>4, <1>10 DEF Reopen, ReopenForCollection
<1>11. CASE Create(r)
  <2>1. ASSUME NEW d, run' = [run EXCEPT ![r].pc = "collect", ![r].act = d], UNCHANGED <<chunk, landed>>
        PROVE  SendInv'
    <3>1. run'[r].pc = "collect" /\ \A q \in Run : q # r => run'[q] = run[q]
      BY <1>1, <1>2, <2>1 DEF RunState, RunsOK
    <3> QED BY <1>1, <2>1, <3>1, ChatRests DEF Sending
  <2> QED BY <1>4, <1>11, <2>1 DEF Create, CreateDelivery
<1>12. CASE GiveUp(r)
  BY <1>3, <1>4, <1>12 DEF GiveUp, FailDelivery
<1>13. CASE Collect(r) \/ Collected(r)
  BY <1>3, <1>4, <1>13 DEF Collect, Collected, storeVars
<1>14. CASE AllFailed(r)
  BY <1>3, <1>4, <1>14 DEF AllFailed, RecordCollectionAttempt
<1>15. CASE Defer(r)
  BY <1>3, <1>4, <1>15 DEF Defer, FailDelivery, SetCollectionRetry
<1>16. CASE Select(r)
  <2>1. PICK g : run' = [run EXCEPT ![r].pc = "prepare", ![r].draft = g]
    BY <1>16 DEF Select
  <2>2. run'[r].pc = "prepare" /\ \A q \in Run : q # r => run'[q] = run[q]
    BY <1>1, <1>2, <2>1 DEF RunState, RunsOK
  <2> QED BY <1>1, <1>16, <2>2, ChatRests DEF Select, Sending, storeVars
<1>17. CASE Prepare(r)
  <2>1. CASE /\ PrepareDelivery(r, run[r].act, run[r].draft, run[r].tgt)
             /\ run' = [run EXCEPT ![r].pc = "target", ![r].draft = <<>>]
    <3>1. run'[r].pc = "target" /\ \A q \in Run : q # r => run'[q] = run[q]
      BY <1>1, <1>2, <2>1 DEF RunState, RunsOK
    <3>2. \A q \in Run : Sending(q)' => Sending(q) /\ run'[q] = run[q]
      BY <3>1 DEF Sending
    <3>3. run[r].act \in Delivery
      BY <1>1, <1>17, PlaceFacts DEF Prepare, WithDelivery
    <3> QED BY <1>1, <1>17, <2>1, <3>2, <3>3, PreparationKeepsChat DEF Prepare
  <2> QED BY <1>4, <1>17, <2>1 DEF Prepare
<1>18. CASE CheckTarget(r)
  BY <1>3, <1>4, <1>18 DEF CheckTarget, MarkTargetMismatch, storeVars
<1>19. CASE Loop(r)
  <2>1. CASE run' = [run EXCEPT ![r].queue = DueChunks(run[r].act),
                         ![r].pc = IF DueChunks(run[r].act) = {} THEN "release" ELSE "attempt"]
             /\ UNCHANGED <<chunk, landed>>
    <3>1. run'[r].pc \in {"release", "attempt"} /\ \A q \in Run : q # r => run'[q] = run[q]
      BY <1>1, <1>2, <2>1 DEF RunState, RunsOK
    <3> QED BY <1>1, <2>1, <3>1, ChatRests DEF Sending
  <2> QED BY <1>4, <1>19, <2>1 DEF Loop, storeVars
<1>20. CASE Attempt(r)
  <2>1. CASE BeginChunkAttempt(r, run[r].act, Current(r)) /\ Goto(r, "send")
    BY <1>2, <1>20, <2>1, BeginKeepsChat DEF Attempt, AtChunk
  <2> QED BY <1>3, <1>4, <1>20, <2>1 DEF Attempt, storeVars
<1>21. CASE Send(r)
  BY <1>2, <1>21, SendKeepsChat DEF Send, AtChunk
<1>22. CASE Finish(r)
  BY <1>2, <1>22, FinishKeepsChat DEF Finish, AtChunk
<1>23. CASE Except(r)
  BY <1>3, <1>4, <1>23 DEF Except, FailDelivery, storeVars
<1>24. CASE Release(r)
  BY <1>1, <1>24, EndsQuietly DEF Release, Releases, ReleaseLease, storeVars
<1> QED BY <1>7, <1>8, <1>9, <1>10, <1>11, <1>12, <1>13, <1>14, <1>15, <1>16, <1>17, <1>18,
           <1>19, <1>20, <1>21, <1>22, <1>23, <1>24 DEF Step

LEMMA WorldKeepsChat ==
  ASSUME ChatInv, Next, \A r \in Run : ~Step(r)
  PROVE  SendInv'
<1> USE DEF envVars, storeVars
<1>1. RunInv /\ SendInv /\ RunsOK
  BY DEF ChatInv, RunInv
<1>2. ASSUME NEW r \in Run, Starts(r)
      PROVE  SendInv'
  BY <1>1, <1>2, RunRests DEF Starts, Start, Idle
<1>3. ASSUME NEW r \in Run, StoreFails(r) \/ Stops(r) \/ Crash(r)
      PROVE  SendInv'
  BY <1>1, <1>3, RaisesQuietly, GoesQuietly, EndsQuietly DEF StoreFails, Stops, Crash
<1>4. ASSUME NEW d \in Delivery, Operator(d)
      PROVE  SendInv'
  BY <1>4, OperatorKeepsChat
<1>5. ASSUME NEW d \in Delivery, Clock(d)
      PROVE  SendInv'
  BY <1>1, <1>5, ChatRests DEF Clock, RetryDue, BudgetElapses
<1>6. CASE ExpireLease \/ DayTurns
  BY <1>1, <1>6, ChatRests DEF ExpireLease, LeaseExpires, DayTurns
<1> QED BY <1>2, <1>3, <1>4, <1>5, <1>6 DEF Next

LEMMA ChatInit == Init => ChatInv
<1> SUFFICES ASSUME Init PROVE ChatInv
  OBVIOUS
<1>1. RunInv /\ OutboxOrder
  BY RunInit, OrderInit DEF Init
<1>2. \A r \in Run : ~Sending(r)
  BY DEF Init, Sending, Idle
<1>3. \A d \in Delivery, k \in Chunk : landed[d][k] = 0 /\ chunk[d][k] = NoChunk
  BY DEF Init, StoreInit
<1>4. SendInv
  BY <1>2, <1>3 DEF Init, SendInv, Owned, OneSending, Tally, Allowance, NoChunk, UnsentStates
<1> QED BY <1>1, <1>4 DEF ChatInv

LEMMA ChatStep ==
  ASSUME ChatInv, [Next]_vars
  PROVE  ChatInv'
<1>1. RunInv' /\ [StoreNext]_storeVars
  BY NextStep DEF ChatInv
<1>2. OutboxOrder'
  BY <1>1, OrderStep DEF ChatInv, RunInv
<1>3. SendInv'
  <2>1. CASE UNCHANGED vars
    BY <2>1, ChatRests DEF vars, storeVars, envVars, ChatInv
  <2>2. CASE Next
    BY <2>2, StepKeepsChat, WorldKeepsChat
  <2> QED BY <2>1, <2>2
<1> QED BY <1>1, <1>2, <1>3 DEF ChatInv

LEMMA ChatAlways == Spec => []ChatInv
BY ChatInit, ChatStep, PTL DEF Spec

\* No two runs are between begin_chunk_attempt and finish_chunk for one
\* delivery, although a run that lost its lease may still be sending.
THEOREM SendersAreAlone == Spec => []OneSender
<1>1. ChatInv => OneSender
  BY DEF ChatInv, SendInv, OneSending, OneSender, Sending
<1> QED BY <1>1, ChatAlways, PTL

\* An operator who looks into the chat before resolving never lets a chunk
\* appear twice, nor be taken for sent when it did not appear.
THEOREM NoSecondCopy ==
  ASSUME HonestOperator
  PROVE  Spec => []ExactlyOnce
<1>1. ChatInv => ExactlyOnce
  <2> SUFFICES ASSUME ChatInv, NEW d \in Delivery, NEW k \in Chunk
               PROVE  landed[d][k] <= 1 /\ (chunk[d][k].state = "sent" => landed[d][k] = 1)
    BY DEF ExactlyOnce
  <2>1. Tally(d, k) /\ landed[d][k] \in Nat
    BY DEF ChatInv, SendInv
  <2> QED BY <2>1 DEF Tally, Allowance
<1> QED BY <1>1, ChatAlways, PTL

-----------------------------------------------------------------------------
(***************************************************************************)
(* The promise.  A step of run_once posts a chunk, acknowledges it,        *)
(* pardons it, or does not show in DeliveryPromise at all.                 *)
(***************************************************************************)
Acked == [d \in Delivery |-> [k \in Chunk |-> chunk[d][k].state = "sent"]]
Pardons == [d \in Delivery |-> [k \in Chunk |-> chunk[d][k].retries]]

PromiseStep == [Promise!Next]_<<landed, Acked, Pardons>>

NothingShows ==
  /\ UNCHANGED landed
  /\ \A d \in Delivery, k \in Chunk :
       /\ chunk'[d][k].state = "sent" <=> chunk[d][k].state = "sent"
       /\ chunk'[d][k].retries = chunk[d][k].retries

LEMMA UnseenIsStutter ==
  ASSUME NothingShows
  PROVE  PromiseStep
<1>1. Acked' = Acked
  <2>1. \A d \in Delivery, k \in Chunk : (chunk'[d][k].state = "sent") = (chunk[d][k].state = "sent")
    BY Zenon DEF NothingShows
  <2> QED BY <2>1, Zenon DEF Acked
<1>2. Pardons' = Pardons
  BY DEF NothingShows, Pardons
<1>3. landed' = landed
  BY DEF NothingShows
<1> QED BY <1>1, <1>2, <1>3 DEF PromiseStep

LEMMA TurnOf ==
  ASSUME ChatInv, NEW d \in Delivery, NEW k \in Chunk, chunk[d][k].state \in OpenStates
  PROVE  Promise!Turn(d, k)
<1>1. \A j \in 1..(k - 1) : chunk[d][j].state = "sent"
  BY DEF ChatInv, OutboxOrder, OpenStates
<1>2. \A j \in Chunk : j < k => chunk[d][j].state = "sent"
  BY <1>1, StoreAssumption DEF Chunk
<1>3. chunk[d][k].state # "sent"
  BY DEF OpenStates
<1> QED BY <1>2, <1>3, Zenon DEF Promise!Turn

LEMMA AcknowledgeStep ==
  ASSUME ChatInv, NEW d \in Delivery, NEW k \in Chunk, chunk[d][k].state \in OpenStates,
         HonestOperator => landed[d][k] > 0, UNCHANGED landed,
         \A e \in Delivery, j \in Chunk : <<e, j>> # <<d, k>> => chunk'[e][j] = chunk[e][j],
         chunk'[d][k].state = "sent", chunk'[d][k].retries = chunk[d][k].retries
  PROVE  Promise!Next
<1>1. \A e \in Delivery, j \in Chunk :
        (chunk'[e][j].state = "sent") = (IF e = d /\ j = k THEN TRUE ELSE chunk[e][j].state = "sent")
  BY Zenon
<1>2. Acked' = [Acked EXCEPT ![d][k] = TRUE]
  <2>1. [Acked EXCEPT ![d][k] = TRUE]
          = [e \in Delivery |-> [j \in Chunk |-> IF e = d /\ j = k THEN TRUE ELSE chunk[e][j].state = "sent"]]
    BY DEF Acked
  <2>2. Acked' = [e \in Delivery |-> [j \in Chunk |-> IF e = d /\ j = k THEN TRUE ELSE chunk[e][j].state = "sent"]]
    BY <1>1, Zenon DEF Acked
  <2> QED BY <2>1, <2>2
<1>3. Pardons' = Pardons
  BY DEF Pardons
<1>4. Promise!Acknowledge(d, k)
  BY <1>2, <1>3, TurnOf DEF Promise!Acknowledge, Acked, Pardons
<1> QED BY <1>4 DEF Promise!Next

LEMMA PardonStep ==
  ASSUME ChatInv, NEW d \in Delivery, NEW k \in Chunk, chunk[d][k].state \in OpenStates,
         HonestOperator => landed[d][k] = 0, UNCHANGED landed,
         \A e \in Delivery, j \in Chunk : <<e, j>> # <<d, k>> => chunk'[e][j] = chunk[e][j],
         chunk'[d][k].state = "pending", chunk'[d][k].retries = chunk[d][k].retries + 1
  PROVE  Promise!Next
<1>1. \A e \in Delivery, j \in Chunk : (chunk'[e][j].state = "sent") = (chunk[e][j].state = "sent")
  <2>1. \A e \in Delivery, j \in Chunk : chunk'[e][j].state = "sent" <=> chunk[e][j].state = "sent"
    BY DEF OpenStates
  <2> QED BY <2>1, Zenon
<1>2. Acked' = Acked
  BY <1>1, Zenon DEF Acked
<1>3. Pardons' = [Pardons EXCEPT ![d][k] = @ + 1]
  <2> DEFINE more(e, j) == IF e = d /\ j = k THEN chunk[d][k].retries + 1 ELSE chunk[e][j].retries
  <2>1. \A e \in Delivery, j \in Chunk : chunk'[e][j].retries = more(e, j)
    OBVIOUS
  <2>2. [Pardons EXCEPT ![d][k] = @ + 1] = [e \in Delivery |-> [j \in Chunk |-> more(e, j)]]
    BY DEF Pardons
  <2>3. Pardons' = [e \in Delivery |-> [j \in Chunk |-> more(e, j)]]
    BY <2>1, Zenon DEF Pardons
  <2> QED BY <2>2, <2>3
<1>4. Promise!Pardon(d, k)
  BY <1>2, <1>3, TurnOf DEF Promise!Pardon, Acked, Pardons
<1> QED BY <1>4 DEF Promise!Next

LEMMA PostStep ==
  ASSUME ChatInv, NEW r \in Run, Send(r), NEW d \in Delivery, NEW k \in Chunk,
         run[r].act = d, Current(r) = k
  PROVE  PromiseStep
<1>1. RunInv /\ SendInv /\ At(r, "send") /\ Sending(r) /\ UNCHANGED chunk
  BY DEF ChatInv, Send, storeVars, Sending, At
<1>2. PICK landing \in BOOLEAN : landed' = IF landing THEN [landed EXCEPT ![d][k] = @ + 1] ELSE landed
  BY DEF Send
<1>3. chunk[d][k].state \in OpenStates /\ landed[d][k] \in Nat /\ landed[d][k] <= Allowance(d, k)
  BY <1>1 DEF SendInv, Owned, ReplyTally, At
<1>4. CASE ~landing
  BY <1>1, <1>2, <1>4, UnseenIsStutter DEF NothingShows
<1>5. CASE landing
  <2>1. Acked' = Acked /\ Pardons' = Pardons
    BY <1>1 DEF Acked, Pardons
  <2>2. Pardons[d][k] = chunk[d][k].retries /\ chunk[d][k].retries \in Nat
    BY <1>1, ChunkTyped, StoreAssumption DEF Pardons, ChunkRow
  <2>3. landed[d][k] <= Pardons[d][k] /\ (HonestOperator => landed[d][k] = 0)
    BY <1>3, <2>2 DEF Allowance
  <2>4. Promise!Post(d, k)
    BY <1>2, <1>3, <1>5, <2>1, <2>3, TurnOf DEF Promise!Post, Acked, Pardons
  <2> QED BY <2>4 DEF PromiseStep, Promise!Next
<1> QED BY <1>4, <1>5

LEMMA NextKeepsPromise ==
  ASSUME ChatInv, [Next]_vars
  PROVE  PromiseStep
<1> USE DEF envVars, storeVars
<1>1. RunInv /\ SendInv /\ RunsOK
  BY DEF ChatInv, RunInv
<1>2. CASE UNCHANGED <<chunk, landed>>
  BY <1>2, UnseenIsStutter DEF NothingShows
<1>3. ASSUME NEW r \in Run, Step(r)
      PROVE  PromiseStep
  <2>1. run[r].pc \in AtChunk => run[r].act \in Delivery /\ Current(r) \in Chunk
    BY <1>1, SenderTyped
  <2>2. CASE RecoverExpiredLease /\ UNCHANGED landed
    <3>1. ASSUME NEW d \in Delivery, NEW k \in Chunk
          PROVE  /\ chunk'[d][k].state = "sent" <=> chunk[d][k].state = "sent"
                 /\ chunk'[d][k].retries = chunk[d][k].retries
      BY <1>1, <2>2, ChunkTyped DEF RecoverExpiredLease, Stranded, ChunkRow
    <3> QED BY <2>2, <3>1, UnseenIsStutter DEF NothingShows
  <2>3. CASE PrepareDelivery(r, run[r].act, run[r].draft, run[r].tgt) /\ UNCHANGED landed
    <3> DEFINE Fresh(items) == [NoChunk EXCEPT !.state = "pending", !.items = items]
    <3>1. \A items : Fresh(items).state # "sent" /\ Fresh(items).retries = 0
      BY DEF NoChunk
    <3>2. NoChunk.state # "sent" /\ NoChunk.retries = 0
      BY DEF NoChunk
    <3>3. \A k \in Chunk : run[r].act \in Delivery => chunk[run[r].act][k] = NoChunk
      BY <1>1, <2>3 DEF PrepareDelivery, CanPrepare, Unprepared, ChunksOf, RunInv, StoreTypeOK, AttemptOK
    <3>4. ASSUME NEW d \in Delivery, NEW k \in Chunk
          PROVE  \/ chunk'[d][k] = chunk[d][k]
                 \/ chunk[d][k] = NoChunk /\ chunk'[d][k] = Fresh(run[r].draft[k])
      BY <1>1, <2>3, <3>3 DEF PrepareDelivery, RunInv, StoreTypeOK
    <3> HIDE DEF Fresh
    <3>5. NothingShows
      BY <2>3, <3>1, <3>2, <3>4 DEF NothingShows
    <3> QED BY <3>5, UnseenIsStutter
  <2>4. CASE BeginChunkAttempt(r, run[r].act, Current(r)) /\ Attempt(r)
    <3>1. PICK d \in Delivery, k \in Chunk : run[r].act = d /\ Current(r) = k
      BY <2>1, <2>4 DEF Attempt, At, AtChunk
    <3>2. chunk[d][k] \in ChunkRow /\ chunk[d][k].state # "sent" /\ chunk \in [Delivery -> [Chunk -> ChunkRow]]
      BY <1>1, <2>4, <3>1, ChunkTyped
      DEF BeginChunkAttempt, CanBegin, DueChunks, RunInv, StoreTypeOK
    <3>3. /\ chunk'[d][k].state = "in_flight" /\ chunk'[d][k].retries = chunk[d][k].retries
          /\ \A e \in Delivery, j \in Chunk : <<e, j>> # <<d, k>> => chunk'[e][j] = chunk[e][j]
      BY <2>4, <3>1, <3>2 DEF BeginChunkAttempt, ChunkRow
    <3> QED BY <2>4, <3>2, <3>3, UnseenIsStutter DEF NothingShows, Attempt
  <2>5. CASE Send(r)
    BY <2>1, <2>5, PostStep DEF Send, At, AtChunk
  <2>6. CASE Finish(r)
    <3>1. PICK d \in Delivery, k \in Chunk : run[r].act = d /\ Current(r) = k
      BY <2>1, <2>6 DEF Finish, At, AtChunk
    <3>2. chunk[d][k].state \in OpenStates /\ ReplyTally(r) /\ UNCHANGED landed
      BY <1>1, <2>6, <3>1 DEF Finish, At, Sending, SendInv, Owned
    <3>3. CASE OutcomeWritten(r, d, k)
      <4>1. CASE run[r].reply = "accepted" /\ chunk'[d][k].state = "sent"
        <5>1. landed[d][k] > 0
          BY <2>6, <3>1, <3>2, <4>1 DEF ReplyTally, Finish, At
        <5> QED BY <3>2, <3>3, <4>1, <5>1, AcknowledgeStep DEF OutcomeWritten, PromiseStep
      <4>2. CASE chunk'[d][k].state # "sent"
        BY <3>2, <3>3, <4>2, UnseenIsStutter DEF OutcomeWritten, NothingShows, OpenStates
      <4> QED BY <3>3, <4>1, <4>2 DEF OutcomeWritten, UnsentStates
    <3>4. CASE \E ok : Refused(r, ok)
      BY <1>2, <3>2, <3>4 DEF Refused
    <3> QED BY <1>1, <2>6, <3>1, <3>3, <3>4, FinishWrites
  <2>7. CASE Recover(r) \/ Acquire(r) \/ Plan(r) \/ Reopen(r) \/ Create(r) \/ GiveUp(r) \/ Collect(r)
    BY <1>2, <2>2, <2>7
    DEF Recover, Recovers, Acquire, AcquireLease, Plan, Reopen, ReopenForCollection, Create,
        CreateDelivery, GiveUp, FailDelivery, Collect, Refused
  <2>8. CASE Collected(r) \/ AllFailed(r) \/ Defer(r) \/ Select(r) \/ CheckTarget(r) \/ Loop(r)
    BY <1>2, <2>8
    DEF Collected, AllFailed, RecordCollectionAttempt, Defer, FailDelivery, SetCollectionRetry,
        Select, CheckTarget, MarkTargetMismatch, Loop, Refused
  <2>9. CASE Prepare(r) \/ Attempt(r) \/ Except(r) \/ Release(r)
    BY <1>2, <2>3, <2>4, <2>9
    DEF Prepare, Attempt, Except, FailDelivery, Release, Releases, ReleaseLease, Refused
  <2> QED BY <1>3, <2>5, <2>6, <2>7, <2>8, <2>9 DEF Step
<1>4. ASSUME NEW d \in Delivery, Operator(d)
      PROVE  PromiseStep
  <2>1. ASSUME NEW k \in Chunk, chunk[d][k].state = "ambiguous", ResolutionWritten(d, k)
        PROVE  PromiseStep
    <3>1. chunk[d][k].state \in OpenStates /\ UNCHANGED landed
      BY <1>4, <2>1 DEF OpenStates, Operator
    <3> QED BY <2>1, <3>1, AcknowledgeStep, PardonStep DEF ResolutionWritten, PromiseStep
  <2> QED BY <1>1, <1>2, <1>4, <2>1, OperatorWrites DEF Operator
<1>5. ASSUME NEW r \in Run, Starts(r) \/ StoreFails(r) \/ Stops(r) \/ Crash(r)
      PROVE  PromiseStep
  BY <1>2, <1>5 DEF Starts, Start, StoreFails, Stops, Crash
<1>6. ASSUME NEW d \in Delivery, Clock(d)
      PROVE  PromiseStep
  BY <1>2, <1>6 DEF Clock, RetryDue, BudgetElapses
<1>7. CASE ExpireLease \/ DayTurns \/ UNCHANGED vars
  BY <1>2, <1>7 DEF ExpireLease, LeaseExpires, DayTurns, vars
<1> QED BY <1>3, <1>4, <1>5, <1>6, <1>7 DEF Next

\* run_once implements the promise: the chunks of a delivery appear in order,
\* each at most once and once more per audited retry, never after they were
\* acknowledged.
THEOREM PromiseKept == Spec => KeepsPromise
<1>1. Init => Promise!Init
  <2> SUFFICES ASSUME Init PROVE Promise!Init
    OBVIOUS
  <2>1. \A d \in Delivery, k \in Chunk : ~(chunk[d][k].state = "sent") /\ chunk[d][k].retries = 0
    BY DEF Init, StoreInit, NoChunk
  <2>2. Acked = [d \in Delivery |-> [k \in Chunk |-> FALSE]]
    <3>1. \A d \in Delivery, k \in Chunk : (chunk[d][k].state = "sent") = FALSE
      BY <2>1, Zenon
    <3> QED BY <3>1, Zenon DEF Acked
  <2>3. Pardons = [d \in Delivery |-> [k \in Chunk |-> 0]]
    BY <2>1, Zenon DEF Pardons
  <2>4. landed = [d \in Delivery |-> [k \in Chunk |-> 0]]
    BY DEF Init
  <2> QED BY <2>2, <2>3, <2>4, Zenon DEF Promise!Init, Acked, Pardons
<1>2. ChatInv /\ [Next]_vars => [Promise!Next]_(Promise!promiseVars)
  BY NextKeepsPromise DEF PromiseStep, Promise!promiseVars, Acked, Pardons
<1> QED BY <1>1, <1>2, ChatAlways, PTL DEF Spec, KeepsPromise, Promise!Spec

-----------------------------------------------------------------------------
(***************************************************************************)
(* All messages of a delivery go to one chat (OneDestination).             *)
(*                                                                         *)
(* The frozen destination is checked once, before the send loop; the       *)
(* invariant DestinationInv says why that is enough.  A run in the loop    *)
(* that has the lease cannot be overtaken by a preparation, which needs    *)
(* the lease too, and once there are chunks the destination is frozen; a   *)
(* run that lost the lease sees so before it begins its next attempt.      *)
(***************************************************************************)
\* a delivery has a destination as soon as it has chunks
Addressed == \A d \in Delivery : ChunksOf(d) # {} => delivery[d].target \in Target

\* what has appeared in a chat appeared in the frozen one
Arrived == \A d \in Delivery : reached[d] # {} => ChunksOf(d) # {} /\ reached[d] \subseteq {delivery[d].target}

\* a run at a chunk goes to the frozen destination
Aimed == \A r \in Run : run[r].pc \in AtChunk =>
           ChunksOf(run[r].act) # {} /\ delivery[run[r].act].target = run[r].tgt

\* a run that has passed the check and has the lease may go on
Checked == \A r \in Run : At(r, "loop") /\ HoldsLease(r) => SameTarget(r)

DestinationInv ==
  /\ RunInv
  /\ reached \in [Delivery -> SUBSET Target]
  /\ Addressed /\ Arrived /\ Aimed /\ Checked

\* Only a preparation writes a destination, and only it makes chunks.
Settled(d) ==
  /\ delivery'[d].target = delivery[d].target
  /\ ChunksOf(d)' # {} => ChunksOf(d) # {}

PreparedBy(r, d) ==
  /\ At(r, "prepare") /\ HoldsLease(r) /\ UNCHANGED lease
  /\ delivery'[d].target = run[r].tgt
  /\ \A e \in Delivery : e # d => Settled(e)
  /\ run' = [run EXCEPT ![r].pc = "target", ![r].draft = <<>>]
  /\ UNCHANGED reached

LEMMA SameDeliveryTarget ==
  ASSUME RunInv, NEW e \in Delivery, NEW row, delivery' = [delivery EXCEPT ![e] = row],
         row.target = delivery[e].target, UNCHANGED chunk
  PROVE  \A d \in Delivery : Settled(d)
BY DEF RunInv, StoreTypeOK, Settled, ChunksOf

LEMMA DeliveryStepSettles ==
  ASSUME RunInv, NEW r \in Run, NEW e \in Delivery,
         \/ ReopenForCollection(r, e) \/ RecordCollectionAttempt(r, e) \/ SetCollectionRetry(r, e)
         \/ FailDelivery(r, e) \/ \E t \in Target : MarkTargetMismatch(r, e, t)
  PROVE  \A d \in Delivery : Settled(d)
<1>1. UNCHANGED chunk
  BY DEF ReopenForCollection, RecordCollectionAttempt, SetCollectionRetry, FailDelivery, MarkTargetMismatch
<1>2. \A d \in Delivery : delivery'[d].target = delivery[d].target
  BY DeliveryStepKeepsTarget DEF RunInv
<1> QED BY <1>1, <1>2 DEF Settled, ChunksOf

LEMMA ChunkStepSettles ==
  ASSUME RunInv, NEW e \in Delivery, NEW k \in Chunk,
         (\E r \in Run : ChunkStep(r, e, k)) \/ ResolveSent(e, k) \/ ResolveRetry(e, k)
  PROVE  \A d \in Delivery : Settled(d)
<1>1. \A d \in Delivery : delivery'[d].target = delivery[d].target
  BY ChunkStepKeepsTarget DEF RunInv
<1>2. OneChunkMoves
  BY RunMovesChunk, OperatorMovesChunk DEF RunInv
<1>3. \A d \in Delivery, j \in Chunk : chunk'[d][j].state = "none" <=> chunk[d][j].state = "none"
  BY <1>2 DEF OneChunkMoves, MoveOf, RunInv, StoreTypeOK
<1> QED BY <1>1, <1>3 DEF Settled, ChunksOf

LEMMA RecoverySettles ==
  ASSUME RunInv, RecoverExpiredLease
  PROVE  \A d \in Delivery : Settled(d)
<1>1. \A d \in Delivery : delivery[d] \in DeliveryRow /\ \A k \in Chunk : chunk[d][k] \in ChunkRow
  BY DEF RunInv, StoreTypeOK
<1>2. \A d \in Delivery : delivery'[d].target = delivery[d].target
  BY <1>1 DEF RecoverExpiredLease, AfterStranded, DeliveryRow
<1>3. \A d \in Delivery, k \in Chunk : chunk'[d][k].state = "none" <=> chunk[d][k].state = "none"
  BY <1>1 DEF RecoverExpiredLease, Stranded, ChunkRow
<1> QED BY <1>2, <1>3 DEF Settled, ChunksOf

LEMMA CreationSettles ==
  ASSUME RunInv, NEW r, NEW e \in Delivery, NEW date, NEW gen, NEW forced, NEW pred,
         CreateDelivery(r, e, date, gen, forced, pred)
  PROVE  \A d \in Delivery : Settled(d)
<1>1. ~Exists(e)
  BY DEF CreateDelivery, CanCreate, Delivery
<1>2. delivery[e].target = NoTarget
  BY <1>1 DEF RunInv, StoreTypeOK, NoDelivery
<1>3. [NoDelivery EXCEPT !.state = "collecting", !.date = date, !.gen = gen].target = NoTarget
  BY DEF NoDelivery
<1> DEFINE row == [NoDelivery EXCEPT !.state = "collecting", !.date = date, !.gen = gen]
<1>4. delivery' = [delivery EXCEPT ![e] = row] /\ UNCHANGED chunk
  BY DEF CreateDelivery
<1>5. row.target = delivery[e].target
  BY <1>2, <1>3
<1> HIDE DEF row
<1> QED BY <1>4, <1>5, SameDeliveryTarget

LEMMA StepSettles ==
  ASSUME RunInv, NEW r \in Run, Step(r)
  PROVE  (\A d \in Delivery : Settled(d)) \/ PreparedBy(r, run[r].act)
<1> USE DEF At
<1> DEFINE d == run[r].act
           k == Current(r)
<1>1. RunsOK
  BY DEF RunInv
<1>2. /\ ~At(r, "idle") => run[r].tgt \in Target
      /\ run[r].pc \in WithDelivery => d \in Delivery
      /\ run[r].pc \in AtChunk => k \in Chunk
  BY <1>1, PlaceFacts, CurrentIsLeast
<1> HIDE DEF d, k
<1>3. CASE UNCHANGED storeVars
  BY <1>3 DEF storeVars, Settled, ChunksOf
<1>4. \A ok : Refused(r, ok) => UNCHANGED storeVars
  BY DEF Refused
<1>5. CASE Recover(r)
  BY <1>3, <1>5, RecoverySettles DEF Recover, Recovers
<1>6. CASE Acquire(r) \/ Release(r)
  BY <1>3, <1>6 DEF Acquire, AcquireLease, Release, Releases, ReleaseLease, Settled, ChunksOf
<1>7. CASE Plan(r) \/ Collect(r) \/ Collected(r) \/ Select(r) \/ Loop(r) \/ Send(r)
  BY <1>3, <1>4, <1>7 DEF Plan, Collect, Collected, Select, Loop, Send
<1>8. CASE Reopen(r) \/ GiveUp(r) \/ AllFailed(r) \/ Defer(r) \/ Except(r)
  <2>1. d \in Delivery
    BY <1>2, <1>8 DEF Reopen, GiveUp, AllFailed, Defer, Except, WithDelivery
  <2> QED BY <1>3, <1>4, <1>8, <2>1, DeliveryStepSettles DEF Reopen, GiveUp, AllFailed, Defer, Except, d
<1>9. CASE Create(r)
  BY <1>3, <1>4, <1>9, CreationSettles DEF Create
<1>10. CASE CheckTarget(r)
  <2>1. d \in Delivery /\ run[r].tgt \in Target
    BY <1>2, <1>10 DEF CheckTarget, WithDelivery
  <2> QED BY <1>3, <1>4, <1>10, <2>1, DeliveryStepSettles DEF CheckTarget, d
<1>11. CASE Attempt(r) \/ Finish(r)
  <2>1. d \in Delivery /\ k \in Chunk
    BY <1>2, <1>11 DEF Attempt, Finish, WithDelivery, AtChunk
  <2>2. UNCHANGED storeVars \/ ChunkStep(r, d, k)
    BY <1>4, <1>11 DEF Attempt, Finish, ChunkStep, d, k
  <2> QED BY <1>3, <2>1, <2>2, ChunkStepSettles
<1>12. CASE Prepare(r)
  <2>1. CASE \E ok : Refused(r, ok)
    BY <1>3, <1>4, <2>1
  <2>2. CASE /\ PrepareDelivery(r, d, run[r].draft, run[r].tgt)
             /\ run' = [run EXCEPT ![r].pc = "target", ![r].draft = <<>>]
    <3>1. d \in Delivery /\ delivery[d] \in DeliveryRow
      BY <1>2, <1>12 DEF Prepare, WithDelivery, RunInv, StoreTypeOK
    <3>2. delivery'[d].target = run[r].tgt
      BY <2>2, <3>1 DEF PrepareDelivery, RunInv, StoreTypeOK, DeliveryRow
    <3>3. \A e \in Delivery : e # d => delivery'[e] = delivery[e] /\ chunk'[e] = chunk[e]
      BY <2>2, <3>1, ZenonT(60) DEF PrepareDelivery, RunInv, StoreTypeOK
    <3>4. HoldsLease(r) /\ UNCHANGED <<lease, reached>>
      BY <1>12, <2>2 DEF PrepareDelivery, CanPrepare, Prepare, envVars
    <3> QED BY <1>12, <2>2, <3>2, <3>3, <3>4 DEF PreparedBy, Settled, ChunksOf, Prepare, d
  <2> QED BY <1>12, <2>1, <2>2 DEF Prepare, d
<1> QED BY <1>5, <1>6, <1>7, <1>8, <1>9, <1>10, <1>11, <1>12 DEF Step

LEMMA WorldSettles ==
  ASSUME RunInv, Next, \A r \in Run : ~Step(r)
  PROVE  \A d \in Delivery : Settled(d)
<1>1. CASE UNCHANGED <<delivery, chunk>>
  BY <1>1 DEF Settled, ChunksOf
<1>2. ASSUME NEW r \in Run, Starts(r) \/ StoreFails(r) \/ Stops(r) \/ Crash(r)
      PROVE  UNCHANGED <<delivery, chunk>>
  BY <1>2 DEF Starts, Start, StoreFails, Stops, Crash, storeVars
<1>3. ExpireLease \/ DayTurns => UNCHANGED <<delivery, chunk>>
  BY DEF ExpireLease, LeaseExpires, DayTurns, storeVars
<1>4. ASSUME NEW e \in Delivery, Operator(e) \/ Clock(e)
      PROVE  \A d \in Delivery : Settled(d)
  <2>1. delivery[e] \in DeliveryRow
    BY DEF RunInv, StoreTypeOK
  <2>2. CASE RetryDue(e)
    BY <2>1, <2>2, SameDeliveryTarget DEF RetryDue, DeliveryRow
  <2>3. CASE BudgetElapses(e)
    BY <2>1, <2>3, SameDeliveryTarget DEF BudgetElapses, DeliveryRow
  <2>4. ASSUME NEW t \in Target, ReconcileDelivery(e, t)
        PROVE  \A d \in Delivery : Settled(d)
    <3> DEFINE row == [delivery[e] EXCEPT !.state = "prepared", !.mismatch = FALSE]
    <3>1. row.target = delivery[e].target
      BY <2>1 DEF DeliveryRow
    <3>2. delivery' = [delivery EXCEPT ![e] = row] /\ UNCHANGED chunk
      BY <2>4 DEF ReconcileDelivery
    <3> HIDE DEF row
    <3> QED BY <3>1, <3>2, SameDeliveryTarget
  <2> QED BY <1>4, <2>2, <2>3, <2>4, ChunkStepSettles DEF Operator, Clock
<1> QED BY <1>1, <1>2, <1>3, <1>4 DEF Next

-----------------------------------------------------------------------------
\* Places from which, and ways in which, a run comes to a chunk or to the loop.
Onward(r) ==
  /\ run'[r].act = run[r].act /\ run'[r].tgt = run[r].tgt
  /\ \/ run[r].pc \in AtChunk
     \/ At(r, "loop") /\ run'[r].pc = "loop"
     \/ At(r, "loop") /\ HoldsLease(r) /\ DueChunks(run[r].act) # {}
     \/ run'[r].pc = "loop" /\ SameTarget(r) /\ UNCHANGED delivery

LEMMA OwnStepOnward ==
  ASSUME RunInv, NEW r \in Run, Step(r), run'[r].pc \in AtChunk \cup {"loop"}
  PROVE  Onward(r)
<1> USE DEF At
<1>1. RunsOK /\ run[r] \in RunState
  BY DEF RunInv, RunsOK
<1>2. ASSUME NEW p, Goto(r, p)
      PROVE  run'[r].pc = p /\ run'[r].act = run[r].act /\ run'[r].tgt = run[r].tgt
  BY <1>1, <1>2 DEF Goto, RunsOK, RunState
<1>3. ASSUME NEW p, Goto(r, p)
      PROVE  p \in AtChunk \cup {"loop"}
  BY <1>2, <1>3
<1>4. ~End(r) /\ ~Raise(r)
  <2>1. ~End(r)
    BY <1>1 DEF End, RunsOK, Idle, AtChunk
  <2> QED BY <1>3, <2>1 DEF Raise, AtChunk
<1>5. \A ok : ~Refused(r, ok)
  BY <1>4 DEF Refused
<1>6. CASE Recover(r) \/ Acquire(r) \/ Reopen(r) \/ GiveUp(r) \/ Collect(r) \/ Collected(r)
           \/ AllFailed(r) \/ Defer(r) \/ Except(r) \/ Release(r)
  <2>1. ~Goto(r, "acquire") /\ ~Goto(r, "plan") /\ ~Goto(r, "recover2") /\ ~Goto(r, "collect")
        /\ ~Goto(r, "release") /\ ~Goto(r, "collected") /\ ~Goto(r, "allFailed") /\ ~Goto(r, "select")
        /\ ~Goto(r, "defer")
    BY <1>3 DEF AtChunk
  <2> QED BY <1>4, <1>5, <1>6, <2>1
          DEF Recover, Acquire, Reopen, GiveUp, Collect, Collected, AllFailed, Defer, Except, Release
<1>7. CASE Plan(r)
  <2>1. CASE Actives = {}
    <3>1. ~Goto(r, "create") /\ ~Goto(r, "release")
      BY <1>3 DEF AtChunk
    <3>2. \E p \in {"create", "release"} : Goto(r, p)
      BY <1>7, <2>1 DEF Plan
    <3> QED BY <3>1, <3>2
  <2>2. CASE Actives # {}
    <3> DEFINE p == IF run[r].force THEN "release" ELSE ResumeAt(ToResume(run[r].date))
    <3>1. p \notin AtChunk \cup {"loop"}
      BY DEF ResumeAt, AtChunk
    <3>2. run' = [run EXCEPT ![r].act = ToResume(run[r].date), ![r].pc = p]
      BY <1>7, <2>2 DEF Plan
    <3> HIDE DEF p
    <3> QED BY <1>1, <3>1, <3>2 DEF RunsOK, RunState
  <2> QED BY <2>1, <2>2
<1>8. CASE Create(r)
  <2>1. ASSUME NEW d, run' = [run EXCEPT ![r].pc = "collect", ![r].act = d]
        PROVE  run'[r].pc = "collect"
    BY <1>1, <2>1 DEF RunsOK, RunState
  <2> QED BY <1>5, <1>8, <2>1 DEF Create, AtChunk
<1>9. CASE Select(r)
  BY <1>1, <1>9 DEF Select, RunsOK, RunState, AtChunk
<1>10. CASE Prepare(r)
  <2>1. CASE run' = [run EXCEPT ![r].pc = "target", ![r].draft = <<>>]
    BY <1>1, <2>1 DEF RunsOK, RunState, AtChunk
  <2> QED BY <1>5, <1>10, <2>1 DEF Prepare, AtChunk
<1>11. CASE CheckTarget(r)
  <2>1. CASE SameTarget(r) /\ Goto(r, "loop") /\ UNCHANGED delivery
    BY <1>2, <2>1 DEF Onward
  <2>2. ~Goto(r, "release")
    BY <1>3 DEF AtChunk
  <2> QED BY <1>5, <1>11, <2>1, <2>2 DEF CheckTarget, storeVars
<1>12. CASE Loop(r)
  <2>1. CASE /\ HoldsLease(r)
             /\ run' = [run EXCEPT ![r].queue = DueChunks(run[r].act),
                           ![r].pc = IF DueChunks(run[r].act) = {} THEN "release" ELSE "attempt"]
    BY <1>1, <1>12, <2>1 DEF RunsOK, RunState, AtChunk, Onward, Loop
  <2> QED BY <1>5, <1>12, <2>1 DEF Loop, AtChunk
<1>13. CASE Attempt(r)
  BY <1>2, <1>5, <1>13 DEF Attempt, AtChunk, Onward
<1>14. CASE Send(r)
  BY <1>1, <1>14 DEF Send, RunsOK, RunState, AtChunk, Onward
<1>15. CASE Finish(r)
  <2>1. ASSUME NEW rest,
               run' = [run EXCEPT ![r].queue = rest, ![r].reply = "none", ![r].pc = AfterChunk(rest)]
        PROVE  Onward(r)
    BY <1>1, <1>15, <2>1 DEF Finish, RunsOK, RunState, AtChunk, Onward
  <2>2. ~Goto(r, "release")
    BY <1>3 DEF AtChunk
  <2> QED BY <1>5, <1>15, <2>1, <2>2 DEF Finish
<1> QED BY <1>6, <1>7, <1>8, <1>9, <1>10, <1>11, <1>12, <1>13, <1>14, <1>15 DEF Step

\* A step of one run leaves the others alone.
LEMMA OnlyItself ==
  ASSUME RunInv, NEW s \in Run, NEW r \in Run, r # s,
         Step(s) \/ Starts(s) \/ StoreFails(s) \/ Stops(s) \/ Crash(s)
  PROVE  run'[r] = run[r]
<1> USE DEF RunInv, RunsOK, Goto, End, Raise, Refused
<1>1. CASE Recover(s) \/ Acquire(s) \/ Plan(s) \/ Reopen(s) \/ Create(s) \/ GiveUp(s) \/ Collect(s)
  BY <1>1 DEF Recover, Acquire, Plan, Reopen, Create, GiveUp, Collect
<1>2. CASE Collected(s) \/ AllFailed(s) \/ Defer(s) \/ Select(s) \/ Prepare(s) \/ CheckTarget(s) \/ Loop(s)
  BY <1>2 DEF Collected, AllFailed, Defer, Select, Prepare, CheckTarget, Loop
<1>3. CASE Attempt(s) \/ Send(s) \/ Finish(s) \/ Except(s) \/ Release(s)
  BY <1>3 DEF Attempt, Send, Finish, Except, Release
<1>4. CASE Starts(s) \/ StoreFails(s) \/ Stops(s) \/ Crash(s)
  BY <1>4 DEF Starts, Start, StoreFails, Stops, Crash
<1> QED BY <1>1, <1>2, <1>3, <1>4 DEF Step

LEMMA NextOnward ==
  ASSUME RunInv, [Next]_vars, NEW r \in Run, run'[r].pc \in AtChunk \cup {"loop"}
  PROVE  Onward(r)
<1>1. CASE run'[r] = run[r]
  BY <1>1 DEF Onward, At
<1>2. CASE Step(r)
  BY <1>2, OwnStepOnward
<1>3. CASE Starts(r) \/ StoreFails(r) \/ Stops(r) \/ Crash(r)
  <2>1. RunsOK /\ run[r] \in RunState
    BY DEF RunInv, RunsOK
  <2>2. ASSUME NEW p, Goto(r, p)
        PROVE  run'[r].pc = p
    BY <2>1, <2>2 DEF Goto, RunsOK, RunState
  <2>3. ~Goto(r, "release") /\ ~Goto(r, "except")
    BY <2>2 DEF AtChunk
  <2>4. ~End(r)
    BY <2>1 DEF End, RunsOK, Idle, AtChunk
  <2>5. ~Starts(r)
    BY <2>1, ZenonT(60) DEF Starts, Start, RunsOK, Idle, AtChunk
  <2> QED BY <1>3, <2>3, <2>4, <2>5 DEF StoreFails, Raise, Stops, Crash
<1>4. \/ \E s \in Run : Step(s) \/ Starts(s) \/ StoreFails(s) \/ Stops(s) \/ Crash(s)
      \/ UNCHANGED run
  BY DEF Next, Operator, Clock, ExpireLease, DayTurns, vars
<1> QED BY <1>1, <1>2, <1>3, <1>4, OnlyItself

\* The lease comes to a run only when it acquires it.
LEMMA LeaseKeeper ==
  ASSUME RunInv, [Next]_vars, NEW r \in Run, ~At(r, "acquire"), HoldsLease(r)'
  PROVE  HoldsLease(r)
<1>1. CASE UNCHANGED lease
  BY <1>1 DEF HoldsLease
<1>2. CASE lease' = NoLease \/ ~lease'.live
  BY <1>2, StoreAssumption DEF NoLease, HoldsLease
<1>3. ASSUME NEW s \in Run, Step(s)
      PROVE  HoldsLease(r)
  <2>1. CASE Acquire(s)
    BY <1>1, <2>1 DEF Acquire, AcquireLease, HoldsLease, At, storeVars
  <2>2. CASE Recover(s) \/ Release(s)
    BY <1>1, <1>2, <2>2 DEF Recover, Recovers, RecoverExpiredLease, Release, Releases, ReleaseLease, storeVars
  <2>3. CASE Plan(s) \/ Reopen(s) \/ Create(s) \/ GiveUp(s) \/ Collect(s) \/ Collected(s) \/ AllFailed(s)
    BY <1>1, <2>3
    DEF Plan, Reopen, ReopenForCollection, Create, CreateDelivery, GiveUp, FailDelivery, Collect,
        Collected, AllFailed, RecordCollectionAttempt, Refused, storeVars
  <2>4. CASE Defer(s) \/ Select(s) \/ Prepare(s) \/ CheckTarget(s) \/ Loop(s) \/ Attempt(s) \/ Send(s)
    BY <1>1, <2>4, ZenonT(60)
    DEF Defer, FailDelivery, SetCollectionRetry, Select, Prepare, PrepareDelivery, CheckTarget,
        MarkTargetMismatch, Loop, Attempt, BeginChunkAttempt, Send, Refused, storeVars
  <2>5. CASE Finish(s) \/ Except(s)
    BY <1>1, <2>5
    DEF Finish, AcceptChunk, AmbiguousChunk, RejectChunkRetryable, RejectChunkTerminal, Except,
        FailDelivery, Refused, storeVars
  <2> QED BY <1>3, <2>1, <2>2, <2>3, <2>4, <2>5 DEF Step
<1>4. CASE ExpireLease
  BY <1>2, <1>4 DEF ExpireLease, LeaseExpires, RunInv, StoreTypeOK, LeaseOK
<1>5. ASSUME NEW s \in Run, Starts(s) \/ StoreFails(s) \/ Stops(s) \/ Crash(s)
      PROVE  HoldsLease(r)
  BY <1>1, <1>5 DEF Starts, Start, StoreFails, Stops, Crash, storeVars
<1>6. ASSUME NEW d \in Delivery, Operator(d) \/ Clock(d)
      PROVE  HoldsLease(r)
  <2>1. ASSUME NEW k \in Chunk, ResolveSent(d, k)
        PROVE  HoldsLease(r)
    BY <1>1, <2>1 DEF ResolveSent
  <2>2. ASSUME NEW k \in Chunk, ResolveRetry(d, k)
        PROVE  HoldsLease(r)
    BY <1>1, <2>2 DEF ResolveRetry, Requeue
  <2>3. ASSUME NEW t \in Target, ReconcileDelivery(d, t)
        PROVE  HoldsLease(r)
    BY <1>1, <2>3 DEF ReconcileDelivery
  <2>4. CASE RetryDue(d)
    BY <1>1, <2>4 DEF RetryDue
  <2>5. CASE BudgetElapses(d)
    BY <1>1, <2>5 DEF BudgetElapses
  <2> QED BY <1>6, <2>1, <2>2, <2>3, <2>4, <2>5 DEF Operator, Clock
<1>7. CASE DayTurns \/ UNCHANGED vars
  BY <1>1, <1>7 DEF DayTurns, vars, storeVars
<1> QED BY <1>3, <1>4, <1>5, <1>6, <1>7 DEF Next

LEMMA Arrivals ==
  ASSUME DestinationInv, [Next]_vars, NEW d \in Delivery
  PROVE  /\ reached' \in [Delivery -> SUBSET Target]
         /\ reached'[d] # {} => ChunksOf(d) # {} /\ reached'[d] \subseteq {delivery[d].target}
<1>1. CASE UNCHANGED reached
  BY <1>1 DEF DestinationInv, Arrived
<1>2. ASSUME NEW r \in Run, Send(r)
      PROVE  /\ reached' \in [Delivery -> SUBSET Target]
             /\ reached'[d] # {} => ChunksOf(d) # {} /\ reached'[d] \subseteq {delivery[d].target}
  <2>1. /\ run[r].act \in Delivery /\ run[r].tgt \in Target
        /\ ChunksOf(run[r].act) # {} /\ delivery[run[r].act].target = run[r].tgt
    BY <1>2, PlaceFacts DEF DestinationInv, Aimed, Send, At, AtChunk, WithDelivery, RunInv
  <2>2. \/ UNCHANGED reached
        \/ reached' = [reached EXCEPT ![run[r].act] = @ \cup {run[r].tgt}]
    BY <1>2 DEF Send
  <2> QED BY <1>1, <2>1, <2>2 DEF DestinationInv, Arrived
<1>3. ASSUME NEW r \in Run, Step(r), ~Send(r)
      PROVE  UNCHANGED reached
  <2>1. CASE Recover(r) \/ Acquire(r) \/ Plan(r) \/ Reopen(r) \/ Create(r) \/ GiveUp(r)
    BY <2>1 DEF Recover, Acquire, Plan, Reopen, Create, GiveUp, envVars
  <2>2. CASE Collect(r) \/ Collected(r) \/ AllFailed(r) \/ Defer(r) \/ Select(r) \/ Prepare(r)
    BY <2>2 DEF Collect, Collected, AllFailed, Defer, Select, Prepare, envVars
  <2>3. CASE CheckTarget(r) \/ Loop(r) \/ Attempt(r) \/ Finish(r) \/ Except(r) \/ Release(r)
    BY <2>3 DEF CheckTarget, Loop, Attempt, Finish, Except, Release, envVars
  <2> QED BY <1>3, <2>1, <2>2, <2>3 DEF Step
<1>4. ASSUME NEW r \in Run, Starts(r) \/ StoreFails(r) \/ Stops(r) \/ Crash(r)
      PROVE  UNCHANGED reached
  BY <1>4 DEF Starts, Start, StoreFails, Stops, Crash, envVars
<1>5. CASE (\E e \in Delivery : Operator(e) \/ Clock(e)) \/ ExpireLease \/ DayTurns \/ UNCHANGED vars
  BY <1>1, <1>5 DEF Operator, Clock, ExpireLease, DayTurns, envVars, vars
<1>6. UNCHANGED reached \/ \E r \in Run : Send(r)
  BY <1>3, <1>4, <1>5 DEF Next, Operator, Clock, ExpireLease, DayTurns, envVars, vars
<1> QED BY <1>1, <1>2, <1>6

LEMMA DestinationStep ==
  ASSUME DestinationInv, [Next]_vars
  PROVE  DestinationInv'
<1> USE DEF At
<1>1. RunInv /\ StoreTypeOK /\ RunInv' /\ [StoreNext]_storeVars
  BY NextStep DEF DestinationInv, RunInv
<1>2. ASSUME NEW d \in Delivery, ChunksOf(d) # {}
      PROVE  delivery'[d].target = delivery[d].target /\ ChunksOf(d)' # {}
  BY <1>1, <1>2, TargetSteps, ChunksKept DEF ChunksOf, storeVars
<1>3. (\A d \in Delivery : Settled(d)) \/ \E r \in Run : PreparedBy(r, run[r].act)
  <2>1. CASE UNCHANGED vars
    BY <2>1 DEF vars, storeVars, Settled, ChunksOf
  <2> QED BY <1>1, <2>1, StepSettles, WorldSettles
<1>4. Addressed'
  <2> SUFFICES ASSUME NEW d \in Delivery, ChunksOf(d)' # {}
               PROVE  delivery'[d].target \in Target
    BY DEF Addressed
  <2>1. CASE ChunksOf(d) # {}
    BY <1>2, <2>1 DEF DestinationInv, Addressed
  <2>2. CASE ChunksOf(d) = {}
    <3>1. PICK r \in Run : PreparedBy(r, run[r].act) /\ run[r].act = d
      BY <1>3, <2>2 DEF Settled, PreparedBy
    <3> QED BY <1>1, <3>1, PlaceFacts DEF PreparedBy, RunInv
  <2> QED BY <2>1, <2>2
<1>5. Arrived' /\ reached' \in [Delivery -> SUBSET Target]
  <2>1. \A d \in Delivery : reached'[d] # {} => ChunksOf(d)' # {} /\ reached'[d] \subseteq {delivery'[d].target}
    BY <1>2, Arrivals
  <2>2. reached' \in [Delivery -> SUBSET Target]
    BY Arrivals, StoreAssumption DEF Delivery
  <2> QED BY <2>1, <2>2 DEF Arrived
<1>6. Aimed'
  <2> SUFFICES ASSUME NEW r \in Run, run'[r].pc \in AtChunk
               PROVE  /\ {k \in Chunk : chunk'[run'[r].act][k].state # "none"} # {}
                      /\ delivery'[run'[r].act].target = run'[r].tgt
    BY DEF Aimed, ChunksOf
  <2> DEFINE d == run[r].act
  <2>1. Onward(r)
    BY <1>1, NextOnward
  <2>2. run'[r].act = run[r].act /\ run'[r].tgt = run[r].tgt /\ run[r].act \in Delivery
    BY <1>1, <2>1, PlaceFacts DEF Onward, RunInv, RunsOK, RunOK, WithDelivery, AtChunk
  <2>3. ChunksOf(run[r].act) # {} /\ delivery[run[r].act].target = run[r].tgt
    <3>1. CASE run[r].pc \in AtChunk
      BY <3>1 DEF DestinationInv, Aimed
    <3>2. CASE At(r, "loop") /\ HoldsLease(r) /\ DueChunks(run[r].act) # {}
      <4>1. ChunksOf(run[r].act) # {}
        BY <3>2 DEF DueChunks, ChunksOf
      <4>2. delivery[run[r].act].target \in Target /\ SameTarget(r)
        BY <2>2, <3>2, <4>1 DEF DestinationInv, Addressed, Checked
      <4> QED BY <4>1, <4>2, StoreAssumption DEF SameTarget
    <3> QED BY <2>1, <3>1, <3>2 DEF Onward, AtChunk
  <2> QED BY <1>2, <2>2, <2>3 DEF ChunksOf
<1>7. Checked'
  <2> SUFFICES ASSUME NEW r \in Run, run'[r].pc = "loop", HoldsLease(r)'
               PROVE  delivery'[run'[r].act].target \in {NoTarget, run'[r].tgt}
    BY DEF Checked, SameTarget
  <2>1. Onward(r)
    BY <1>1, NextOnward
  <2>2. run'[r].act = run[r].act /\ run'[r].tgt = run[r].tgt /\ run'[r].act \in Delivery
    BY <1>1, <2>1 DEF Onward, RunInv, RunsOK, RunOK, WithDelivery
  <2>3. CASE run[r].pc \in AtChunk
    BY <1>2, <2>2, <2>3 DEF DestinationInv, Aimed
  <2>4. CASE SameTarget(r) /\ UNCHANGED delivery
    BY <2>2, <2>4 DEF SameTarget
  <2>5. CASE At(r, "loop")
    <3>1. HoldsLease(r) /\ SameTarget(r)
      BY <1>1, <2>5, LeaseKeeper DEF DestinationInv, Checked
    <3>2. Settled(run[r].act)
      BY <1>3, <2>2, <2>5, <3>1 DEF PreparedBy, HoldsLease
    <3> QED BY <2>2, <3>1, <3>2 DEF Settled, SameTarget
  <2> QED BY <2>1, <2>3, <2>4, <2>5 DEF Onward
<1> QED BY <1>1, <1>4, <1>5, <1>6, <1>7 DEF DestinationInv

LEMMA DestinationInit == Init => DestinationInv
<1> SUFFICES ASSUME Init PROVE DestinationInv
  OBVIOUS
<1>1. RunInv
  BY RunInit
<1>2. \A d \in Delivery : ChunksOf(d) = {} /\ reached[d] = {}
  BY DEF Init, StoreInit, NoChunk, ChunksOf
<1>3. \A r \in Run : run[r].pc = "idle"
  BY DEF Init, Idle
<1>4. reached \in [Delivery -> SUBSET Target]
  BY DEF Init
<1> QED BY <1>1, <1>2, <1>3, <1>4 DEF DestinationInv, Addressed, Arrived, Aimed, Checked, At, AtChunk

\* All messages of a delivery reach the one destination frozen with it, also
\* when runs configured for other destinations resume it.
THEOREM OneChatPerDelivery == Spec => []OneDestination
<1>1. DestinationInv => OneDestination
  BY DEF DestinationInv, Arrived, OneDestination
<1> QED BY <1>1, DestinationInit, DestinationStep, PTL DEF Spec

-----------------------------------------------------------------------------
(***************************************************************************)
(* The plans: generations stack on completed ones (OneOpenGeneration), a   *)
(* delivery in doubt says so (AmbiguousNeedsAttention), and no story       *)
(* appears in the chat twice (NoRepeatedStory).                            *)
(*                                                                         *)
(* A run decides at its start and writes much later: between the reading   *)
(* of the open deliveries and create_delivery, or between the selection    *)
(* and prepare_delivery, stand other runs, recoveries, the operator and    *)
(* the clock.  Reserved(r) says what survives while the run has the lease; *)
(* the methods check the lease again, so no more is needed.  TableStep     *)
(* sorts the steps of run_once by what they do to the tables, and the      *)
(* conjuncts of PlanInv are shown to survive each sort.                    *)
(***************************************************************************)
Waiting == {"collecting", "retry_wait"}

\* places at which a run works on a delivery that has no chunks yet
BeforeFreeze == {"reopen", "collect", "collected", "allFailed", "defer", "select", "prepare"}

\* places at which a run works through its queue
InQueue == {"attempt", "send", "finish"}

UniqueGenerations ==
  \A d, e \in Delivery :
    Exists(d) /\ Exists(e) /\ d # e /\ delivery[d].date = delivery[e].date => delivery[d].gen # delivery[e].gen

\* A delivery that waits for its collection has no chunks, or one to retry.
WaitsForReason ==
  \A d \in Delivery : delivery[d].state \in Waiting =>
    Unprepared(d) \/ (delivery[d].state = "retry_wait" /\ HasState(d, "retry_wait"))

\* What a run found when it planned still holds while it has the lease.
Reserved(r) ==
  HoldsLease(r) =>
    /\ At(r, "create") => \A d \in Delivery : Exists(d) =>
         /\ delivery[d].state \in Terminal
         /\ delivery[d].date = run[r].date => delivery[d].state \in Completed
    /\ run[r].pc \in BeforeFreeze => Unprepared(run[r].act)
    /\ At(r, "prepare") => Unseen(run[r].draft)
    /\ At(r, "giveup") /\ ~BudgetMayElapse => ~HasState(run[r].act, "in_flight")
    /\ run[r].pc \in InQueue => \A k \in run[r].queue :
         \/ chunk[run[r].act][k].state \in {"pending", "retry_wait"}
         \/ ~At(r, "attempt") /\ k = Current(r)

-----------------------------------------------------------------------------
\* What a step does to the tables.
KeptRow(d) ==
  /\ delivery'[d].date = delivery[d].date
  /\ delivery'[d].gen = delivery[d].gen
  /\ delivery'[d].spent => delivery[d].spent \/ BudgetMayElapse

SameRow(d) == KeptRow(d) /\ delivery'[d].state = delivery[d].state

OthersSame(d) == \A e \in Delivery : e # d => SameRow(e)

Rests == UNCHANGED <<chunk, history>> /\ \A d \in Delivery : SameRow(d)

Creates(r, d) ==
  /\ At(r, "create") /\ HoldsLease(r)
  /\ UNCHANGED <<chunk, history>>
  /\ \A e \in Delivery : Exists(e) <=> e < d
  /\ OthersSame(d)
  /\ delivery'[d].state = "collecting"
  /\ delivery'[d].date = run[r].date
  /\ delivery'[d].gen = NextGeneration(run[r].date)
  /\ ~delivery'[d].spent

\* the delivery's state changes and nothing else
Relabelled(d, old, new) ==
  \/ old \in Waiting /\ new \in Waiting /\ Unprepared(d)
  \/ /\ old \notin Terminal \cup {"absent", "needs_attention"} /\ new = "failed_terminal"
     /\ ~BudgetMayElapse => ~HasState(d, "in_flight")
  \/ old \notin Terminal \cup {"absent"} /\ new = "needs_attention"
  \/ /\ old = "needs_attention" /\ new = "prepared"
     /\ \A k \in Chunk : chunk[d][k].state \in {"none", "pending"}

Relabels(d) ==
  /\ UNCHANGED <<chunk, history>>
  /\ OthersSame(d) /\ KeptRow(d)
  /\ Relabelled(d, delivery[d].state, delivery'[d].state)

Freezes(r, d, digest) ==
  /\ At(r, "prepare") /\ HoldsLease(r) /\ run[r].draft = digest
  /\ UNCHANGED history
  /\ delivery[d].state \in Waiting /\ Unprepared(d)
  /\ \A j, k \in DOMAIN digest : j # k => digest[j] \cap digest[k] = {}
  /\ chunk' = [chunk EXCEPT ![d] =
                 [k \in Chunk |->
                    IF k \in DOMAIN digest
                    THEN [NoChunk EXCEPT !.state = "pending", !.items = digest[k]]
                    ELSE @[k]]]
  /\ OthersSame(d) /\ KeptRow(d)
  /\ delivery'[d].state \in {"prepared", "prepared_empty"}

\* the states of a chunk whose attempt has ended, and of its delivery
Outcome(c, s) ==
  \/ c = "sent" /\ s \in Completed \cup {"sending"}
  \/ c = "pending" /\ s = "sending"
  \/ c = "ambiguous" /\ s = "needs_attention"
  \/ c \in {"retry_wait", "failed_terminal"} /\ s = c

MovedChunk(d, old, new) ==
  \/ /\ old \in {"pending", "retry_wait"} /\ new = "in_flight"
     /\ delivery[d].state \notin Terminal \cup {"absent", "needs_attention"}
     /\ delivery'[d].state = "sending"
  \/ old \in OpenStates /\ Outcome(new, delivery'[d].state)

Moves(d, k) ==
  /\ \A e \in Delivery, j \in Chunk :
       /\ chunk'[e][j].items = chunk[e][j].items
       /\ <<e, j>> # <<d, k>> => chunk'[e][j] = chunk[e][j]
  /\ OthersSame(d) /\ KeptRow(d)
  /\ MovedChunk(d, chunk[d][k].state, chunk'[d][k].state)

TableStep ==
  \/ Rests
  \/ RecoverExpiredLease
  \/ \E r \in Run, d \in Delivery : Creates(r, d)
  \/ \E d \in Delivery : Relabels(d)
  \/ \E r \in Run, d \in Delivery, digest \in Digest : Freezes(r, d, digest)
  \/ \E d \in Delivery, k \in Chunk : Moves(d, k)

LEMMA RowRests ==
  ASSUME StoreTypeOK, UNCHANGED <<chunk, history>>, NEW d \in Delivery, NEW row,
         delivery' = [delivery EXCEPT ![d] = row],
         row.state = delivery[d].state, row.date = delivery[d].date, row.gen = delivery[d].gen,
         row.spent => delivery[d].spent \/ BudgetMayElapse
  PROVE  Rests
BY DEF Rests, SameRow, KeptRow, StoreTypeOK

LEMMA RowRelabels ==
  ASSUME StoreTypeOK, UNCHANGED <<chunk, history>>, NEW d \in Delivery, NEW row,
         delivery' = [delivery EXCEPT ![d] = row],
         Relabelled(d, delivery[d].state, row.state), row.date = delivery[d].date, row.gen = delivery[d].gen,
         row.spent = delivery[d].spent
  PROVE  Relabels(d)
BY DEF Relabels, OthersSame, SameRow, KeptRow, StoreTypeOK

LEMMA RowMoves ==
  ASSUME StoreTypeOK, NEW d \in Delivery, NEW k \in Chunk, NEW row, NEW new,
         delivery' = [delivery EXCEPT ![d] = row], chunk' = [chunk EXCEPT ![d][k] = new],
         new.items = chunk[d][k].items,
         row.date = delivery[d].date, row.gen = delivery[d].gen, row.spent => delivery[d].spent,
         \/ /\ chunk[d][k].state \in {"pending", "retry_wait"} /\ new.state = "in_flight"
            /\ delivery[d].state \notin Terminal \cup {"absent", "needs_attention"}
            /\ row.state = "sending"
         \/ chunk[d][k].state \in OpenStates /\ Outcome(new.state, row.state)
  PROVE  Moves(d, k)
<1>1. delivery'[d] = row /\ chunk'[d][k] = new
  BY DEF StoreTypeOK
<1>2. OthersSame(d) /\ KeptRow(d)
  BY DEF OthersSame, SameRow, KeptRow, StoreTypeOK
<1>3. \A e \in Delivery, j \in Chunk : <<e, j>> # <<d, k>> => chunk'[e][j] = chunk[e][j]
  BY DEF StoreTypeOK
<1>4. MovedChunk(d, chunk[d][k].state, chunk'[d][k].state)
  BY <1>1 DEF MovedChunk
<1> QED BY <1>1, <1>2, <1>3, <1>4 DEF Moves

LEMMA RunTablesRest ==
  ASSUME UNCHANGED <<delivery, chunk, history>>
  PROVE  Rests
BY DEF Rests, SameRow, KeptRow

-----------------------------------------------------------------------------
\* how each method changes the tables
LEMMA FailRelabels ==
  ASSUME StoreTypeOK, NEW r \in Run, NEW d \in Delivery, FailDelivery(r, d),
         ~BudgetMayElapse => ~HasState(d, "in_flight")
  PROVE  Relabels(d)
<1> DEFINE row == [delivery[d] EXCEPT !.state = "failed_terminal", !.mismatch = FALSE]
<1>1. delivery[d] \in DeliveryRow
  BY DEF StoreTypeOK
<1>2. row.state = "failed_terminal" /\ row.date = delivery[d].date /\ row.gen = delivery[d].gen
      /\ row.spent = delivery[d].spent
  BY <1>1 DEF DeliveryRow
<1>3. delivery' = [delivery EXCEPT ![d] = row] /\ UNCHANGED <<chunk, history>>
  BY DEF FailDelivery
<1>4. Relabelled(d, delivery[d].state, row.state)
  BY <1>2 DEF FailDelivery, CanFail, Exists, Relabelled
<1> HIDE DEF row
<1> QED BY <1>2, <1>3, <1>4, RowRelabels

LEMMA WaitRelabels ==
  ASSUME StoreTypeOK, NEW r \in Run, NEW d \in Delivery, Unprepared(d),
         ReopenForCollection(r, d) \/ SetCollectionRetry(r, d)
  PROVE  Relabels(d)
<1>1. delivery[d] \in DeliveryRow
  BY DEF StoreTypeOK
<1>2. CASE ReopenForCollection(r, d)
  <2> DEFINE row == [delivery[d] EXCEPT !.state = "collecting", !.mismatch = FALSE]
  <2>1. row.state = "collecting" /\ row.date = delivery[d].date /\ row.gen = delivery[d].gen
        /\ row.spent = delivery[d].spent
    BY <1>1 DEF DeliveryRow
  <2>2. delivery' = [delivery EXCEPT ![d] = row] /\ UNCHANGED <<chunk, history>>
    BY <1>2 DEF ReopenForCollection
  <2>3. Relabelled(d, delivery[d].state, row.state)
    BY <1>2, <2>1 DEF ReopenForCollection, CanReopen, Relabelled, Waiting
  <2> HIDE DEF row
  <2> QED BY <2>1, <2>2, <2>3, RowRelabels
<1>3. CASE SetCollectionRetry(r, d)
  <2> DEFINE row == [delivery[d] EXCEPT !.state = "retry_wait", !.due = FALSE, !.mismatch = FALSE]
  <2>1. row.state = "retry_wait" /\ row.date = delivery[d].date /\ row.gen = delivery[d].gen
        /\ row.spent = delivery[d].spent
    BY <1>1 DEF DeliveryRow
  <2>2. delivery' = [delivery EXCEPT ![d] = row] /\ UNCHANGED <<chunk, history>>
    BY <1>3 DEF SetCollectionRetry
  <2>3. Relabelled(d, delivery[d].state, row.state)
    BY <1>3, <2>1 DEF SetCollectionRetry, CanSetRetry, Relabelled, Waiting
  <2> HIDE DEF row
  <2> QED BY <2>1, <2>2, <2>3, RowRelabels
<1> QED BY <1>2, <1>3

LEMMA MismatchRelabels ==
  ASSUME StoreTypeOK, NEW r \in Run, NEW d \in Delivery, NEW t, MarkTargetMismatch(r, d, t)
  PROVE  Rests \/ Relabels(d)
<1>1. delivery[d] \in DeliveryRow /\ delivery[d].state # "absent"
  BY DEF StoreTypeOK, MarkTargetMismatch, CanMarkMismatch, Exists
<1>2. CASE delivery' = delivery
  BY <1>2, RunTablesRest DEF MarkTargetMismatch
<1>3. CASE delivery' # delivery
  <2> DEFINE row == [delivery[d] EXCEPT !.state = "needs_attention", !.mismatch = TRUE]
  <2>1. row.state = "needs_attention" /\ row.date = delivery[d].date /\ row.gen = delivery[d].gen
        /\ row.spent = delivery[d].spent
    BY <1>1 DEF DeliveryRow
  <2>2. delivery' = [delivery EXCEPT ![d] = row] /\ UNCHANGED <<chunk, history>>
    BY <1>3 DEF MarkTargetMismatch
  <2>3. delivery[d].state \notin Terminal
    BY <1>3 DEF MarkTargetMismatch
  <2>4. Relabelled(d, delivery[d].state, row.state)
    BY <1>1, <2>1, <2>3 DEF Relabelled
  <2> HIDE DEF row
  <2> QED BY <2>1, <2>2, <2>4, RowRelabels
<1> QED BY <1>2, <1>3

LEMMA ReconcileRelabels ==
  ASSUME StoreTypeOK, NEW d \in Delivery, NEW t, ReconcileDelivery(d, t)
  PROVE  Relabels(d)
<1> DEFINE row == [delivery[d] EXCEPT !.state = "prepared", !.mismatch = FALSE]
<1>1. delivery[d] \in DeliveryRow
  BY DEF StoreTypeOK
<1>2. row.state = "prepared" /\ row.date = delivery[d].date /\ row.gen = delivery[d].gen
      /\ row.spent = delivery[d].spent
  BY <1>1 DEF DeliveryRow
<1>3. delivery' = [delivery EXCEPT ![d] = row] /\ UNCHANGED <<chunk, history>>
  BY DEF ReconcileDelivery
<1>4. delivery[d].state = "needs_attention" /\ \A k \in Chunk : chunk[d][k].state \in {"none", "pending"}
  BY DEF ReconcileDelivery, ChunksOf
<1>5. Relabelled(d, delivery[d].state, row.state)
  BY <1>2, <1>4 DEF Relabelled
<1> HIDE DEF row
<1> QED BY <1>2, <1>3, <1>5, RowRelabels

LEMMA CountingRests ==
  ASSUME StoreTypeOK, NEW r \in Run, NEW d \in Delivery, RecordCollectionAttempt(r, d)
  PROVE  Rests
<1> DEFINE row == [delivery[d] EXCEPT !.collections = CountUp(delivery[d].collections),
                                      !.spent = delivery[d].spent /\ Attempted(d)]
<1>1. delivery[d] \in DeliveryRow
  BY DEF StoreTypeOK
<1>2. row.state = delivery[d].state /\ row.date = delivery[d].date /\ row.gen = delivery[d].gen
      /\ (row.spent => delivery[d].spent)
  BY <1>1 DEF DeliveryRow
<1>3. delivery' = [delivery EXCEPT ![d] = row] /\ UNCHANGED <<chunk, history>>
  BY DEF RecordCollectionAttempt
<1> HIDE DEF row
<1> QED BY <1>2, <1>3, RowRests

LEMMA ClockRests ==
  ASSUME StoreTypeOK, NEW d \in Delivery, Clock(d)
  PROVE  Rests
<1>1. delivery[d] \in DeliveryRow
  BY DEF StoreTypeOK
<1>2. CASE RetryDue(d)
  <2> DEFINE row == [delivery[d] EXCEPT !.due = TRUE]
  <2>1. row.state = delivery[d].state /\ row.date = delivery[d].date /\ row.gen = delivery[d].gen
        /\ row.spent = delivery[d].spent
    BY <1>1 DEF DeliveryRow
  <2>2. delivery' = [delivery EXCEPT ![d] = row] /\ UNCHANGED <<chunk, history>>
    BY <1>2 DEF RetryDue
  <2> HIDE DEF row
  <2> QED BY <2>1, <2>2, RowRests
<1>3. CASE BudgetMayElapse /\ BudgetElapses(d)
  <2> DEFINE row == [delivery[d] EXCEPT !.spent = TRUE]
  <2>1. row.state = delivery[d].state /\ row.date = delivery[d].date /\ row.gen = delivery[d].gen
    BY <1>1 DEF DeliveryRow
  <2>2. delivery' = [delivery EXCEPT ![d] = row] /\ UNCHANGED <<chunk, history>>
    BY <1>3 DEF BudgetElapses
  <2> HIDE DEF row
  <2> QED BY <1>3, <2>1, <2>2, RowRests
<1> QED BY <1>2, <1>3 DEF Clock

LEMMA CreationCreates ==
  ASSUME StoreTypeOK, NEW r \in Run, NEW d \in Delivery, NEW pred, At(r, "create"),
         CreateDelivery(r, d, run[r].date, NextGeneration(run[r].date), run[r].force, pred)
  PROVE  Creates(r, d)
<1> DEFINE gen == NextGeneration(run[r].date)
           row == [NoDelivery EXCEPT !.state = "collecting", !.date = run[r].date, !.gen = gen]
<1>1. delivery' = [delivery EXCEPT ![d] = row] /\ UNCHANGED <<chunk, history>>
  BY DEF CreateDelivery
<1>2. HoldsLease(r) /\ \A e \in Delivery : Exists(e) <=> e < d
  BY DEF CreateDelivery, CanCreate
<1> HIDE DEF gen
<1>3. row.state = "collecting" /\ row.date = run[r].date /\ row.gen = gen /\ ~row.spent
  BY DEF NoDelivery
<1> HIDE DEF row
<1>4. delivery'[d] = row /\ OthersSame(d)
  BY <1>1 DEF OthersSame, SameRow, KeptRow, StoreTypeOK
<1> QED BY <1>1, <1>2, <1>3, <1>4 DEF Creates, gen

LEMMA PreparationFreezes ==
  ASSUME StoreTypeOK, NEW r \in Run, NEW d \in Delivery, NEW t, At(r, "prepare"),
         PrepareDelivery(r, d, run[r].draft, t)
  PROVE  Freezes(r, d, run[r].draft)
<1> DEFINE digest == run[r].draft
           s == IF \A k \in DOMAIN digest : digest[k] = {} THEN "prepared_empty" ELSE "prepared"
           row == [delivery[d] EXCEPT !.state = s, !.target = t]
<1>1. delivery[d] \in DeliveryRow
  BY DEF StoreTypeOK
<1>2. delivery' = [delivery EXCEPT ![d] = row] /\ UNCHANGED history
  BY DEF PrepareDelivery
<1>3. s \in {"prepared", "prepared_empty"}
  OBVIOUS
<1> HIDE DEF s
<1>4. row.state = s /\ row.date = delivery[d].date /\ row.gen = delivery[d].gen
      /\ row.spent = delivery[d].spent
  BY <1>1 DEF DeliveryRow
<1> HIDE DEF row
<1>5. delivery'[d] = row /\ OthersSame(d) /\ KeptRow(d)
  BY <1>2, <1>4 DEF OthersSame, SameRow, KeptRow, StoreTypeOK
<1>6. /\ chunk' = [chunk EXCEPT ![d] =
                 [k \in Chunk |->
                    IF k \in DOMAIN digest
                    THEN [NoChunk EXCEPT !.state = "pending", !.items = digest[k]]
                    ELSE @[k]]]
  BY DEF PrepareDelivery
<1>7. /\ HoldsLease(r) /\ delivery[d].state \in Waiting /\ Unprepared(d)
      /\ \A j, k \in DOMAIN digest : j # k => digest[j] \cap digest[k] = {}
  BY DEF PrepareDelivery, CanPrepare, Waiting
<1> QED BY <1>2, <1>3, <1>4, <1>5, <1>6, <1>7 DEF Freezes

\* The methods that move one chunk.
LEMMA BeginMoves ==
  ASSUME StoreTypeOK, WaitsForReason, NEW r \in Run, NEW d \in Delivery, NEW k \in Chunk,
         BeginChunkAttempt(r, d, k)
  PROVE  Moves(d, k)
<1> DEFINE s == IF delivery[d].state = "collecting" THEN "collecting" ELSE "sending"
           new == [chunk[d][k] EXCEPT !.state = "in_flight", !.attempts = CountUp(chunk[d][k].attempts),
                                      !.run = r, !.safe = FALSE]
           row == [delivery[d] EXCEPT !.state = s, !.spent = delivery[d].spent /\ Attempted(d)]
<1>1. delivery[d] \in DeliveryRow /\ chunk[d][k] \in ChunkRow
  BY DEF StoreTypeOK
<1>2. chunk[d][k].state \in {"pending", "retry_wait"}
      /\ delivery[d].state \notin Terminal \cup {"needs_attention"}
  BY DEF BeginChunkAttempt, CanBegin, DueChunks
<1>3. delivery[d].state # "absent"
  BY <1>2 DEF StoreTypeOK, Exists
<1>4. delivery[d].state # "collecting"
  BY <1>2 DEF WaitsForReason, Waiting, Unprepared, ChunksOf
<1>5. s = "sending"
  BY <1>4
<1> HIDE DEF s
<1>6. new.state = "in_flight" /\ new.items = chunk[d][k].items
  BY <1>1 DEF ChunkRow
<1>7. row.state = "sending" /\ row.date = delivery[d].date /\ row.gen = delivery[d].gen
      /\ (row.spent => delivery[d].spent)
  BY <1>1, <1>5 DEF DeliveryRow
<1>8. delivery' = [delivery EXCEPT ![d] = row] /\ chunk' = [chunk EXCEPT ![d][k] = new]
  BY DEF BeginChunkAttempt, s
<1> HIDE DEF new, row
<1> QED BY <1>2, <1>3, <1>6, <1>7, <1>8, RowMoves

LEMMA FinishMoves ==
  ASSUME StoreTypeOK, NEW r \in Run, NEW d \in Delivery, NEW k \in Chunk,
         \/ AcceptChunk(r, d, k) \/ RejectChunkRetryable(r, d, k) \/ RejectChunkTerminal(r, d, k, FALSE)
         \/ AmbiguousChunk(r, d, k)
  PROVE  Moves(d, k)
<1>1. delivery[d] \in DeliveryRow /\ chunk[d][k] \in ChunkRow
  BY DEF StoreTypeOK
<1>2. chunk[d][k].state \in OpenStates
  BY DEF AcceptChunk, RejectChunkRetryable, RejectChunkTerminal, AmbiguousChunk, CanFinish, OpenStates
<1>3. CASE AcceptChunk(r, d, k)
  <2> DEFINE new == [chunk[d][k] EXCEPT !.state = "sent", !.run = NoRun]
             last == [delivery[d] EXCEPT !.state = CompletionState(d), !.due = TRUE]
             more == [delivery[d] EXCEPT !.state = "sending"]
             row == IF LastUnsent(d, k) THEN last ELSE more
  <2>1. new.state = "sent" /\ new.items = chunk[d][k].items
    BY <1>1 DEF ChunkRow
  <2>2. CompletionState(d) \in Completed
    BY DEF CompletionState, Completed
  <2>3. last.state \in Completed /\ last.date = delivery[d].date /\ last.gen = delivery[d].gen
        /\ last.spent = delivery[d].spent
    BY <1>1, <2>2 DEF DeliveryRow
  <2>4. more.state = "sending" /\ more.date = delivery[d].date /\ more.gen = delivery[d].gen
        /\ more.spent = delivery[d].spent
    BY <1>1 DEF DeliveryRow
  <2>5. delivery' = [delivery EXCEPT ![d] = row] /\ chunk' = [chunk EXCEPT ![d][k] = new]
    BY <1>3 DEF AcceptChunk
  <2> HIDE DEF new, last, more
  <2>6. Outcome(new.state, row.state)
    BY <2>1, <2>3, <2>4 DEF Outcome
  <2>7. row.date = delivery[d].date /\ row.gen = delivery[d].gen /\ row.spent = delivery[d].spent
    BY <2>3, <2>4
  <2> HIDE DEF row
  <2> QED BY <1>2, <2>1, <2>5, <2>6, <2>7, RowMoves
<1>4. CASE RejectChunkRetryable(r, d, k)
  <2> DEFINE new == [chunk[d][k] EXCEPT !.state = "retry_wait", !.run = NoRun]
             row == [delivery[d] EXCEPT !.state = "retry_wait", !.due = FALSE]
  <2>1. new.state = "retry_wait" /\ new.items = chunk[d][k].items
    BY <1>1 DEF ChunkRow
  <2>2. row.state = "retry_wait" /\ row.date = delivery[d].date /\ row.gen = delivery[d].gen
        /\ row.spent = delivery[d].spent
    BY <1>1 DEF DeliveryRow
  <2>3. delivery' = [delivery EXCEPT ![d] = row] /\ chunk' = [chunk EXCEPT ![d][k] = new]
    BY <1>4 DEF RejectChunkRetryable
  <2> HIDE DEF new, row
  <2>4. Outcome(new.state, row.state)
    BY <2>1, <2>2 DEF Outcome
  <2> QED BY <1>2, <2>1, <2>2, <2>3, <2>4, RowMoves
<1>5. CASE RejectChunkTerminal(r, d, k, FALSE)
  <2> DEFINE new == [chunk[d][k] EXCEPT !.state = "failed_terminal", !.run = NoRun, !.safe = FALSE]
             row == [delivery[d] EXCEPT !.state = "failed_terminal", !.mismatch = FALSE]
  <2>1. new.state = "failed_terminal" /\ new.items = chunk[d][k].items
    BY <1>1 DEF ChunkRow
  <2>2. row.state = "failed_terminal" /\ row.date = delivery[d].date /\ row.gen = delivery[d].gen
        /\ row.spent = delivery[d].spent
    BY <1>1 DEF DeliveryRow
  <2>3. delivery' = [delivery EXCEPT ![d] = row] /\ chunk' = [chunk EXCEPT ![d][k] = new]
    BY <1>5 DEF RejectChunkTerminal
  <2> HIDE DEF new, row
  <2>4. Outcome(new.state, row.state)
    BY <2>1, <2>2 DEF Outcome
  <2> QED BY <1>2, <2>1, <2>2, <2>3, <2>4, RowMoves
<1>6. CASE AmbiguousChunk(r, d, k)
  <2> DEFINE new == [chunk[d][k] EXCEPT !.state = "ambiguous", !.run = NoRun]
             row == [delivery[d] EXCEPT !.state = "needs_attention", !.mismatch = FALSE]
  <2>1. new.state = "ambiguous" /\ new.items = chunk[d][k].items
    BY <1>1 DEF ChunkRow
  <2>2. row.state = "needs_attention" /\ row.date = delivery[d].date /\ row.gen = delivery[d].gen
        /\ row.spent = delivery[d].spent
    BY <1>1 DEF DeliveryRow
  <2>3. delivery' = [delivery EXCEPT ![d] = row] /\ chunk' = [chunk EXCEPT ![d][k] = new]
    BY <1>6 DEF AmbiguousChunk
  <2> HIDE DEF new, row
  <2>4. Outcome(new.state, row.state)
    BY <2>1, <2>2 DEF Outcome
  <2> QED BY <1>2, <2>1, <2>2, <2>3, <2>4, RowMoves
<1> QED BY <1>3, <1>4, <1>5, <1>6

LEMMA ResolutionMoves ==
  ASSUME StoreTypeOK, NEW d \in Delivery, NEW k \in Chunk, ResolveSent(d, k) \/ ResolveRetry(d, k)
  PROVE  Moves(d, k)
<1>1. delivery[d] \in DeliveryRow /\ chunk[d][k] \in ChunkRow
  BY DEF StoreTypeOK
<1>2. chunk[d][k].state \in OpenStates
  BY DEF ResolveSent, ResolveRetry, OpenStates
<1>3. CASE ResolveSent(d, k)
  <2> DEFINE s == IF LastUnsent(d, k) THEN CompletionState(d) ELSE "sending"
             new == [chunk[d][k] EXCEPT !.state = "sent"]
             row == [delivery[d] EXCEPT !.state = s, !.mismatch = FALSE]
  <2>1. new.state = "sent" /\ new.items = chunk[d][k].items
    BY <1>1 DEF ChunkRow
  <2>2. s \in Completed \cup {"sending"}
    BY DEF CompletionState, Completed
  <2>3. delivery' = [delivery EXCEPT ![d] = row] /\ chunk' = [chunk EXCEPT ![d][k] = new]
    BY <1>3 DEF ResolveSent
  <2> HIDE DEF s, new
  <2>4. row.state = s /\ row.date = delivery[d].date /\ row.gen = delivery[d].gen
        /\ row.spent = delivery[d].spent
    BY <1>1 DEF DeliveryRow
  <2> HIDE DEF row
  <2>5. Outcome(new.state, row.state)
    BY <2>1, <2>2, <2>4 DEF Outcome
  <2> QED BY <1>2, <2>1, <2>3, <2>4, <2>5, RowMoves
<1>4. CASE ResolveRetry(d, k)
  <2> DEFINE new == [chunk[d][k] EXCEPT !.state = "pending", !.safe = FALSE,
                                        !.oneShot = chunk[d][k].oneShot \/ FALSE,
                                        !.retries = chunk[d][k].retries + 1]
             row == [delivery[d] EXCEPT !.state = "sending", !.mismatch = FALSE]
  <2>1. new.state = "pending" /\ new.items = chunk[d][k].items
    BY <1>1 DEF ChunkRow
  <2>2. row.state = "sending" /\ row.date = delivery[d].date /\ row.gen = delivery[d].gen
        /\ row.spent = delivery[d].spent
    BY <1>1 DEF DeliveryRow
  <2>3. delivery' = [delivery EXCEPT ![d] = row] /\ chunk' = [chunk EXCEPT ![d][k] = new]
    BY <1>4 DEF ResolveRetry, Requeue
  <2> HIDE DEF new, row
  <2>4. Outcome(new.state, row.state)
    BY <2>1, <2>2 DEF Outcome
  <2> QED BY <1>2, <2>1, <2>2, <2>3, <2>4, RowMoves
<1> QED BY <1>3, <1>4

-----------------------------------------------------------------------------
\* every step of run_once is one of those changes
LEMMA RunStepKind ==
  ASSUME RunInv, WaitsForReason, NEW r \in Run, Reserved(r), Step(r)
  PROVE  TableStep
<1> USE DEF At
<1> DEFINE d == run[r].act
           k == Current(r)
<1>1. RunsOK /\ StoreTypeOK
  BY DEF RunInv
<1>2. /\ run[r].pc \in WithDelivery => d \in Delivery
      /\ At(r, "prepare") => run[r].draft \in Digest
      /\ run[r].pc \in AtChunk => k \in Chunk
  BY <1>1, PlaceFacts, CurrentIsLeast
<1>3. /\ HoldsLease(r) /\ run[r].pc \in BeforeFreeze => Unprepared(d)
      /\ HoldsLease(r) /\ At(r, "giveup") /\ ~BudgetMayElapse => ~HasState(d, "in_flight")
  BY DEF Reserved
<1>4. Unprepared(d) => ~HasState(d, "in_flight")
  BY DEF Unprepared, ChunksOf, HasState
<1> HIDE DEF d, k
<1>5. CASE UNCHANGED storeVars
  BY <1>5, RunTablesRest DEF storeVars, TableStep
<1>6. \A ok : Refused(r, ok) => UNCHANGED storeVars
  BY DEF Refused
<1>7. CASE Recover(r)
  BY <1>5, <1>7 DEF Recover, Recovers, TableStep
<1>8. CASE Acquire(r) \/ Release(r)
  BY <1>5, <1>8, RunTablesRest DEF Acquire, AcquireLease, Release, Releases, ReleaseLease, TableStep
<1>9. CASE Plan(r) \/ Collect(r) \/ Collected(r) \/ Select(r) \/ Loop(r) \/ Send(r)
  BY <1>5, <1>6, <1>9 DEF Plan, Collect, Collected, Select, Loop, Send
<1>10. CASE Reopen(r)
  <2>1. CASE ReopenForCollection(r, d)
    <3>1. d \in Delivery /\ Unprepared(d)
      BY <1>2, <1>3, <1>10, <2>1 DEF Reopen, WithDelivery, BeforeFreeze, ReopenForCollection, CanReopen
    <3> QED BY <1>1, <2>1, <3>1, WaitRelabels DEF TableStep
  <2> QED BY <1>5, <1>6, <1>10, <2>1 DEF Reopen, d
<1>11. CASE Create(r)
  BY <1>1, <1>5, <1>6, <1>11, CreationCreates DEF Create, TableStep
<1>12. ASSUME FailDelivery(r, d), d \in Delivery, ~BudgetMayElapse => ~HasState(d, "in_flight")
       PROVE  TableStep
  BY <1>1, <1>12, FailRelabels DEF TableStep
<1>13. CASE GiveUp(r)
  <2>1. CASE FailDelivery(r, d)
    BY <1>2, <1>3, <1>12, <1>13, <2>1 DEF GiveUp, WithDelivery, FailDelivery, CanFail
  <2> QED BY <1>5, <1>6, <1>13, <2>1 DEF GiveUp, d
<1>14. CASE AllFailed(r)
  <2>1. d \in Delivery
    BY <1>2, <1>14 DEF AllFailed, WithDelivery
  <2> QED BY <1>1, <1>5, <1>6, <1>14, <2>1, CountingRests DEF AllFailed, TableStep, d
<1>15. CASE Defer(r)
  <2>1. d \in Delivery /\ (HoldsLease(r) => Unprepared(d))
    BY <1>2, <1>3, <1>15 DEF Defer, WithDelivery, BeforeFreeze
  <2>2. CASE FailDelivery(r, d)
    BY <1>4, <1>12, <2>1, <2>2 DEF FailDelivery, CanFail
  <2>3. CASE SetCollectionRetry(r, d)
    BY <1>1, <2>1, <2>3, WaitRelabels DEF SetCollectionRetry, CanSetRetry, TableStep
  <2> QED BY <1>5, <1>6, <1>15, <2>2, <2>3 DEF Defer, d
<1>16. CASE Prepare(r)
  <2>1. d \in Delivery /\ run[r].draft \in Digest /\ At(r, "prepare")
    BY <1>2, <1>16 DEF Prepare, WithDelivery
  <2>2. CASE PrepareDelivery(r, d, run[r].draft, run[r].tgt)
    BY <1>1, <2>1, <2>2, PreparationFreezes DEF TableStep
  <2> QED BY <1>5, <1>6, <1>16, <2>2 DEF Prepare, d
<1>17. CASE CheckTarget(r)
  <2>1. d \in Delivery
    BY <1>2, <1>17 DEF CheckTarget, WithDelivery
  <2> QED BY <1>1, <1>5, <1>6, <1>17, <2>1, MismatchRelabels DEF CheckTarget, TableStep, d
<1>18. CASE Attempt(r)
  <2>1. d \in Delivery /\ k \in Chunk
    BY <1>2, <1>18 DEF Attempt, WithDelivery, AtChunk
  <2> QED BY <1>1, <1>5, <1>6, <1>18, <2>1, BeginMoves DEF Attempt, TableStep, d, k
<1>19. CASE Finish(r)
  <2>1. d \in Delivery /\ k \in Chunk
    BY <1>2, <1>19 DEF Finish, WithDelivery, AtChunk
  <2> QED BY <1>1, <1>5, <1>6, <1>19, <2>1, FinishMoves DEF Finish, TableStep, d, k
<1>20. CASE Except(r)
  <2>1. d \in Delivery
    BY <1>2, <1>20 DEF Except, WithDelivery
  <2>2. CASE FailsOnException(r) /\ FailDelivery(r, d)
    BY <1>12, <2>1, <2>2 DEF FailsOnException, LeavesInFlight, d
  <2> QED BY <1>5, <1>6, <1>20, <2>2 DEF Except, d
<1> QED BY <1>7, <1>8, <1>9, <1>10, <1>11, <1>13, <1>14, <1>15, <1>16, <1>17, <1>18, <1>19, <1>20 DEF Step

LEMMA WorldStepKind ==
  ASSUME RunInv, [Next]_vars, \A r \in Run : ~Step(r)
  PROVE  TableStep
<1>1. CASE UNCHANGED <<delivery, chunk, history>>
  BY <1>1, RunTablesRest DEF TableStep
<1>2. ASSUME NEW r \in Run, Starts(r) \/ StoreFails(r) \/ Stops(r) \/ Crash(r)
      PROVE  UNCHANGED <<delivery, chunk, history>>
  BY <1>2 DEF Starts, Start, StoreFails, Stops, Crash, storeVars
<1>3. CASE ExpireLease \/ DayTurns \/ UNCHANGED vars
  BY <1>1, <1>3 DEF ExpireLease, LeaseExpires, DayTurns, storeVars, vars
<1>4. ASSUME NEW d \in Delivery, Operator(d)
      PROVE  TableStep
  BY <1>4, ReconcileRelabels, ResolutionMoves DEF Operator, TableStep, RunInv
<1>5. ASSUME NEW d \in Delivery, Clock(d)
      PROVE  TableStep
  BY <1>5, ClockRests DEF TableStep, RunInv
<1> QED BY <1>1, <1>2, <1>3, <1>4, <1>5 DEF Next

LEMMA StepKinds ==
  ASSUME RunInv, WaitsForReason, \A r \in Run : Reserved(r), [Next]_vars
  PROVE  TableStep
BY RunStepKind, WorldStepKind

-----------------------------------------------------------------------------
(***************************************************************************)
(* The tables: numbers, generations, and why a delivery waits.             *)
(***************************************************************************)
RowsKept == \A d \in Delivery : KeptRow(d) /\ (delivery'[d].state = "absent" <=> ~Exists(d))

ChunksSame(d) == \A k \in Chunk : chunk'[d][k] = chunk[d][k]

\* Budgets do not elapse unless they may.
Thrifty == ~BudgetMayElapse => \A d \in Delivery : ~delivery[d].spent

LEMMA ChunksSameFacts ==
  ASSUME NEW d \in Delivery, ChunksSame(d)
  PROVE  /\ Unprepared(d)' <=> Unprepared(d)
         /\ \A s : HasState(d, s)' <=> HasState(d, s)
BY DEF ChunksSame, Unprepared, ChunksOf, HasState

LEMMA RecoveryKeepsRows ==
  ASSUME StoreTypeOK, RecoverExpiredLease, NEW d \in Delivery
  PROVE  /\ KeptRow(d)
         /\ delivery'[d].state = "absent" <=> ~Exists(d)
         /\ delivery[d].state \in Terminal => SameRow(d)
         /\ ~HasState(d, "in_flight") => SameRow(d) /\ ChunksSame(d)
         /\ delivery[d].state \notin Terminal /\ HasState(d, "in_flight") => delivery'[d].state = "needs_attention"
         /\ \A k \in Chunk :
              /\ chunk'[d][k].items = chunk[d][k].items
              /\ chunk[d][k].state = "in_flight" => chunk'[d][k].state = "ambiguous"
              /\ chunk[d][k].state # "in_flight" => chunk'[d][k] = chunk[d][k]
<1>1. delivery[d] \in DeliveryRow /\ \A k \in Chunk : chunk[d][k] \in ChunkRow
  BY DEF StoreTypeOK
<1>2. delivery'[d] = AfterStranded(d) /\ \A k \in Chunk : chunk'[d][k] = Stranded(d, k)
  BY DEF RecoverExpiredLease
<1>3. \A k \in Chunk :
        /\ chunk'[d][k].items = chunk[d][k].items
        /\ chunk[d][k].state = "in_flight" => chunk'[d][k].state = "ambiguous"
        /\ chunk[d][k].state # "in_flight" => chunk'[d][k] = chunk[d][k]
  BY <1>1, <1>2 DEF Stranded, ChunkRow
<1>4. /\ KeptRow(d)
      /\ delivery'[d].state = "absent" <=> ~Exists(d)
      /\ delivery[d].state \in Terminal => SameRow(d)
      /\ ~HasState(d, "in_flight") => SameRow(d)
      /\ delivery[d].state \notin Terminal /\ HasState(d, "in_flight") => delivery'[d].state = "needs_attention"
  <2>1. HasState(d, "in_flight") => Exists(d)
    BY DEF HasState, StoreTypeOK
  <2> QED BY <1>1, <1>2, <2>1 DEF AfterStranded, DeliveryRow, SameRow, KeptRow, Exists
<1> QED BY <1>3, <1>4 DEF ChunksSame, HasState

LEMMA TableStepKeepsRows ==
  ASSUME StoreTypeOK, TableStep
  PROVE  RowsKept \/ \E r \in Run, d \in Delivery : Creates(r, d)
<1>1. CASE Rests
  BY <1>1 DEF Rests, SameRow, RowsKept, Exists
<1>2. CASE RecoverExpiredLease
  BY <1>2, RecoveryKeepsRows DEF RowsKept
<1>3. ASSUME NEW d \in Delivery, KeptRow(d), OthersSame(d), Exists(d), delivery'[d].state # "absent"
      PROVE  RowsKept
  BY <1>3 DEF RowsKept, OthersSame, SameRow, Exists
<1>4. ASSUME NEW d \in Delivery, Relabels(d)
      PROVE  RowsKept
  BY <1>3, <1>4 DEF Relabels, Relabelled, Exists, Waiting, Terminal
<1>5. ASSUME NEW r \in Run, NEW d \in Delivery, NEW digest \in Digest, Freezes(r, d, digest)
      PROVE  RowsKept
  BY <1>3, <1>5 DEF Freezes, Exists, Waiting
<1>6. ASSUME NEW d \in Delivery, NEW k \in Chunk, Moves(d, k)
      PROVE  RowsKept
  <2>1. KeptRow(d) /\ OthersSame(d) /\ MovedChunk(d, chunk[d][k].state, chunk'[d][k].state)
    BY <1>6 DEF Moves
  <2>2. chunk[d][k].state # "none" => Exists(d)
    BY DEF StoreTypeOK
  <2>3. Exists(d) /\ delivery'[d].state # "absent"
    BY <2>1, <2>2 DEF MovedChunk, Outcome, OpenStates, Completed, Exists
  <2> QED BY <1>3, <2>1, <2>3
<1> QED BY <1>1, <1>2, <1>4, <1>5, <1>6 DEF TableStep

LEMMA ThriftyStep ==
  ASSUME StoreTypeOK, TableStep, Thrifty
  PROVE  Thrifty'
<1>1. CASE RowsKept
  BY <1>1 DEF RowsKept, KeptRow, Thrifty
<1>2. ASSUME NEW r \in Run, NEW d \in Delivery, Creates(r, d)
      PROVE  Thrifty'
  BY <1>2 DEF Creates, OthersSame, SameRow, KeptRow, Thrifty
<1> QED BY <1>1, <1>2, TableStepKeepsRows

\* The new generation of a date exceeds all of its generations.
LEMMA NewestGeneration ==
  ASSUME RunInv, NEW date, NEW d \in OfDate(date)
  PROVE  delivery[d].gen < NextGeneration(date)
<1>1. OfDate(date) \subseteq Delivery /\ OfDate(date) # {}
  BY DEF OfDate
<1>2. /\ Latest(OfDate(date)) \in OfDate(date)
      /\ delivery[d].gen <= delivery[Latest(OfDate(date))].gen
  BY <1>1, LatestExists, GenerationsBounded DEF RunInv
<1> QED BY <1>1, <1>2, GenerationsBounded DEF NextGeneration

LEMMA NextGenerationNatural ==
  ASSUME RunInv, NEW date
  PROVE  NextGeneration(date) \in Nat
<1>1. CASE OfDate(date) # {}
  <2>1. Latest(OfDate(date)) \in OfDate(date) /\ OfDate(date) \subseteq Delivery
    BY <1>1, LatestExists, GenerationsBounded DEF RunInv, OfDate
  <2> QED BY <1>1, <2>1, GenerationsBounded DEF NextGeneration
<1>2. CASE OfDate(date) = {}
  BY <1>2 DEF NextGeneration
<1> QED BY <1>1, <1>2

LEMMA UniqueStep ==
  ASSUME RunInv, TableStep, UniqueGenerations
  PROVE  UniqueGenerations'
<1>1. CASE RowsKept
  BY <1>1 DEF RowsKept, KeptRow, UniqueGenerations, Exists
<1>2. ASSUME NEW r \in Run, NEW n \in Delivery, Creates(r, n)
      PROVE  UniqueGenerations'
  <2>1. ASSUME NEW d \in Delivery, d # n, Exists(d)', delivery'[d].date = delivery'[n].date
        PROVE  delivery'[d].gen < delivery'[n].gen
    <3>1. d \in OfDate(run[r].date) /\ delivery'[d].gen = delivery[d].gen
      BY <1>2, <2>1 DEF Creates, OthersSame, SameRow, KeptRow, OfDate, Exists
    <3> QED BY <1>2, <3>1, NewestGeneration DEF Creates
  <2>2. \A d \in Delivery : d # n => SameRow(d)
    BY <1>2 DEF Creates, OthersSame
  <2>3. SUFFICES ASSUME NEW d \in Delivery, NEW e \in Delivery, Exists(d)', Exists(e)', d # e,
                        delivery'[d].date = delivery'[e].date
                 PROVE  delivery'[d].gen # delivery'[e].gen
    BY DEF UniqueGenerations, Exists
  <2>4. \A x \in Delivery : delivery'[x].gen \in Nat
    BY <1>2, <2>2, GenerationsBounded, NextGenerationNatural DEF SameRow, KeptRow, Creates
  <2>5. CASE d # n /\ e # n
    BY <2>2, <2>3, <2>5 DEF SameRow, KeptRow, UniqueGenerations, Exists
  <2>6. CASE d = n \/ e = n
    BY <2>1, <2>3, <2>4, <2>6
  <2> QED BY <2>5, <2>6
<1> QED BY <1>1, <1>2, TableStepKeepsRows DEF RunInv

\* A completed delivery stays so.
LEMMA CompletedStays ==
  ASSUME StoreTypeOK, CompletedIffAllSent, CompletedIffAllSent', [StoreNext]_storeVars,
         NEW d \in Delivery, delivery[d].state \in Completed
  PROVE  delivery'[d].state \in Completed
<1>1. ChunksOf(d) # {} /\ \A k \in ChunksOf(d) : chunk[d][k].state = "sent"
  BY DEF CompletedIffAllSent
<1>2. CASE UNCHANGED storeVars
  BY <1>2 DEF storeVars
<1>3. CASE StoreNext
  <2>1. \A k \in Chunk : /\ chunk'[d][k].state = "none" <=> chunk[d][k].state = "none"
                         /\ chunk[d][k].state = "sent" => chunk'[d][k] = chunk[d][k]
    BY <1>1, <1>3, ChunksKept
  <2>2. ChunksOf(d)' # {} /\ \A k \in ChunksOf(d)' : chunk'[d][k].state = "sent"
    BY <1>1, <2>1 DEF ChunksOf
  <2> QED BY <2>2 DEF CompletedIffAllSent
<1> QED BY <1>2, <1>3

LEMMA OpenGenerationStep ==
  ASSUME RunInv, TableStep, OneOpenGeneration, \A r \in Run : Reserved(r),
         \A d \in Delivery : delivery[d].state \in Completed => delivery'[d].state \in Completed
  PROVE  OneOpenGeneration'
<1> SUFFICES ASSUME NEW d \in Delivery, NEW e \in Delivery, Exists(d)', Exists(e)',
                    delivery'[d].date = delivery'[e].date, delivery'[d].gen < delivery'[e].gen
             PROVE  delivery'[d].state \in Completed
  BY DEF OneOpenGeneration
<1>1. CASE RowsKept
  BY <1>1 DEF RowsKept, KeptRow, OneOpenGeneration, Exists
<1>2. ASSUME NEW r \in Run, NEW n \in Delivery, Creates(r, n)
      PROVE  delivery'[d].state \in Completed
  <2>1. \A x \in Delivery : x # n => SameRow(x)
    BY <1>2 DEF Creates, OthersSame
  <2>2. CASE d # n /\ e # n
    BY <2>1, <2>2 DEF SameRow, KeptRow, OneOpenGeneration, Exists
  <2>3. CASE d # n /\ e = n
    <3>1. Exists(d) /\ delivery[d].date = run[r].date /\ delivery'[d].state = delivery[d].state
      BY <1>2, <2>1, <2>3 DEF Creates, SameRow, KeptRow, Exists
    <3> QED BY <1>2, <3>1 DEF Creates, Reserved
  <2>4. CASE d = n
    <3>1. e # n
      BY <1>2, <2>4, NextGenerationNatural DEF Creates
    <3>2. e \in OfDate(run[r].date) /\ delivery'[e].gen = delivery[e].gen
      BY <1>2, <2>1, <2>4, <3>1 DEF Creates, SameRow, KeptRow, OfDate, Exists
    <3>3. delivery[e].gen < NextGeneration(run[r].date)
      BY <3>2, NewestGeneration
    <3>4. delivery[e].gen \in Nat /\ NextGeneration(run[r].date) \in Nat
      BY GenerationsBounded, NextGenerationNatural
    <3> QED BY <1>2, <2>4, <3>2, <3>3, <3>4 DEF Creates
  <2> QED BY <2>2, <2>3, <2>4
<1> QED BY <1>1, <1>2, TableStepKeepsRows DEF RunInv

-----------------------------------------------------------------------------
(***************************************************************************)
(* The tables: what the states of a delivery say of its chunks.            *)
(***************************************************************************)
\* an open attempt belongs to a delivery that is being sent or is in doubt
InFlightOpen ==
  \A d \in Delivery : HasState(d, "in_flight") => delivery[d].state \in {"sending", "needs_attention"}

\* only the newest delivery is not settled
OlderSettled ==
  \A d, e \in Delivery : d < e /\ Exists(e) => delivery[d].state \in Terminal

\* A chunk does not share a story with another one of its delivery, nor with
\* an acknowledged one of an older delivery.
FreshStories ==
  \A d, e \in Delivery, j, k \in Chunk :
    (d < e /\ chunk[d][j].state = "sent") \/ (d = e /\ j # k) => chunk[d][j].items \cap chunk[e][k].items = {}

LEMMA EndOfOpenChunk ==
  ASSUME StoreTypeOK, OutboxOrder, NEW d \in Delivery, NEW k \in Chunk, Moves(d, k),
         chunk[d][k].state \in OpenStates, NEW j \in Chunk, chunk'[d][j].state \in OpenStates
  PROVE  j = k
<1>1. CASE j # k
  <2>1. chunk'[d][j] = chunk[d][j]
    BY <1>1 DEF Moves
  <2> QED BY <1>1, <2>1, OneOpenChunk DEF OpenStates
<1> QED BY <1>1

LEMMA FrozenRows ==
  ASSUME StoreTypeOK, NEW r \in Run, NEW d \in Delivery, NEW digest \in Digest, Freezes(r, d, digest)
  PROVE  /\ \A e \in Delivery : e # d => chunk'[e] = chunk[e]
         /\ \A k \in Chunk : /\ chunk'[d][k].state \in {"pending", "none"}
                             /\ k \in DOMAIN digest => chunk'[d][k].items = digest[k]
                             /\ k \notin DOMAIN digest => chunk'[d][k].items = {}
<1> DEFINE Fresh(items) == [NoChunk EXCEPT !.state = "pending", !.items = items]
<1>1. \A k \in Chunk : chunk[d][k] = NoChunk
  BY DEF Freezes, Unprepared, ChunksOf, StoreTypeOK, AttemptOK
<1>2. \A e \in Delivery : e # d => chunk'[e] = chunk[e]
  BY DEF Freezes, StoreTypeOK
<1>3. \A k \in Chunk : chunk'[d][k] = IF k \in DOMAIN digest THEN Fresh(digest[k]) ELSE NoChunk
  BY <1>1 DEF Freezes, StoreTypeOK
<1>4. \A items : Fresh(items).state = "pending" /\ Fresh(items).items = items
  BY DEF NoChunk
<1>5. NoChunk.state = "none" /\ NoChunk.items = {}
  BY DEF NoChunk
<1> HIDE DEF Fresh
<1> QED BY <1>2, <1>3, <1>4, <1>5

LEMMA WaitsStep ==
  ASSUME RunInv, TableStep, WaitsForReason
  PROVE  WaitsForReason'
<1> SUFFICES ASSUME NEW e \in Delivery, delivery'[e].state \in Waiting
             PROVE  Unprepared(e)' \/ (delivery'[e].state = "retry_wait" /\ HasState(e, "retry_wait")')
  BY DEF WaitsForReason
<1>1. ASSUME SameRow(e), ChunksSame(e)
      PROVE  Unprepared(e)' \/ (delivery'[e].state = "retry_wait" /\ HasState(e, "retry_wait")')
  BY <1>1, ChunksSameFacts DEF SameRow, WaitsForReason
<1>2. UNCHANGED chunk => ChunksSame(e)
  BY DEF ChunksSame
<1>3. CASE Rests
  BY <1>1, <1>2, <1>3 DEF Rests
<1>4. CASE RecoverExpiredLease
  <2>1. ~HasState(e, "in_flight")
    BY <1>4, RecoveryKeepsRows DEF RunInv, Waiting, Terminal, Completed, SameRow
  <2> QED BY <1>1, <1>4, <2>1, RecoveryKeepsRows DEF RunInv
<1>5. ASSUME NEW r \in Run, NEW d \in Delivery, Creates(r, d)
      PROVE  Unprepared(e)' \/ (delivery'[e].state = "retry_wait" /\ HasState(e, "retry_wait")')
  <2>1. CASE e = d
    <3>1. ~Exists(d)
      BY <1>5 DEF Creates, Delivery
    <3>2. Unprepared(d)
      BY <3>1 DEF RunInv, StoreTypeOK, Unprepared, ChunksOf
    <3> QED BY <1>2, <1>5, <2>1, <3>2, ChunksSameFacts DEF Creates
  <2>2. CASE e # d
    BY <1>1, <1>2, <1>5, <2>2 DEF Creates, OthersSame
  <2> QED BY <2>1, <2>2
<1>6. ASSUME NEW d \in Delivery, Relabels(d)
      PROVE  Unprepared(e)' \/ (delivery'[e].state = "retry_wait" /\ HasState(e, "retry_wait")')
  <2>1. CASE e = d
    <3>1. Unprepared(d)
      BY <1>6, <2>1 DEF Relabels, Relabelled, Waiting
    <3> QED BY <1>2, <1>6, <2>1, <3>1, ChunksSameFacts DEF Relabels
  <2>2. CASE e # d
    BY <1>1, <1>2, <1>6, <2>2 DEF Relabels, OthersSame
  <2> QED BY <2>1, <2>2
<1>7. ASSUME NEW r \in Run, NEW d \in Delivery, NEW digest \in Digest, Freezes(r, d, digest)
      PROVE  Unprepared(e)' \/ (delivery'[e].state = "retry_wait" /\ HasState(e, "retry_wait")')
  <2>1. e # d
    BY <1>7 DEF Freezes, Waiting
  <2>2. ChunksSame(e)
    BY <1>7, <2>1 DEF Freezes, ChunksSame, RunInv, StoreTypeOK
  <2> QED BY <1>1, <1>7, <2>1, <2>2 DEF Freezes, OthersSame
<1>8. ASSUME NEW d \in Delivery, NEW k \in Chunk, Moves(d, k)
      PROVE  Unprepared(e)' \/ (delivery'[e].state = "retry_wait" /\ HasState(e, "retry_wait")')
  <2>1. CASE e = d
    BY <1>8, <2>1 DEF Moves, MovedChunk, Outcome, Waiting, Completed, HasState
  <2>2. CASE e # d
    BY <1>1, <1>8, <2>2 DEF Moves, OthersSame, ChunksSame
  <2> QED BY <2>1, <2>2
<1> QED BY <1>3, <1>4, <1>5, <1>6, <1>7, <1>8 DEF TableStep

\* What a step does to a delivery whose chunks may be open.
LEMMA OpenStep ==
  ASSUME RunInv, OutboxOrder, TableStep, ~BudgetMayElapse, InFlightOpen, AmbiguousNeedsAttention
  PROVE  InFlightOpen' /\ AmbiguousNeedsAttention'
<1> DEFINE Good(e) == /\ HasState(e, "in_flight")' => delivery'[e].state \in {"sending", "needs_attention"}
                      /\ HasState(e, "ambiguous")' => delivery'[e].state = "needs_attention"
<1> SUFFICES ASSUME NEW e \in Delivery
             PROVE  Good(e)
  BY DEF InFlightOpen, AmbiguousNeedsAttention
<1>1. ASSUME SameRow(e), ChunksSame(e)
      PROVE  Good(e)
  BY <1>1, ChunksSameFacts DEF SameRow, InFlightOpen, AmbiguousNeedsAttention
<1>2. UNCHANGED chunk => ChunksSame(e)
  BY DEF ChunksSame
<1>3. CASE Rests
  BY <1>1, <1>2, <1>3 DEF Rests
<1>4. CASE RecoverExpiredLease
  <2>1. CASE ~HasState(e, "in_flight")
    BY <1>1, <1>4, <2>1, RecoveryKeepsRows DEF RunInv
  <2>2. CASE HasState(e, "in_flight")
    <3>1. delivery'[e].state = "needs_attention"
      BY <1>4, <2>2, RecoveryKeepsRows DEF RunInv, InFlightOpen, Terminal, Completed
    <3> QED BY <3>1
  <2> QED BY <2>1, <2>2
<1>5. ASSUME NEW r \in Run, NEW d \in Delivery, Creates(r, d)
      PROVE  Good(e)
  <2>1. CASE e = d
    <3>1. ~Exists(d)
      BY <1>5 DEF Creates, Delivery
    <3>2. \A s : HasState(d, s) => s = "none"
      BY <3>1 DEF RunInv, StoreTypeOK, HasState
    <3> QED BY <1>2, <1>5, <2>1, <3>2, ChunksSameFacts DEF Creates
  <2>2. CASE e # d
    BY <1>1, <1>2, <1>5, <2>2 DEF Creates, OthersSame
  <2> QED BY <2>1, <2>2
<1>6. ASSUME NEW d \in Delivery, Relabels(d)
      PROVE  Good(e)
  <2>1. CASE e = d
    <3>1. /\ HasState(d, "in_flight") => delivery'[d].state = "needs_attention"
          /\ HasState(d, "ambiguous") => delivery'[d].state = "needs_attention"
      BY <1>6 DEF Relabels, Relabelled, Waiting, Unprepared, ChunksOf, HasState, InFlightOpen,
                  AmbiguousNeedsAttention
    <3> QED BY <1>2, <1>6, <2>1, <3>1, ChunksSameFacts DEF Relabels
  <2>2. CASE e # d
    BY <1>1, <1>2, <1>6, <2>2 DEF Relabels, OthersSame
  <2> QED BY <2>1, <2>2
<1>7. ASSUME NEW r \in Run, NEW d \in Delivery, NEW digest \in Digest, Freezes(r, d, digest)
      PROVE  Good(e)
  <2>1. CASE e = d
    BY <1>7, <2>1, FrozenRows DEF HasState, RunInv
  <2>2. CASE e # d
    <3>1. chunk'[e] = chunk[e]
      BY <1>7, <2>2, FrozenRows DEF RunInv
    <3> QED BY <1>1, <1>7, <2>2, <3>1 DEF ChunksSame, Freezes, OthersSame
  <2> QED BY <2>1, <2>2
<1>8. ASSUME NEW d \in Delivery, NEW k \in Chunk, Moves(d, k)
      PROVE  Good(e)
  <2>1. CASE e = d /\ chunk[d][k].state \in {"pending", "retry_wait"}
    <3>1. chunk'[d][k].state = "in_flight" /\ delivery'[d].state = "sending"
          /\ delivery[d].state # "needs_attention"
      BY <1>8, <2>1 DEF Moves, MovedChunk, OpenStates
    <3>2. \A j \in Chunk : j # k => chunk'[d][j] = chunk[d][j]
      BY <1>8 DEF Moves
    <3> QED BY <2>1, <3>1, <3>2 DEF HasState, AmbiguousNeedsAttention
  <2>2. CASE e = d /\ chunk[d][k].state \in OpenStates
    <3>1. Outcome(chunk'[d][k].state, delivery'[d].state)
      BY <1>8, <2>2 DEF Moves, MovedChunk, OpenStates
    <3>2. \A j \in Chunk : chunk'[d][j].state \in OpenStates => j = k
      BY <1>8, <2>2, EndOfOpenChunk DEF RunInv
    <3> QED BY <2>2, <3>1, <3>2 DEF HasState, Outcome, OpenStates
  <2>3. CASE e # d
    BY <1>1, <1>8, <2>3 DEF Moves, OthersSame, ChunksSame
  <2> QED BY <1>8, <2>1, <2>2, <2>3 DEF Moves, MovedChunk
<1> QED BY <1>3, <1>4, <1>5, <1>6, <1>7, <1>8 DEF TableStep

LEMMA SettledStep ==
  ASSUME RunInv, TableStep, InFlightOpen, AmbiguousNeedsAttention, OlderSettled, \A r \in Run : Reserved(r)
  PROVE  OlderSettled'
<1> SUFFICES ASSUME NEW d \in Delivery, NEW e \in Delivery, d < e, Exists(e)'
             PROVE  delivery'[d].state \in Terminal
  BY DEF OlderSettled
<1>1. CASE RowsKept
  <2>1. delivery[d].state \in Terminal
    BY <1>1 DEF RowsKept, OlderSettled, Exists
  <2>2. SameRow(d) => delivery'[d].state \in Terminal
    BY <2>1 DEF SameRow
  <2>3. CASE Rests
    BY <2>2, <2>3 DEF Rests
  <2>4. CASE RecoverExpiredLease
    BY <2>1, <2>2, <2>4, RecoveryKeepsRows DEF RunInv
  <2>5. ASSUME NEW r \in Run, NEW n \in Delivery, Creates(r, n)
        PROVE  delivery'[d].state \in Terminal
    <3>1. ~Exists(n) /\ delivery'[n].state # "absent"
      BY <2>5 DEF Creates, Delivery
    <3> QED BY <1>1, <3>1 DEF RowsKept
  <2>6. ASSUME NEW x \in Delivery, Relabels(x)
        PROVE  delivery'[d].state \in Terminal
    BY <2>1, <2>2, <2>6 DEF Relabels, Relabelled, OthersSame, Waiting, Terminal, Completed
  <2>7. ASSUME NEW r \in Run, NEW x \in Delivery, NEW digest \in Digest, Freezes(r, x, digest)
        PROVE  delivery'[d].state \in Terminal
    BY <2>1, <2>2, <2>7 DEF Freezes, OthersSame, Waiting, Terminal, Completed
  <2>8. ASSUME NEW x \in Delivery, NEW k \in Chunk, Moves(x, k)
        PROVE  delivery'[d].state \in Terminal
    <3>1. chunk[x][k].state \in OpenStates => delivery[x].state \notin Terminal
      BY DEF OpenStates, InFlightOpen, AmbiguousNeedsAttention, HasState, Terminal, Completed
    <3> QED BY <2>1, <2>2, <2>8, <3>1 DEF Moves, MovedChunk, OthersSame
  <2> QED BY <2>3, <2>4, <2>5, <2>6, <2>7, <2>8 DEF TableStep
<1>2. ASSUME NEW r \in Run, NEW n \in Delivery, Creates(r, n)
      PROVE  delivery'[d].state \in Terminal
  <2>1. \A x \in Delivery : x # n => delivery'[x].state = delivery[x].state
    BY <1>2 DEF Creates, OthersSame, SameRow
  <2>2. d < n /\ Exists(d)
    <3>1. e = n \/ Exists(e)
      BY <2>1 DEF Exists
    <3>2. \A x \in Delivery : Exists(x) <=> x < n
      BY <1>2 DEF Creates
    <3>3. d \in Nat /\ e \in Nat /\ n \in Nat
      BY StoreAssumption DEF Delivery
    <3> QED BY <3>1, <3>2, <3>3
  <2>3. d # n
    BY <2>2, StoreAssumption DEF Delivery
  <2> QED BY <1>2, <2>1, <2>2, <2>3 DEF Reserved, Creates
<1> QED BY <1>1, <1>2, TableStepKeepsRows DEF RunInv

LEMMA FreshStep ==
  ASSUME RunInv, TableStep, HistoryIsAcknowledged, InFlightOpen, AmbiguousNeedsAttention, OlderSettled,
         FreshStories, \A r \in Run : Reserved(r)
  PROVE  FreshStories'
<1> SUFFICES ASSUME NEW d \in Delivery, NEW e \in Delivery, NEW j \in Chunk, NEW k \in Chunk,
                    (d < e /\ chunk'[d][j].state = "sent") \/ (d = e /\ j # k)
             PROVE  chunk'[d][j].items \cap chunk'[e][k].items = {}
  BY DEF FreshStories
<1>1. CASE UNCHANGED chunk
  BY <1>1 DEF FreshStories
<1>2. CASE RecoverExpiredLease
  <2>1. /\ chunk'[d][j].items = chunk[d][j].items /\ chunk'[e][k].items = chunk[e][k].items
        /\ chunk'[d][j].state = "sent" => chunk[d][j].state = "sent"
    BY <1>2, RecoveryKeepsRows DEF RunInv
  <2> QED BY <2>1 DEF FreshStories
<1>3. ASSUME NEW r \in Run, NEW x \in Delivery, NEW digest \in Digest, Freezes(r, x, digest)
      PROVE  chunk'[d][j].items \cap chunk'[e][k].items = {}
  <2>1. /\ \A y \in Delivery : y # x => chunk'[y] = chunk[y]
        /\ \A i \in Chunk : /\ chunk'[x][i].state \in {"pending", "none"}
                            /\ i \in DOMAIN digest => chunk'[x][i].items = digest[i]
                            /\ i \notin DOMAIN digest => chunk'[x][i].items = {}
    BY <1>3, FrozenRows DEF RunInv
  <2>2. CASE d # x /\ e # x
    BY <2>1, <2>2 DEF FreshStories
  <2>3. CASE d = x
    <3>1. e = x /\ j # k
      BY <2>1, <2>3
    <3>2. j \in DOMAIN digest /\ k \in DOMAIN digest => digest[j] \cap digest[k] = {}
      BY <1>3, <3>1, Zenon DEF Freezes
    <3> QED BY <2>1, <2>3, <3>1, <3>2
  <2>4. CASE d # x /\ e = x
    <3>1. chunk[d][j].state = "sent" /\ chunk'[d][j] = chunk[d][j]
      BY <2>1, <2>4
    <3>2. chunk[d][j].items \subseteq history
      BY <3>1 DEF HistoryIsAcknowledged, RunInv, StoreTypeOK, ChunkRow
    <3>3. \A i \in DOMAIN digest : digest[i] \cap history = {}
      BY <1>3 DEF Freezes, Reserved, Unseen
    <3> QED BY <2>1, <2>4, <3>1, <3>2, <3>3
  <2> QED BY <2>2, <2>3, <2>4
<1>4. ASSUME NEW x \in Delivery, NEW m \in Chunk, Moves(x, m)
      PROVE  chunk'[d][j].items \cap chunk'[e][k].items = {}
  <2>1. chunk'[d][j].items = chunk[d][j].items /\ chunk'[e][k].items = chunk[e][k].items
    BY <1>4 DEF Moves
  <2>2. CASE <<d, j>> # <<x, m>> \/ chunk[d][j].state = "sent"
    <3>1. chunk'[d][j].state = "sent" => chunk[d][j].state = "sent"
      BY <1>4, <2>2 DEF Moves
    <3> QED BY <2>1, <3>1 DEF FreshStories
  <2>3. CASE <<d, j>> = <<x, m>> /\ chunk[d][j].state # "sent" /\ d # e
    <3>1. chunk[d][j].state \in OpenStates /\ d < e
      BY <1>4, <2>3 DEF Moves, MovedChunk
    <3>2. delivery[d].state \notin Terminal
      BY <3>1 DEF OpenStates, InFlightOpen, AmbiguousNeedsAttention, HasState, Terminal, Completed
    <3>3. ~Exists(e)
      BY <3>1, <3>2 DEF OlderSettled
    <3>4. chunk[e][k] = NoChunk
      BY <3>3 DEF RunInv, StoreTypeOK, AttemptOK
    <3> QED BY <2>1, <3>4 DEF NoChunk
  <2>4. CASE d = e
    <3>1. ~(d < e)
      BY <2>4, StoreAssumption DEF Delivery
    <3> QED BY <2>1, <2>4, <3>1 DEF FreshStories
  <2> QED BY <2>2, <2>3, <2>4
<1> QED BY <1>1, <1>2, <1>3, <1>4 DEF TableStep, Rests, Creates, Relabels

-----------------------------------------------------------------------------
(***************************************************************************)
(* The run that holds the lease: what it found when it planned stays true, *)
(* for nobody else changes the tables, and its own steps prepare the next. *)
(***************************************************************************)
ReservedPlaces == {"create", "giveup"} \cup BeforeFreeze \cup InQueue

LEMMA ReservedFacts ==
  ASSUME NEW r \in Run, Reserved(r), HoldsLease(r)
  PROVE  /\ run[r].pc = "create" => \A d \in Delivery : delivery[d].state # "absent" =>
              /\ delivery[d].state \in Terminal
              /\ delivery[d].date = run[r].date => delivery[d].state \in Completed
         /\ run[r].pc \in BeforeFreeze => \A k \in Chunk : chunk[run[r].act][k].state = "none"
         /\ run[r].pc = "prepare" => \A k \in DOMAIN run[r].draft : run[r].draft[k] \cap history = {}
         /\ run[r].pc = "giveup" /\ ~BudgetMayElapse => \A k \in Chunk : chunk[run[r].act][k].state # "in_flight"
         /\ run[r].pc \in InQueue => \A k \in run[r].queue :
              \/ chunk[run[r].act][k].state \in {"pending", "retry_wait"}
              \/ run[r].pc # "attempt" /\ k = Current(r)
BY DEF Reserved, At, Exists, Unprepared, ChunksOf, Unseen, HasState

LEMMA ReservedAgain ==
  ASSUME NEW r \in Run,
         HoldsLease(r)' =>
         /\ run'[r].pc = "create" => \A d \in Delivery : delivery'[d].state # "absent" =>
              /\ delivery'[d].state \in Terminal
              /\ delivery'[d].date = run'[r].date => delivery'[d].state \in Completed
         /\ run'[r].pc \in BeforeFreeze => \A k \in Chunk : chunk'[run'[r].act][k].state = "none"
         /\ run'[r].pc = "prepare" => \A k \in DOMAIN run'[r].draft : run'[r].draft[k] \cap history' = {}
         /\ run'[r].pc = "giveup" /\ ~BudgetMayElapse => \A k \in Chunk : chunk'[run'[r].act][k].state # "in_flight"
         /\ run'[r].pc \in InQueue => \A k \in run'[r].queue :
              \/ chunk'[run'[r].act][k].state \in {"pending", "retry_wait"}
              \/ run'[r].pc # "attempt" /\ k = Current(r)'
  PROVE  Reserved(r)'
BY DEF Reserved, At, Exists, Unprepared, ChunksOf, Unseen, HasState

LEMMA QuietPlace ==
  ASSUME NEW r \in Run, run'[r].pc \notin ReservedPlaces
  PROVE  Reserved(r)'
BY ReservedAgain DEF ReservedPlaces, BeforeFreeze

\* While a run holds the lease the others leave the tables alone.
LEMMA OthersRest ==
  ASSUME RunInv, NEW r \in Run, HoldsLease(r), NEW s \in Run, s # r, Step(s)
  PROVE  UNCHANGED <<delivery, chunk, history>>
<1>1. ~HoldsLease(s) /\ lease.live
  BY DEF HoldsLease
<1>2. \A ok : Refused(s, ok) => UNCHANGED storeVars
  BY DEF Refused
<1>3. CASE Recover(s) \/ Acquire(s) \/ Plan(s) \/ Collect(s) \/ Collected(s) \/ Select(s) \/ Loop(s) \/ Send(s)
  BY <1>1, <1>2, <1>3, ZenonT(60)
  DEF Recover, Recovers, RecoverExpiredLease, Acquire, AcquireLease, Plan, Collect, Collected, Select, Loop,
      Send, storeVars
<1>4. CASE Reopen(s) \/ Create(s) \/ GiveUp(s) \/ AllFailed(s)
  BY <1>1, <1>2, <1>4, ZenonT(60)
  DEF Reopen, ReopenForCollection, CanReopen, Create, CreateDelivery, CanCreate, GiveUp, FailDelivery,
      CanFail, AllFailed, RecordCollectionAttempt, storeVars
<1>5. CASE Defer(s) \/ Prepare(s) \/ CheckTarget(s) \/ Except(s) \/ Release(s)
  BY <1>1, <1>2, <1>5, ZenonT(60)
  DEF Defer, FailDelivery, CanFail, SetCollectionRetry, CanSetRetry, Prepare, PrepareDelivery, CanPrepare,
      CheckTarget, MarkTargetMismatch, CanMarkMismatch, Except, Release, Releases, ReleaseLease, storeVars
<1>6. CASE Attempt(s) \/ Finish(s)
  BY <1>1, <1>2, <1>6, ZenonT(60)
  DEF Attempt, BeginChunkAttempt, CanBegin, Finish, AcceptChunk, AmbiguousChunk, RejectChunkRetryable,
      RejectChunkTerminal, CanFinish, storeVars
<1> QED BY <1>3, <1>4, <1>5, <1>6 DEF Step

LEMMA HolderAlone ==
  ASSUME RunInv, [Next]_vars, NEW r \in Run, HoldsLease(r), ~At(r, "idle"), ~Step(r)
  PROVE  /\ Rests
         /\ run'[r] = run[r] \/ run'[r].pc \notin ReservedPlaces
<1>1. CASE UNCHANGED <<delivery, chunk, history>> /\ run'[r] = run[r]
  BY <1>1, RunTablesRest
<1>2. ASSUME NEW s \in Run, s # r, Step(s)
      PROVE  UNCHANGED <<delivery, chunk, history>> /\ run'[r] = run[r]
  BY <1>2, OthersRest, OnlyItself
<1>3. ASSUME NEW s \in Run, s # r, Starts(s) \/ StoreFails(s) \/ Stops(s) \/ Crash(s)
      PROVE  UNCHANGED <<delivery, chunk, history>> /\ run'[r] = run[r]
  <2>1. UNCHANGED <<delivery, chunk, history>>
    BY <1>3 DEF Starts, Start, StoreFails, Stops, Crash, storeVars
  <2> QED BY <1>3, <2>1, OnlyItself
<1>4. CASE StoreFails(r) \/ Stops(r) \/ Crash(r)
  <2>1. UNCHANGED <<delivery, chunk, history>>
    BY <1>4 DEF StoreFails, Stops, Crash, storeVars
  <2>2. run \in [Run -> RunState]
    BY DEF RunInv, RunsOK
  <2>3. run'[r].pc \in {"idle", "release", "except"}
    BY <1>4, <2>2 DEF StoreFails, Raise, Stops, Crash, Goto, End, Idle, RunState
  <2> QED BY <2>1, <2>3, RunTablesRest DEF ReservedPlaces, BeforeFreeze, InQueue
<1>5. ~Starts(r)
  BY DEF Starts, Start
<1>6. ASSUME NEW d \in Delivery, Operator(d)
      PROVE  FALSE
  BY <1>6 DEF Operator, OperatorMayAct
<1>7. ASSUME NEW d \in Delivery, Clock(d)
      PROVE  Rests /\ run'[r] = run[r]
  BY <1>7, ClockRests DEF Clock, RunInv
<1>8. CASE ExpireLease \/ DayTurns \/ UNCHANGED vars
  BY <1>1, <1>8 DEF ExpireLease, LeaseExpires, DayTurns, storeVars, vars
<1> QED BY <1>2, <1>3, <1>4, <1>5, <1>6, <1>7, <1>8, RunTablesRest DEF Next

LEMMA ReservedByRest ==
  ASSUME RunInv, NEW r \in Run, Reserved(r), HoldsLease(r), Rests, run'[r] = run[r]
  PROVE  Reserved(r)'
<1>1. Current(r)' = Current(r)
  BY SameRunSameChunk
<1>2. UNCHANGED <<chunk, history>> /\ \A d \in Delivery : delivery'[d].state = delivery[d].state
                                                          /\ delivery'[d].date = delivery[d].date
  BY DEF Rests, SameRow, KeptRow
<1> QED BY <1>1, <1>2, ReservedFacts, ReservedAgain

\* A run that does not find an open delivery creates only over completed ones.
LEMMA CreationIsDue ==
  ASSUME RunInv, UniqueGenerations, OneOpenGeneration, NEW date, NEW force, Actives = {}, MayCreate(date, force),
         NEW d \in Delivery, Exists(d)
  PROVE  /\ delivery[d].state \in Terminal
         /\ delivery[d].date = date => delivery[d].state \in Completed
<1>1. delivery[d].state \in Terminal
  BY DEF Actives, IsActive, Exists
<1>2. ASSUME delivery[d].date = date
      PROVE  delivery[d].state \in Completed
  <2> DEFINE last == Latest(OfDate(date))
  <2>1. d \in OfDate(date) /\ OfDate(date) \subseteq Delivery
    BY <1>2 DEF OfDate
  <2>2. last \in OfDate(date) /\ delivery[d].gen <= delivery[last].gen
    BY <2>1, LatestExists, GenerationsBounded DEF RunInv
  <2>3. last \in Delivery /\ Exists(last) /\ delivery[last].date = date
    BY <2>2 DEF OfDate
  <2> HIDE DEF last
  <2>4. delivery[last].state \in Terminal
    BY <2>3 DEF Actives, IsActive, Exists
  <2>5. CASE force
    <3>1. delivery[last].state \in Completed
      BY <2>5 DEF MayCreate, last
    <3>2. d = last \/ delivery[d].gen < delivery[last].gen
      BY <1>2, <2>2, <2>3, GenerationsBounded DEF UniqueGenerations
    <3> QED BY <1>2, <2>3, <3>1, <3>2 DEF OneOpenGeneration
  <2>6. CASE ~force
    <3>1. delivery[last].state \notin Completed /\ delivery[last].state # "failed_terminal"
      BY <2>1, <2>2, <2>6 DEF MayCreate, last
    <3> QED BY <2>4, <3>1 DEF Terminal
  <2> QED BY <2>5, <2>6
<1> QED BY <1>1, <1>2

\* A chunk of a delivery whose budget is used up, and that is due, leaves no attempt open.
LEMMA NoOpenAtLimit ==
  ASSUME RunInv, OutboxOrder, NEW d \in Delivery, NEW k \in Chunk,
         chunk[d][k].state \in {"pending", "retry_wait"}, chunk[d][k].attempts >= MaxAttempts
  PROVE  ~HasState(d, "in_flight")
<1>1. SUFFICES ASSUME NEW j \in Chunk, chunk[d][j].state = "in_flight" PROVE FALSE
  BY DEF HasState
<1>2. chunk[d][k].attempts > 0
  BY StoreAssumption, ChunkTyped DEF ChunkRow
<1>3. /\ \A i \in 1..(k - 1) : chunk[d][i].state = "sent"
      /\ \A i \in 1..(j - 1) : chunk[d][i].state = "sent"
  BY <1>1, <1>2 DEF OutboxOrder
<1>4. j \in 1..(k - 1) \/ k \in 1..(j - 1) \/ j = k
  BY StoreAssumption DEF Chunk
<1> QED BY <1>1, <1>3, <1>4

LEMMA ReservedByPlan ==
  ASSUME RunInv, UniqueGenerations, OneOpenGeneration, WaitsForReason, ~BudgetMayElapse => InFlightOpen,
         NEW r \in Run, Plan(r)
  PROVE  Reserved(r)'
<1> DEFINE d == ToResume(run[r].date)
           p == IF run[r].force THEN "release" ELSE ResumeAt(d)
<1>1. run \in [Run -> RunState] /\ UNCHANGED <<delivery, chunk, history>>
  BY DEF RunInv, RunsOK, Plan, storeVars
<1>2. CASE Actives # {}
  <2>1. run'[r].act = d /\ run'[r].pc = p
    BY <1>1, <1>2 DEF Plan, RunState
  <2>2. d \in Delivery
    BY <1>2, ResumeIsActive, GenerationsBounded DEF RunInv, Actives
  <2>3. p \in {"release", "giveup", "reopen", "collect", "target"}
    BY DEF ResumeAt
  <2>4. CASE p \in {"reopen", "collect"}
    <3>1. /\ DueChunks(d) = {}
          /\ delivery[d].state = "collecting" \/ (delivery[d].state = "retry_wait" /\ delivery[d].due)
      BY <2>4 DEF ResumeAt
    <3>2. ~HasState(d, "retry_wait") \/ delivery[d].state = "collecting"
      BY <3>1 DEF DueChunks, HasState
    <3>3. Unprepared(d)
      BY <2>2, <3>1, <3>2 DEF WaitsForReason, Waiting
    <3>4. \A k \in Chunk : chunk'[d][k].state = "none"
      BY <1>1, <3>3 DEF Unprepared, ChunksOf
    <3> HIDE DEF d, p
    <3>5. run'[r].pc \in BeforeFreeze \ {"prepare"}
      BY <2>1, <2>4 DEF BeforeFreeze
    <3> QED BY <2>1, <2>4, <3>4, <3>5, ReservedAgain DEF InQueue
  <2>5. CASE p = "giveup"
    <3>1. delivery[d].state = "retry_wait"
      BY <2>5 DEF ResumeAt
    <3>2. ~BudgetMayElapse => \A k \in Chunk : chunk'[d][k].state # "in_flight"
      BY <1>1, <2>2, <3>1 DEF InFlightOpen, HasState
    <3> HIDE DEF d, p
    <3> QED BY <2>1, <2>5, <3>2, ReservedAgain DEF BeforeFreeze, InQueue
  <2>6. CASE p \in {"release", "target"}
    <3> HIDE DEF d, p
    <3> QED BY <2>1, <2>6, QuietPlace DEF ReservedPlaces, BeforeFreeze, InQueue
  <2> QED BY <2>3, <2>4, <2>5, <2>6
<1>3. CASE Actives = {}
  <2>1. run'[r].date = run[r].date /\ run'[r].pc \in {"create", "release"}
        /\ (run'[r].pc = "create" => MayCreate(run[r].date, run[r].force))
    BY <1>1, <1>3 DEF Plan, Goto, RunState
  <2>2. CASE run'[r].pc = "create"
    <3>1. \A x \in Delivery : delivery[x].state # "absent" =>
            /\ delivery[x].state \in Terminal
            /\ delivery[x].date = run[r].date => delivery[x].state \in Completed
      BY <1>3, <2>1, <2>2, CreationIsDue DEF Exists
    <3> QED BY <1>1, <2>1, <2>2, <3>1, ReservedAgain DEF BeforeFreeze, InQueue
  <2>3. CASE run'[r].pc = "release"
    BY <2>3, QuietPlace DEF ReservedPlaces, BeforeFreeze, InQueue
  <2> QED BY <2>1, <2>2, <2>3
<1> QED BY <1>2, <1>3

LEMMA ReservedByAttempt ==
  ASSUME RunInv, OutboxOrder, Thrifty, NEW r \in Run, Reserved(r), HoldsLease(r), Attempt(r)
  PROVE  Reserved(r)'
<1> DEFINE d == run[r].act
           k == Current(r)
<1>1. run \in [Run -> RunState] /\ run[r].pc = "attempt"
  BY DEF RunInv, RunsOK, Attempt, At
<1>2. d \in Delivery /\ k \in Chunk /\ k \in run[r].queue
  BY <1>1, PlaceFacts, CurrentIsLeast DEF RunInv, WithDelivery, AtChunk
<1>3. \A j \in run[r].queue : chunk[d][j].state \in {"pending", "retry_wait"}
  BY <1>1, ReservedFacts DEF InQueue
<1>4. ASSUME NEW q, Goto(r, q)
      PROVE  run'[r].pc = q /\ run'[r].act = d /\ run'[r].queue = run[r].queue
  BY <1>1, <1>4 DEF Goto, RunState
<1>5. CASE BudgetExhausted(d, chunk[d][k].attempts) /\ Goto(r, "giveup") /\ UNCHANGED storeVars
  <2>1. ~BudgetMayElapse => chunk[d][k].attempts >= MaxAttempts
    BY <1>2, <1>5 DEF BudgetExhausted, Thrifty
  <2>2. ~BudgetMayElapse => ~HasState(d, "in_flight")
    BY <1>2, <1>3, <2>1, NoOpenAtLimit
  <2>3. ~BudgetMayElapse => \A j \in Chunk : chunk'[d][j].state # "in_flight"
    BY <1>5, <2>2 DEF HasState, storeVars
  <2>4. run'[r].pc = "giveup" /\ run'[r].act = d
    BY <1>4, <1>5
  <2> HIDE DEF d, k
  <2> QED BY <2>3, <2>4, ReservedAgain DEF BeforeFreeze, InQueue
<1>6. CASE BeginChunkAttempt(r, d, k) /\ Goto(r, "send")
  <2>1. \A j \in Chunk : j # k => chunk'[d][j] = chunk[d][j]
    BY <1>2, <1>6 DEF BeginChunkAttempt, RunInv, StoreTypeOK
  <2>2. run'[r].pc = "send" /\ run'[r].act = d /\ run'[r].queue = run[r].queue
    BY <1>4, <1>6
  <2>3. Current(r)' = k
    BY <2>2, SameRunSameChunk
  <2>4. run[r].queue \subseteq Chunk
    BY <1>1 DEF RunState
  <2> HIDE DEF d, k
  <2>5. \A j \in run'[r].queue : chunk'[run'[r].act][j].state \in {"pending", "retry_wait"} \/ j = Current(r)'
    BY <1>3, <2>1, <2>2, <2>3, <2>4
  <2> QED BY <2>2, <2>5, ReservedAgain DEF BeforeFreeze, InQueue
<1>7. CASE \E ok : Refused(r, ok)
  <2>1. Goto(r, "except")
    BY <1>1, <1>7 DEF Refused, Raise
  <2> QED BY <1>4, <2>1, QuietPlace DEF ReservedPlaces, BeforeFreeze, InQueue
<1> QED BY <1>5, <1>6, <1>7 DEF Attempt

LEMMA ReservedByFinish ==
  ASSUME RunInv, NEW r \in Run, Reserved(r), HoldsLease(r), Finish(r)
  PROVE  Reserved(r)'
<1> DEFINE d == run[r].act
           k == Current(r)
           rest == run[r].queue \ {k}
<1>1. run \in [Run -> RunState] /\ run[r].pc = "finish"
  BY DEF RunInv, RunsOK, Finish, At
<1>2. d \in Delivery /\ k \in Chunk /\ run[r].queue \subseteq Chunk
  BY <1>1, PlaceFacts, CurrentIsLeast DEF RunInv, WithDelivery, AtChunk, RunState
<1>3. \A j \in rest : chunk[d][j].state \in {"pending", "retry_wait"}
  BY <1>1, ReservedFacts DEF InQueue
<1>4. ASSUME NEW q, Goto(r, q)
      PROVE  run'[r].pc = q
  BY <1>1, <1>4 DEF Goto, RunState
<1>5. CASE AcceptChunk(r, d, k) /\ run' = [run EXCEPT ![r].queue = rest, ![r].reply = "none", ![r].pc = AfterChunk(rest)]
  <2>1. \A j \in Chunk : j # k => chunk'[d][j] = chunk[d][j]
    BY <1>2, <1>5 DEF AcceptChunk, RunInv, StoreTypeOK
  <2>2. run'[r].pc \in {"loop", "attempt"} /\ run'[r].act = d /\ run'[r].queue = rest
    BY <1>1, <1>5 DEF RunState, AfterChunk
  <2>3. \A j \in rest : chunk'[d][j].state \in {"pending", "retry_wait"}
    BY <1>2, <1>3, <2>1
  <2> HIDE DEF d, rest
  <2> QED BY <2>2, <2>3, ReservedAgain DEF BeforeFreeze, InQueue
<1>6. CASE Goto(r, "release") \/ Goto(r, "except")
  BY <1>4, <1>6, QuietPlace DEF ReservedPlaces, BeforeFreeze, InQueue
<1>7. CASE \E ok : Refused(r, ok)
  BY <1>1, <1>6, <1>7 DEF Refused, Raise
<1> QED BY <1>5, <1>6, <1>7 DEF Finish

LEMMA ReservedByRun ==
  ASSUME RunInv, OutboxOrder, Thrifty, UniqueGenerations, OneOpenGeneration, WaitsForReason,
         ~BudgetMayElapse => InFlightOpen, NEW r \in Run, Reserved(r), Step(r)
  PROVE  Reserved(r)'
<1> USE DEF At
<1>1. run \in [Run -> RunState]
  BY DEF RunInv, RunsOK
<1>2. ASSUME NEW q, Goto(r, q)
      PROVE  run'[r].pc = q /\ run'[r].act = run[r].act /\ run'[r].queue = run[r].queue
             /\ run'[r].draft = run[r].draft /\ run'[r].date = run[r].date
  BY <1>1, <1>2 DEF Goto, RunState
<1>3. ASSUME NEW q, Goto(r, q), q \notin ReservedPlaces
      PROVE  Reserved(r)'
  BY <1>2, <1>3, QuietPlace
<1>4. CASE End(r) \/ Raise(r)
  <2>1. run'[r].pc \in {"idle", "release", "except"}
    BY <1>1, <1>2, <1>4 DEF End, Raise, Idle
  <2> QED BY <2>1, QuietPlace DEF ReservedPlaces, BeforeFreeze, InQueue
<1>5. \A ok : Refused(r, ok) => Reserved(r)'
  BY <1>4 DEF Refused
<1>6. HoldsLease(r)' => HoldsLease(r) \/ At(r, "acquire")
  BY LeaseKeeper DEF Next
<1>7. ASSUME run[r].pc \in BeforeFreeze, HoldsLease(r), NEW q \in BeforeFreeze \ {"prepare"}, Goto(r, q), UNCHANGED chunk
      PROVE  Reserved(r)'
  <2>1. \A k \in Chunk : chunk'[run'[r].act][k].state = "none"
    BY <1>2, <1>7, ReservedFacts
  <2> QED BY <1>2, <1>7, <2>1, ReservedAgain DEF BeforeFreeze, InQueue
<1>8. CASE Recover(r) \/ Acquire(r)
  BY <1>3, <1>4, <1>8 DEF Recover, Acquire, ReservedPlaces, BeforeFreeze, InQueue
<1>9. CASE Plan(r)
  BY <1>9, ReservedByPlan
<1>10. CASE Reopen(r)
  BY <1>5, <1>7, <1>10 DEF Reopen, ReopenForCollection, CanReopen, BeforeFreeze
<1>11. CASE Create(r)
  <2>1. ASSUME NEW d \in Delivery, NEW pred, run' = [run EXCEPT ![r].pc = "collect", ![r].act = d],
               CreateDelivery(r, d, run[r].date, NextGeneration(run[r].date), run[r].force, pred)
        PROVE  Reserved(r)'
    <3>1. ~Exists(d) /\ UNCHANGED chunk
      BY <2>1 DEF CreateDelivery, CanCreate, Delivery
    <3>2. \A k \in Chunk : chunk'[d][k].state = "none"
      BY <3>1 DEF RunInv, StoreTypeOK
    <3>3. run'[r].pc = "collect" /\ run'[r].act = d
      BY <1>1, <2>1 DEF RunState
    <3> QED BY <3>2, <3>3, ReservedAgain DEF BeforeFreeze, InQueue
  <2> QED BY <1>5, <1>11, <2>1 DEF Create
<1>12. CASE GiveUp(r) \/ Defer(r) \/ Except(r) \/ CheckTarget(r)
  BY <1>3, <1>5, <1>12 DEF GiveUp, Defer, Except, CheckTarget, ReservedPlaces, BeforeFreeze, InQueue
<1>13. CASE Collect(r) \/ Collected(r) \/ AllFailed(r)
  BY <1>5, <1>7, <1>13 DEF Collect, Collected, AllFailed, RecordCollectionAttempt, BeforeFreeze, storeVars
<1>14. CASE Select(r)
  <2>1. PICK digest \in Digest : Unseen(digest) /\ run' = [run EXCEPT ![r].pc = "prepare", ![r].draft = digest]
    BY <1>14 DEF Select
  <2>2. run'[r].pc = "prepare" /\ run'[r].draft = digest /\ run'[r].act = run[r].act
    BY <1>1, <2>1 DEF RunState
  <2>3. UNCHANGED <<chunk, history, lease>>
    BY <1>14 DEF Select, storeVars
  <2>4. HoldsLease(r) => \A k \in Chunk : chunk[run[r].act][k].state = "none"
    BY <1>14, ReservedFacts DEF Select, BeforeFreeze
  <2> QED BY <2>1, <2>2, <2>3, <2>4, ReservedAgain DEF Unseen, InQueue, HoldsLease
<1>15. CASE Prepare(r)
  <2>1. CASE run' = [run EXCEPT ![r].pc = "target", ![r].draft = <<>>]
    <3>1. run'[r].pc = "target"
      BY <1>1, <2>1 DEF RunState
    <3> QED BY <3>1, QuietPlace DEF ReservedPlaces, BeforeFreeze, InQueue
  <2> QED BY <1>5, <1>15, <2>1 DEF Prepare
<1>16. CASE Loop(r)
  <2> DEFINE due == DueChunks(run[r].act)
  <2>1. CASE run' = [run EXCEPT ![r].queue = due, ![r].pc = IF due = {} THEN "release" ELSE "attempt"]
             /\ UNCHANGED chunk
    <3>1. run'[r].pc \in {"release", "attempt"} /\ run'[r].queue = due /\ run'[r].act = run[r].act
      BY <1>1, <2>1 DEF RunState
    <3>2. \A k \in due : chunk[run[r].act][k].state \in {"pending", "retry_wait"}
      BY DEF DueChunks
    <3> HIDE DEF due
    <3> QED BY <2>1, <3>1, <3>2, ReservedAgain DEF BeforeFreeze, InQueue
  <2> QED BY <1>5, <1>16, <2>1 DEF Loop, storeVars
<1>17. CASE Attempt(r)
  <2>1. CASE HoldsLease(r)
    BY <1>17, <2>1, ReservedByAttempt
  <2>2. CASE ~HoldsLease(r)'
    BY <2>2, ReservedAgain
  <2> QED BY <1>6, <1>17, <2>1, <2>2 DEF Attempt
<1>18. CASE Send(r)
  <2>1. run'[r].pc = "finish" /\ run'[r].queue = run[r].queue /\ run'[r].act = run[r].act
    BY <1>1, <1>18 DEF Send, RunState
  <2>2. UNCHANGED <<chunk, lease>> /\ Current(r)' = Current(r)
    BY <1>18, <2>1, SameRunSameChunk DEF Send, storeVars
  <2>3. HoldsLease(r) => \A k \in run[r].queue :
          chunk[run[r].act][k].state \in {"pending", "retry_wait"} \/ k = Current(r)
    BY <1>18, ReservedFacts DEF Send, InQueue
  <2> QED BY <2>1, <2>2, <2>3, ReservedAgain DEF BeforeFreeze, InQueue, HoldsLease
<1>19. CASE Finish(r)
  <2>1. CASE HoldsLease(r)
    BY <1>19, <2>1, ReservedByFinish
  <2>2. CASE ~HoldsLease(r)'
    BY <2>2, ReservedAgain
  <2> QED BY <1>6, <1>19, <2>1, <2>2 DEF Finish
<1>20. CASE Release(r)
  BY <1>4, <1>20 DEF Release
<1> QED BY <1>8, <1>9, <1>10, <1>11, <1>12, <1>13, <1>14, <1>15, <1>16, <1>17, <1>18, <1>19, <1>20 DEF Step

-----------------------------------------------------------------------------
PlanInv ==
  /\ ChatInv /\ CompletedIffAllSent /\ HistoryIsAcknowledged
  /\ UniqueGenerations /\ OneOpenGeneration /\ WaitsForReason /\ Thrifty
  /\ ~BudgetMayElapse => InFlightOpen /\ AmbiguousNeedsAttention /\ OlderSettled /\ FreshStories
  /\ \A r \in Run : Reserved(r)

LEMMA PlanInit == Init => PlanInv
<1> SUFFICES ASSUME Init PROVE PlanInv
  OBVIOUS
<1>1. ChatInv /\ CompletedIffAllSent /\ HistoryIsAcknowledged
  BY ChatInit, CompletionInit, HistoryInit DEF Init
<1>2. \A d \in Delivery : delivery[d] = NoDelivery /\ \A k \in Chunk : chunk[d][k] = NoChunk
  BY DEF Init, StoreInit
<1>3. \A d \in Delivery : ~Exists(d) /\ delivery[d].state = "absent" /\ ~delivery[d].spent
  BY <1>2 DEF Exists, NoDelivery
<1>4. \A d \in Delivery, k \in Chunk : chunk[d][k].state = "none" /\ chunk[d][k].items = {}
  BY <1>2 DEF NoChunk
<1>5. UniqueGenerations /\ OneOpenGeneration /\ WaitsForReason /\ Thrifty /\ OlderSettled /\ FreshStories
  BY <1>3, <1>4 DEF UniqueGenerations, OneOpenGeneration, WaitsForReason, Waiting, Thrifty, OlderSettled, FreshStories
<1>6. InFlightOpen /\ AmbiguousNeedsAttention
  BY <1>4 DEF InFlightOpen, AmbiguousNeedsAttention, HasState
<1>7. \A r \in Run : Reserved(r)
  BY DEF Init, StoreInit, NoLease, HoldsLease, Reserved
<1> QED BY <1>1, <1>5, <1>6, <1>7 DEF PlanInv

\* A run is not at a reserved place right after the steps of another.
LEMMA ComesFromRun ==
  ASSUME RunInv, [Next]_vars, NEW r \in Run, ~Step(r), run'[r].pc \in ReservedPlaces
  PROVE  ~At(r, "acquire") /\ ~At(r, "idle")
<1>1. run \in [Run -> RunState]
  BY DEF RunInv, RunsOK
<1>2. CASE run'[r] = run[r]
  BY <1>2 DEF At, ReservedPlaces, BeforeFreeze, InQueue
<1>3. CASE Starts(r) \/ StoreFails(r) \/ Stops(r) \/ Crash(r)
  <2>1. CASE Starts(r)
    <3>1. PICK t \in Target, force \in MayForce :
            run' = [run EXCEPT ![r] = [Idle EXCEPT !.pc = "recover", !.date = today, !.tgt = t, !.force = force]]
      BY <2>1 DEF Starts, Start
    <3>2. [Idle EXCEPT !.pc = "recover", !.date = today, !.tgt = t, !.force = force].pc = "recover"
      BY DEF Idle
    <3>3. run'[r].pc = "recover"
      BY <1>1, <3>1, <3>2, Zenon
    <3> QED BY <3>3 DEF ReservedPlaces, BeforeFreeze, InQueue
  <2>2. CASE StoreFails(r) \/ Stops(r) \/ Crash(r)
    <3>1. run'[r].pc \in {"idle", "release", "except"}
      BY <1>1, <2>2 DEF StoreFails, Raise, Stops, Crash, Goto, End, Idle, RunState
    <3> QED BY <3>1 DEF ReservedPlaces, BeforeFreeze, InQueue
  <2> QED BY <1>3, <2>1, <2>2
<1>4. \/ \E s \in Run : Step(s) \/ Starts(s) \/ StoreFails(s) \/ Stops(s) \/ Crash(s)
      \/ UNCHANGED run
  BY DEF Next, Operator, Clock, ExpireLease, DayTurns, vars
<1> QED BY <1>2, <1>3, <1>4, OnlyItself

LEMMA PlanStep ==
  ASSUME PlanInv, [Next]_vars
  PROVE  PlanInv'
<1>1. RunInv /\ OutboxOrder /\ StoreTypeOK /\ WaitsForReason
  BY DEF PlanInv, ChatInv, RunInv
<1>2. ChatInv' /\ RunInv' /\ [StoreNext]_storeVars
  BY <1>1, ChatStep, NextStep DEF PlanInv
<1>3. CompletedIffAllSent' /\ HistoryIsAcknowledged'
  BY <1>1, <1>2, CompletionStep, HistoryStep DEF PlanInv
<1>4. TableStep
  BY <1>1, StepKinds DEF PlanInv
<1>5. \A d \in Delivery : delivery[d].state \in Completed => delivery'[d].state \in Completed
  BY <1>1, <1>2, <1>3, CompletedStays DEF PlanInv
<1>6. UniqueGenerations' /\ OneOpenGeneration' /\ WaitsForReason' /\ Thrifty'
  BY <1>1, <1>4, <1>5, UniqueStep, OpenGenerationStep, WaitsStep, ThriftyStep DEF PlanInv
<1>7. ~BudgetMayElapse => InFlightOpen' /\ AmbiguousNeedsAttention' /\ OlderSettled' /\ FreshStories'
  BY <1>1, <1>4, OpenStep, SettledStep, FreshStep DEF PlanInv
<1>8. ASSUME NEW r \in Run
      PROVE  Reserved(r)'
  <2>1. CASE Step(r)
    BY <1>1, <2>1, ReservedByRun DEF PlanInv
  <2>2. CASE run'[r].pc \notin ReservedPlaces \/ ~HoldsLease(r)'
    BY <2>2, QuietPlace, ReservedAgain
  <2>3. CASE ~Step(r) /\ run'[r].pc \in ReservedPlaces /\ HoldsLease(r)'
    <3>1. ~At(r, "acquire") /\ ~At(r, "idle")
      BY <1>1, <2>3, ComesFromRun
    <3>2. HoldsLease(r)
      BY <1>1, <2>3, <3>1, LeaseKeeper
    <3>3. Rests /\ run'[r] = run[r]
      BY <1>1, <2>3, <3>1, <3>2, HolderAlone
    <3> QED BY <1>1, <3>2, <3>3, ReservedByRest DEF PlanInv
  <2> QED BY <2>1, <2>2, <2>3
<1> QED BY <1>2, <1>3, <1>6, <1>7, <1>8 DEF PlanInv

LEMMA PlanAlways == Spec => []PlanInv
BY PlanInit, PlanStep, PTL DEF Spec

\* Generations of a date are added only on top of completed ones: a failed or
\* unresolved delivery is never planned over, whatever runs come and go.
THEOREM GenerationsStack == Spec => []OneOpenGeneration
BY PlanAlways, PTL DEF PlanInv

\* A chunk in doubt shows as needs_attention, as docs/architecture.md says,
\* as long as the elapsed-time budget does not run out.
THEOREM DoubtIsShown ==
  ASSUME ~BudgetMayElapse
  PROVE  Spec => []AmbiguousNeedsAttention
<1>1. PlanInv => AmbiguousNeedsAttention
  BY DEF PlanInv
<1> QED BY <1>1, PlanAlways, PTL

\* No story appears in the chat twice, if the operator looks before resolving
\* and the elapsed-time budget does not run out.
THEOREM NoStoryTwice ==
  ASSUME HonestOperator, ~BudgetMayElapse
  PROVE  Spec => []NoRepeatedStory
<1>1. ASSUME PlanInv, NEW d \in Delivery, NEW j \in Chunk, landed[d][j] > 0
      PROVE  chunk[d][j].state \in OpenStates \cup {"sent"}
  <2>1. Tally(d, j) /\ landed[d][j] \in Nat /\ chunk[d][j] \in ChunkRow
    BY <1>1, ChunkTyped DEF PlanInv, ChatInv, SendInv
  <2> QED BY <1>1, <2>1 DEF Tally, Allowance, UnsentStates, OpenStates, ChunkRow, ChunkState
<1>2. ASSUME PlanInv, NEW d \in Delivery, NEW e \in Delivery, NEW j \in Chunk, NEW k \in Chunk,
             landed[d][j] > 0, d < e
      PROVE  chunk[d][j].items \cap chunk[e][k].items = {}
  <2>1. CASE ~Exists(e)
    <3>1. chunk[e][k] = NoChunk
      BY <1>2, <2>1 DEF PlanInv, ChatInv, RunInv, StoreTypeOK, AttemptOK
    <3> QED BY <3>1 DEF NoChunk
  <2>2. CASE Exists(e)
    <3>1. delivery[d].state \in Terminal
      BY <1>2, <2>2 DEF PlanInv, OlderSettled
    <3>2. chunk[d][j].state \notin OpenStates
      BY <1>2, <3>1 DEF PlanInv, InFlightOpen, AmbiguousNeedsAttention, HasState, OpenStates, Terminal, Completed
    <3>3. chunk[d][j].state = "sent"
      BY <1>1, <1>2, <3>2
    <3> QED BY <1>2, <3>3 DEF PlanInv, FreshStories
  <2> QED BY <2>1, <2>2
<1>3. PlanInv => NoRepeatedStory
  <2> SUFFICES ASSUME PlanInv, NEW d \in Delivery, NEW e \in Delivery, NEW j \in Chunk, NEW k \in Chunk,
                      landed[d][j] > 0, landed[e][k] > 0, chunk[d][j].items \cap chunk[e][k].items # {}
               PROVE  d = e /\ j = k
    BY DEF NoRepeatedStory
  <2>1. ~(d < e) /\ ~(e < d)
    BY <1>2
  <2>2. d = e
    BY <2>1, StoreAssumption DEF Delivery
  <2>3. j = k
    BY <2>2 DEF PlanInv, FreshStories
  <2> QED BY <2>2, <2>3
<1> QED BY <1>3, PlanAlways, PTL
=============================================================================
