-------------------------- MODULE ReconcileProofs ---------------------------
(***************************************************************************)
(* No restore takes back an acknowledgement (AckSurvives), no chunk        *)
(* reaches the chat twice (ChunkOnce), and no story is shown under two     *)
(* payloads (StoryOnce), for any number of stories, payloads, backups and  *)
(* restores.                                                               *)
(*                                                                         *)
(* A restore recognises a chunk by its chunk_id and payload.  That is      *)
(* enough because a payload is planned once, and keeps its place in every  *)
(* copy (Placed).                                                          *)
(***************************************************************************)
EXTENDS Reconcile, SequenceTheorems, FiniteSetTheorems, TLAPS

HasChunks(d) ==
  /\ d \in Database
  /\ \A i \in DOMAIN d.chunks : /\ d.chunks[i].payload <= planned
                               /\ d.chunks[i].delivery \in DOMAIN d.deliveries

\* chunks with the same payload are in the same place and tell the same story
SamePlace(d, e) ==
  \A i \in DOMAIN d.chunks, j \in DOMAIN e.chunks :
    d.chunks[i].payload = e.chunks[j].payload => i = j /\ d.chunks[i].story = e.chunks[j].story

Databases == backups \cup ({db} \ {None})

Placed ==
  /\ planned \in Nat
  /\ \A d \in Databases : HasChunks(d)
  /\ \A d, e \in Databases : SamePlace(d, e)

\* d2 has the chunks of d, in other states, and its deliveries
SameChunks(d, d2) ==
  /\ d2 \in Database
  /\ DOMAIN d2.chunks = DOMAIN d.chunks
  /\ DOMAIN d.deliveries \subseteq DOMAIN d2.deliveries
  /\ \A i \in DOMAIN d.chunks : /\ d2.chunks[i].payload = d.chunks[i].payload
                               /\ d2.chunks[i].story = d.chunks[i].story
                               /\ d2.chunks[i].delivery = d.chunks[i].delivery

\* of the chunks, only i has moved, to state s
OneMoves(d, d2, i, s) ==
  /\ SameChunks(d, d2)
  /\ \A j \in DOMAIN d.chunks : d2.chunks[j].state = IF j = i THEN s ELSE d.chunks[j].state

\* only the delivery of i may have moved, to completed or to open
OneFollows(d, d2, i, open) ==
  /\ DOMAIN d2.deliveries = DOMAIN d.deliveries
  /\ \A n \in DOMAIN d.deliveries :
       d2.deliveries[n] = IF n # d.chunks[i].delivery THEN d.deliveries[n]
                          ELSE IF AllSent(d2, n) THEN "completed" ELSE open

LEMMA CopyKeepsPlaces ==
  ASSUME Placed, NEW d \in Databases, SameChunks(d, db'), UNCHANGED <<backups, planned>>
  PROVE  Placed'
<1>1. \A e \in Databases' : e = db' \/ e \in Databases
  BY DEF Databases
<1>2. planned \in Nat /\ planned' = planned
  BY DEF Placed
<1>3. HasChunks(d) /\ \A e \in Databases : HasChunks(e) /\ SamePlace(d, e) /\ SamePlace(e, d)
  BY DEF Placed
<1>4. ASSUME NEW e \in Databases'
      PROVE  HasChunks(e)'
  <2>1. CASE e = db'
    BY <1>2, <1>3, <2>1 DEF HasChunks, SameChunks
  <2>2. CASE e \in Databases
    BY <1>2, <1>3, <2>2 DEF HasChunks
  <2> QED BY <1>1, <2>1, <2>2
<1>5. ASSUME NEW e \in Databases', NEW f \in Databases'
      PROVE  SamePlace(e, f)
  <2>1. \A g \in Databases : SamePlace(db', g) /\ SamePlace(g, db')
    BY <1>3 DEF SamePlace, SameChunks
  <2>2. SamePlace(db', db')
    BY <1>3 DEF SamePlace, SameChunks
  <2> QED BY <1>1, <2>1, <2>2 DEF Placed
<1> QED BY <1>2, <1>4, <1>5 DEF Placed, SamePlace

LEMMA MarkChunks ==
  ASSUME NEW d \in Database, NEW i \in DOMAIN d.chunks, NEW s \in ChunkStates,
         NEW open \in DeliveryStates
  PROVE  /\ OneMoves(d, Mark(d, i, s, open), i, s)
         /\ OneFollows(d, Mark(d, i, s, open), i, open)
         /\ Mark(d, i, s, open).history
              = IF s = "sent" THEN d.history \cup {d.chunks[i].story} ELSE d.history
<1> DEFINE row == [d.chunks[i] EXCEPT !.state = s]
           c == [d EXCEPT !.chunks = [@ EXCEPT ![i] = row]]
           n == d.chunks[i].delivery
           ds(x) == [d.deliveries EXCEPT ![n] = x]
<1>1. d.chunks \in Seq(Chunk) /\ d.deliveries \in Seq(DeliveryStates) /\ d.history \in SUBSET Story
  BY DEF Database
<1>2. d.chunks[i] \in Chunk /\ \A j \in DOMAIN d.chunks : d.chunks[j] \in Chunk
  BY <1>1
<1>3. /\ row \in Chunk /\ row.payload = d.chunks[i].payload /\ row.state = s
      /\ row.story = d.chunks[i].story /\ row.delivery = d.chunks[i].delivery
  BY <1>2 DEF Chunk
<1>4. [d.chunks EXCEPT ![i] = row] \in Seq(Chunk)
  BY <1>1, <1>3, ExceptSeq
<1>5. \A x \in DeliveryStates : ds(x) \in Seq(DeliveryStates)
  <2> TAKE x \in DeliveryStates
  <2>1. CASE n \in 1..Len(d.deliveries)
    BY <1>1, <2>1, ExceptSeq
  <2>2. CASE n \notin 1..Len(d.deliveries)
    <3>1. n \notin DOMAIN d.deliveries
      BY <1>1, <2>2
    <3>2. ds(x) = d.deliveries
      BY <1>1, <3>1
    <3> QED BY <1>1, <3>2
  <2> QED BY <2>1, <2>2
<1> DEFINE x == IF AllSent(c, n) THEN "completed" ELSE open
           h == IF s = "sent" THEN d.history \cup {d.chunks[i].story} ELSE d.history
<1>6. x \in DeliveryStates /\ h \in SUBSET Story
  BY <1>1, <1>2 DEF Chunk, DeliveryStates
<1>7. c = [chunks |-> [d.chunks EXCEPT ![i] = row], deliveries |-> d.deliveries, history |-> d.history]
  <2> DEFINE cs == [d.chunks EXCEPT ![i] = row]
  <2> HIDE DEF cs
  <2>1. [d EXCEPT !.chunks = cs] = [chunks |-> cs, deliveries |-> d.deliveries, history |-> d.history]
    BY DEF Database
  <2> QED BY <2>1 DEF cs
<1>8. Mark(d, i, s, open) = [c EXCEPT !.deliveries = [@ EXCEPT ![n] = x], !.history = h]
  BY <1>7 DEF Mark
<1>9. Mark(d, i, s, open) = [chunks |-> [d.chunks EXCEPT ![i] = row], deliveries |-> ds(x), history |-> h]
  BY <1>7, <1>8
<1> HIDE DEF x, h, c
<1> DEFINE m == Mark(d, i, s, open)
<1>10. m.chunks = [d.chunks EXCEPT ![i] = row] /\ m.deliveries = ds(x) /\ m.history = h
  BY <1>9
<1>11. m \in Database /\ DOMAIN m.chunks = DOMAIN d.chunks /\ DOMAIN m.deliveries = DOMAIN d.deliveries
  BY <1>4, <1>5, <1>6, <1>9 DEF Database
<1>12. \A j \in DOMAIN d.chunks : m.chunks[j] = IF j = i THEN row ELSE d.chunks[j]
  BY <1>10
<1> HIDE DEF m
<1>13. OneMoves(d, m, i, s)
  BY <1>3, <1>11, <1>12 DEF OneMoves, SameChunks
<1>14. OneFollows(d, m, i, open)
  <2>1. AllSent(c, n) = AllSent(m, n)
    BY <1>7, <1>10 DEF AllSent, OfDelivery
  <2>2. \A k \in DOMAIN d.deliveries : m.deliveries[k] = IF k = n THEN x ELSE d.deliveries[k]
    BY <1>10
  <2> QED BY <1>11, <2>1, <2>2 DEF OneFollows, x
<1> QED BY <1>10, <1>13, <1>14 DEF m, h

LEMMA ChunkAt ==
  ASSUME NEW d \in Database, NEW i \in DOMAIN d.chunks
  PROVE  /\ i \in Nat
         /\ d.chunks[i].payload \in Payload /\ d.chunks[i].story \in Story
         /\ d.chunks[i].state \in ChunkStates
<1>1. d.chunks \in Seq(Chunk)
  BY DEF Database
<1>2. d.chunks[i] \in Chunk /\ i \in Nat
  BY <1>1
<1> QED BY <1>2 DEF Chunk

LEMMA RowOf ==
  ASSUME NEW d \in Database
  PROVE  d = [chunks |-> d.chunks, deliveries |-> d.deliveries, history |-> d.history]
BY DEF Database

\* d2 has the deliveries of d as they are, and others that are completed
MoreDeliveries(d, d2) ==
  /\ DOMAIN d.deliveries \subseteq DOMAIN d2.deliveries
  /\ \A n \in DOMAIN d2.deliveries :
       d2.deliveries[n] = IF n \in DOMAIN d.deliveries THEN d.deliveries[n] ELSE "completed"

LEMMA MergeChunks ==
  ASSUME NEW t \in Database, NEW b \in Database
  PROVE  /\ MergeHistory(t, b) \in Database
         /\ MergeHistory(t, b).chunks = b.chunks
         /\ MoreDeliveries(b, MergeHistory(t, b))
         /\ MergeHistory(t, b).history = b.history \cup t.history
<1>1. "completed" \in DeliveryStates /\ b.deliveries \in Seq(DeliveryStates)
  BY DEF DeliveryStates, Database
<1>2. Append(b.deliveries, "completed") \in Seq(DeliveryStates)
  BY <1>1, AppendProperties
<1> DEFINE ds == Append(b.deliveries, "completed")
<1>3. [b EXCEPT !.history = @ \cup t.history, !.deliveries = Append(@, "completed")]
        = [chunks |-> b.chunks, deliveries |-> ds, history |-> b.history \cup t.history]
  <2> DEFINE h == b.history \cup t.history
  <2> HIDE DEF h, ds
  <2> DEFINE r == [b EXCEPT !.history = h]
  <2>1. r = [chunks |-> b.chunks, deliveries |-> b.deliveries, history |-> h]
    BY DEF Database
  <2>2. [b EXCEPT !.history = h, !.deliveries = ds] = [r EXCEPT !.deliveries = ds]
    BY DEF Database
  <2> HIDE DEF r
  <2>3. [r EXCEPT !.deliveries = ds] = [chunks |-> b.chunks, deliveries |-> ds, history |-> h]
    BY <2>1
  <2>4. [b EXCEPT !.history = h, !.deliveries = ds] = [chunks |-> b.chunks, deliveries |-> ds, history |-> h]
    BY <2>2, <2>3
  <2> QED BY <2>4 DEF h, ds
<1> HIDE DEF ds
<1>4. [chunks |-> b.chunks, deliveries |-> ds, history |-> b.history \cup t.history] \in Database
  BY <1>2 DEF Database, ds
<1>5. MoreDeliveries(b, [chunks |-> b.chunks, deliveries |-> ds, history |-> b.history \cup t.history])
  <2>1. /\ Len(ds) = Len(b.deliveries) + 1 /\ ds \in Seq(DeliveryStates)
        /\ \A n \in 1..Len(b.deliveries) : ds[n] = b.deliveries[n]
        /\ ds[Len(b.deliveries) + 1] = "completed"
    BY <1>1, <1>2, AppendProperties DEF ds
  <2>2. Len(b.deliveries) \in Nat /\ DOMAIN b.deliveries = 1..Len(b.deliveries) /\ DOMAIN ds = 1..Len(ds)
    BY <1>1, <2>1
  <2> QED BY <2>1, <2>2 DEF MoreDeliveries
<1>6. CASE t.history \subseteq b.history
  BY <1>6 DEF MergeHistory, MoreDeliveries
<1>7. CASE ~(t.history \subseteq b.history)
  <2>1. MergeHistory(t, b) = [chunks |-> b.chunks, deliveries |-> ds, history |-> b.history \cup t.history]
    BY <1>3, <1>7 DEF MergeHistory
  <2> QED BY <1>4, <1>5, <2>1
<1> QED BY <1>6, <1>7

LEMMA Acknowledges ==
  ASSUME NEW t \in Database, NEW b \in Database
  PROVE  /\ SameChunks(b, ReconcileAcks(t, b))
         /\ \A i \in DOMAIN b.chunks :
              ReconcileAcks(t, b).chunks[i].state
                = IF Acknowledged(t, b, i) THEN "sent" ELSE b.chunks[i].state
         /\ DOMAIN ReconcileAcks(t, b).deliveries = DOMAIN b.deliveries
         /\ \A n \in DOMAIN b.deliveries :
              \/ ReconcileAcks(t, b).deliveries[n] = b.deliveries[n]
              \/ ReconcileAcks(t, b).deliveries[n] = "completed" /\ AllSent(ReconcileAcks(t, b), n)
         /\ ReconcileAcks(t, b).history = b.history
<1> DEFINE acked == {i \in DOMAIN b.chunks : Acknowledged(t, b, i)}
           cs == [i \in DOMAIN b.chunks |->
                    IF i \in acked THEN [b.chunks[i] EXCEPT !.state = "sent"] ELSE b.chunks[i]]
           c == [b EXCEPT !.chunks = [i \in DOMAIN @ |->
                    IF i \in acked THEN [@[i] EXCEPT !.state = "sent"] ELSE @[i]]]
           ds == [n \in DOMAIN c.deliveries |-> IF AllSent(c, n) THEN "completed" ELSE c.deliveries[n]]
<1>1. /\ b.chunks \in Seq(Chunk) /\ b.deliveries \in Seq(DeliveryStates) /\ b.history \in SUBSET Story
      /\ \A i \in DOMAIN b.chunks : b.chunks[i] \in Chunk
  BY DEF Database
<1>2. \A i \in DOMAIN b.chunks : /\ cs[i] \in Chunk /\ cs[i].payload = b.chunks[i].payload
                               /\ cs[i].story = b.chunks[i].story
                               /\ cs[i].delivery = b.chunks[i].delivery
                               /\ cs[i].state = IF i \in acked THEN "sent" ELSE b.chunks[i].state
  BY <1>1 DEF Chunk, ChunkStates
<1>3. cs \in Seq(Chunk) /\ DOMAIN cs = DOMAIN b.chunks
  <2>1. DOMAIN b.chunks = 1..Len(b.chunks) /\ Len(b.chunks) \in Nat
    BY <1>1
  <2>2. cs \in [1..Len(b.chunks) -> Chunk]
    BY <1>2, <2>1
  <2> QED BY <2>1, <2>2
<1>4. c = [b EXCEPT !.chunks = cs]
  OBVIOUS
<1> HIDE DEF cs, c
<1>5. c = [chunks |-> cs, deliveries |-> b.deliveries, history |-> b.history]
  BY <1>4, RowOf
<1>6. /\ ds \in Seq(DeliveryStates) /\ DOMAIN ds = DOMAIN b.deliveries
      /\ \A n \in DOMAIN b.deliveries : ds[n] = IF AllSent(c, n) THEN "completed" ELSE b.deliveries[n]
  <2>1. c.deliveries = b.deliveries
    BY <1>5
  <2> QED BY <1>1, <2>1 DEF DeliveryStates
<1> HIDE DEF ds
<1>7. [c EXCEPT !.deliveries = ds] = [chunks |-> cs, deliveries |-> ds, history |-> b.history]
  BY <1>5
<1>8. ReconcileAcks(t, b) = IF acked = {} THEN b ELSE [c EXCEPT !.deliveries = ds]
  BY DEF ReconcileAcks, c, ds
<1>9. CASE acked = {}
  BY <1>1, <1>8, <1>9 DEF SameChunks
<1>10. CASE acked # {}
  <2>1. ReconcileAcks(t, b) = [chunks |-> cs, deliveries |-> ds, history |-> b.history]
    BY <1>7, <1>8, <1>10
  <2>2. \A n : AllSent(c, n) = AllSent(ReconcileAcks(t, b), n)
    BY <1>5, <2>1 DEF AllSent, OfDelivery
  <2> QED BY <1>1, <1>2, <1>3, <1>6, <2>1, <2>2 DEF SameChunks, Database
<1> QED BY <1>9, <1>10

LEMMA QuarantineChunks ==
  ASSUME NEW b \in Database
  PROVE  /\ SameChunks(b, Quarantine(b))
         /\ \A i \in DOMAIN b.chunks :
              Quarantine(b).chunks[i].state
                = IF b.chunks[i].state = "pending" THEN "ambiguous" ELSE b.chunks[i].state
<1> DEFINE held == {i \in DOMAIN b.chunks : b.chunks[i].state = "pending"}
           cs == [i \in DOMAIN b.chunks |->
                    IF i \in held THEN [b.chunks[i] EXCEPT !.state = "ambiguous"] ELSE b.chunks[i]]
           ds == [n \in DOMAIN b.deliveries |->
                    IF b.deliveries[n] = "sending" /\ held \cap OfDelivery(b, n) # {}
                    THEN "needs_attention" ELSE b.deliveries[n]]
<1>1. /\ b.chunks \in Seq(Chunk) /\ b.deliveries \in Seq(DeliveryStates) /\ b.history \in SUBSET Story
      /\ \A i \in DOMAIN b.chunks : b.chunks[i] \in Chunk
  BY DEF Database
<1>2. \A i \in DOMAIN b.chunks :
        /\ cs[i] \in Chunk /\ cs[i].payload = b.chunks[i].payload
        /\ cs[i].story = b.chunks[i].story /\ cs[i].delivery = b.chunks[i].delivery
        /\ cs[i].state = IF b.chunks[i].state = "pending" THEN "ambiguous" ELSE b.chunks[i].state
  BY <1>1 DEF Chunk, ChunkStates
<1>3. cs \in Seq(Chunk) /\ DOMAIN cs = DOMAIN b.chunks
  <2>1. DOMAIN b.chunks = 1..Len(b.chunks) /\ Len(b.chunks) \in Nat
    BY <1>1
  <2>2. cs \in [1..Len(b.chunks) -> Chunk]
    BY <1>2, <2>1
  <2> QED BY <2>1, <2>2
<1>4. ds \in Seq(DeliveryStates) /\ DOMAIN ds = DOMAIN b.deliveries
  <2>1. DOMAIN b.deliveries = 1..Len(b.deliveries) /\ Len(b.deliveries) \in Nat
    BY <1>1
  <2>2. ds \in [1..Len(b.deliveries) -> DeliveryStates]
    BY <1>1, <2>1 DEF DeliveryStates
  <2> QED BY <2>1, <2>2
<1>5. Quarantine(b) = [b EXCEPT !.chunks = cs, !.deliveries = ds]
  BY DEF Quarantine
<1> HIDE DEF cs, ds
<1>6. Quarantine(b) = [chunks |-> cs, deliveries |-> ds, history |-> b.history]
  <2> DEFINE r == [b EXCEPT !.chunks = cs]
  <2>1. r = [chunks |-> cs, deliveries |-> b.deliveries, history |-> b.history]
    BY DEF Database
  <2>2. [b EXCEPT !.chunks = cs, !.deliveries = ds] = [r EXCEPT !.deliveries = ds]
    BY DEF Database
  <2> HIDE DEF r
  <2>3. [r EXCEPT !.deliveries = ds] = [chunks |-> cs, deliveries |-> ds, history |-> b.history]
    BY <2>1
  <2> QED BY <1>5, <2>2, <2>3
<1> QED BY <1>1, <1>2, <1>3, <1>4, <1>6 DEF SameChunks, Database

-----------------------------------------------------------------------------
\* What the steps of the program do to the live database
LEMMA LiveDatabase ==
  ASSUME Placed, db # None
  PROVE  /\ db \in Databases /\ db \in Database /\ HasChunks(db) /\ SamePlace(db, db)
         /\ db.chunks \in Seq(Chunk) /\ db.deliveries \in Seq(DeliveryStates)
         /\ \A i \in DOMAIN db.chunks : db.chunks[i] \in Chunk
         /\ planned \in Nat /\ MaxPayload \in Nat
<1>1. db \in Databases
  BY DEF Databases
<1>2. db \in Database /\ HasChunks(db) /\ SamePlace(db, db)
  BY <1>1 DEF Placed, HasChunks
<1> QED BY <1>1, <1>2, ReconcileAssumption DEF Placed, Database

\* chunk i of the live database is marked s, and its delivery follows
Marked(i, s, open) ==
  /\ OneMoves(db, db', i, s)
  /\ OneFollows(db, db', i, open)
  /\ db'.history = IF s = "sent" THEN db.history \cup {db.chunks[i].story} ELSE db.history

LEMMA BeginMoves ==
  ASSUME Placed, db # None, NEW i \in DOMAIN db.chunks, BeginAttempt(i)
  PROVE  /\ OneMoves(db, db', i, "in_flight")
         /\ db'.deliveries = db.deliveries /\ db'.history = db.history
<1> DEFINE row == [db.chunks[i] EXCEPT !.state = "in_flight"]
<1>1. db \in Database /\ db.chunks \in Seq(Chunk) /\ \A j \in DOMAIN db.chunks : db.chunks[j] \in Chunk
  BY LiveDatabase
<1>2. /\ row \in Chunk /\ row.payload = db.chunks[i].payload /\ row.state = "in_flight"
      /\ row.story = db.chunks[i].story /\ row.delivery = db.chunks[i].delivery
  BY <1>1 DEF Chunk, ChunkStates
<1>3. db' = [db EXCEPT !.chunks = [@ EXCEPT ![i] = row]]
  BY DEF BeginAttempt
<1> HIDE DEF row
<1> DEFINE cs == [db.chunks EXCEPT ![i] = row]
<1>4. cs \in Seq(Chunk) /\ DOMAIN cs = DOMAIN db.chunks
  BY <1>1, <1>2, ExceptSeq
<1>5. \A j \in DOMAIN db.chunks : cs[j] = IF j = i THEN row ELSE db.chunks[j]
  BY <1>1
<1> HIDE DEF cs
<1>6. db' = [chunks |-> cs, deliveries |-> db.deliveries, history |-> db.history]
  BY <1>1, <1>3 DEF Database, cs
<1> QED BY <1>1, <1>2, <1>4, <1>5, <1>6 DEF OneMoves, SameChunks, Database

LEMMA FinishMoves ==
  ASSUME Placed, db # None, NEW i \in DOMAIN db.chunks, FinishAttempt(i)
  PROVE  \E landed \in BOOLEAN, s \in ChunkStates \ {"in_flight"}, open \in DeliveryStates :
           /\ Marked(i, s, open)
           /\ s = "sent" => landed
           /\ landed => s \in {"sent", "ambiguous"}
           /\ s = "failed_terminal" <=> open = "failed_terminal"
           /\ open # "completed"
           /\ chat' = IF landed THEN [chat EXCEPT ![db.chunks[i].payload] = @ + 1] ELSE chat
           /\ seen' = IF landed THEN [seen EXCEPT ![db.chunks[i].story] = @ \cup {db.chunks[i].payload}]
                      ELSE seen
<1>1. PICK landed \in BOOLEAN, s \in {"sent", "failed_terminal", "pending", "ambiguous"} :
        /\ s = "sent" => landed
        /\ landed => s \in {"sent", "ambiguous"}
        /\ chat' = IF landed THEN [chat EXCEPT ![db.chunks[i].payload] = @ + 1] ELSE chat
        /\ seen' = IF landed THEN [seen EXCEPT ![db.chunks[i].story] = @ \cup {db.chunks[i].payload}]
                   ELSE seen
        /\ db' = Mark(db, i, s, CASE s = "ambiguous" -> "needs_attention"
                                  [] s = "failed_terminal" -> "failed_terminal"
                                  [] OTHER -> "sending")
  BY DEF FinishAttempt, Shows
<1> DEFINE open == CASE s = "ambiguous" -> "needs_attention"
                     [] s = "failed_terminal" -> "failed_terminal"
                     [] OTHER -> "sending"
<1>2. /\ s \in ChunkStates \ {"in_flight"} /\ open \in DeliveryStates
      /\ s = "failed_terminal" <=> open = "failed_terminal"
      /\ open # "completed"
  <2>1. CASE s = "ambiguous"
    BY <2>1 DEF ChunkStates, DeliveryStates
  <2>2. CASE s = "failed_terminal"
    BY <2>2 DEF ChunkStates, DeliveryStates
  <2>3. CASE s \in {"sent", "pending"}
    BY <2>3 DEF ChunkStates, DeliveryStates
  <2> QED BY <2>1, <2>2, <2>3
<1> HIDE DEF open
<1>3. Marked(i, s, open)
  <2>1. db \in Database
    BY LiveDatabase
  <2>2. db' = Mark(db, i, s, open)
    BY <1>1 DEF open
  <2> QED BY <1>2, <2>1, <2>2, MarkChunks DEF Marked
<1> QED BY <1>1, <1>2, <1>3

LEMMA ResolveMoves ==
  ASSUME Placed, db # None, NEW i \in DOMAIN db.chunks, Resolve(i)
  PROVE  \E s \in {"sent", "pending"}, open \in {"needs_attention", "sending"} :
           /\ Marked(i, s, open)
           /\ s = IF chat[db.chunks[i].payload] > 0 THEN "sent" ELSE "pending"
<1> DEFINE s == IF chat[db.chunks[i].payload] > 0 THEN "sent" ELSE "pending"
           n == db.chunks[i].delivery
           more == \E j \in OfDelivery(db, n) \ {i} : db.chunks[j].state = "ambiguous"
           open == IF more THEN "needs_attention" ELSE "sending"
<1>1. s \in ChunkStates /\ s \in {"sent", "pending"} /\ open \in DeliveryStates
      /\ open \in {"needs_attention", "sending"}
  BY DEF ChunkStates, DeliveryStates
<1>2. db' = Mark(db, i, s, open) /\ db \in Database
  BY LiveDatabase DEF Resolve
<1> HIDE DEF s, open
<1>3. Marked(i, s, open)
  BY <1>1, <1>2, MarkChunks DEF Marked
<1> QED BY <1>1, <1>3 DEF s

\* Planning appends chunks with new payloads and stories that are not
\* remembered, and a delivery for them.
LEMMA PlanAppends ==
  ASSUME Placed, Plan
  PROVE  /\ db' # None /\ db' \in Database
         /\ planned' \in Nat /\ planned <= planned' /\ planned' <= MaxPayload
         /\ DOMAIN db.chunks \subseteq DOMAIN db'.chunks
         /\ \A i \in DOMAIN db.chunks : db'.chunks[i] = db.chunks[i]
         /\ \A i \in DOMAIN db'.chunks \ DOMAIN db.chunks :
              /\ \A j \in DOMAIN db.chunks : j < i
              /\ db'.chunks[i].payload = planned + (i - Len(db.chunks))
              /\ i - Len(db.chunks) \in Nat \ {0} /\ db'.chunks[i].payload <= planned'
              /\ db'.chunks[i].story \notin db.history
              /\ db'.chunks[i].state = "pending"
              /\ db'.chunks[i].delivery \in DOMAIN db'.deliveries \ DOMAIN db.deliveries
         /\ \A i, j \in DOMAIN db'.chunks \ DOMAIN db.chunks :
              db'.chunks[i].story = db'.chunks[j].story => i = j
         /\ DOMAIN db.deliveries \subseteq DOMAIN db'.deliveries
         /\ \A n \in DOMAIN db'.deliveries :
              db'.deliveries[n] = IF n \in DOMAIN db.deliveries THEN db.deliveries[n] ELSE "sending"
         /\ db'.history = db.history
<1> DEFINE Fresh == Story \ db.history
<1>1. PICK stories \in Seq(Fresh) :
        /\ IsInjective(stories)
        /\ planned' = planned + Len(stories) /\ db' = Planned(stories)
        /\ planned + Len(stories) <= MaxPayload
  <2>1. \A a, b \in Fresh : <<a>> \in Seq(Fresh) /\ <<a, b>> \in Seq(Fresh)
    OBVIOUS
  <2> DEFINE Selections == {<<a>> : a \in Story \ db.history} \cup {<<a, b>> : a, b \in Story \ db.history}
  <2>2. ASSUME NEW stories \in Selections
        PROVE  stories \in Seq(Fresh)
    <3>1. CASE \E a \in Story \ db.history : stories = <<a>>
      BY <2>1, <3>1
    <3>2. CASE \E a, b \in Story \ db.history : stories = <<a, b>>
      BY <2>1, <3>2
    <3> QED BY <3>1, <3>2
  <2>3. \E stories \in Selections : /\ IsInjective(stories)
                                    /\ planned + Len(stories) <= MaxPayload
                                    /\ planned' = planned + Len(stories)
                                    /\ db' = Planned(stories)
    BY DEF Plan
  <2> HIDE DEF Selections, Fresh
  <2> QED BY <2>2, <2>3
<1> DEFINE k == Len(db.deliveries) + 1
           new == [i \in 1..Len(stories) |->
                     [payload |-> planned + i, story |-> stories[i], delivery |-> k, state |-> "pending"]]
           cs == db.chunks \o new
           ds == Append(db.deliveries, "sending")
<1>2. /\ db # None /\ db \in Database /\ db.chunks \in Seq(Chunk)
      /\ db.deliveries \in Seq(DeliveryStates) /\ db.history \in SUBSET Story /\ planned \in Nat
      /\ Len(stories) \in Nat /\ MaxPayload \in Nat
  <2>1. db # None
    BY DEF Plan
  <2> QED BY <2>1, LiveDatabase DEF Database
<1>3. /\ \A i \in 1..Len(stories) :
           /\ new[i] \in Chunk /\ new[i].payload = planned + i /\ new[i].story = stories[i]
           /\ new[i].story \in Fresh /\ new[i].delivery = k /\ new[i].state = "pending"
      /\ DOMAIN stories = 1..Len(stories)
  BY <1>1, <1>2 DEF Chunk, ChunkStates, Payload
<1>4. new \in Seq(Chunk) /\ Len(new) = Len(stories)
  BY <1>2, <1>3
<1>5. "sending" \in DeliveryStates
  BY DEF DeliveryStates
<1>6. /\ ds \in Seq(DeliveryStates) /\ Len(ds) = Len(db.deliveries) + 1
      /\ \A n \in 1..Len(db.deliveries) : ds[n] = db.deliveries[n]
      /\ ds[Len(db.deliveries) + 1] = "sending"
  BY <1>2, <1>5, AppendProperties
<1>7. db' = [db EXCEPT !.deliveries = ds, !.chunks = cs]
  BY <1>1 DEF Planned
<1> HIDE DEF new
<1>8. /\ cs \in Seq(Chunk) /\ Len(cs) = Len(db.chunks) + Len(stories)
      /\ \A i \in DOMAIN db.chunks : i \in DOMAIN cs /\ cs[i] = db.chunks[i]
      /\ \A i \in DOMAIN cs \ DOMAIN db.chunks :
           /\ i - Len(db.chunks) \in 1..Len(stories) /\ i > Len(db.chunks) /\ i \in Nat
           /\ cs[i] = new[i - Len(db.chunks)]
  <2>1. /\ cs \in Seq(Chunk) /\ Len(cs) = Len(db.chunks) + Len(new)
        /\ \A i \in 1..Len(db.chunks) + Len(new) :
             cs[i] = IF i <= Len(db.chunks) THEN db.chunks[i] ELSE new[i - Len(db.chunks)]
    BY <1>2, <1>4, ConcatProperties
  <2>2. Len(db.chunks) \in Nat /\ DOMAIN db.chunks = 1..Len(db.chunks) /\ DOMAIN cs = 1..Len(cs)
    BY <1>2, <2>1
  <2> HIDE DEF cs
  <2>3. \A i \in DOMAIN db.chunks : i \in DOMAIN cs /\ cs[i] = db.chunks[i]
    BY <1>2, <1>4, <2>1, <2>2
  <2>4. ASSUME NEW i \in DOMAIN cs, i \notin DOMAIN db.chunks
        PROVE  /\ i - Len(db.chunks) \in 1..Len(stories) /\ i > Len(db.chunks) /\ i \in Nat
               /\ cs[i] = new[i - Len(db.chunks)]
    BY <1>2, <1>4, <2>1, <2>2, <2>4
  <2> QED BY <1>4, <2>1, <2>3, <2>4
<1> HIDE DEF cs, ds
<1>9. db' = [chunks |-> cs, deliveries |-> ds, history |-> db.history]
  <2> DEFINE r == [db EXCEPT !.deliveries = ds]
  <2>1. r = [chunks |-> db.chunks, deliveries |-> ds, history |-> db.history]
    BY <1>2 DEF Database
  <2>2. [db EXCEPT !.deliveries = ds, !.chunks = cs] = [r EXCEPT !.chunks = cs]
    BY <1>2 DEF Database
  <2> HIDE DEF r
  <2>3. [r EXCEPT !.chunks = cs] = [chunks |-> cs, deliveries |-> ds, history |-> db.history]
    BY <2>1
  <2> QED BY <1>7, <2>2, <2>3
<1>10. db'.chunks = cs /\ db'.deliveries = ds /\ db'.history = db.history /\ db' \in Database
  BY <1>2, <1>6, <1>8, <1>9 DEF Database
<1>11. db' # None
  BY <1>10, NoneAssumption
<1>12. planned' \in Nat /\ planned <= planned' /\ planned' <= MaxPayload
  BY <1>1, <1>2
<1>13. /\ DOMAIN db.deliveries \subseteq DOMAIN ds /\ k \in DOMAIN ds \ DOMAIN db.deliveries
       /\ \A n \in DOMAIN ds : ds[n] = IF n \in DOMAIN db.deliveries THEN db.deliveries[n] ELSE "sending"
  <2>1. /\ Len(db.deliveries) \in Nat /\ DOMAIN db.deliveries = 1..Len(db.deliveries)
        /\ DOMAIN ds = 1..(Len(db.deliveries) + 1)
    BY <1>2, <1>6
  <2> QED BY <1>6, <2>1
<1>14. ASSUME NEW i \in DOMAIN cs \ DOMAIN db.chunks
       PROVE  /\ \A j \in DOMAIN db.chunks : j < i
              /\ cs[i].payload = planned + (i - Len(db.chunks))
              /\ i - Len(db.chunks) \in Nat \ {0} /\ cs[i].payload <= planned'
              /\ cs[i].story \notin db.history
              /\ cs[i].state = "pending"
              /\ cs[i].delivery \in DOMAIN ds \ DOMAIN db.deliveries
  <2>1. i - Len(db.chunks) \in 1..Len(stories) /\ cs[i] = new[i - Len(db.chunks)]
        /\ i > Len(db.chunks) /\ i \in Nat
    BY <1>8
  <2>2. \A j \in DOMAIN db.chunks : j < i
    BY <1>2, <2>1
  <2>3. /\ cs[i].payload = planned + (i - Len(db.chunks)) /\ cs[i].delivery = k
        /\ cs[i].story \in Fresh /\ cs[i].state = "pending"
    BY <1>3, <2>1
  <2>4. i - Len(db.chunks) \in Nat \ {0} /\ planned + (i - Len(db.chunks)) <= planned'
    <3> DEFINE m == i - Len(db.chunks)
    <3>1. m \in 1..Len(stories)
      BY <2>1
    <3>2. planned' = planned + Len(stories)
      BY <1>1
    <3> HIDE DEF m
    <3>3. m \in Nat \ {0} /\ planned + m <= planned'
      BY <1>2, <3>1, <3>2
    <3> QED BY <3>3 DEF m
  <2> QED BY <1>13, <2>2, <2>3, <2>4
<1>15. ASSUME NEW i \in DOMAIN cs \ DOMAIN db.chunks, NEW j \in DOMAIN cs \ DOMAIN db.chunks,
              cs[i].story = cs[j].story
       PROVE  i = j
  <2>1. /\ i - Len(db.chunks) \in 1..Len(stories) /\ cs[i] = new[i - Len(db.chunks)] /\ i \in Nat
        /\ j - Len(db.chunks) \in 1..Len(stories) /\ cs[j] = new[j - Len(db.chunks)] /\ j \in Nat
    BY <1>8
  <2>2. stories[i - Len(db.chunks)] = stories[j - Len(db.chunks)]
    BY <1>3, <1>15, <2>1
  <2>3. i - Len(db.chunks) = j - Len(db.chunks)
    BY <1>1, <1>3, <2>1, <2>2 DEF IsInjective
  <2> QED BY <1>2, <2>1, <2>3
<1> QED BY <1>8, <1>10, <1>11, <1>12, <1>13, <1>14, <1>15

\* the database that is restored over has chunk i of b
Known(b, i) == i \in DOMAIN db.chunks /\ db.chunks[i].payload = b.chunks[i].payload

\* what a restore of b over a live database makes of it
RestoredOver(b) ==
  /\ \A i \in DOMAIN b.chunks :
       db'.chunks[i].state = IF Known(b, i) THEN "sent" ELSE b.chunks[i].state
  /\ \A n \in DOMAIN db'.deliveries :
       IF n \in DOMAIN b.deliveries
       THEN \/ db'.deliveries[n] = b.deliveries[n]
            \/ db'.deliveries[n] = "completed" /\ AllSent(db', n)
       ELSE db'.deliveries[n] = "completed"
  /\ db'.history = b.history \cup db.history

LEMMA RestoreCopies ==
  ASSUME Placed, NEW b \in backups, RestoreBackup(b)
  PROVE  /\ b \in Databases /\ b \in Database /\ db' \in Database /\ SameChunks(b, db')
         /\ \A i \in DOMAIN b.chunks : b.chunks[i].state \in {"pending", "failed_terminal", "sent"}
         /\ db = None => \A i \in DOMAIN b.chunks : db'.chunks[i].state \notin {"pending", "in_flight"}
         /\ db # None => RestoredOver(b)
<1>1. b \in Databases /\ b \in Database /\ db' = Restored(b, db)
  BY DEF Placed, Databases, HasChunks, RestoreBackup
<1>2. \A i \in DOMAIN b.chunks : b.chunks[i].state \in {"pending", "failed_terminal", "sent"}
  <2>1. \A i \in DOMAIN b.chunks : b.chunks[i] \in Chunk
    BY <1>1 DEF Database
  <2> QED BY <2>1 DEF RestoreBackup, BackupResolved, Chunk, ChunkStates
<1>3. CASE db = None
  <2>1. /\ SameChunks(b, db')
        /\ \A i \in DOMAIN b.chunks :
             db'.chunks[i].state = IF b.chunks[i].state = "pending" THEN "ambiguous" ELSE b.chunks[i].state
    BY <1>1, <1>3, QuarantineChunks DEF Restored
  <2> QED BY <1>1, <1>2, <1>3, <2>1 DEF SameChunks
<1>4. CASE db # None
  <2> DEFINE m == MergeHistory(db, b)
  <2>1. db \in Database /\ \A i \in DOMAIN db.chunks : db.chunks[i].state = "sent"
    BY <1>4, LiveDatabase DEF RestoreBackup, TargetSettled
  <2>2. /\ m \in Database /\ m.chunks = b.chunks /\ MoreDeliveries(b, m)
        /\ m.history = b.history \cup db.history
    BY <1>1, <2>1, MergeChunks
  <2>3. db' = ReconcileAcks(db, m)
    BY <1>1, <1>4 DEF Restored
  <2> HIDE DEF m
  <2>4. /\ SameChunks(m, db')
        /\ \A i \in DOMAIN b.chunks :
             db'.chunks[i].state = IF Acknowledged(db, m, i) THEN "sent" ELSE b.chunks[i].state
        /\ DOMAIN db'.deliveries = DOMAIN m.deliveries
        /\ \A n \in DOMAIN m.deliveries : \/ db'.deliveries[n] = m.deliveries[n]
                                          \/ db'.deliveries[n] = "completed" /\ AllSent(db', n)
        /\ db'.history = m.history
    BY <2>1, <2>2, <2>3, Acknowledges
  <2>5. SameChunks(b, db')
    BY <2>2, <2>4 DEF SameChunks, MoreDeliveries
  <2>6. ASSUME NEW i \in DOMAIN b.chunks
        PROVE  db'.chunks[i].state = IF Known(b, i) THEN "sent" ELSE b.chunks[i].state
    BY <1>2, <2>1, <2>2, <2>4 DEF Acknowledged, Known
  <2>7. RestoredOver(b)
    BY <2>2, <2>4, <2>6 DEF RestoredOver, MoreDeliveries
  <2> QED BY <1>1, <1>2, <1>4, <2>5, <2>7 DEF SameChunks
<1> QED BY <1>3, <1>4

-----------------------------------------------------------------------------
(***************************************************************************)
(* Acknowledgements                                                        *)
(***************************************************************************)
\* what a step owes an acknowledgement
AckKept ==
  db # None /\ db' # None =>
    \A i \in DOMAIN db.chunks : db.chunks[i].state = "sent" =>
      \A j \in ChunkOf(db', db.chunks[i].payload) : db'.chunks[j].state = "sent"

LEMMA SameDatabase ==
  ASSUME Placed, UNCHANGED <<db, planned>>, \A b \in backups' : b \in Databases
  PROVE  Placed' /\ AckKept
<1>1. \A d \in Databases' : d \in Databases
  BY DEF Databases
<1>2. Placed'
  BY <1>1 DEF Placed, HasChunks, SamePlace
<1>3. AckKept
  <2> SUFFICES ASSUME db # None, NEW i \in DOMAIN db.chunks, db.chunks[i].state = "sent",
                      NEW j \in DOMAIN db.chunks, db.chunks[j].payload = db.chunks[i].payload
               PROVE  db.chunks[j].state = "sent"
    BY DEF AckKept, ChunkOf
  <2>1. db \in Databases
    BY DEF Databases
  <2> QED BY <2>1 DEF Placed, SamePlace
<1> QED BY <1>2, <1>3

\* A step that moves the chunk i of the live database, which is not sent.
LEMMA MoveStep ==
  ASSUME Placed, db # None, NEW i \in DOMAIN db.chunks, db.chunks[i].state # "sent",
         NEW s, OneMoves(db, db', i, s), UNCHANGED <<backups, planned>>
  PROVE  Placed' /\ AckKept
<1>1. db \in Databases /\ SamePlace(db, db) /\ SameChunks(db, db')
  BY LiveDatabase DEF OneMoves
<1>2. Placed'
  BY <1>1, CopyKeepsPlaces
<1>3. AckKept
  BY <1>1 DEF AckKept, ChunkOf, SameChunks, SamePlace, OneMoves
<1> QED BY <1>2, <1>3

\* A restored database knows every acknowledgement of the one it replaces.
LEMMA RestoreStep ==
  ASSUME Placed, NEW b \in backups, RestoreBackup(b)
  PROVE  Placed' /\ AckKept
<1>1. b \in Databases /\ SameChunks(b, db') /\ UNCHANGED <<backups, planned>> /\ (db # None => RestoredOver(b))
  BY RestoreCopies DEF RestoreBackup
<1>2. Placed'
  BY <1>1, CopyKeepsPlaces
<1>3. AckKept
  <2> SUFFICES ASSUME db # None, NEW i \in DOMAIN db.chunks,
                      NEW j \in DOMAIN b.chunks, b.chunks[j].payload = db.chunks[i].payload
               PROVE  db'.chunks[j].state = "sent"
    BY <1>1 DEF AckKept, ChunkOf, SameChunks
  <2>1. j = i
    BY <1>1, LiveDatabase DEF Placed, SamePlace
  <2> QED BY <1>1, <2>1 DEF RestoredOver, Known
<1> QED BY <1>2, <1>3

\* a payload is planned once, and after every one there is
LEMMA PlanStep ==
  ASSUME Placed, Plan
  PROVE  Placed' /\ AckKept
<1> DEFINE cs == db'.chunks
           New == DOMAIN cs \ DOMAIN db.chunks
<1>1. db # None /\ UNCHANGED backups
  BY DEF Plan
<1>2. /\ db \in Databases /\ HasChunks(db) /\ SamePlace(db, db) /\ db.chunks \in Seq(Chunk)
      /\ planned \in Nat
  BY <1>1, LiveDatabase
<1>3. /\ db' \in Database /\ planned' \in Nat /\ planned <= planned'
      /\ DOMAIN db.chunks \subseteq DOMAIN cs /\ \A i \in DOMAIN db.chunks : cs[i] = db.chunks[i]
      /\ DOMAIN db.deliveries \subseteq DOMAIN db'.deliveries
  BY PlanAppends
<1>4. \A i \in New : /\ cs[i].payload = planned + (i - Len(db.chunks))
                     /\ i - Len(db.chunks) \in Nat \ {0} /\ cs[i].payload <= planned'
                     /\ cs[i].delivery \in DOMAIN db'.deliveries
  BY PlanAppends
<1>5. \A i \in DOMAIN cs : i \in Nat
  BY <1>3 DEF Database
<1> HIDE DEF cs
<1>6. \A d \in Databases : \A i \in DOMAIN d.chunks : d.chunks[i].payload \in Nat /\ d.chunks[i].payload <= planned
  <2>1. \A d \in Databases : \A i \in DOMAIN d.chunks : d.chunks[i] \in Chunk /\ d.chunks[i].payload <= planned
    BY DEF Placed, HasChunks, Database
  <2> QED BY <2>1, ReconcileAssumption DEF Chunk, Payload
<1>7. \A d \in Databases' : d = db' \/ d \in Databases
  BY <1>1 DEF Databases
<1>8. \A i \in New : cs[i].payload > planned
  <2> TAKE i \in New
  <2> DEFINE m == i - Len(db.chunks)
  <2>1. m \in Nat \ {0} /\ cs[i].payload = planned + m
    BY <1>4
  <2> HIDE DEF m
  <2> QED BY <1>2, <2>1
<1>9. ASSUME NEW d \in Databases
      PROVE  SamePlace(db', d) /\ SamePlace(d, db')
  <2>1. ASSUME NEW i \in DOMAIN cs, NEW j \in DOMAIN d.chunks, cs[i].payload = d.chunks[j].payload
        PROVE  i = j /\ cs[i].story = d.chunks[j].story
    <3>1. d.chunks[j].payload \in Nat /\ d.chunks[j].payload <= planned
      BY <1>6
    <3>2. i \notin New
      BY <1>2, <1>8, <2>1, <3>1
    <3> QED BY <1>2, <1>3, <2>1, <3>2 DEF Placed, SamePlace
  <2> QED BY <2>1 DEF SamePlace, cs
<1>10. SamePlace(db', db')
  <2>1. ASSUME NEW i \in New, NEW j \in DOMAIN cs, cs[i].payload = cs[j].payload
        PROVE  i = j
    <3>1. cs[i].payload > planned
      BY <1>8
    <3>2. j \in New
      BY <1>2, <1>3, <1>6, <2>1, <3>1
    <3> DEFINE m == i - Len(db.chunks)
               n == j - Len(db.chunks)
    <3>3. m \in Nat /\ n \in Nat /\ planned + m = planned + n
      BY <1>4, <2>1, <3>2
    <3>4. m = n
      <4> HIDE DEF m, n
      <4> QED BY <1>2, <3>3
    <3>5. i \in Nat /\ j \in Nat /\ Len(db.chunks) \in Nat
      BY <1>2, <1>5
    <3> QED BY <3>4, <3>5
  <2>2. ASSUME NEW i \in DOMAIN cs, NEW j \in DOMAIN cs, cs[i].payload = cs[j].payload
        PROVE  i = j
    <3>1. CASE i \in New
      BY <2>1, <2>2, <3>1
    <3>2. CASE j \in New
      BY <2>1, <2>2, <3>2
    <3>3. CASE i \notin New /\ j \notin New
      BY <1>2, <1>3, <2>2, <3>3 DEF SamePlace
    <3> QED BY <3>1, <3>2, <3>3
  <2> QED BY <2>2 DEF SamePlace, cs
<1>11. \A d, e \in Databases' : SamePlace(d, e)
  BY <1>7, <1>9, <1>10 DEF Placed
<1>12. \A d \in Databases' : HasChunks(d)'
  <2>1. \A i \in DOMAIN cs : cs[i].payload <= planned' /\ cs[i].delivery \in DOMAIN db'.deliveries
    <3> TAKE i \in DOMAIN cs
    <3>1. CASE i \in New
      BY <1>4, <3>1
    <3>2. CASE i \in DOMAIN db.chunks
      BY <1>2, <1>3, <1>6, <3>2 DEF HasChunks
    <3> QED BY <3>1, <3>2
  <2>2. \A d \in Databases : d \in Database /\ \A i \in DOMAIN d.chunks :
           d.chunks[i].payload <= planned' /\ d.chunks[i].delivery \in DOMAIN d.deliveries
    BY <1>2, <1>3, <1>6 DEF Placed, HasChunks
  <2> QED BY <1>3, <1>7, <2>1, <2>2 DEF HasChunks, cs
<1>13. Placed'
  BY <1>3, <1>11, <1>12 DEF Placed, SamePlace
<1>14. AckKept
  <2> SUFFICES ASSUME NEW i \in DOMAIN db.chunks, db.chunks[i].state = "sent",
                      NEW j \in DOMAIN cs, cs[j].payload = db.chunks[i].payload
               PROVE  cs[j].state = "sent"
    BY DEF AckKept, ChunkOf, cs
  <2>1. j = i
    BY <1>2, <1>9 DEF SamePlace, cs
  <2> QED BY <1>3, <2>1
<1> QED BY <1>13, <1>14

LEMMA EmptyDatabase == Empty \in Database /\ Empty.chunks = <<>>
BY DEF Empty, Database

LEMMA FreshStep ==
  ASSUME Placed, OpenFresh \/ Lose
  PROVE  Placed' /\ AckKept
<1>1. (db = None \/ db' = None) /\ UNCHANGED <<backups, planned>>
  BY DEF OpenFresh, Lose
<1>2. AckKept
  BY <1>1 DEF AckKept
<1>3. db' = None \/ (db'.chunks = <<>> /\ db' \in Database)
  BY EmptyDatabase DEF OpenFresh, Lose
<1>4. \A d \in Databases' : d \in Databases \/ (d.chunks = <<>> /\ d \in Database)
  BY <1>1, <1>3 DEF Databases
<1>5. Placed'
  BY <1>1, <1>4 DEF Placed, HasChunks, SamePlace
<1> QED BY <1>2, <1>5

LEMMA NextKeepsAcks ==
  ASSUME Placed, [Next]_vars
  PROVE  Placed' /\ AckKept
<1>1. CASE UNCHANGED vars
  BY <1>1, SameDatabase DEF vars, Databases
<1>2. CASE Plan
  BY <1>2, PlanStep
<1>3. CASE Backup
  BY <1>3, SameDatabase DEF Backup, Databases
<1>4. CASE Lose \/ OpenFresh
  BY <1>4, FreshStep
<1>5. ASSUME db # None, NEW i \in DOMAIN db.chunks, BeginAttempt(i)
      PROVE  Placed' /\ AckKept
  <2>1. db.chunks[i].state # "sent" /\ UNCHANGED <<backups, planned>>
    BY <1>5 DEF BeginAttempt
  <2> QED BY <1>5, <2>1, BeginMoves, MoveStep
<1>6. ASSUME db # None, NEW i \in DOMAIN db.chunks, FinishAttempt(i)
      PROVE  Placed' /\ AckKept
  <2>1. db.chunks[i].state # "sent" /\ UNCHANGED <<backups, planned>>
    BY <1>6 DEF FinishAttempt
  <2>2. \E s : OneMoves(db, db', i, s)
    BY <1>6, FinishMoves DEF Marked
  <2> QED BY <1>6, <2>1, <2>2, MoveStep
<1>7. ASSUME db # None, NEW i \in DOMAIN db.chunks, Resolve(i)
      PROVE  Placed' /\ AckKept
  <2>1. db.chunks[i].state # "sent" /\ UNCHANGED <<backups, planned>>
    BY <1>7 DEF Resolve
  <2>2. \E s : OneMoves(db, db', i, s)
    BY <1>7, ResolveMoves DEF Marked
  <2> QED BY <1>7, <2>1, <2>2, MoveStep
<1>8. ASSUME NEW b \in backups, RestoreBackup(b)
      PROVE  Placed' /\ AckKept
  BY <1>8, RestoreStep
<1> QED BY <1>1, <1>2, <1>3, <1>4, <1>5, <1>6, <1>7, <1>8 DEF Next

LEMMA PlacedInit == Init => Placed
<1> SUFFICES ASSUME Init PROVE Placed
  OBVIOUS
<1>1. \A d \in Databases : d = Empty
  BY DEF Init, Databases
<1> QED BY <1>1, EmptyDatabase DEF Init, Placed, HasChunks, SamePlace

\* No step takes back an acknowledgement: a chunk that the live database knows
\* as sent is sent in the database after the step, if it has the chunk; so one
\* restore, of whichever backup and after whatever else, forgets none.
THEOREM RestoreKeepsAcks == Spec => AckSurvives
<1>1. Placed /\ [Next]_vars => Placed' /\ [AckKept]_vars
  BY NextKeepsAcks
<1> QED BY <1>1, PlacedInit, PTL DEF Spec, AckSurvives, AckKept

-----------------------------------------------------------------------------
(***************************************************************************)
(* Copies in the chat                                                      *)
(*                                                                         *)
(* A chunk that may still be sent has not been seen in the chat.  Planning *)
(* takes payloads nobody has seen; an attempt ends sent or ambiguous if it *)
(* landed; a restore over a settled database finds every chunk that it     *)
(* knows acknowledged, and one over none holds all it could send.          *)
(***************************************************************************)
Counted == chat \in [Payload -> Nat]
OnlyPlanned == \A p \in Payload : chat[p] > 0 => p <= planned
SendableUnseen ==
  ~blind /\ db # None =>
    \A i \in DOMAIN db.chunks :
      db.chunks[i].state \in {"pending", "in_flight"} => chat[db.chunks[i].payload] = 0

SendInv == Placed /\ Counted /\ OnlyPlanned /\ ChunkOnce /\ SendableUnseen

\* the payload of a chunk of the live database, and no other chunk's
LEMMA LivePayload ==
  ASSUME Placed, db # None, NEW i \in DOMAIN db.chunks
  PROVE  /\ db.chunks[i].payload \in Payload /\ db.chunks[i].payload <= planned
         /\ \A j \in DOMAIN db.chunks : db.chunks[j].payload = db.chunks[i].payload => j = i
BY LiveDatabase DEF HasChunks, SamePlace, Chunk

\* A step of the program that moves chunk i without sending it.
LEMMA MoveSends ==
  ASSUME SendInv, Placed', db # None, NEW i \in DOMAIN db.chunks, NEW s, OneMoves(db, db', i, s),
         s \in {"pending", "in_flight"} /\ ~blind => chat[db.chunks[i].payload] = 0,
         UNCHANGED <<planned, chat, blind>>
  PROVE  SendInv'
<1>1. Counted' /\ OnlyPlanned' /\ ChunkOnce'
  BY DEF SendInv, Counted, OnlyPlanned, ChunkOnce
<1>2. SendableUnseen'
  BY DEF SendInv, SendableUnseen, OneMoves, SameChunks
<1> QED BY <1>1, <1>2 DEF SendInv

LEMMA FinishSends ==
  ASSUME SendInv, Placed', db # None, NEW i \in DOMAIN db.chunks, FinishAttempt(i)
  PROVE  SendInv'
<1> DEFINE p == db.chunks[i].payload
<1>1. PICK landed \in BOOLEAN, s \in ChunkStates \ {"in_flight"} :
        /\ OneMoves(db, db', i, s)
        /\ s = "sent" => landed
        /\ landed => s \in {"sent", "ambiguous"}
        /\ chat' = IF landed THEN [chat EXCEPT ![p] = @ + 1] ELSE chat
  BY FinishMoves DEF SendInv, Marked
<1>2. p \in Payload /\ p <= planned /\ \A j \in DOMAIN db.chunks : db.chunks[j].payload = p => j = i
  BY LivePayload DEF SendInv
<1>3. UNCHANGED <<planned, blind>> /\ db.chunks[i].state = "in_flight"
  BY DEF FinishAttempt
<1>4. chat \in [Payload -> Nat] /\ (~blind => chat[p] = 0)
  BY <1>3 DEF SendInv, Counted, SendableUnseen
<1> HIDE DEF p
<1>5. CASE landed
  <2>1. Counted'
    BY <1>1, <1>2, <1>4, <1>5 DEF Counted
  <2>2. \A q \in Payload : chat'[q] = IF q = p THEN chat[p] + 1 ELSE chat[q]
    BY <1>1, <1>2, <1>4, <1>5
  <2>3. OnlyPlanned' /\ ChunkOnce'
    BY <1>2, <1>3, <1>4, <2>2 DEF SendInv, OnlyPlanned, ChunkOnce
  <2>4. SendableUnseen'
    <3> SUFFICES ASSUME ~blind, NEW j \in DOMAIN db.chunks,
                        db'.chunks[j].state \in {"pending", "in_flight"}
                 PROVE  chat'[db.chunks[j].payload] = 0
      BY <1>1, <1>3 DEF SendableUnseen, OneMoves, SameChunks
    <3>1. j # i /\ db.chunks[j].state \in {"pending", "in_flight"}
      BY <1>1, <1>5 DEF OneMoves
    <3>2. db.chunks[j].payload \in Payload /\ db.chunks[j].payload # p
      BY <1>2, <3>1, LivePayload DEF SendInv
    <3> QED BY <2>2, <3>1, <3>2 DEF SendInv, SendableUnseen
  <2> QED BY <2>1, <2>3, <2>4 DEF SendInv
<1>6. CASE ~landed
  BY <1>1, <1>3, <1>4, <1>6, MoveSends DEF p
<1> QED BY <1>5, <1>6

LEMMA PlanSends ==
  ASSUME SendInv, Placed', Plan
  PROVE  SendInv'
<1>1. db # None /\ UNCHANGED <<chat, blind>> /\ Placed
  BY DEF Plan, SendInv
<1>2. /\ planned \in Nat /\ planned' \in Nat /\ planned <= planned' /\ db' \in Database /\ db' # None
      /\ \A i \in DOMAIN db.chunks : db'.chunks[i] = db.chunks[i]
      /\ \A i \in DOMAIN db'.chunks \ DOMAIN db.chunks :
           db'.chunks[i].payload = planned + (i - Len(db.chunks)) /\ i - Len(db.chunks) \in Nat \ {0}
  BY <1>1, PlanAppends DEF Placed
<1>3. Counted' /\ OnlyPlanned' /\ ChunkOnce'
  BY <1>1, <1>2, ReconcileAssumption DEF SendInv, Counted, OnlyPlanned, ChunkOnce, Payload
<1>4. ASSUME NEW i \in DOMAIN db'.chunks \ DOMAIN db.chunks
      PROVE  chat[db'.chunks[i].payload] = 0
  <2>1. db'.chunks[i].payload \in Payload
    BY <1>2, ChunkAt
  <2> DEFINE m == i - Len(db.chunks)
  <2>2. m \in Nat \ {0} /\ db'.chunks[i].payload = planned + m
    BY <1>2
  <2> HIDE DEF m
  <2>3. ~(db'.chunks[i].payload <= planned)
    BY <1>2, <2>2
  <2> QED BY <2>1, <2>3 DEF SendInv, OnlyPlanned, Counted
<1>5. SendableUnseen'
  BY <1>1, <1>2, <1>4 DEF SendInv, SendableUnseen
<1> QED BY <1>3, <1>5 DEF SendInv

\* what a restore leaves sendable has not been seen
LEMMA RestoreSends ==
  ASSUME SendInv, Placed', NEW b \in backups, RestoreBackup(b)
  PROVE  SendInv'
<1>1. /\ Placed /\ UNCHANGED <<planned, chat>>
      /\ blind' = (blind \/ (db # None /\ Misses(db)))
  BY DEF RestoreBackup, SendInv
<1>2. Counted' /\ OnlyPlanned' /\ ChunkOnce'
  BY <1>1 DEF SendInv, Counted, OnlyPlanned, ChunkOnce
<1>3. /\ b \in Databases /\ db' \in Database /\ SameChunks(b, db')
      /\ \A i \in DOMAIN b.chunks : b.chunks[i].state \in {"pending", "failed_terminal", "sent"}
      /\ db = None => \A i \in DOMAIN b.chunks : db'.chunks[i].state \notin {"pending", "in_flight"}
      /\ db # None => RestoredOver(b)
  BY <1>1, RestoreCopies
<1>4. CASE db = None
  <2>1. SendableUnseen'
    BY <1>3, <1>4 DEF SendableUnseen, SameChunks
  <2> QED BY <1>2, <2>1 DEF SendInv
<1>5. CASE db # None
  <2>1. ASSUME ~blind', NEW i \in DOMAIN b.chunks, db'.chunks[i].state \in {"pending", "in_flight"}
        PROVE  chat[b.chunks[i].payload] = 0
    <3>1. b.chunks[i].payload \in Payload
      BY <1>3, <2>1, ChunkAt DEF SameChunks
    <3>2. ~Known(b, i)
      BY <1>3, <1>5, <2>1 DEF RestoredOver
    <3>3. \A j \in DOMAIN db.chunks : db.chunks[j].payload # b.chunks[i].payload
      BY <1>1, <1>3, <1>5, <3>2, LiveDatabase DEF Placed, SamePlace, Known
    <3>4. ChunkOf(db, b.chunks[i].payload) = {}
      BY <3>3 DEF ChunkOf
    <3>5. ~(chat[b.chunks[i].payload] > 0)
      BY <1>1, <1>5, <2>1, <3>1, <3>4 DEF Misses
    <3>6. chat[b.chunks[i].payload] \in Nat
      BY <3>1 DEF SendInv, Counted
    <3> QED BY <3>5, <3>6
  <2>2. SendableUnseen'
    BY <1>1, <1>3, <2>1 DEF SendableUnseen, SameChunks
  <2> QED BY <1>2, <2>2 DEF SendInv
<1> QED BY <1>4, <1>5

LEMMA NextSends ==
  ASSUME SendInv, [Next]_vars
  PROVE  SendInv'
<1>1. Placed /\ Placed'
  BY NextKeepsAcks DEF SendInv
<1>2. CASE UNCHANGED vars \/ Backup
  <2>1. UNCHANGED <<db, planned, chat, blind>>
    BY <1>2 DEF vars, Backup
  <2> QED BY <1>1, <2>1 DEF SendInv, Counted, OnlyPlanned, ChunkOnce, SendableUnseen
<1>3. CASE Lose \/ OpenFresh
  <2>1. UNCHANGED <<planned, chat, blind>> /\ (db' = None \/ db'.chunks = <<>>)
    BY <1>3, EmptyDatabase DEF Lose, OpenFresh
  <2> QED BY <1>1, <2>1 DEF SendInv, Counted, OnlyPlanned, ChunkOnce, SendableUnseen
<1>4. CASE Plan
  BY <1>1, <1>4, PlanSends
<1>5. ASSUME db # None, NEW i \in DOMAIN db.chunks, BeginAttempt(i)
      PROVE  SendInv'
  <2>1. db.chunks[i].state = "pending" /\ UNCHANGED <<planned, chat, blind>>
    BY <1>5 DEF BeginAttempt
  <2>2. ~blind => chat[db.chunks[i].payload] = 0
    BY <1>5, <2>1 DEF SendInv, SendableUnseen
  <2> QED BY <1>1, <1>5, <2>1, <2>2, BeginMoves, MoveSends
<1>6. ASSUME db # None, NEW i \in DOMAIN db.chunks, FinishAttempt(i)
      PROVE  SendInv'
  BY <1>1, <1>6, FinishSends
<1>7. ASSUME db # None, NEW i \in DOMAIN db.chunks, Resolve(i)
      PROVE  SendInv'
  <2>1. UNCHANGED <<planned, chat, blind>>
    BY <1>7 DEF Resolve
  <2>2. PICK s : /\ OneMoves(db, db', i, s)
                 /\ s = IF chat[db.chunks[i].payload] > 0 THEN "sent" ELSE "pending"
    BY <1>1, <1>7, ResolveMoves DEF Marked
  <2>3. s \in {"pending", "in_flight"} => chat[db.chunks[i].payload] = 0
    BY <1>1, <1>7, <2>2, LivePayload DEF SendInv, Counted
  <2> QED BY <1>1, <1>7, <2>1, <2>2, <2>3, MoveSends
<1>8. ASSUME NEW b \in backups, RestoreBackup(b)
      PROVE  SendInv'
  BY <1>1, <1>8, RestoreSends
<1> QED BY <1>2, <1>3, <1>4, <1>5, <1>6, <1>7, <1>8 DEF Next

LEMMA SendInit == Init => SendInv
<1> SUFFICES ASSUME Init PROVE SendInv
  OBVIOUS
<1>1. Placed
  BY PlacedInit
<1>2. Counted /\ OnlyPlanned /\ ChunkOnce
  BY DEF Init, Counted, OnlyPlanned, ChunkOnce
<1>3. SendableUnseen
  BY EmptyDatabase DEF Init, SendableUnseen
<1> QED BY <1>1, <1>2, <1>3 DEF SendInv

\* Whatever is backed up, lost and restored, and in whichever order, no chunk
\* reaches the chat twice, unless a restore replaced a database that had never
\* heard of a send.
THEOREM NoChunkTwice == Spec => []ChunkOnce
<1>1. SendInv /\ [Next]_vars => SendInv'
  BY NextSends
<1>2. SendInv => ChunkOnce
  BY DEF SendInv
<1> QED BY <1>1, <1>2, SendInit, PTL DEF Spec

-----------------------------------------------------------------------------
(***************************************************************************)
(* Stories in the chat                                                     *)
(*                                                                         *)
(* A story is planned again only after a delivery failed before showing    *)
(* it, or if no history knows it.  A live database with a failed delivery  *)
(* is never restored over, so as long as none is lost it stays live, and   *)
(* until then every restore carries the whole history: no database, live   *)
(* or in a backup, plans a story under a second payload (Shared).  RowInv  *)
(* is what one database must be for this; SeenInv relates them to the      *)
(* chat, which remembers what every database may have forgotten.           *)
(***************************************************************************)
Attempted(c) == c.state \in {"in_flight", "ambiguous", "failed_terminal"}
Unsent(c) == c.state \in {"pending", "failed_terminal"}
Failed(d) == \E n \in DOMAIN d.deliveries : d.deliveries[n] = "failed_terminal"

\* whatever precedes an attempted chunk in its delivery is sent
InTurn(d) ==
  \A j \in DOMAIN d.chunks : Attempted(d.chunks[j]) =>
    \A i \in OfDelivery(d, d.chunks[j].delivery) : i < j => d.chunks[i].state = "sent"

FailedHasChunk(d) ==
  \A n \in DOMAIN d.deliveries : d.deliveries[n] = "failed_terminal" =>
    \E i \in OfDelivery(d, n) : d.chunks[i].state = "failed_terminal"

ChunkFails(d) ==
  \A i \in DOMAIN d.chunks : d.chunks[i].state = "failed_terminal" =>
    d.deliveries[d.chunks[i].delivery] = "failed_terminal"

CompletedSent(d) == \A n \in DOMAIN d.deliveries : d.deliveries[n] = "completed" => AllSent(d, n)

Remembered(d) == \A i \in DOMAIN d.chunks : d.chunks[i].state = "sent" => d.chunks[i].story \in d.history

\* of two chunks with one story, the earlier one was given up
GivenUp(d) ==
  \A i, j \in DOMAIN d.chunks : i < j /\ d.chunks[i].story = d.chunks[j].story =>
    Unsent(d.chunks[i]) /\ d.deliveries[d.chunks[i].delivery] = "failed_terminal"

Sound(d) == ChunkFails(d) /\ CompletedSent(d) /\ Remembered(d) /\ GivenUp(d)

RowInv ==
  ~lost =>
    /\ db # None
    /\ InTurn(db) /\ FailedHasChunk(db)
    /\ \A d \in Databases : Sound(d)
    /\ \A b \in backups : Failed(b) => Failed(db)

LEMMA OneAttempted ==
  ASSUME Placed, db # None, InTurn(db), NEW i \in DOMAIN db.chunks, NEW j \in DOMAIN db.chunks,
         Attempted(db.chunks[i]), Attempted(db.chunks[j]),
         db.chunks[i].delivery = db.chunks[j].delivery
  PROVE  i = j
<1>1. i \in Nat /\ j \in Nat
  BY LiveDatabase, ChunkAt
<1>2. ~(i < j) /\ ~(j < i)
  BY DEF InTurn, OfDelivery, Attempted
<1> QED BY <1>1, <1>2

\* what is left of the invariant to show when the live database changes
LEMMA RowsOf ==
  ASSUME RowInv, ~lost, UNCHANGED backups, db' # None, InTurn(db)', FailedHasChunk(db)',
         Sound(db)', Failed(db) => Failed(db)'
  PROVE  RowInv'
<1>1. \A d \in Databases' : d = db' \/ d \in Databases
  BY DEF Databases
<1>2. \A d \in Databases : Sound(d)
  BY DEF RowInv
<1>3. Sound(db)' = Sound(db')
  BY DEF Sound, ChunkFails, CompletedSent, Remembered, GivenUp, AllSent, OfDelivery, Unsent
<1>4. \A d \in Databases' : Sound(d)
  BY <1>1, <1>2, <1>3
<1>5. \A b \in backups' : Failed(b) => Failed(db)'
  BY DEF RowInv
<1> QED
  BY <1>4, <1>5 DEF RowInv, Sound, ChunkFails, CompletedSent, Remembered, GivenUp, AllSent,
     OfDelivery, Unsent, Failed

LEMMA PlanRows ==
  ASSUME RowInv, ~lost, Placed, Plan
  PROVE  RowInv'
<1>1. /\ db # None /\ UNCHANGED <<backups, chat, blind>>
      /\ \A n \in DOMAIN db.deliveries : db.deliveries[n] \in {"completed", "failed_terminal"}
  BY DEF Plan
<1>2. /\ InTurn(db) /\ FailedHasChunk(db) /\ HasChunks(db)
      /\ ChunkFails(db) /\ CompletedSent(db) /\ Remembered(db) /\ GivenUp(db)
  BY <1>1, LiveDatabase DEF RowInv, Sound
<1> DEFINE Old == DOMAIN db.chunks
           New == DOMAIN db'.chunks \ DOMAIN db.chunks
<1>3. /\ db' # None /\ db' \in Database
      /\ Old \subseteq DOMAIN db'.chunks /\ \A i \in Old : db'.chunks[i] = db.chunks[i]
      /\ DOMAIN db.deliveries \subseteq DOMAIN db'.deliveries
      /\ \A n \in DOMAIN db'.deliveries :
           db'.deliveries[n] = IF n \in DOMAIN db.deliveries THEN db.deliveries[n] ELSE "sending"
      /\ db'.history = db.history
  BY PlanAppends
<1>4. \A i \in New : /\ \A j \in Old : j < i
                     /\ db'.chunks[i].story \notin db.history
                     /\ db'.chunks[i].state = "pending"
                     /\ db'.chunks[i].delivery \notin DOMAIN db.deliveries
  BY PlanAppends
<1>5. \A i, j \in New : db'.chunks[i].story = db'.chunks[j].story => i = j
  BY PlanAppends
<1>6. \A i \in Old : /\ i \in Nat /\ db'.chunks[i] = db.chunks[i]
                     /\ db.chunks[i].delivery \in DOMAIN db.deliveries
                     /\ db'.deliveries[db.chunks[i].delivery] = db.deliveries[db.chunks[i].delivery]
  BY <1>1, <1>2, <1>3, LiveDatabase, ChunkAt DEF HasChunks
<1>7. \A i \in DOMAIN db'.chunks : i \in Nat /\ (i \in Old \/ i \in New)
  BY <1>3, ChunkAt
<1> HIDE DEF Old, New
<1>8. \A i \in DOMAIN db'.chunks, j \in Old : i < j => i \in Old
  BY <1>4, <1>6, <1>7
<1>9. InTurn(db)'
  BY <1>2, <1>4, <1>6, <1>7, <1>8 DEF InTurn, Attempted, OfDelivery, Old
<1>10. FailedHasChunk(db)'
  <2> SUFFICES ASSUME NEW n \in DOMAIN db'.deliveries, db'.deliveries[n] = "failed_terminal"
               PROVE  \E i \in OfDelivery(db', n) : db'.chunks[i].state = "failed_terminal"
    BY DEF FailedHasChunk, OfDelivery
  <2>1. PICK i \in OfDelivery(db, n) : db.chunks[i].state = "failed_terminal"
    BY <1>2, <1>3 DEF FailedHasChunk
  <2> QED BY <1>3, <2>1 DEF OfDelivery, Old
<1>12. ChunkFails(db)' /\ Remembered(db)'
  BY <1>2, <1>3, <1>4, <1>6, <1>7 DEF ChunkFails, Remembered, Old
<1>13. CompletedSent(db)'
  <2> SUFFICES ASSUME NEW n \in DOMAIN db'.deliveries, db'.deliveries[n] = "completed",
                      NEW i \in DOMAIN db'.chunks, db'.chunks[i].delivery = n
               PROVE  db'.chunks[i].state = "sent"
    BY DEF CompletedSent, AllSent, OfDelivery
  <2>1. n \in DOMAIN db.deliveries /\ db.deliveries[n] = "completed"
    BY <1>3
  <2>2. i \in Old
    BY <1>4, <1>7, <2>1
  <2> QED BY <1>2, <1>6, <2>1, <2>2 DEF CompletedSent, AllSent, OfDelivery, Old
<1>14. GivenUp(db)'
  <2> SUFFICES ASSUME NEW i \in DOMAIN db'.chunks, NEW j \in DOMAIN db'.chunks, i < j,
                      db'.chunks[i].story = db'.chunks[j].story
               PROVE  Unsent(db'.chunks[i]) /\ db'.deliveries[db'.chunks[i].delivery] = "failed_terminal"
    BY DEF GivenUp, Unsent
  <2>1. CASE j \in Old
    BY <1>2, <1>6, <1>8, <2>1 DEF GivenUp, Old
  <2>2. i \in New /\ j \in New => FALSE
    BY <1>5, <1>7
  <2>3. CASE i \in Old /\ j \in New
    <3> DEFINE n == db.chunks[i].delivery
    <3>1. db.chunks[i].state # "sent" /\ n \in DOMAIN db.deliveries
      BY <1>2, <1>4, <1>6, <2>3 DEF Remembered, Old
    <3>2. db.deliveries[n] = "failed_terminal"
      BY <1>1, <1>2, <2>3, <3>1 DEF CompletedSent, AllSent, OfDelivery, Old
    <3>3. PICK k \in OfDelivery(db, n) : db.chunks[k].state = "failed_terminal"
      BY <1>2, <3>1, <3>2 DEF FailedHasChunk
    <3>4. Attempted(db.chunks[i]) => i = k
      BY <1>1, <1>2, <2>3, <3>3, OneAttempted DEF OfDelivery, Attempted, Old
    <3>5. db.chunks[i].state \in ChunkStates
      BY <1>1, <2>3, LiveDatabase, ChunkAt DEF Old
    <3>6. Unsent(db.chunks[i])
      BY <3>1, <3>3, <3>4, <3>5 DEF Attempted, Unsent, ChunkStates
    <3> QED BY <1>6, <2>3, <3>2, <3>6
  <2> QED BY <1>7, <2>1, <2>2, <2>3
<1>15. Failed(db) => Failed(db)'
  BY <1>3 DEF Failed
<1> QED BY <1>1, <1>3, <1>9, <1>10, <1>12, <1>13, <1>14, <1>15, RowsOf DEF Sound

LEMMA BeginRows ==
  ASSUME RowInv, ~lost, Placed, db # None, NEW i \in DOMAIN db.chunks, BeginAttempt(i)
  PROVE  RowInv'
<1> DEFINE n == db.chunks[i].delivery
<1>1. /\ db.chunks[i].state = "pending" /\ db.deliveries[n] = "sending"
      /\ \A j \in OfDelivery(db, n) : j < i => db.chunks[j].state = "sent"
      /\ UNCHANGED <<backups, chat, blind>>
  BY DEF BeginAttempt
<1>2. /\ InTurn(db) /\ FailedHasChunk(db) /\ HasChunks(db)
      /\ ChunkFails(db) /\ CompletedSent(db) /\ Remembered(db) /\ GivenUp(db)
  BY LiveDatabase DEF RowInv, Sound
<1>3. /\ db' \in Database /\ db' # None /\ DOMAIN db'.chunks = DOMAIN db.chunks
      /\ db'.deliveries = db.deliveries /\ db'.history = db.history
      /\ \A j \in DOMAIN db.chunks :
           /\ db'.chunks[j].payload = db.chunks[j].payload /\ db'.chunks[j].story = db.chunks[j].story
           /\ db'.chunks[j].delivery = db.chunks[j].delivery
           /\ db'.chunks[j].state = IF j = i THEN "in_flight" ELSE db.chunks[j].state
  BY BeginMoves, NoneAssumption DEF OneMoves, SameChunks
<1>4. InTurn(db)'
  BY <1>1, <1>2, <1>3 DEF InTurn, Attempted, OfDelivery
<1>5. FailedHasChunk(db)'
  BY <1>1, <1>2, <1>3 DEF FailedHasChunk, OfDelivery
<1>6. ChunkFails(db)' /\ Remembered(db)'
  BY <1>2, <1>3 DEF ChunkFails, Remembered
<1>7. CompletedSent(db)'
  BY <1>1, <1>2, <1>3 DEF CompletedSent, AllSent, OfDelivery
<1>8. GivenUp(db)'
  BY <1>1, <1>2, <1>3 DEF GivenUp, Unsent
<1>9. Failed(db) => Failed(db)'
  BY <1>3 DEF Failed
<1> QED BY <1>1, <1>3, <1>4, <1>5, <1>6, <1>7, <1>8, <1>9, RowsOf DEF Sound

\* The end of an attempt, or the decision of the operator.
LEMMA MarkRows ==
  ASSUME RowInv, ~lost, Placed, db # None, NEW i \in DOMAIN db.chunks,
         db.chunks[i].state \in {"in_flight", "ambiguous"},
         NEW s \in ChunkStates \ {"in_flight"}, NEW open,
         Marked(i, s, open), open # "completed", s = "failed_terminal" <=> open = "failed_terminal",
         UNCHANGED backups
  PROVE  RowInv'
<1> DEFINE n == db.chunks[i].delivery
<1>1. /\ InTurn(db) /\ FailedHasChunk(db) /\ HasChunks(db)
      /\ ChunkFails(db) /\ CompletedSent(db) /\ Remembered(db) /\ GivenUp(db)
  BY LiveDatabase DEF RowInv, Sound
<1>2. /\ db' \in Database /\ db' # None /\ DOMAIN db'.chunks = DOMAIN db.chunks
      /\ \A j \in DOMAIN db.chunks :
           /\ db'.chunks[j].payload = db.chunks[j].payload /\ db'.chunks[j].story = db.chunks[j].story
           /\ db'.chunks[j].delivery = db.chunks[j].delivery
           /\ db'.chunks[j].state = IF j = i THEN s ELSE db.chunks[j].state
      /\ DOMAIN db'.deliveries = DOMAIN db.deliveries
      /\ \A m \in DOMAIN db.deliveries :
           db'.deliveries[m] = IF m # n THEN db.deliveries[m]
                               ELSE IF AllSent(db', m) THEN "completed" ELSE open
      /\ db'.history = IF s = "sent" THEN db.history \cup {db.chunks[i].story} ELSE db.history
  BY NoneAssumption DEF Marked, OneMoves, OneFollows, SameChunks
<1>3. n \in DOMAIN db.deliveries
  BY <1>1 DEF HasChunks
<1>4. \A k \in OfDelivery(db, n) : db.chunks[k].state # "failed_terminal"
  <2> SUFFICES ASSUME NEW k \in OfDelivery(db, n), db.chunks[k].state = "failed_terminal" PROVE FALSE
    OBVIOUS
  <2>1. k \in DOMAIN db.chunks /\ db.chunks[k].delivery = n
    BY DEF OfDelivery
  <2>2. k = i
    BY <1>1, <2>1, OneAttempted DEF Attempted
  <2> QED BY <2>2
<1>5. db.deliveries[n] # "failed_terminal"
  BY <1>1, <1>3, <1>4 DEF FailedHasChunk
<1>6. s # "sent" => db'.deliveries[n] = open
  BY <1>2, <1>3 DEF AllSent, OfDelivery
<1> HIDE DEF n
<1>7. InTurn(db)'
  BY <1>1, <1>2 DEF InTurn, Attempted, OfDelivery
<1>8. FailedHasChunk(db)'
  <2> SUFFICES ASSUME NEW m \in DOMAIN db.deliveries, db'.deliveries[m] = "failed_terminal"
               PROVE  \E k \in OfDelivery(db', m) : db'.chunks[k].state = "failed_terminal"
    BY <1>2 DEF FailedHasChunk, OfDelivery
  <2>1. CASE m = n
    BY <1>2, <2>1 DEF OfDelivery, n
  <2>2. CASE m # n
    <3>1. PICK k \in OfDelivery(db, m) : db.chunks[k].state = "failed_terminal"
      BY <1>1, <1>2, <2>2 DEF FailedHasChunk
    <3> QED BY <1>2, <3>1 DEF OfDelivery
  <2> QED BY <2>1, <2>2
<1>10. ChunkFails(db)'
  <2> SUFFICES ASSUME NEW k \in DOMAIN db.chunks, db'.chunks[k].state = "failed_terminal"
               PROVE  db'.deliveries[db.chunks[k].delivery] = "failed_terminal"
    BY <1>2 DEF ChunkFails
  <2>1. CASE k = i
    BY <1>2, <1>6, <2>1 DEF n
  <2>2. CASE k # i
    <3>1. db.chunks[k].state = "failed_terminal" /\ db.chunks[k].delivery # n
      BY <1>2, <1>4, <2>2 DEF OfDelivery
    <3> QED BY <1>1, <1>2, <3>1 DEF ChunkFails, HasChunks
  <2> QED BY <2>1, <2>2
<1>11. CompletedSent(db)'
  <2> SUFFICES ASSUME NEW m \in DOMAIN db.deliveries, db'.deliveries[m] = "completed"
               PROVE  AllSent(db', m)
    BY <1>2 DEF CompletedSent, AllSent, OfDelivery
  <2>1. CASE m = n
    BY <1>2, <2>1
  <2>2. CASE m # n
    <3>1. AllSent(db, m)
      BY <1>1, <1>2, <2>2 DEF CompletedSent
    <3> QED BY <1>2, <2>2, <3>1 DEF AllSent, OfDelivery, n
  <2> QED BY <2>1, <2>2
<1>12. Remembered(db)'
  BY <1>1, <1>2 DEF Remembered
<1>13. GivenUp(db)'
  <2> SUFFICES ASSUME NEW j \in DOMAIN db.chunks, NEW k \in DOMAIN db.chunks, j < k,
                      db.chunks[j].story = db.chunks[k].story
               PROVE  Unsent(db'.chunks[j]) /\ db'.deliveries[db.chunks[j].delivery] = "failed_terminal"
    BY <1>2 DEF GivenUp, Unsent
  <2>1. Unsent(db.chunks[j]) /\ db.deliveries[db.chunks[j].delivery] = "failed_terminal"
    BY <1>1 DEF GivenUp
  <2>2. j # i /\ db.chunks[j].delivery # n
    BY <1>5, <2>1 DEF Unsent
  <2>3. db.chunks[j].delivery \in DOMAIN db.deliveries
    BY <1>1 DEF HasChunks
  <2> QED BY <1>2, <2>1, <2>2, <2>3 DEF Unsent
<1>14. Failed(db) => Failed(db)'
  BY <1>2, <1>5 DEF Failed
<1> QED BY <1>2, <1>7, <1>8, <1>10, <1>11, <1>12, <1>13, <1>14, RowsOf DEF Sound

\* A database that may be restored over has no failed delivery, so no backup
\* has one.
LEMMA RestoreRows ==
  ASSUME RowInv, ~lost, Placed, NEW b \in backups, RestoreBackup(b)
  PROVE  RowInv'
<1>1. /\ db # None /\ UNCHANGED <<backups, chat>> /\ TargetSettled(db)
      /\ Remembered(db) /\ Sound(b) /\ (Failed(b) => Failed(db))
  BY LiveDatabase DEF RowInv, Sound, RestoreBackup, Databases
<1>2. /\ b \in Databases /\ b \in Database /\ db' \in Database /\ SameChunks(b, db') /\ RestoredOver(b)
      /\ \A i \in DOMAIN b.chunks : b.chunks[i].state \in {"pending", "failed_terminal", "sent"}
  BY <1>1, RestoreCopies
<1>3. ~Failed(db) /\ ~Failed(b)
  BY <1>1 DEF TargetSettled, Failed
<1>4. \A i \in DOMAIN b.chunks : b.chunks[i].delivery \in DOMAIN b.deliveries
  BY <1>2 DEF Placed, HasChunks
<1>5. /\ db' # None /\ DOMAIN db'.chunks = DOMAIN b.chunks
      /\ \A i \in DOMAIN b.chunks :
           /\ db'.chunks[i].state \in {"pending", "sent"}
           /\ b.chunks[i].state = "sent" => db'.chunks[i].state = "sent"
           /\ db'.chunks[i].story = b.chunks[i].story
           /\ db'.chunks[i].delivery = b.chunks[i].delivery
  BY <1>1, <1>2, <1>3, <1>4, NoneAssumption
     DEF SameChunks, RestoredOver, Sound, ChunkFails, Failed
<1>6. \A n \in DOMAIN db'.deliveries : db'.deliveries[n] # "failed_terminal"
  BY <1>2, <1>3 DEF RestoredOver, Failed
<1>7. InTurn(db)' /\ FailedHasChunk(db)' /\ ChunkFails(db)'
  BY <1>5, <1>6 DEF InTurn, Attempted, FailedHasChunk, ChunkFails
<1>8. CompletedSent(db)'
  <2> SUFFICES ASSUME NEW n \in DOMAIN db'.deliveries, db'.deliveries[n] = "completed",
                      NEW i \in DOMAIN b.chunks, b.chunks[i].delivery = n
               PROVE  db'.chunks[i].state = "sent"
    BY <1>5 DEF CompletedSent, AllSent, OfDelivery
  <2>1. n \in DOMAIN b.deliveries
    BY <1>4
  <2>2. CASE db'.deliveries[n] = b.deliveries[n]
    BY <1>1, <1>5, <2>1, <2>2 DEF Sound, CompletedSent, AllSent, OfDelivery
  <2>3. CASE AllSent(db', n)
    BY <1>5, <2>3 DEF AllSent, OfDelivery
  <2> QED BY <1>2, <2>1, <2>2, <2>3 DEF RestoredOver
<1>9. Remembered(db)'
  <2> SUFFICES ASSUME NEW i \in DOMAIN b.chunks, db'.chunks[i].state = "sent"
               PROVE  b.chunks[i].story \in db'.history
    BY <1>5 DEF Remembered
  <2>1. CASE Known(b, i)
    <3>1. db.chunks[i].state = "sent" /\ i \in DOMAIN db.chunks
      BY <1>1, <2>1 DEF TargetSettled, Known
    <3>2. db.chunks[i].story = b.chunks[i].story
      BY <1>1, <1>2, <2>1, LiveDatabase DEF Known, Placed, SamePlace
    <3> QED BY <1>1, <1>2, <3>1, <3>2 DEF Remembered, RestoredOver
  <2>2. CASE ~Known(b, i)
    <3>1. b.chunks[i].state = "sent"
      BY <1>2, <2>2 DEF RestoredOver
    <3> QED BY <1>1, <1>2, <3>1 DEF Sound, Remembered, RestoredOver
  <2> QED BY <2>1, <2>2
<1>10. GivenUp(db)'
  BY <1>1, <1>3, <1>4, <1>5 DEF GivenUp, Sound, Failed
<1>11. Sound(db)'
  BY <1>7, <1>8, <1>9, <1>10 DEF Sound
<1> QED BY <1>1, <1>3, <1>5, <1>7, <1>11, RowsOf

LEMMA NextRows ==
  ASSUME Placed, RowInv, [Next]_vars
  PROVE  RowInv'
<1> SUFFICES ASSUME ~lost' PROVE RowInv'
  BY DEF RowInv
<1>1. Placed /\ Placed' /\ ~lost
  <2>1. Placed /\ Placed'
    BY NextKeepsAcks
  <2>2. Plan \/ Backup \/ OpenFresh \/ UNCHANGED vars => UNCHANGED lost
    BY DEF Plan, Backup, OpenFresh, vars
  <2>3. Lose => lost'
    BY DEF Lose
  <2>4. \A i : BeginAttempt(i) \/ FinishAttempt(i) \/ Resolve(i) => UNCHANGED lost
    BY Zenon DEF BeginAttempt, FinishAttempt, Resolve
  <2>5. \A b : RestoreBackup(b) => UNCHANGED lost
    BY Zenon DEF RestoreBackup
  <2> QED BY <2>1, <2>2, <2>3, <2>4, <2>5 DEF Next
<1>2. CASE UNCHANGED vars
  BY <1>2 DEF vars, RowInv, Databases, Sound, InTurn, FailedHasChunk, Attempted,
     OfDelivery, ChunkFails, CompletedSent, AllSent, Remembered, GivenUp, Unsent, Failed
<1>3. CASE Backup
  <2>1. UNCHANGED <<db, chat, blind>> /\ backups' = backups \cup {db} /\ db # None
    BY <1>3 DEF Backup
  <2>2. \A d \in Databases' : d \in Databases
    BY <2>1 DEF Databases
  <2>3. /\ InTurn(db) /\ FailedHasChunk(db) /\ \A d \in Databases : Sound(d)
        /\ \A b \in backups : Failed(b) => Failed(db)
    BY <1>1 DEF RowInv
  <2>4. \A d \in Databases' : Sound(d)
    BY <2>2, <2>3
  <2>5. \A b \in backups' : Failed(b) => Failed(db)
    BY <2>1, <2>3
  <2>6. db' # None /\ InTurn(db)' /\ FailedHasChunk(db)'
    BY <2>1, <2>3 DEF InTurn, FailedHasChunk, Attempted, OfDelivery
  <2>7. \A b \in backups' : Failed(b) => Failed(db)'
    BY <2>1, <2>5 DEF Failed
  <2> QED
    BY <2>4, <2>6, <2>7 DEF RowInv, Sound, ChunkFails, CompletedSent, AllSent, OfDelivery,
       Remembered, GivenUp, Unsent, Failed
<1>4. CASE Lose
  BY <1>4 DEF Lose
<1>5. CASE OpenFresh
  BY <1>1, <1>5 DEF OpenFresh, RowInv
<1>6. CASE Plan
  BY <1>1, <1>6, PlanRows
<1>7. ASSUME db # None, NEW i \in DOMAIN db.chunks, BeginAttempt(i)
      PROVE  RowInv'
  BY <1>1, <1>7, BeginRows
<1>8. ASSUME db # None, NEW i \in DOMAIN db.chunks, FinishAttempt(i)
      PROVE  RowInv'
  <2>1. PICK s \in ChunkStates \ {"in_flight"}, open \in DeliveryStates :
          /\ Marked(i, s, open) /\ open # "completed"
          /\ s = "failed_terminal" <=> open = "failed_terminal"
    BY <1>1, <1>8, FinishMoves
  <2>2. db.chunks[i].state = "in_flight" /\ UNCHANGED backups
    BY <1>8 DEF FinishAttempt
  <2> QED BY <1>1, <1>8, <2>1, <2>2, MarkRows
<1>9. ASSUME db # None, NEW i \in DOMAIN db.chunks, Resolve(i)
      PROVE  RowInv'
  <2>1. PICK s \in {"sent", "pending"}, open \in {"needs_attention", "sending"} : Marked(i, s, open)
    BY <1>1, <1>9, ResolveMoves
  <2>2. db.chunks[i].state = "ambiguous" /\ UNCHANGED backups
    BY <1>9 DEF Resolve
  <2>3. s \in ChunkStates \ {"in_flight"} /\ s # "failed_terminal" /\ open # "failed_terminal"
        /\ open # "completed"
    BY <2>1 DEF ChunkStates
  <2> QED BY <1>1, <1>9, <2>1, <2>2, <2>3, MarkRows
<1>10. ASSUME NEW b \in backups, RestoreBackup(b)
       PROVE  RowInv'
  BY <1>1, <1>10, RestoreRows
<1> QED BY <1>2, <1>3, <1>4, <1>5, <1>6, <1>7, <1>8, <1>9, <1>10 DEF Next

LEMMA RowInit == Init => RowInv
<1> SUFFICES ASSUME Init PROVE RowInv
  OBVIOUS
<1>1. Empty # None /\ Empty.chunks = <<>> /\ Empty.deliveries = <<>>
  BY EmptyDatabase, NoneAssumption DEF Empty
<1>2. \A d \in Databases : d = Empty
  BY DEF Init, Databases
<1>3. Sound(Empty)
  BY <1>1 DEF Sound, ChunkFails, CompletedSent, Remembered, GivenUp
<1>4. InTurn(Empty) /\ FailedHasChunk(Empty)
  BY <1>1 DEF InTurn, FailedHasChunk
<1> QED BY <1>1, <1>2, <1>3, <1>4 DEF Init, RowInv


-----------------------------------------------------------------------------
\* a payload that showed a story reached the chat
SeenInChat == \A s \in Story : \A p \in seen[s] : chat[p] > 0
SeenTyped == seen \in [Story -> SUBSET Payload] /\ SeenInChat

\* a story in the chat is remembered, or its attempt is still to be resolved
SeenKept ==
  \A s \in Story : seen[s] # {} =>
    \/ s \in db.history
    \/ \E i \in DOMAIN db.chunks : /\ db.chunks[i].story = s /\ db.chunks[i].payload \in seen[s]
                                   /\ db.chunks[i].state = "ambiguous"

SeenOnce == \A s \in Story : \A p, q \in seen[s] : p = q

\* a chunk whose delivery has not failed is the only one to show its story
SeenAs ==
  \A i \in DOMAIN db.chunks : db.deliveries[db.chunks[i].delivery] # "failed_terminal" =>
    seen[db.chunks[i].story] \subseteq {db.chunks[i].payload}

Whole(d) == \A i \in DOMAIN d.chunks : seen[d.chunks[i].story] \subseteq {d.chunks[i].payload}

\* the live database has the chunks of d, or remembers their stories
Carried(d) ==
  \A i \in DOMAIN d.chunks :
    \/ d.chunks[i].story \in db.history
    \/ \E j \in DOMAIN db.chunks : db.chunks[j].payload = d.chunks[i].payload

UnderOne(d, e) ==
  \A i \in DOMAIN d.chunks, j \in DOMAIN e.chunks :
    d.chunks[i].story = e.chunks[j].story => d.chunks[i].payload = e.chunks[j].payload

Shared ==
  ~Failed(db) =>
    \A d \in Databases : Whole(d) /\ Carried(d) /\ \A e \in Databases : UnderOne(d, e)

SeenInv == SeenTyped /\ (~lost => SeenKept /\ SeenOnce /\ SeenAs /\ Shared)

\* Whole and UnderOne look at nothing but payloads and stories.
LEMMA SharedCopies ==
  ASSUME Shared, ~Failed(db),
         \A d \in Databases' : \E c \in Databases : SameChunks(c, d),
         \A c \in Databases : \A i \in DOMAIN c.chunks :
           /\ seen'[c.chunks[i].story] \subseteq {c.chunks[i].payload}
           /\ \/ c.chunks[i].story \in db'.history
              \/ \E j \in DOMAIN db'.chunks : db'.chunks[j].payload = c.chunks[i].payload
  PROVE  Shared'
<1>1. \A c, e \in Databases : UnderOne(c, e)
  BY DEF Shared
<1>2. ASSUME NEW d \in Databases', NEW i \in DOMAIN d.chunks
      PROVE  /\ seen'[d.chunks[i].story] \subseteq {d.chunks[i].payload}
             /\ \/ d.chunks[i].story \in db'.history
                \/ \E j \in DOMAIN db'.chunks : db'.chunks[j].payload = d.chunks[i].payload
  <2>1. PICK c \in Databases : SameChunks(c, d)
    OBVIOUS
  <2>2. /\ i \in DOMAIN c.chunks /\ d.chunks[i].story = c.chunks[i].story
        /\ d.chunks[i].payload = c.chunks[i].payload
    BY <2>1 DEF SameChunks
  <2> QED BY <2>1, <2>2
<1>3. ASSUME NEW d \in Databases', NEW e \in Databases'
      PROVE  UnderOne(d, e)
  <2>1. PICK c \in Databases : SameChunks(c, d)
    OBVIOUS
  <2>2. PICK f \in Databases : SameChunks(f, e)
    OBVIOUS
  <2>3. UnderOne(c, f)
    BY <1>1
  <2> QED BY <2>1, <2>2, <2>3 DEF UnderOne, SameChunks
<1> QED BY <1>2, <1>3 DEF Shared, Whole, Carried, UnderOne

LEMMA SameAsItself ==
  ASSUME Placed, NEW d \in Databases
  PROVE  SameChunks(d, d)
BY DEF Placed, HasChunks, SameChunks

\* a delivery with an open attempt has not failed
LEMMA OpenDelivery ==
  ASSUME Placed, db # None, RowInv, ~lost, NEW i \in DOMAIN db.chunks,
         db.chunks[i].state \in {"in_flight", "ambiguous"}
  PROVE  /\ db.chunks[i].delivery \in DOMAIN db.deliveries
         /\ db.deliveries[db.chunks[i].delivery] # "failed_terminal"
<1>1. InTurn(db) /\ FailedHasChunk(db) /\ HasChunks(db)
  BY LiveDatabase DEF RowInv
<1>2. ASSUME NEW k \in OfDelivery(db, db.chunks[i].delivery), db.chunks[k].state = "failed_terminal"
      PROVE  FALSE
  <2>1. k \in DOMAIN db.chunks /\ db.chunks[k].delivery = db.chunks[i].delivery
    BY DEF OfDelivery
  <2>2. k = i
    BY <1>1, <1>2, <2>1, OneAttempted DEF Attempted
  <2> QED BY <1>2, <2>2
<1> QED BY <1>1, <1>2 DEF FailedHasChunk, HasChunks

\* while none has failed, what a finished database has, it remembers
LEMMA AllRemembered ==
  ASSUME Placed, db # None, RowInv, ~lost, Shared, ~Failed(db),
         \A i \in DOMAIN db.chunks : db.chunks[i].state = "sent",
         NEW d \in Databases, NEW i \in DOMAIN d.chunks
  PROVE  d.chunks[i].story \in db.history
<1>1. Carried(d)
  BY DEF Shared
<1>2. CASE \E j \in DOMAIN db.chunks : db.chunks[j].payload = d.chunks[i].payload
  <2>1. PICK j \in DOMAIN db.chunks : db.chunks[j].payload = d.chunks[i].payload
    BY <1>2
  <2>2. db \in Databases /\ Remembered(db)
    BY LiveDatabase DEF RowInv, Sound
  <2>3. db.chunks[j].story = d.chunks[i].story
    BY <2>1, <2>2 DEF Placed, SamePlace
  <2> QED BY <2>1, <2>2, <2>3 DEF Remembered
<1> QED BY <1>1, <1>2 DEF Carried

-----------------------------------------------------------------------------
\* A new plan takes stories that nobody has shown and no database holds.
LEMMA PlanSeen ==
  ASSUME Placed, Placed', RowInv, SeenInv, ~lost, Plan
  PROVE  SeenKept' /\ SeenOnce' /\ SeenAs' /\ Shared'
<1>1. /\ db # None /\ UNCHANGED <<backups, seen>>
      /\ \A n \in DOMAIN db.deliveries : db.deliveries[n] \in {"completed", "failed_terminal"}
  BY DEF Plan
<1>2. /\ CompletedSent(db) /\ Remembered(db) /\ HasChunks(db) /\ db \in Databases
      /\ SeenKept /\ SeenOnce /\ SeenAs /\ Shared
  BY <1>1, LiveDatabase DEF RowInv, Sound, SeenInv
<1> DEFINE Old == DOMAIN db.chunks
           New == DOMAIN db'.chunks \ DOMAIN db.chunks
<1>3. /\ db' # None /\ db' \in Database
      /\ Old \subseteq DOMAIN db'.chunks /\ \A i \in Old : db'.chunks[i] = db.chunks[i]
      /\ DOMAIN db.deliveries \subseteq DOMAIN db'.deliveries
      /\ \A n \in DOMAIN db'.deliveries :
           db'.deliveries[n] = IF n \in DOMAIN db.deliveries THEN db.deliveries[n] ELSE "sending"
      /\ db'.history = db.history
  BY PlanAppends
<1>4. \A i \in New : db'.chunks[i].story \notin db.history
  BY PlanAppends
<1>5. \A i, j \in New : db'.chunks[i].story = db'.chunks[j].story => i = j
  BY PlanAppends
<1>6. \A i \in New : db'.chunks[i].story \in Story
  BY <1>3, ChunkAt
<1>7. \A i \in Old : db.chunks[i].state # "ambiguous"
  <2> SUFFICES ASSUME NEW i \in Old, db.chunks[i].state = "ambiguous" PROVE FALSE
    OBVIOUS
  <2>1. /\ db.chunks[i].delivery \in DOMAIN db.deliveries
        /\ db.deliveries[db.chunks[i].delivery] # "failed_terminal"
    BY <1>1, OpenDelivery
  <2>2. db.deliveries[db.chunks[i].delivery] = "completed"
    BY <1>1, <2>1
  <2> QED BY <1>2, <2>1, <2>2 DEF CompletedSent, AllSent, OfDelivery
<1>8. \A s \in Story : seen[s] # {} => s \in db.history
  BY <1>2, <1>7 DEF SeenKept
<1>9. SeenKept' /\ SeenOnce'
  BY <1>1, <1>2, <1>3, <1>8 DEF SeenKept, SeenOnce
<1>10. \A i \in New : seen[db'.chunks[i].story] = {}
  BY <1>4, <1>6, <1>8
<1>11. SeenAs'
  <2> SUFFICES ASSUME NEW i \in DOMAIN db'.chunks,
                      db'.deliveries[db'.chunks[i].delivery] # "failed_terminal"
               PROVE  seen[db'.chunks[i].story] \subseteq {db'.chunks[i].payload}
    BY <1>1 DEF SeenAs
  <2>1. CASE i \in Old
    <3>1. db.deliveries[db.chunks[i].delivery] # "failed_terminal"
      BY <1>2, <1>3, <2>1 DEF HasChunks
    <3> QED BY <1>2, <1>3, <2>1, <3>1 DEF SeenAs
  <2>2. CASE i \in New
    BY <1>10, <2>2
  <2> QED BY <2>1, <2>2
<1>12. ASSUME ~Failed(db)'
       PROVE  \A d \in Databases' : Whole(d)' /\ Carried(d)' /\ \A e \in Databases' : UnderOne(d, e)
  <2>1. ~Failed(db)
    BY <1>3, <1>12 DEF Failed
  <2>2. \A i \in Old : db.chunks[i].state = "sent"
    <3> TAKE i \in Old
    <3>1. db.chunks[i].delivery \in DOMAIN db.deliveries
      BY <1>2 DEF HasChunks
    <3>2. db.deliveries[db.chunks[i].delivery] = "completed"
      BY <1>1, <2>1, <3>1 DEF Failed
    <3> QED BY <1>2, <3>1, <3>2 DEF CompletedSent, AllSent, OfDelivery
  <2>3. \A d \in Databases : \A i \in DOMAIN d.chunks : d.chunks[i].story \in db.history
    BY <1>1, <1>2, <2>1, <2>2, AllRemembered
  <2>4. \A d \in Databases' : d = db' \/ d \in Databases
    BY <1>1 DEF Databases
  <2>5. \A d, e \in Databases : Whole(d) /\ UnderOne(d, e)
    BY <1>2, <2>1 DEF Shared
  <2>6. \A i \in Old : seen[db.chunks[i].story] \subseteq {db.chunks[i].payload}
    BY <1>2, <2>5 DEF Whole
  <2>7. \A d \in Databases' : Whole(d)'
    <3>1. \A i \in DOMAIN db'.chunks : seen[db'.chunks[i].story] \subseteq {db'.chunks[i].payload}
      BY <1>3, <1>10, <2>6
    <3> QED BY <1>1, <2>4, <2>5, <3>1 DEF Whole
  <2>8. \A d \in Databases' : Carried(d)'
    BY <1>3, <2>3, <2>4 DEF Carried
  <2>9. ASSUME NEW e \in Databases, NEW i \in DOMAIN db'.chunks, NEW j \in DOMAIN e.chunks,
               db'.chunks[i].story = e.chunks[j].story
        PROVE  db'.chunks[i].payload = e.chunks[j].payload
    <3>1. i \in Old
      BY <1>4, <2>3, <2>9
    <3> QED BY <1>2, <1>3, <2>5, <2>9, <3>1 DEF UnderOne
  <2>10. ASSUME NEW i \in DOMAIN db'.chunks, NEW j \in DOMAIN db'.chunks,
                db'.chunks[i].story = db'.chunks[j].story
         PROVE  db'.chunks[i].payload = db'.chunks[j].payload
    <3>1. CASE i \in Old
      BY <1>2, <1>3, <2>9, <2>10, <3>1
    <3>2. CASE j \in Old
      BY <1>2, <1>3, <2>9, <2>10, <3>2
    <3>3. CASE i \in New /\ j \in New
      BY <1>5, <2>10, <3>3
    <3> QED BY <3>1, <3>2, <3>3
  <2>11. \A d, e \in Databases' : UnderOne(d, e)
    BY <2>4, <2>5, <2>9, <2>10 DEF UnderOne
  <2> QED BY <2>7, <2>8, <2>11
<1>13. Shared'
  BY <1>12 DEF Shared, UnderOne
<1> QED BY <1>9, <1>11, <1>13

\* Chunk i of the live database moves to state s, and may appear in the chat.
LEMMA MoveSeen ==
  ASSUME Placed, Placed', RowInv, SeenInv, ~lost, db # None, NEW i \in DOMAIN db.chunks,
         NEW s, OneMoves(db, db', i, s), UNCHANGED backups,
         db.history \subseteq db'.history,
         \A n \in DOMAIN db.deliveries :
           db.deliveries[n] = "failed_terminal" => db'.deliveries[n] = "failed_terminal",
         DOMAIN db'.deliveries = DOMAIN db.deliveries,
         \/ UNCHANGED seen
         \/ /\ seen' = [seen EXCEPT ![db.chunks[i].story] = @ \cup {db.chunks[i].payload}]
            /\ db.chunks[i].state = "in_flight",
         \* an open attempt that was seen stays open, or is remembered
         db.chunks[i].state = "ambiguous" /\ db.chunks[i].payload \in seen[db.chunks[i].story]
           => db.chunks[i].story \in db'.history,
         seen' # seen => s = "ambiguous" \/ db.chunks[i].story \in db'.history
  PROVE  SeenKept' /\ SeenOnce' /\ SeenAs' /\ Shared'
<1> DEFINE t == db.chunks[i].story
           p == db.chunks[i].payload
<1>1. /\ HasChunks(db) /\ SamePlace(db, db) /\ GivenUp(db) /\ db \in Databases /\ db \in Database
      /\ SeenTyped /\ SeenKept /\ SeenOnce /\ SeenAs /\ Shared
  BY LiveDatabase DEF RowInv, Sound, SeenInv
<1>2. /\ SameChunks(db, db') /\ db' \in Database /\ DOMAIN db'.chunks = DOMAIN db.chunks
      /\ \A j \in DOMAIN db.chunks :
           /\ db'.chunks[j].payload = db.chunks[j].payload /\ db'.chunks[j].story = db.chunks[j].story
           /\ db'.chunks[j].delivery = db.chunks[j].delivery
           /\ db'.chunks[j].state = IF j = i THEN s ELSE db.chunks[j].state
  BY DEF OneMoves, SameChunks
<1>3. t \in Story /\ \A j \in DOMAIN db.chunks : j \in Nat /\ db.chunks[j].delivery \in DOMAIN db.deliveries
  BY <1>1, ChunkAt DEF HasChunks
<1>4. \A x \in Story : seen'[x] = IF x = t /\ seen' # seen THEN seen[x] \cup {p} ELSE seen[x]
  BY <1>1, <1>3 DEF SeenTyped
<1>5. seen' # seen => db.chunks[i].state = "in_flight" /\ db.deliveries[db.chunks[i].delivery] # "failed_terminal"
  BY OpenDelivery
<1>6. seen' # seen => seen[t] \subseteq {p}
  BY <1>1, <1>5 DEF SeenAs
<1>7. SeenOnce'
  <2> SUFFICES ASSUME NEW x \in Story, NEW q \in seen'[x], NEW r \in seen'[x] PROVE q = r
    BY DEF SeenOnce
  <2>1. CASE x = t /\ seen' # seen
    <3>1. seen'[x] = seen[t] \cup {p} /\ seen[t] \subseteq {p}
      BY <1>4, <1>6, <2>1
    <3> HIDE DEF t, p
    <3> QED BY <3>1
  <2>2. CASE ~(x = t /\ seen' # seen)
    BY <1>1, <1>4, <2>2 DEF SeenOnce
  <2> QED BY <2>1, <2>2
<1>8. SeenKept'
  <2> SUFFICES ASSUME NEW x \in Story, seen'[x] # {}
               PROVE  \/ x \in db'.history
                      \/ \E k \in DOMAIN db'.chunks :
                            /\ db'.chunks[k].story = x /\ db'.chunks[k].payload \in seen'[x]
                            /\ db'.chunks[k].state = "ambiguous"
    BY DEF SeenKept
  <2>1. CASE x = t /\ seen' # seen
    <3>1. p \in seen'[x]
      BY <1>4, <2>1
    <3>2. s = "ambiguous" \/ x \in db'.history
      BY <2>1
    <3> QED BY <1>2, <2>1, <3>1, <3>2
  <2>2. CASE ~(x = t /\ seen' # seen)
    <3>1. seen'[x] = seen[x] /\ seen[x] # {}
      BY <1>4, <2>2
    <3>2. CASE x \in db.history
      BY <3>2
    <3>3. CASE x \notin db.history
      <4>1. PICK k \in DOMAIN db.chunks : /\ db.chunks[k].story = x /\ db.chunks[k].payload \in seen[x]
                                         /\ db.chunks[k].state = "ambiguous"
        BY <1>1, <3>1, <3>3 DEF SeenKept
      <4> QED BY <1>2, <3>1, <4>1
    <3> QED BY <3>2, <3>3
  <2> QED BY <2>1, <2>2
<1>9. SeenAs'
  <2> SUFFICES ASSUME NEW j \in DOMAIN db.chunks,
                      db'.deliveries[db.chunks[j].delivery] # "failed_terminal"
               PROVE  seen'[db.chunks[j].story] \subseteq {db.chunks[j].payload}
    BY <1>2 DEF SeenAs
  <2>1. db.deliveries[db.chunks[j].delivery] # "failed_terminal"
    BY <1>3
  <2>2. seen[db.chunks[j].story] \subseteq {db.chunks[j].payload} /\ db.chunks[j].story \in Story
    BY <1>1, <2>1, ChunkAt DEF SeenAs
  <2>3. CASE seen' # seen /\ db.chunks[j].story = t
    <3>1. ~(i < j) /\ ~(j < i)
      BY <1>1, <1>5, <2>1, <2>3 DEF GivenUp
    <3>2. i = j
      BY <1>3, <3>1
    <3> QED BY <1>4, <2>2, <3>2
  <2> QED BY <1>4, <2>2, <2>3
<1>10. Shared'
  <2>1. CASE Failed(db)
    <3>1. Failed(db)'
      BY <2>1 DEF Failed
    <3> QED BY <3>1 DEF Shared, Failed
  <2>2. CASE ~Failed(db)
    <3>1. ASSUME NEW d \in Databases'
          PROVE  \E c \in Databases : SameChunks(c, d)
      <4>1. d = db' \/ d \in Databases
        BY DEF Databases
      <4> QED BY <1>1, <1>2, <4>1, SameAsItself
    <3>2. ASSUME NEW c \in Databases, NEW j \in DOMAIN c.chunks
          PROVE  /\ seen'[c.chunks[j].story] \subseteq {c.chunks[j].payload}
                 /\ \/ c.chunks[j].story \in db'.history
                    \/ \E k \in DOMAIN db'.chunks : db'.chunks[k].payload = c.chunks[j].payload
      <4>1. Whole(c) /\ Carried(c) /\ UnderOne(c, db) /\ c \in Database
        BY <1>1, <2>2 DEF Shared, Placed, HasChunks
      <4>2. seen[c.chunks[j].story] \subseteq {c.chunks[j].payload} /\ c.chunks[j].story \in Story
        BY <4>1, ChunkAt DEF Whole
      <4>3. c.chunks[j].story = t => c.chunks[j].payload = p
        BY <4>1 DEF UnderOne
      <4>4. seen'[c.chunks[j].story] \subseteq {c.chunks[j].payload}
        BY <1>4, <4>2, <4>3
      <4> QED BY <1>2, <4>1, <4>4 DEF Carried
    <3> QED BY <1>1, <2>2, <3>1, <3>2, SharedCopies
  <2> QED BY <2>1, <2>2
<1> QED BY <1>7, <1>8, <1>9, <1>10

\* A restored database remembers all that the replaced one did.
LEMMA RestoreSeen ==
  ASSUME Placed, Placed', RowInv, SeenInv, ~lost, NEW b \in backups, RestoreBackup(b)
  PROVE  SeenKept' /\ SeenOnce' /\ SeenAs' /\ Shared'
<1>1. /\ db # None /\ UNCHANGED <<backups, seen>> /\ TargetSettled(db)
      /\ SeenTyped /\ SeenKept /\ SeenOnce /\ SeenAs /\ Shared
  BY DEF RowInv, SeenInv, RestoreBackup
<1>2. /\ b \in Databases /\ b \in Database /\ SameChunks(b, db') /\ RestoredOver(b)
  BY <1>1, RestoreCopies
<1>3. ~Failed(db) /\ \A i \in DOMAIN db.chunks : db.chunks[i].state = "sent"
  BY <1>1 DEF TargetSettled, Failed
<1>4. db'.history = b.history \cup db.history
  BY <1>2 DEF RestoredOver
<1>5. SeenKept' /\ SeenOnce'
  BY <1>1, <1>3, <1>4 DEF SeenKept, SeenOnce
<1>6. \A c \in Databases : Whole(c)
  BY <1>1, <1>3 DEF Shared
<1>7. SeenAs'
  BY <1>1, <1>2, <1>6 DEF SeenAs, Whole, SameChunks
<1>8. ASSUME NEW d \in Databases'
      PROVE  \E c \in Databases : SameChunks(c, d)
  <2>1. d = db' \/ d \in Databases
    BY <1>1 DEF Databases
  <2> QED BY <1>2, <2>1, SameAsItself
<1>9. ASSUME NEW c \in Databases, NEW i \in DOMAIN c.chunks
      PROVE  /\ seen'[c.chunks[i].story] \subseteq {c.chunks[i].payload}
             /\ c.chunks[i].story \in db'.history
  <2>1. c.chunks[i].story \in db.history
    BY <1>1, <1>3, AllRemembered
  <2> QED BY <1>1, <1>4, <1>6, <2>1 DEF Whole
<1>10. Shared'
  BY <1>1, <1>3, <1>8, <1>9, SharedCopies
<1> QED BY <1>5, <1>7, <1>10

LEMMA NextSeen ==
  ASSUME SendInv, RowInv, SeenInv, [Next]_vars
  PROVE  SeenInv'
<1>1. Placed /\ Placed' /\ Counted
  BY NextKeepsAcks DEF SendInv
<1>2. SeenTyped'
  <2>1. SeenTyped /\ chat \in [Payload -> Nat]
    BY <1>1 DEF SeenInv, Counted
  <2>2. CASE UNCHANGED <<chat, seen>>
    BY <2>1, <2>2 DEF SeenTyped, SeenInChat
  <2>3. ASSUME db # None, NEW i \in DOMAIN db.chunks, FinishAttempt(i)
        PROVE  SeenTyped'
    <3> DEFINE p == db.chunks[i].payload
               t == db.chunks[i].story
    <3>1. \/ UNCHANGED <<chat, seen>>
          \/ /\ chat' = [chat EXCEPT ![p] = @ + 1]
             /\ seen' = [seen EXCEPT ![t] = @ \cup {p}]
      BY <2>3 DEF FinishAttempt, Shows
    <3>2. p \in Payload /\ t \in Story
      BY <1>1, <2>3, LiveDatabase, ChunkAt
    <3> HIDE DEF p, t
    <3>3. CASE seen' = [seen EXCEPT ![t] = @ \cup {p}] /\ chat' = [chat EXCEPT ![p] = @ + 1]
      <4>1. seen' \in [Story -> SUBSET Payload]
        BY <2>1, <3>2, <3>3 DEF SeenTyped
      <4>2. \A q \in Payload : chat[q] \in Nat /\ chat'[q] = IF q = p THEN chat[q] + 1 ELSE chat[q]
        BY <2>1, <3>2, <3>3
      <4>3. \A x \in Story : seen'[x] = IF x = t THEN seen[x] \cup {p} ELSE seen[x]
        BY <2>1, <3>2, <3>3 DEF SeenTyped
      <4>4. ASSUME NEW x \in Story, NEW q \in seen'[x] PROVE chat'[q] > 0
        <5> DEFINE old == seen[x]
        <5>4. old \subseteq Payload
          BY <2>1 DEF SeenTyped
        <5>5. q \in IF x = t THEN old \cup {p} ELSE old
          BY <4>3, <4>4
        <5> HIDE DEF old
        <5>6. q = p \/ (q \in old /\ q \in Payload)
          BY <5>4, <5>5
        <5>1. q = p \/ (q \in seen[x] /\ q \in Payload)
          BY <5>6 DEF old
        <5>2. CASE q = p
          BY <3>2, <4>2, <5>2
        <5>3. CASE q \in seen[x] /\ q \in Payload
          BY <2>1, <4>2, <5>3 DEF SeenTyped, SeenInChat
        <5> QED BY <5>1, <5>2, <5>3
      <4> QED BY <4>1, <4>4 DEF SeenTyped, SeenInChat
    <3> QED BY <2>2, <3>1, <3>3
  <2>4. Plan \/ Backup \/ Lose \/ OpenFresh \/ UNCHANGED vars => UNCHANGED <<chat, seen>>
    BY DEF Plan, Backup, Lose, OpenFresh, vars
  <2>5. \A i : BeginAttempt(i) \/ Resolve(i) => UNCHANGED <<chat, seen>>
    BY Zenon DEF BeginAttempt, Resolve
  <2>6. \A b : RestoreBackup(b) => UNCHANGED <<chat, seen>>
    BY Zenon DEF RestoreBackup
  <2> QED BY <2>2, <2>3, <2>4, <2>5, <2>6 DEF Next
<1> SUFFICES ASSUME ~lost' PROVE SeenKept' /\ SeenOnce' /\ SeenAs' /\ Shared'
  BY <1>2 DEF SeenInv
<1>3. ~lost /\ db # None /\ SeenKept /\ SeenOnce /\ SeenAs /\ Shared
  <2>1. Plan \/ Backup \/ OpenFresh \/ UNCHANGED vars => UNCHANGED lost
    BY DEF Plan, Backup, OpenFresh, vars
  <2>2. Lose => lost'
    BY DEF Lose
  <2>3. \A i : BeginAttempt(i) \/ FinishAttempt(i) \/ Resolve(i) => UNCHANGED lost
    BY Zenon DEF BeginAttempt, FinishAttempt, Resolve
  <2>4. \A b : RestoreBackup(b) => UNCHANGED lost
    BY Zenon DEF RestoreBackup
  <2>5. ~lost
    BY <2>1, <2>2, <2>3, <2>4 DEF Next
  <2> QED BY <2>5 DEF RowInv, SeenInv
<1>4. CASE UNCHANGED vars \/ Backup
  <2>1. UNCHANGED <<db, seen>> /\ \A d \in Databases' : d \in Databases
    BY <1>3, <1>4 DEF vars, Backup, Databases
  <2>2. SeenKept' /\ SeenOnce' /\ SeenAs'
    BY <1>3, <2>1 DEF SeenKept, SeenOnce, SeenAs
  <2>3. Shared'
    BY <1>3, <2>1 DEF Shared, Whole, Carried, UnderOne, Failed
  <2> QED BY <2>2, <2>3
<1>5. CASE Lose
  BY <1>5 DEF Lose
<1>6. CASE OpenFresh
  BY <1>3, <1>6 DEF OpenFresh
<1>7. CASE Plan
  BY <1>1, <1>3, <1>7, PlanSeen
<1>8. ASSUME NEW i \in DOMAIN db.chunks, BeginAttempt(i)
      PROVE  SeenKept' /\ SeenOnce' /\ SeenAs' /\ Shared'
  <2>1. db.chunks[i].state = "pending" /\ UNCHANGED <<backups, seen>>
    BY <1>8 DEF BeginAttempt
  <2>2. OneMoves(db, db', i, "in_flight") /\ db'.deliveries = db.deliveries /\ db'.history = db.history
    BY <1>1, <1>3, <1>8, BeginMoves
  <2> QED BY <1>1, <1>3, <1>8, <2>1, <2>2, MoveSeen
<1>9. ASSUME NEW i \in DOMAIN db.chunks, FinishAttempt(i)
      PROVE  SeenKept' /\ SeenOnce' /\ SeenAs' /\ Shared'
  <2>1. PICK landed \in BOOLEAN, s \in ChunkStates \ {"in_flight"}, open \in DeliveryStates :
          /\ Marked(i, s, open)
          /\ landed => s \in {"sent", "ambiguous"}
          /\ seen' = IF landed THEN [seen EXCEPT ![db.chunks[i].story] = @ \cup {db.chunks[i].payload}]
                     ELSE seen
    BY <1>1, <1>3, <1>9, FinishMoves
  <2>2. db.chunks[i].state = "in_flight" /\ UNCHANGED backups
    BY <1>9 DEF FinishAttempt
  <2>3. /\ OneMoves(db, db', i, s) /\ DOMAIN db'.deliveries = DOMAIN db.deliveries
        /\ db.history \subseteq db'.history
        /\ s = "sent" => db.chunks[i].story \in db'.history
    BY <2>1 DEF Marked, OneFollows
  <2>4. \A n \in DOMAIN db.deliveries :
          db.deliveries[n] = "failed_terminal" => db'.deliveries[n] = "failed_terminal"
    BY <1>1, <1>3, <1>9, <2>1, <2>2, OpenDelivery DEF Marked, OneFollows
  <2>5. seen' # seen => s = "ambiguous" \/ db.chunks[i].story \in db'.history
    BY <2>1, <2>3
  <2>6. \/ UNCHANGED seen
        \/ /\ seen' = [seen EXCEPT ![db.chunks[i].story] = @ \cup {db.chunks[i].payload}]
           /\ db.chunks[i].state = "in_flight"
    BY <2>1, <2>2
  <2> QED BY <1>1, <1>3, <1>9, <2>2, <2>3, <2>4, <2>5, <2>6, MoveSeen
<1>10. ASSUME NEW i \in DOMAIN db.chunks, Resolve(i)
       PROVE  SeenKept' /\ SeenOnce' /\ SeenAs' /\ Shared'
  <2>1. PICK s \in {"sent", "pending"}, open \in {"needs_attention", "sending"} :
          /\ Marked(i, s, open)
          /\ s = IF chat[db.chunks[i].payload] > 0 THEN "sent" ELSE "pending"
    BY <1>1, <1>3, <1>10, ResolveMoves
  <2>2. db.chunks[i].state = "ambiguous" /\ UNCHANGED <<backups, seen>>
    BY <1>10 DEF Resolve
  <2>3. /\ OneMoves(db, db', i, s) /\ DOMAIN db'.deliveries = DOMAIN db.deliveries
        /\ db.history \subseteq db'.history
        /\ s = "sent" => db.chunks[i].story \in db'.history
    BY <2>1 DEF Marked, OneFollows
  <2>4. \A n \in DOMAIN db.deliveries :
          db.deliveries[n] = "failed_terminal" => db'.deliveries[n] = "failed_terminal"
    BY <1>1, <1>3, <1>10, <2>1, <2>2, OpenDelivery DEF Marked, OneFollows
  <2>5. db.chunks[i].payload \in seen[db.chunks[i].story] => db.chunks[i].story \in db'.history
    <3>1. db.chunks[i].story \in Story
      BY <1>1, <1>3, <1>10, LiveDatabase, ChunkAt
    <3> QED BY <2>1, <2>3, <3>1 DEF SeenInv, SeenTyped, SeenInChat
  <2> QED BY <1>1, <1>3, <1>10, <2>2, <2>3, <2>4, <2>5, MoveSeen
<1>11. ASSUME NEW b \in backups, RestoreBackup(b)
       PROVE  SeenKept' /\ SeenOnce' /\ SeenAs' /\ Shared'
  BY <1>1, <1>3, <1>11, RestoreSeen
<1> QED BY <1>4, <1>5, <1>6, <1>7, <1>8, <1>9, <1>10, <1>11 DEF Next

LEMMA SeenInit == Init => SeenInv
<1> SUFFICES ASSUME Init PROVE SeenInv
  OBVIOUS
<1>1. Empty.chunks = <<>> /\ Empty # None
  BY EmptyDatabase, NoneAssumption DEF Empty
<1>2. SeenTyped /\ SeenKept /\ SeenOnce
  BY DEF Init, SeenTyped, SeenInChat, SeenKept, SeenOnce
<1>3. SeenAs
  BY <1>1 DEF Init, SeenAs
<1>4. \A d \in Databases : d = Empty
  BY DEF Init, Databases
<1>5. Shared
  BY <1>1, <1>4 DEF Shared, Whole, Carried, UnderOne
<1> QED BY <1>2, <1>3, <1>5 DEF SeenInv

LEMMA ShownOnce ==
  ASSUME SeenInv
  PROVE  StoryOnce
<1> SUFFICES ASSUME ~lost, NEW s \in Story
             PROVE  Cardinality(seen[s]) <= 1
  BY DEF StoryOnce
<1>1. \A p, q \in seen[s] : p = q
  BY DEF SeenInv, SeenOnce
<1>2. CASE seen[s] = {}
  BY <1>2, FS_EmptySet
<1>3. ASSUME NEW p \in seen[s]
      PROVE  Cardinality(seen[s]) <= 1
  <2>1. seen[s] = {p}
    BY <1>1
  <2>2. Cardinality({p}) = 1
    BY FS_Singleton
  <2> QED BY <2>1, <2>2
<1> QED BY <1>2, <1>3

\* No story is shown under two payloads over plans, attempts, backups and any
\* number of restores, whether or not the databases still have the chunk that
\* showed it, as long as the live database, and its history with it, is not
\* lost.
THEOREM NoStoryAgain == Spec => []StoryOnce
<1>1. SendInv /\ RowInv /\ SeenInv /\ [Next]_vars => SendInv' /\ RowInv' /\ SeenInv'
  <2>1. SendInv => Placed
    BY DEF SendInv
  <2> QED BY <2>1, NextSends, NextRows, NextSeen
<1>2. SeenInv => StoryOnce
  BY ShownOnce
<1> QED BY <1>1, <1>2, SendInit, RowInit, SeenInit, PTL DEF Spec
=============================================================================
