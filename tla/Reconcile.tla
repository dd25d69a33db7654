------------------------------ MODULE Reconcile ------------------------------
(***************************************************************************)
(* What a restored database contains (meco_news/backup.py): the backup, the *)
(* history and the acknowledgements of the database it replaces, and, when  *)
(* there is no such database, its sendable chunks held for an operator.     *)
(*                                                                          *)
(* Restores run under exclusive maintenance and are one step here; their    *)
(* file moves are in Restore.  Runs are reduced to planning a delivery and  *)
(* sending its chunks in order; StateStore and RunOnce have the rest.  A    *)
(* chunk is identified by chunk_id, its place in the outbox, and by its     *)
(* payload; a payload is numbered when it is planned, and carries a story.  *)
(***************************************************************************)
EXTENDS Naturals, Sequences, SequencesExt, FiniteSets

CONSTANTS Story,
          None,         \* no database
          MaxPayload,   \* bound on payloads ever planned
          MaxBackups,   \* bound on the artifacts kept
          MaxRestores,  \* bound on restores
          MayLose       \* TRUE if the live database may be lost

ASSUME ReconcileAssumption ==
  /\ None \notin Story
  /\ {MaxPayload, MaxBackups, MaxRestores} \subseteq Nat
  /\ MayLose \in BOOLEAN

ChunkStates == {"pending", "in_flight", "ambiguous", "failed_terminal", "sent"}
DeliveryStates == {"sending", "needs_attention", "failed_terminal", "completed"}
Payload == 1..MaxPayload
Chunk == [payload: Payload, story: Story, delivery: Nat \ {0}, state: ChunkStates]

\* chunks by chunk_id, deliveries by delivery_id, and the stories of
\* article_history
Database == [chunks: Seq(Chunk), deliveries: Seq(DeliveryStates), history: SUBSET Story]

ASSUME NoneAssumption == None \notin Database

VARIABLES db,        \* the live database, or None
          backups,   \* the databases in verified artifacts
          planned,   \* payloads planned so far
          chat,      \* Payload -> how often it reached the chat
          seen,      \* Story -> the payloads that showed it, ever
          restores,
          blind,     \* a restore replaced a database that missed a send
          lost       \* the live database was lost

vars == <<db, backups, planned, chat, seen, restores, blind, lost>>

Empty == [chunks |-> <<>>, deliveries |-> <<>>, history |-> {}]

Init ==
  /\ db = Empty
  /\ backups = {}
  /\ planned = 0
  /\ chat = [p \in Payload |-> 0]
  /\ seen = [s \in Story |-> {}]
  /\ restores = 0
  /\ blind = FALSE
  /\ lost = FALSE

-----------------------------------------------------------------------------
\* The database

ChunkOf(d, p) == {i \in DOMAIN d.chunks : d.chunks[i].payload = p}
OfDelivery(d, n) == {i \in DOMAIN d.chunks : d.chunks[i].delivery = n}
AllSent(d, n) == \A i \in OfDelivery(d, n) : d.chunks[i].state = "sent"

\* chunk i in state s and its delivery in the state that follows from it
Mark(d, i, s, open) ==
  LET n == d.chunks[i].delivery
      c == [d EXCEPT !.chunks[i].state = s]
  IN  [c EXCEPT
         !.deliveries[n] = IF AllSent(c, n) THEN "completed" ELSE open,
         !.history = IF s = "sent" THEN @ \cup {d.chunks[i].story} ELSE @]

-----------------------------------------------------------------------------
\* The running program, as far as a restore can tell

\* a new delivery with its outbox
Planned(stories) ==
  [db EXCEPT
     !.deliveries = Append(@, "sending"),
     !.chunks = @ \o [i \in 1..Len(stories) |->
        [payload |-> planned + i, story |-> stories[i],
         delivery |-> Len(db.deliveries) + 1, state |-> "pending"]]]

\* run_once plans a delivery of one or two chunks of stories that history lacks
Plan ==
  /\ db # None
  /\ \A n \in DOMAIN db.deliveries : db.deliveries[n] \in {"completed", "failed_terminal"}
  /\ \E stories \in {<<a>> : a \in Story \ db.history}
                    \cup {<<a, b>> : a, b \in Story \ db.history} :
       /\ IsInjective(stories)
       /\ planned + Len(stories) <= MaxPayload
       /\ planned' = planned + Len(stories)
       /\ db' = Planned(stories)
  /\ UNCHANGED <<backups, chat, seen, restores, blind, lost>>

BeginAttempt(i) ==
  /\ db.chunks[i].state = "pending"
  /\ db.deliveries[db.chunks[i].delivery] = "sending"
  /\ \A j \in OfDelivery(db, db.chunks[i].delivery) : j < i => db.chunks[j].state = "sent"
  /\ db' = [db EXCEPT !.chunks[i].state = "in_flight"]
  /\ UNCHANGED <<backups, planned, chat, seen, restores, blind, lost>>

\* a chunk appears in the chat
Shows(c) ==
  /\ chat' = [chat EXCEPT ![c.payload] = @ + 1]
  /\ seen' = [seen EXCEPT ![c.story] = @ \cup {c.payload}]

\* the attempt reached the chat or not, and is recorded as accepted, refused
\* for ever, to be repeated, or unknown; a crash leaves it unknown
FinishAttempt(i) ==
  /\ db.chunks[i].state = "in_flight"
  /\ \E landed \in BOOLEAN, outcome \in {"sent", "failed_terminal", "pending", "ambiguous"} :
       /\ outcome = "sent" => landed
       /\ landed => outcome \in {"sent", "ambiguous"}
       /\ IF landed THEN Shows(db.chunks[i]) ELSE UNCHANGED <<chat, seen>>
       /\ db' = Mark(db, i, outcome,
                     CASE outcome = "ambiguous" -> "needs_attention"
                       [] outcome = "failed_terminal" -> "failed_terminal"
                       [] OTHER -> "sending")
  /\ UNCHANGED <<backups, planned, restores, blind, lost>>

\* an operator who has looked at the chat resolves an ambiguous chunk
Resolve(i) ==
  /\ db.chunks[i].state = "ambiguous"
  /\ LET s == IF chat[db.chunks[i].payload] > 0 THEN "sent" ELSE "pending"
         n == db.chunks[i].delivery
         more == \E j \in OfDelivery(db, n) \ {i} : db.chunks[j].state = "ambiguous"
     IN  db' = Mark(db, i, s, IF more THEN "needs_attention" ELSE "sending")
  /\ UNCHANGED <<backups, planned, chat, seen, restores, blind, lost>>

\* create_backup copies the database as it is, with work in any state
Backup ==
  /\ db # None
  /\ Cardinality(backups \cup {db}) <= MaxBackups
  /\ backups' = backups \cup {db}
  /\ UNCHANGED <<db, planned, chat, seen, restores, blind, lost>>

Lose ==
  /\ MayLose
  /\ db # None
  /\ db' = None
  /\ lost' = TRUE
  /\ UNCHANGED <<backups, planned, chat, seen, restores, blind>>

\* a run that opens the state where there is none starts a new one
OpenFresh ==
  /\ db = None
  /\ db' = Empty
  /\ UNCHANGED <<backups, planned, chat, seen, restores, blind, lost>>

-----------------------------------------------------------------------------
\* restore_backup

\* refused over a target with unfinished work
TargetSettled(t) ==
  /\ \A i \in DOMAIN t.chunks : t.chunks[i].state = "sent"
  /\ \A n \in DOMAIN t.deliveries : t.deliveries[n] = "completed"

\* refused for a backup that does not know what became of an attempt
BackupResolved(b) == \A i \in DOMAIN b.chunks : b.chunks[i].state \notin {"in_flight", "ambiguous"}

SlipOwnChunks(t, b) ==                                   \* MergeHistory
  LET own == {t.chunks[i].story : i \in DOMAIN t.chunks} IN
  IF own \subseteq b.history THEN b
  ELSE [b EXCEPT !.history = @ \cup own, !.deliveries = Append(@, "completed")]

\* the history the backup lacks is added under a recovery delivery
MergeHistory(t, b) ==
  IF t.history \subseteq b.history THEN b
  ELSE [b EXCEPT !.history = @ \cup t.history,
                 !.deliveries = Append(@, "completed")]

SlipInFlightOnly(t, b, i) ==                             \* Acknowledged
  /\ i \in DOMAIN t.chunks
  /\ t.chunks[i].state = "sent"
  /\ t.chunks[i].payload = b.chunks[i].payload
  /\ b.chunks[i].state = "in_flight"

\* a chunk the target knows as sent, under the same chunk_id and payload
Acknowledged(t, b, i) ==
  /\ i \in DOMAIN t.chunks
  /\ t.chunks[i].state = "sent"
  /\ t.chunks[i].payload = b.chunks[i].payload
  /\ b.chunks[i].state \in {"pending", "in_flight", "failed_terminal"}

ReconcileAcks(t, b) ==
  LET acked == {i \in DOMAIN b.chunks : Acknowledged(t, b, i)}
      c == [b EXCEPT !.chunks = [i \in DOMAIN @ |->
              IF i \in acked THEN [@[i] EXCEPT !.state = "sent"] ELSE @[i]]]
  IN  IF acked = {} THEN b
      ELSE [c EXCEPT !.deliveries = [n \in DOMAIN @ |->
              IF AllSent(c, n) THEN "completed" ELSE @[n]]]

SlipSendable(b) == b                                     \* Quarantine

\* without a target nothing proves that a sendable chunk was not sent
Quarantine(b) ==
  LET held == {i \in DOMAIN b.chunks : b.chunks[i].state = "pending"}
  IN  [b EXCEPT
        !.chunks = [i \in DOMAIN @ |->
            IF i \in held THEN [@[i] EXCEPT !.state = "ambiguous"] ELSE @[i]],
        !.deliveries = [n \in DOMAIN @ |->
            IF @[n] = "sending" /\ held \cap OfDelivery(b, n) # {}
            THEN "needs_attention" ELSE @[n]]]

Restored(b, t) ==
  IF t = None THEN Quarantine(b) ELSE ReconcileAcks(t, MergeHistory(t, b))

\* the target misses a send: no chunk of it carries the payload
Misses(t) == \E p \in Payload : chat[p] > 0 /\ ChunkOf(t, p) = {}

RestoreBackup(b) ==
  /\ restores < MaxRestores
  /\ db # None => TargetSettled(db)
  /\ BackupResolved(b)
  /\ db' = Restored(b, db)
  /\ restores' = restores + 1
  /\ blind' = (blind \/ (db # None /\ Misses(db)))
  /\ UNCHANGED <<backups, planned, chat, seen, lost>>

Next ==
  \/ Plan \/ Backup \/ Lose \/ OpenFresh
  \/ db # None /\ \E i \in DOMAIN db.chunks : BeginAttempt(i) \/ FinishAttempt(i) \/ Resolve(i)
  \/ \E b \in backups : RestoreBackup(b)

Spec == Init /\ [][Next]_vars

-----------------------------------------------------------------------------
\* Properties

IsDatabase(d) ==
  /\ d \in Database
  /\ \A i \in DOMAIN d.chunks : d.chunks[i].delivery \in DOMAIN d.deliveries

TypeOK ==
  /\ db # None => IsDatabase(db)
  /\ \A b \in backups : IsDatabase(b)
  /\ planned \in 0..MaxPayload
  /\ chat \in [Payload -> Nat]
  /\ seen \in [Story -> SUBSET Payload]
  /\ restores \in 0..MaxRestores
  /\ {blind, lost} \subseteq BOOLEAN

\* No chunk reaches the chat twice, whatever is backed up and restored and
\* whenever, as long as every database that a restore replaced knew of every
\* send (reconciliation of acknowledgements, quarantine without a target).
ChunkOnce == ~blind => \A p \in Payload : chat[p] <= 1

\* The same without the proviso: restores do not replay silently what the
\* chat already has.
NoSilentReplay == \A p \in Payload : chat[p] <= 1

\* No story is shown under two payloads, over planning, sending, backups and
\* restores, also when restores have since forgotten the chunk that showed it:
\* the history of a replaced database is carried into every later one, and is
\* gone only with a live database that is lost (_merge_post_backup_history).
StoryOnce == ~lost => \A s \in Story : Cardinality(seen[s]) <= 1

\* A delivery is completed exactly when all its chunks are sent, also after
\* acknowledgements were copied into a restored database.
CompletedMeansSent ==
  db # None => \A n \in DOMAIN db.deliveries :
     db.deliveries[n] = "completed" <=> AllSent(db, n)

\* No step takes back an acknowledgement, one restore included: a chunk that
\* the live database knows as sent is sent in the database that replaces it,
\* if that one has the chunk (_reconcile_restored_acks).  Two restores may: a
\* database in between that lacks the chunk carries no acknowledgement of it
\* (NoSilentReplay); what it does carry is the story (StoryOnce).
AckSurvives ==
  [][db # None /\ db' # None =>
       \A i \in DOMAIN db.chunks : db.chunks[i].state = "sent" =>
         \A j \in ChunkOf(db', db.chunks[i].payload) : db'.chunks[j].state = "sent"]_vars
=============================================================================
