----------------------------- MODULE Selection ------------------------------
(***************************************************************************)
(* From collected items to the messages of a digest: freshness, rank,      *)
(* deduplication and selection (meco_news/ranking.py) and the packing into *)
(* bounded messages (meco_news/telegram.py, build_digest).                 *)
(*                                                                         *)
(* An item is a record.  Of its headline the code derives three things:    *)
(* title, the normalized text without the suffix that names the item's own *)
(* publisher, by which deduplication compares; tokens, the words of that   *)
(* text; and key, title_key and fingerprint, from the whole text with the  *)
(* suffix, by which the history and the digest tell stories apart.  Urls   *)
(* and hosts are model values, term matches are points per topic, and id   *)
(* stands for the text (title, url, source) by which sorts break ties.     *)
(* Summaries are left out.  Sizes are units against one limit for UTF-16   *)
(* units and bytes together.                                               *)
(***************************************************************************)
EXTENDS Integers, SequencesExt, FiniteSetsExt

CONSTANTS
  Topic,           \* topic ids, numbered in their alphabetical order
  Alike,           \* pairs of titles whose characters alone make them alike
  MissingDateOK,   \* missing_date_policy is not "exclude"
  MinimumScore, FallbackScore,
  DailyMin, DailyMax, MaxPerTopic, MaxPerDomain,
  MaxCandidates, MaxComparisons,      \* limits.fuzzy_candidates, fuzzy_comparisons
  UnitLimit, HeaderUnits, ContinuationUnits, SeparatorUnits, NoteUnits

ASSUME SelectionAssumption ==
  /\ Topic \subseteq Nat \ {0} /\ IsFiniteSet(Topic)
  /\ MissingDateOK \in BOOLEAN
  /\ {MinimumScore, FallbackScore} \subseteq Int
  /\ {DailyMin, DailyMax, MaxPerTopic, MaxPerDomain, MaxCandidates, MaxComparisons} \subseteq Nat
  /\ DailyMin <= DailyMax /\ DailyMax > 0
  /\ {UnitLimit, SeparatorUnits, NoteUnits} \subseteq Nat
  /\ {HeaderUnits, ContinuationUnits} \subseteq 0..UnitLimit

-----------------------------------------------------------------------------
\* freshness_reason: the age is in hours, negative in the future
FreshnessReason(i) ==
  IF i.age = "missing" THEN IF MissingDateOK THEN "" ELSE "missing_date"
  ELSE IF i.age \in {"future", "stale"} THEN i.age ELSE ""

FilterFresh(items) == {i \in items : FreshnessReason(i) = ""}

\* rank_item: the topic with the most points, the first of equals; a topic
\* whose required context is missing has none
TopicScore(i, t) == IF t \in i.context THEN i.points[t] ELSE 0
BestTopic(i) ==
  LET top == Max({0} \cup {TopicScore(i, t) : t \in Topic})
  IN  IF top = 0 THEN 0 ELSE Min({t \in Topic : TopicScore(i, t) = top})

Recency(i) == CASE i.age = "day" -> 4 [] i.age = "two days" -> 3
                [] i.age = "four days" -> 1 [] OTHER -> 0

Score(i) ==
  LET t == BestTopic(i)
  IN  (IF t = 0 THEN -12 ELSE Min({TopicScore(i, t), 18}))
      + (IF i.company THEN 20 ELSE 0) + (IF i.local THEN 3 ELSE 0)
      + Min({9, 3 * i.signals}) + (IF i.trusted THEN 2 ELSE 0)
      + Recency(i) - 8 * i.negatives

RankItem(i) == [i EXCEPT !.topic = BestTopic(i), !.score = Score(i)]

\* later is larger: published_at, a missing one before all
Published(i) == CASE i.age = "day" -> 4 [] i.age = "two days" -> 3
                  [] i.age = "four days" -> 2 [] i.age = "week" -> 1 [] OTHER -> 0

\* lexicographic order of tuples of numbers
Less(a, b) ==
  \E n \in DOMAIN a : a[n] < b[n] /\ \A m \in 1..(n - 1) : a[m] = b[m]

\* each item at its rank: no two have the same key
SortBy(S, Key(_)) ==
  [n \in 1..Cardinality(S) |->
     CHOOSE i \in S : Cardinality({j \in S : Less(Key(j), Key(i))}) = n - 1]

QualityKey(i) == <<IF i.aggregator THEN 1 ELSE 0, -i.score, -Published(i), i.id>>

-----------------------------------------------------------------------------
\* _merge_group: the best item of a group, with what it lacks from the others
FirstWith(ordered, Has(_)) ==
  LET n == SelectInSeq(ordered, Has) IN ordered[IF n = 0 THEN 1 ELSE n]

MergeGroup(group) ==
  LET ordered == SortBy(group, QualityKey)
  IN  [ordered[1] EXCEPT
        !.host = FirstWith(ordered, LAMBDA i : i.host # "").host,
        !.age = FirstWith(ordered, LAMBDA i : i.age # "missing").age]

MergeBy(items, Key(_)) ==
  {MergeGroup({i \in items : Key(i) = k}) : k \in {Key(i) : i \in items}}

\* token overlap of 60% of the shorter title, or alike in their characters;
\* titles that share no token are not compared further
Similar(i, j) ==
  LET common == Cardinality(i.tokens \cap j.tokens)
      shorter == Max({1, Min({Cardinality(i.tokens), Cardinality(j.tokens)})})
  IN  /\ i.tokens # {} /\ j.tokens # {} => common > 0
      /\ 10 * common >= 6 * shorter \/ <<i.title, j.title>> \in Alike

(***************************************************************************)
(* Slips: see module StateStore.                                           *)
(***************************************************************************)
SlipDropUnprocessed(acc, i) ==                           \* Cluster
  IF Len(acc.kept) > MaxComparisons - acc.comparisons THEN acc
  ELSE [acc EXCEPT !.kept = Append(@, i), !.comparisons = @ + Len(acc.kept)]

\* one candidate against the retained ones, in their order, until a duplicate
\* is found or the comparisons are used up; then all that follow are kept as
\* not processed
Cluster(acc, i) ==
  LET hit == SelectInSeq(acc.kept, LAMBDA j : Similar(i, j))
      needed == IF hit = 0 THEN Len(acc.kept) ELSE hit
  IN  IF acc.rest # <<>> \/ needed > MaxComparisons - acc.comparisons
      THEN [acc EXCEPT !.rest = Append(@, i), !.comparisons = MaxComparisons]
      ELSE [acc EXCEPT !.kept = IF hit = 0 THEN Append(@, i) ELSE @,
                       !.comparisons = @ + needed]

\* deduplicate_with_stats: result and what was not processed
Clusters(exact) ==
  FoldLeft(Cluster, [kept |-> <<>>, rest |-> <<>>, comparisons |-> 0],
           SubSeq(exact, 1, Min({MaxCandidates, Len(exact)})))

Exact(items) == SortBy(MergeBy(MergeBy(items, LAMBDA i : i.url), LAMBDA i : i.title), QualityKey)

Deduplicate(items) ==
  LET exact == Exact(items)
      c == Clusters(exact)
  IN  ToSet(c.kept) \cup ToSet(c.rest) \cup ToSet(SubSeq(exact, MaxCandidates + 1, Len(exact)))

-----------------------------------------------------------------------------
\* select_digest
SelectionKey(i) == <<-i.score, -Published(i), i.topic, i.id>>

SlipHistoryByUrl(items, sentUrls, sentKeys) ==           \* Candidates
  SortBy({i \in items : i.url \notin sentUrls}, SelectionKey)

Candidates(items, sentUrls, sentKeys) ==
  SortBy({i \in items : /\ i.topic # 0 /\ FreshnessReason(i) = ""
                        /\ i.url \notin sentUrls /\ i.key \notin sentKeys},
         SelectionKey)

\* the first pass keeps to the quality floor and to the limits of diversity:
\* topic_counts and domain_counts of the stories chosen
Diverse(stories, i) ==
  /\ Cardinality({j \in stories : j.topic = i.topic}) < MaxPerTopic
  /\ Cardinality({j \in stories : j.host = i.host}) < MaxPerDomain

PickDiverse(chosen, i) ==
  IF Len(chosen) < DailyMax /\ i.score >= MinimumScore /\ Diverse(ToSet(chosen), i)
  THEN Append(chosen, i) ELSE chosen

\* the second fills up to daily_min with what reaches the fallback score and
\* has another fingerprint than those chosen
PickFallback(chosen, i) ==
  IF /\ Len(chosen) < DailyMin /\ i.score >= FallbackScore
     /\ \A n \in DOMAIN chosen : chosen[n].key # i.key
  THEN Append(chosen, i) ELSE chosen

SelectDigest(items, sentUrls, sentKeys) ==
  LET candidates == Candidates(items, sentUrls, sentKeys)
  IN  FoldLeft(PickFallback, FoldLeft(PickDiverse, <<>>, candidates), candidates)

-----------------------------------------------------------------------------
\* build_digest.  A message is the units it takes and the items it shows.
\* _fit_block: the first variant of the item's block that fits, or none
FitBlock(i, prefix) ==
  LET n == SelectInSeq(i.blocks, LAMBDA b : prefix + b <= UnitLimit)
  IN  IF n = 0 THEN 0 ELSE i.blocks[n]

Continuation == [units |-> ContinuationUnits, items |-> <<>>]

Place(message, i, units) ==
  [units |-> message.units + units, items |-> Append(message.items, i)]

SlipLoseOversized(acc, i) ==                             \* PlaceItem
  LET here == FitBlock(i, acc.current.units + SeparatorUnits)
      there == FitBlock(i, ContinuationUnits)
  IN  IF here # 0 THEN [acc EXCEPT !.current = Place(@, i, SeparatorUnits + here)]
      ELSE [acc EXCEPT !.messages = Append(@, acc.current),
                       !.current = IF there = 0 THEN Continuation ELSE Place(Continuation, i, there)]

\* the current message if the item fits, else a continuation of its own; an
\* item too large for both is omitted, one too large for the header at once
PlaceItem(acc, i) ==
  LET here == FitBlock(i, acc.current.units + SeparatorUnits)
      there == FitBlock(i, ContinuationUnits)
  IN  IF here # 0
      THEN [acc EXCEPT !.current = Place(@, i, SeparatorUnits + here)]
      ELSE IF acc.header
      THEN [acc EXCEPT !.omitted = Append(@, i)]
      ELSE [acc EXCEPT
             !.messages = Append(@, acc.current),
             !.current = IF there # 0 THEN Place(Continuation, i, there) ELSE Continuation,
             !.omitted = IF there # 0 THEN @ ELSE Append(@, i)]

Packed(acc, i) ==
  LET next == PlaceItem(acc, i)
  IN  [next EXCEPT !.header = acc.header /\ next.current = acc.current]

\* the note on missing sources and omitted items goes into the last message
\* or, if it does not fit, into one of its own
WithNote(messages) ==
  LET last == Len(messages)
  IN  IF messages[last].units + NoteUnits <= UnitLimit
      THEN [messages EXCEPT ![last].units = @ + NoteUnits]
      ELSE IF NoteUnits <= UnitLimit
      THEN Append(messages, [units |-> NoteUnits, items |-> <<>>])
      ELSE messages

BuildDigest(selected, issues) ==
  LET header == [units |-> HeaderUnits, items |-> <<>>]
      acc == FoldLeft(Packed, [messages |-> <<>>, current |-> header, header |-> TRUE,
                               omitted |-> <<>>], selected)
      messages == IF acc.current.items # <<>> \/ acc.messages = <<>>
                  THEN Append(acc.messages, acc.current) ELSE acc.messages
  IN  [messages |-> IF issues \/ acc.omitted # <<>> THEN WithNote(messages) ELSE messages,
       omitted |-> acc.omitted]
=============================================================================
