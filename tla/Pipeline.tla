------------------------------ MODULE Pipeline ------------------------------
(***************************************************************************)
(* One collection of run_once (meco_news/app.py): collect_all, then        *)
(* _collect_rank_select and build_digest on what its sources returned.     *)
(* When collect_all has returned, its locals are gone; each stage is a     *)
(* value computed from the one before.                                     *)
(***************************************************************************)
EXTENDS CollectAll, Selection

CONSTANTS
  Item,         \* what feeds may contain; each item has its source
  MaxItems,     \* bound on the items of one collection
  SentUrls,     \* possible contents of article_history
  SentKeys

ItemRecord ==
  [id : Nat, source : Source, url : STRING, title : STRING, tokens : SUBSET STRING,
   key : STRING, host : STRING,
   age : {"day", "two days", "four days", "week", "stale", "future", "missing"},
   aggregator : BOOLEAN, points : [Topic -> Nat], context : SUBSET Topic,
   company : BOOLEAN, local : BOOLEAN, signals : Nat, trusted : BOOLEAN,
   negatives : Nat, blocks : Seq(Nat \ {0}), topic : {0}, score : {0}]

\* An id stands for a text, and items that no sort key tells apart are one.
\* Tokens are words of the title.  Headlines of one key are one text, of which
\* a title is the whole or what precedes the publisher.
ASSUME ItemAssumption ==
  /\ IsFiniteSet(Item) /\ Item \subseteq ItemRecord
  /\ \A i \in Item : IsFiniteSet(i.tokens)
  /\ \A i, j \in Item :
       /\ i.id = j.id => i.url = j.url /\ i.title = j.title /\ i.key = j.key
       /\ i.title = j.title => i.tokens = j.tokens
       /\ i.key = j.key => i.tokens \subseteq j.tokens \/ j.tokens \subseteq i.tokens
  /\ \A i, j \in FilterFresh(Item) :
       QualityKey(RankItem(i)) = QualityKey(RankItem(j)) => i = j

VARIABLES
  stage,        \* "collect", "parse", "rank", "select", "build", "built" or "retry"
  ok,           \* sources that succeeded; the others are the issues
  items,        \* collected items, then ranked ones
  unique,       \* after deduplication
  sent,         \* url_key and title_key of the history
  selected,     \* select_digest
  digest        \* build_digest

dataVars == <<stage, ok, items, unique, sent, selected, digest>>
vars == <<collectVars, dataVars>>

NoDigest == [messages |-> <<>>, omitted |-> <<>>]

PipelineInit ==
  /\ Init
  /\ stage = "collect" /\ ok = {}
  /\ items = {} /\ unique = {} /\ sent = [urls |-> {}, keys |-> {}]
  /\ selected = <<>> /\ digest = NoDigest

Collecting == stage = "collect" /\ CollectNext /\ UNCHANGED dataVars

\* the locals of collect_all are gone
Forget ==
  /\ pc' = "idle" /\ left' = Source /\ active' = {} /\ todo' = {} /\ now' = 0
  /\ hostActive' = [h \in Host |-> 0]
  /\ worker' = [s \in Source |-> "none"]
  /\ pipe' = [s \in Source |-> "empty"]
  /\ receiver' = [s \in Source |-> "none"]
  /\ result' = [s \in Source |-> "none"]
  /\ late' = {} /\ cycleLate' = FALSE
  /\ faults' = 0

\* a source whose worker answered may still have failed (network, parser, all
\* entries quarantined); a collection without any success is retried later
Collected ==
  /\ stage = "collect" /\ pc = "returned"
  /\ ok' \in SUBSET {s \in Source : result[s] = "result"}
  /\ stage' = IF ok' = {} THEN "retry" ELSE "parse"
  /\ Forget
  /\ UNCHANGED <<items, unique, sent, selected, digest>>

\* what the feeds that succeeded contained
Parse ==
  /\ stage = "parse" /\ stage' = "rank"
  /\ items' \in UNION {kSubset(n, {i \in Item : i.source \in ok}) : n \in 0..MaxItems}
  /\ UNCHANGED <<collectVars, ok, unique, sent, selected, digest>>

\* filter_fresh, rank_item and deduplicate of what has a topic and the fallback score
Rank ==
  /\ stage = "rank" /\ stage' = "select"
  /\ LET ranked == {RankItem(i) : i \in FilterFresh(items)}
         worth == {i \in ranked : i.topic # 0 /\ i.score >= FallbackScore}
     IN  items' = worth /\ unique' = Deduplicate(worth)
  /\ UNCHANGED <<collectVars, ok, sent, selected, digest>>

\* identity_keys reads the history, and select_digest chooses
Select ==
  /\ stage = "select" /\ stage' = "build"
  /\ \E urls \in SentUrls, keys \in SentKeys :
       /\ sent' = [urls |-> urls, keys |-> keys]
       /\ selected' = SelectDigest(unique, urls, keys)
  /\ UNCHANGED <<collectVars, ok, items, unique, digest>>

Build ==
  /\ stage = "build" /\ stage' = "built"
  /\ digest' = BuildDigest(selected, ok # Source)
  /\ UNCHANGED <<collectVars, ok, items, unique, sent, selected>>

Over == stage \in {"retry", "built"} \/ pc = "raised"
Done == Over /\ UNCHANGED vars

Next == Collecting \/ Collected \/ Parse \/ Rank \/ Select \/ Build \/ Done

\* The supervisor is never blocked and time passes; nothing is asked of the
\* workers.  The stages after it are computations.
Spec ==
  /\ PipelineInit /\ [][Next]_vars
  /\ WF_vars(stage = "collect" /\ Supervise /\ UNCHANGED dataVars)
  /\ WF_vars(stage = "collect" /\ CycleDeadline /\ UNCHANGED dataVars)
  /\ WF_vars(Collected)

-----------------------------------------------------------------------------
(***************************************************************************)
(* Properties                                                              *)
(***************************************************************************)
TypeOK ==
  /\ CollectTypeOK
  /\ stage \in {"collect", "parse", "rank", "select", "build", "built", "retry"}
  /\ ok \subseteq Source
  /\ ToSet(selected) \subseteq unique
  /\ stage = "rank" => items \subseteq Item

\* What two items have in common that may make one the copy of the other.
Copies(i, j) == i.url = j.url \/ i.title = j.title \/ Similar(i, j) \/ Similar(j, i)

Linked(i, j) ==
  \/ Copies(i, j)
  \/ \E k \in items : Copies(i, k) /\ Copies(k, j)
  \/ \E k, l \in items : Copies(i, k) /\ Copies(k, l) /\ Copies(l, j)

\* Deduplication drops copies only: every item that was worth a place has
\* itself or, over a chain of copies, another one left.
NothingVanishes ==
  stage \in {"select", "build", "built"} =>
    \A i \in items : \E j \in unique : Linked(i, j)

\* Likeness was compared to the end: the budget of candidates and of
\* comparisons (fuzzy_candidates, fuzzy_comparisons) was enough.
DedupComplete == Len(Exact(items)) <= MaxCandidates /\ Clusters(Exact(items)).rest = <<>>

\* What is left are not copies of each other, by url or title at all, and by
\* likeness unless the budget of candidates or comparisons was used up.
NoCopies ==
  stage \in {"select", "build", "built"} =>
    LET complete == DedupComplete
    IN  \A i, j \in unique : i # j =>
          /\ i.url # j.url /\ i.title # j.title
          /\ complete => ~(Similar(i, j) /\ Similar(j, i))

\* Deduplication removes the copies and nothing else, although groups merge by
\* url, then by title, then by likeness, and its budget may end midway.
CopiesAndOnlyCopies == NothingVanishes /\ NoCopies

\* A story that could have been selected is left out only for better ones
\* that fill the digest, its topic or its domain, or because it is below the
\* quality floor and enough others are not, or one of its key is shown.
LeftOutForBetter ==
  stage \in {"build", "built"} =>
    \A i \in ToSet(Candidates(unique, sent.urls, sent.keys)) \ ToSet(selected) :
      LET better == {j \in ToSet(selected) : Less(SelectionKey(j), SelectionKey(i))}
      IN  /\ Len(selected) >= DailyMin \/ \E j \in ToSet(selected) : j.key = i.key
          /\ i.score >= MinimumScore => Cardinality(better) >= DailyMax \/ ~Diverse(better, i)

\* The digest never shows what the history has under the same url or the same
\* key, nor what is not fresh, not even to reach daily_min.
DigestIsFresh ==
  \A n \in DOMAIN selected :
    /\ selected[n].url \notin sent.urls /\ selected[n].key \notin sent.keys
    /\ selected[n].score >= FallbackScore /\ FreshnessReason(selected[n]) = ""

\* It never shows two stories of one title.  Nor two of one key, if likeness
\* was compared to the end and both have tokens to compare; otherwise at least
\* none that the second pass would add.  (The first pass looks at no key.)
NoStoryTwice ==
  \A m, n \in DOMAIN selected : m < n =>
    /\ selected[m].title # selected[n].title
    /\ selected[m].key = selected[n].key =>
         /\ selected[n].score >= MinimumScore
         /\ DedupComplete => {} \in {selected[m].tokens, selected[n].tokens}

\* Over both passes of select_digest: nothing stale, known or repeated is
\* chosen, as far as keys tell it, and nothing is left out without a better
\* reason.
SelectionJustified == DigestIsFresh /\ NoStoryTwice /\ LeftOutForBetter

\* Not checked, for they do not hold.  A story of the history that returns
\* under another url with or without its publisher's suffix has another key,
\* although deduplication would take the two for one:
NoKnownTitle ==
  \A n \in DOMAIN selected :
    selected[n].title \notin {i.title : i \in {j \in Item : j.key \in sent.keys}}

\* and where the budget has ended two stories of one key can both be chosen, for
\* which prepare_delivery refuses the whole delivery (storage.py:1306):
KeysDistinct == \A m, n \in DOMAIN selected : selected[m].key = selected[n].key => m = n

\* The stories shown, in the order of the messages.
Shown == FlattenSeq([n \in DOMAIN digest.messages |-> digest.messages[n].items])
\* Each selected story is shown once, in order, or reported as omitted, and no
\* message exceeds the limit.
AllShown ==
  stage = "built" =>
    /\ ToSet(Shown) = ToSet(selected) \ ToSet(digest.omitted)
    /\ \A a, b \in DOMAIN Shown, m, n \in DOMAIN selected :
         Shown[a] = selected[m] /\ Shown[b] = selected[n] => (a < b <=> m < n)
    /\ ToSet(digest.omitted) \subseteq ToSet(selected)
    /\ \A n \in DOMAIN digest.messages : digest.messages[n].units <= UnitLimit

\* A story is omitted only if its shortest block is too long for a message of
\* its own, or if nothing is placed before it and it does not fit the header.
OmittedAsTooLong ==
  stage = "built" =>
    \A i \in ToSet(digest.omitted) :
      \/ FitBlock(i, ContinuationUnits) = 0
      \/ /\ FitBlock(i, HeaderUnits + SeparatorUnits) = 0
         /\ \A n \in DOMAIN selected : selected[n] = i =>
              \A m \in 1..(n - 1) : selected[m] \in ToSet(digest.omitted)

\* build_digest loses nothing where a message ends: a story is in exactly one
\* message or too long for any it could be in.
AllPlaced == AllShown /\ OmittedAsTooLong

\* Every collection ends with results or an error, even if workers hang or
\* leave half a frame in their pipes.
CollectionEnds == <>(stage # "collect" \/ pc = "raised")
=============================================================================
