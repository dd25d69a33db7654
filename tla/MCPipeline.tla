----------------------------- MODULE MCPipeline -----------------------------
(***************************************************************************)
(* Pipeline on a small instance: three sources, two of one host, and a     *)
(* catalogue of items that are copies of each other in every way.          *)
(***************************************************************************)
EXTENDS Pipeline

Sources == 1..3
Hosts == {"a", "b"}
HostOfSource == 1 :> "a" @@ 2 :> "a" @@ 3 :> "b"
Topics == {1, 2}

\* headlines in which each is alike to the next: a chain, not an equivalence
Tokens1 == {"flood", "jakarta", "port"}
Tokens2 == {"flood", "jakarta", "steel"}
Tokens3 == {"steel", "jakarta", "price"}
AlikeTitles == {<<"tender", "tenders">>, <<"tenders", "tender">>}

Base == [source |-> 1, url |-> "u1", title |-> "flood", tokens |-> Tokens1, key |-> "flood",
         host |-> "x", age |-> "day", aggregator |-> FALSE, points |-> <<6, 0>>,
         context |-> {1, 2}, company |-> FALSE, local |-> FALSE, signals |-> 0,
         trusted |-> FALSE, negatives |-> 0, blocks |-> <<4, 2>>, topic |-> 0, score |-> 0]

\* 2 is the headline of 3 with its publisher; 7 is that of 4, and 9 that of 5, from
\* a feed of another source, for which the publisher is part of the headline
Catalogue == {
  [id |-> 1] @@ Base,
  [id |-> 2, source |-> 2, aggregator |-> TRUE, points |-> <<3, 6>>, host |-> "", title |-> "steel", tokens |-> Tokens2, key |-> "steel - antara"] @@ Base,
  [id |-> 3, source |-> 3, url |-> "u2", title |-> "steel", tokens |-> Tokens2, key |-> "steel", age |-> "missing", signals |-> 2] @@ Base,
  [id |-> 4, source |-> 3, url |-> "u3", title |-> "price", tokens |-> Tokens3, key |-> "price - antara", age |-> "two days", host |-> "y"] @@ Base,
  [id |-> 5, source |-> 2, url |-> "u4", title |-> "tender", tokens |-> {"tender"}, key |-> "tender - tempo", trusted |-> TRUE, points |-> <<0, 9>>, blocks |-> <<10, 9>>] @@ Base,
  [id |-> 6, source |-> 1, url |-> "u5", title |-> "tenders", tokens |-> {"tenders"}, key |-> "tenders", local |-> TRUE, negatives |-> 1, company |-> TRUE, blocks |-> <<9, 6>>] @@ Base,
  [id |-> 7, source |-> 1, url |-> "u6", title |-> "price - antara", tokens |-> Tokens3 \cup {"antara"}, key |-> "price - antara", points |-> <<3, 3>>, context |-> {2}, age |-> "two days", host |-> "z", blocks |-> <<5, 5>>] @@ Base,
  [id |-> 8, source |-> 2, url |-> "u7", title |-> "", tokens |-> {}, key |-> "", points |-> <<9, 0>>, age |-> "stale"] @@ Base,
  [id |-> 9, source |-> 3, url |-> "u8", title |-> "tender - tempo", tokens |-> {"tender", "tempo"}, key |-> "tender - tempo", host |-> "w", points |-> <<6, 0>>, context |-> {1}, blocks |-> <<7, 7>>] @@ Base }

HistoryUrls == {{}, {"u1", "u6"}}
HistoryKeys == {{}, {"steel", "tender - tempo"}}
=============================================================================
