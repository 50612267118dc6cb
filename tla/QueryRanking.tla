---------------------------- MODULE QueryRanking -----------------------------
(***************************************************************************)
(* How an answer ranks what four retrievers found (query/service.py        *)
(* search, query/rerank.py): each returns a list, best first; the lists    *)
(* are fused by weighted reciprocal rank, the reranker multiplies the      *)
(* score by what it knows of a candidate, and the first TopK are the       *)
(* answer.                                                                 *)
(*                                                                         *)
(* The code rounds every score to six digits: weights and scores are       *)
(* integers here, in millionths; the factors of the reranker are integers  *)
(* in 6000ths, which they all are.  An object has the number its id sorts  *)
(* by.                                                                     *)
(***************************************************************************)
EXTENDS Integers, FiniteSetsExt, SequencesExt

CONSTANTS
  Objects,      \* a finite set of numbers
  Traits,       \* what objects may be: [kind, profile, authority, age]
  RankedIntents,      \* bound: the intents in use, of those the router tells
  Enabled,      \* the retrievers the configuration may enable
  Requested,    \* the profiles the caller may ask about
  Rerankers,    \* of {"none", "lightweight"}
  TopK

ASSUME RankingAssumption ==
  /\ Objects \subseteq Nat /\ TopK \in Nat \ {0}
  /\ Rerankers \subseteq {"none", "lightweight"}

VARIABLE ranking

Retrievers == <<"symbol", "fts", "vector", "graph">>

\* In percent, in the order of Retrievers.
RawWeights ==
  [code_exact |-> <<55, 30, 5, 10>>, code_concept |-> <<10, 35, 30, 25>>,
   call_trace |-> <<40, 15, 5, 40>>, runtime_flow |-> <<15, 20, 10, 55>>,
   profile_diff |-> <<15, 30, 5, 50>>, api_lookup |-> <<10, 50, 30, 10>>,
   widget_lookup |-> <<10, 45, 30, 15>>, workspace_nav |-> <<10, 25, 10, 55>>,
   product_context |-> <<5, 45, 35, 15>>, project_context |-> <<5, 50, 30, 15>>,
   evidence_lookup |-> <<20, 35, 15, 30>>, unknown |-> <<15, 40, 20, 25>>]

DocIntents == {"api_lookup", "widget_lookup", "product_context", "project_context", "unknown"}
CodeIntents == DOMAIN RawWeights \ DocIntents
GraphIntents == {"call_trace", "runtime_flow", "workspace_nav", "profile_diff"}

Rounded(n, d) == (2 * n + d) \div (2 * d)

\* _retriever_weights_for_intent
WeightsFor(intent, enabled) ==
  LET Raw(n) == IF Retrievers[n] \in enabled THEN RawWeights[intent][n] ELSE 0
      total == Raw(1) + Raw(2) + Raw(3) + Raw(4)
  IN [r \in Range(Retrievers) |->
        IF total = 0 THEN IF r = "fts" THEN 1000000 ELSE 0
        ELSE Rounded(Raw(CHOOSE n \in 1..4 : Retrievers[n] = r) * 1000000, total)]

Weight(retriever) == ranking.weights[retriever]

-----------------------------------------------------------------------------
\* What the retrievers may return: lists of [object, depth], the depth that of
\* the graph and 0 elsewhere.
ListOf(objects) == [n \in DOMAIN objects |-> [object |-> objects[n], depth |-> 0]]

EntityObjects == {o \in Objects : ranking.traits[o].kind = "entity"}

Turn == Retrievers[Len(ranking.lists) + 1]
ListBy(retriever) ==
  LET n == CHOOSE m \in 1..4 : Retrievers[m] = retriever
  IN IF n \in DOMAIN ranking.lists THEN ranking.lists[n] ELSE <<>>

Return(list) == ranking' = [ranking EXCEPT !.lists = Append(@, list)]

\* A retriever without weight is not asked.
SkipRetriever ==
  /\ Len(ranking.lists) < 4 /\ Weight(Turn) = 0
  /\ Return(<<>>)

FindSymbols ==
  /\ Len(ranking.lists) = 0 /\ Weight(Turn) > 0
  /\ \E found \in SetToAllKPermutations(EntityObjects) : Return(ListOf(found))

\* Without vectors the vector retriever asks the full-text one.
FindText ==
  /\ Len(ranking.lists) \in {1, 2} /\ Weight(Turn) > 0
  /\ \E found \in SetToAllKPermutations(Objects) : Return(ListOf(found))

\* The nodes are sorted by depth and by id.
MaxDepth == IF ranking.intent \in GraphIntents THEN 2 ELSE 1

\* The three best symbols, or else the entity the client has selected.
Seeds ==
  LET symbols == ListBy("symbol")
  IN IF symbols # <<>> THEN {{symbols[n].object : n \in 1..Min({3, Len(symbols)})}}
     ELSE {{}} \cup {{o} : o \in EntityObjects}

FindNeighbours ==
  /\ Len(ranking.lists) = 3 /\ Weight(Turn) > 0
  /\ \E seeds \in Seeds : \E near \in IF seeds = {} THEN {{}} ELSE SUBSET (EntityObjects \ seeds) :
       \E far \in [near -> 1..MaxDepth] :
         LET nodes == {[object |-> s, depth |-> 0] : s \in seeds} \cup
                      {[object |-> o, depth |-> far[o]] : o \in near}
         IN Return(SetToSortSeq(nodes, LAMBDA a, b :
                     a.depth < b.depth \/ (a.depth = b.depth /\ a.object < b.object)))

-----------------------------------------------------------------------------
\* fuse_ranked_candidates.  What a candidate is in each list: its place, the
\* authority the retriever gives it, its depth.
SignalsOfObject(o) ==
  UNION {{[by |-> r, place |-> n, depth |-> ListBy(r)[n].depth] :
            n \in {m \in DOMAIN ListBy(r) : ListBy(r)[m].object = o}} : r \in Range(Retrievers)}

\* Mutant: the score of the last list replaces those before.
LastOf(scores) ==
  LET last == Max({n \in 1..4 : \E s \in scores : s[1] = Retrievers[n]})
  IN (CHOOSE s \in scores : s[1] = Retrievers[last])[2]

\* _merge_candidates
MergedScore(scores) == MapThenSumSet(LAMBDA s : s[2], scores)

Fused(o) == MergedScore({<<s.by, Rounded(Weight(s.by), 60 + s.place)>> : s \in SignalsOfObject(o)})

\* _AUTHORITY_SCORES, in percent.
Authority(level) ==
  CASE level = "source_doc" -> 100 [] level = "api_doc" -> 95 [] level = "widget_doc" -> 92
    [] level = "workspace_code" -> 82 [] level = "source_code" -> 80 [] level = "workspace_map" -> 68
    [] level = "derived" -> 40 [] level = "synthetic" -> 28 [] OTHER -> 20

\* What a symbol or a node is given, and what the text of an object says.
GivenAuthority(o, by) ==
  IF by \in {"symbol", "graph"} THEN Authority("workspace_code") ELSE Authority(ranking.traits[o].authority)

ProfileMatch(profile) ==
  IF ranking.requested = "all" THEN IF profile = "all" THEN 60 ELSE 80
  ELSE IF profile = ranking.requested THEN 100
  ELSE IF profile = "all" THEN 45 ELSE 0

\* resolve_freshness_score: only documents have a date, and only text
\* retrievers look at it.
Freshness(o, by) ==
  IF by \in {"symbol", "graph"} THEN 0
  ELSE CASE ranking.traits[o].age = "week" -> 100 [] ranking.traits[o].age = "month" -> 80
         [] ranking.traits[o].age = "quarter" -> 55 [] ranking.traits[o].age = "year" -> 25 [] OTHER -> 0

\* LightweightReranker.rerank
Factor(o) ==
  LET signals == SignalsOfObject(o)
      by == {s.by : s \in signals}
      Near(part) == Max({0} \cup {part \div (s.depth + 1) : s \in {x \in signals : x.by = "graph"}})
  IN 6000 + 12 * Max({GivenAuthority(o, r) : r \in by})
       + 9 * ProfileMatch(ranking.traits[o].profile)
       + 9 * Max({Freshness(o, r) : r \in by})
       + Near(900) + Min({300, 100 * Cardinality(by)})
       + (IF ranking.intent \in CodeIntents /\ "symbol" \in by THEN 600 ELSE 0)
       + (IF ranking.intent \in DocIntents /\ "vector" \in by THEN 480 ELSE 0)
       + (IF ranking.intent \in GraphIntents THEN Near(480) ELSE 0)

RerankScore(o) == IF ranking.reranker = "none" THEN Fused(o) ELSE Rounded(Fused(o) * Factor(o), 6000)

Found == UNION {{l[n].object : n \in DOMAIN l} : l \in Range(ranking.lists)}

RankCandidates ==
  LET score == [o \in Found |-> <<RerankScore(o), Fused(o)>>]
      Before(a, b) == \/ score[a][1] > score[b][1]
                      \/ score[a][1] = score[b][1] /\ score[a][2] > score[b][2]
                      \/ score[a] = score[b] /\ a < b
      ranked == SetToSortSeq(Found, Before)
  IN /\ Len(ranking.lists) = 4 /\ ~ranking.done
     /\ ranking' = [ranking EXCEPT !.done = TRUE, !.answer = SubSeq(ranked, 1, Min({TopK, Len(ranked)}))]

RankingInit ==
  \E intent \in RankedIntents, enabled \in Enabled, traits \in Traits, requested \in Requested, reranker \in Rerankers :
    ranking = [intent |-> intent, weights |-> WeightsFor(intent, enabled), traits |-> traits, requested |-> requested,
               reranker |-> reranker, lists |-> <<>>, done |-> FALSE, answer |-> <<>>]

RankingNext == SkipRetriever \/ FindSymbols \/ FindText \/ FindNeighbours \/ RankCandidates

-----------------------------------------------------------------------------
\* x is at least as good as y for every retriever that found y, and in all
\* that the reranker looks at.
NoWorse(x, y) ==
  /\ \A s \in SignalsOfObject(y) : \E t \in SignalsOfObject(x) :
       /\ t.by = s.by /\ t.place < s.place /\ t.depth <= s.depth
       /\ GivenAuthority(x, t.by) >= GivenAuthority(y, s.by)
       /\ Freshness(x, t.by) >= Freshness(y, s.by)
  /\ ProfileMatch(ranking.traits[x].profile) >= ProfileMatch(ranking.traits[y].profile)

\* Four weighted lists, eight bonuses, two roundings, merges of what several
\* retrievers say of one object and a cut at the end: none of it may put a
\* candidate behind, or cut it before, one that no retriever placed before it
\* and that has no advantage of its own (query/rerank.py
\* fuse_ranked_candidates, LightweightReranker.rerank).
RankingFollowsRetrievers ==
  ranking.done =>
    \A n \in DOMAIN ranking.answer : \A x \in Found :
      NoWorse(x, ranking.answer[n]) => x \in Range(SubSeq(ranking.answer, 1, n - 1))
=============================================================================
