----------------------------- MODULE QueryProofs -----------------------------
(***************************************************************************)
(* Theorems about QueryAnswers and the router under it: what an answer     *)
(* promises, and how far one more word may move a question.                *)
(***************************************************************************)
EXTENDS QueryAnswers, DataFacts

-----------------------------------------------------------------------------
(* What the tables of the router hold.                                     *)

SignalTypes ==
  {"client_context_hint", "caller_tool_hint", "api_keyword", "widget_keyword", "product_keyword", "project_keyword",
   "symbol_like", "path_like", "macro_name", "error_code", "lookup_phrase", "concept_phrase", "trace_phrase",
   "runtime_phrase", "runtime_keyword", "profile_keyword", "navigation_phrase", "evidence_keyword", "vague_query"}

Triples == Intents \X SignalTypes \X (10..60)

LEMMA IntentNames ==
  Intents = {"code_exact", "code_concept", "call_trace", "runtime_flow", "profile_diff", "api_lookup", "widget_lookup",
             "workspace_nav", "product_context", "project_context", "evidence_lookup", "unknown"}
BY DEF Intents, DefaultView

LEMMA HintsAreSignals ==
  ASSUME NEW I \in SUBSET Intents, NEW w \in 10..60
  PROVE  Hint(I, w) \subseteq Triples
BY DEF Hint, Triples, SignalTypes

LEMMA DomainsAreSignals == \A k \in DOMAIN DomainSignals : DomainSignals[k] \subseteq Triples
<1>1. \A k \in DOMAIN DomainSignals :
        DomainSignals[k] \in {{<<"api_lookup", "api_keyword", 55>>}, {<<"widget_lookup", "widget_keyword", 55>>},
          {<<"product_context", "product_keyword", 55>>}, {<<"project_context", "project_keyword", 55>>},
          {<<"product_context", "product_keyword", 15>>}, Hint({"code_exact"}, 20), Hint({"code_concept"}, 20),
          Hint({"api_lookup"}, 15)}
  BY DEF DomainSignals
<1>2. /\ Hint({"code_exact"}, 20) \subseteq Triples /\ Hint({"code_concept"}, 20) \subseteq Triples
      /\ Hint({"api_lookup"}, 15) \subseteq Triples
  BY HintsAreSignals, IntentNames
<1>3. /\ <<"api_lookup", "api_keyword", 55>> \in Triples /\ <<"widget_lookup", "widget_keyword", 55>> \in Triples
      /\ <<"product_context", "product_keyword", 55>> \in Triples
      /\ <<"project_context", "project_keyword", 55>> \in Triples
      /\ <<"product_context", "product_keyword", 15>> \in Triples
  BY IntentNames DEF Triples, SignalTypes
<1> QED BY <1>1, <1>2, <1>3

LEMMA ViewsAreSignals == \A k \in DOMAIN ViewSignals : ViewSignals[k] \subseteq Triples
<1>1. \A k \in DOMAIN ViewSignals : \E i \in Intents, w \in 10..60 : ViewSignals[k] = Hint({i}, w)
  BY IntentNames DEF ViewSignals
<1> QED BY <1>1, HintsAreSignals

LEMMA GranularitiesAreSignals == \A k \in DOMAIN GranularitySignals : GranularitySignals[k] \subseteq Triples
<1>1. \A k \in DOMAIN GranularitySignals \ {"module", "feature", "doc_section"} :
        \E I \in {{"code_exact"}, {"call_trace", "runtime_flow"}, {"profile_diff"}, {"workspace_nav"}}, w \in 10..60 :
          GranularitySignals[k] = Hint(I, w)
  BY DEF GranularitySignals
<1>2. \A I \in {{"code_exact"}, {"call_trace", "runtime_flow"}, {"profile_diff"}, {"workspace_nav"}} : I \in SUBSET Intents
  BY IntentNames
<1>3. /\ GranularitySignals["module"] = Hint({"workspace_nav"}, 30) \cup Hint({"code_concept"}, 25)
      /\ GranularitySignals["feature"] = Hint({"product_context"}, 20) \cup Hint({"code_concept"}, 15)
      /\ GranularitySignals["doc_section"] = Hint({"api_lookup", "widget_lookup"}, 15) \cup Hint({"evidence_lookup"}, 10)
  BY DEF GranularitySignals
<1>4. /\ {"workspace_nav"} \in SUBSET Intents /\ {"code_concept"} \in SUBSET Intents
      /\ {"product_context"} \in SUBSET Intents /\ {"api_lookup", "widget_lookup"} \in SUBSET Intents
      /\ {"evidence_lookup"} \in SUBSET Intents
  BY IntentNames
<1>5. \A k \in {"module", "feature", "doc_section"} : GranularitySignals[k] \subseteq Triples
  BY <1>3, <1>4, HintsAreSignals
<1> QED BY <1>1, <1>2, <1>5, HintsAreSignals

LEMMA CallersAreWeighed ==
  \A k \in DOMAIN CallerWeights : \A w \in CallerWeights[k] : w[1] \in Intents /\ w[2] \in 10..60
BY IntentNames DEF CallerWeights

LEMMA AnchorsAreSignals == \A k \in DOMAIN AnchorSignals : AnchorSignals[k] \subseteq Triples
<1>1. /\ Symbol \subseteq Triples /\ Path \subseteq Triples /\ <<"api_lookup", "symbol_like", 15>> \in Triples
      /\ <<"code_exact", "symbol_like", 35>> \in Triples /\ <<"call_trace", "symbol_like", 20>> \in Triples
      /\ <<"evidence_lookup", "symbol_like", 15>> \in Triples
      /\ <<"code_exact", "macro_name", 25>> \in Triples /\ <<"profile_diff", "macro_name", 25>> \in Triples
      /\ <<"evidence_lookup", "macro_name", 15>> \in Triples /\ <<"code_exact", "error_code", 25>> \in Triples
  BY IntentNames DEF Symbol, Path, Triples, SignalTypes
<1>2. Dotted \subseteq Triples BY <1>1 DEF Dotted
<1> QED BY <1>1, <1>2 DEF AnchorSignals

LEMMA TermsAreSignals == \A k \in DOMAIN TermSignals : TermSignals[k] \in Triples
BY IntentNames DEF TermSignals, Triples, SignalTypes

\* The kinds of items, none of them two.
ParameterKinds == {"domain", "view", "granularity", "caller", "profile_id", "selected", "active_file", "previous"}

\* What an accepted item gives is a signal.
LEMMA ItemsAreSignals ==
  ASSUME NEW i, Accepted(i)
  PROVE  ItemSignals(i) \subseteq Triples
<1>1. CASE i[1] = "domain"
  BY <1>1, DomainsAreSignals DEF ItemSignals, Accepted
<1>2. CASE i[1] = "view"
  BY <1>2, ViewsAreSignals DEF ItemSignals, Accepted
<1>3. CASE i[1] = "granularity"
  BY <1>3, GranularitiesAreSignals DEF ItemSignals, Accepted
<1>4. CASE i[1] = "caller"
  <2>1. ItemSignals(i) = {<<w[1], "caller_tool_hint", w[2]>> : w \in CallerWeights[i[2]]}
    BY <1>4 DEF ItemSignals
  <2>2. i[2] \in DOMAIN CallerWeights BY <1>4 DEF Accepted
  <2>3. \A w \in CallerWeights[i[2]] : w[1] \in Intents /\ w[2] \in 10..60 BY <2>2, CallersAreWeighed
  <2> QED BY <2>1, <2>3 DEF Triples, SignalTypes
<1>5. CASE i[1] = "profile_id"
  BY <1>5, IntentNames DEF ItemSignals, Triples, SignalTypes
<1>6. CASE i[1] = "selected"
  <2>1. Hint({"call_trace"}, 10) \subseteq Triples BY HintsAreSignals, IntentNames
  <2>2. <<"profile_diff", "macro_name", 20>> \in Triples /\ <<"code_exact", "symbol_like", 20>> \in Triples
    BY IntentNames DEF Triples, SignalTypes
  <2> QED BY <1>6, <2>1, <2>2 DEF ItemSignals
<1>7. CASE i[1] = "active_file"
  <2>1. Hint({"workspace_nav"}, 15) \subseteq Triples /\ Hint({"code_concept"}, 10) \subseteq Triples
    BY HintsAreSignals, IntentNames
  <2> QED BY <1>7, <2>1 DEF ItemSignals
<1>8. CASE i[1] = "previous"
  <2>1. {i[2]} \in SUBSET Intents BY <1>8 DEF Accepted
  <2> QED BY <1>8, <2>1, HintsAreSignals DEF ItemSignals
<1>9. CASE i[1] \in DOMAIN AnchorSignals /\ i[1] \notin ParameterKinds
  <2>1. ItemSignals(i) = AnchorSignals[i[1]] BY <1>9 DEF ItemSignals, ParameterKinds
  <2> QED BY <1>9, <2>1, AnchorsAreSignals
<1>10. CASE i[1] \notin DOMAIN AnchorSignals /\ i[1] \notin ParameterKinds
  <2>1. ItemSignals(i) = {} BY <1>10 DEF ItemSignals, ParameterKinds
  <2> QED BY <2>1
<1> QED BY <1>1, <1>2, <1>3, <1>4, <1>5, <1>6, <1>7, <1>8, <1>9, <1>10 DEF ParameterKinds

-----------------------------------------------------------------------------
(* A question gives finitely many signals, each with a weight.             *)

Asked(q) == IsFiniteSet(q) /\ \A i \in q : Accepted(i)

LEMMA IntentsAreFew == IsFiniteSet(Intents)
<1>1. /\ IsFiniteSet({"code_exact", "code_concept", "call_trace", "runtime_flow"})
      /\ IsFiniteSet({"profile_diff", "api_lookup", "widget_lookup", "workspace_nav"})
      /\ IsFiniteSet({"product_context", "project_context", "evidence_lookup", "unknown"})
  BY FewAreFinite
<1>2. IsFiniteSet(({"code_exact", "code_concept", "call_trace", "runtime_flow"} \cup
                   {"profile_diff", "api_lookup", "widget_lookup", "workspace_nav"}) \cup
                   {"product_context", "project_context", "evidence_lookup", "unknown"})
  BY <1>1, FS_Union
<1> QED BY <1>2, IntentNames

LEMMA TriplesAreFinite == IsFiniteSet(Triples) /\ \A s \in Triples : s[1] \in Intents /\ s[2] \in SignalTypes /\ s[3] \in Nat /\ s[3] >= 10
<1>1. IsFiniteSet(Intents) BY IntentsAreFew
<1>2. IsFiniteSet(SignalTypes)
  <2>1. /\ IsFiniteSet({"client_context_hint", "caller_tool_hint", "api_keyword", "widget_keyword"})
        /\ IsFiniteSet({"product_keyword", "project_keyword", "symbol_like", "path_like"})
        /\ IsFiniteSet({"macro_name", "error_code", "lookup_phrase", "concept_phrase"})
        /\ IsFiniteSet({"trace_phrase", "runtime_phrase", "runtime_keyword", "profile_keyword"})
        /\ IsFiniteSet({"navigation_phrase", "evidence_keyword", "vague_query", "vague_query"})
    BY FewAreFinite
  <2> DEFINE A == {"client_context_hint", "caller_tool_hint", "api_keyword", "widget_keyword"}
             B == {"product_keyword", "project_keyword", "symbol_like", "path_like"}
             C == {"macro_name", "error_code", "lookup_phrase", "concept_phrase"}
             D == {"trace_phrase", "runtime_phrase", "runtime_keyword", "profile_keyword"}
             E == {"navigation_phrase", "evidence_keyword", "vague_query", "vague_query"}
  <2>2. SignalTypes = (A \cup B) \cup ((C \cup D) \cup E) BY DEF SignalTypes
  <2>3. IsFiniteSet(A) /\ IsFiniteSet(B) /\ IsFiniteSet(C) /\ IsFiniteSet(D) /\ IsFiniteSet(E) BY <2>1
  <2> HIDE DEF A, B, C, D, E
  <2>4. IsFiniteSet(A \cup B) /\ IsFiniteSet(C \cup D) BY <2>3, FS_Union
  <2>5. IsFiniteSet((C \cup D) \cup E) BY <2>3, <2>4, FS_Union
  <2> QED BY <2>2, <2>4, <2>5, FS_Union
<1>3. IsFiniteSet(10..60)
  <2>1. 10 \in Int /\ 60 \in Int OBVIOUS
  <2> QED BY <2>1, FS_Interval, Zenon
<1>4. IsFiniteSet(SignalTypes \X (10..60)) BY <1>2, <1>3, FS_Product
<1> DEFINE Pairs == Intents \X (SignalTypes \X (10..60))
           flat == [p \in Pairs |-> <<p[1], p[2][1], p[2][2]>>]
<1>5. IsFiniteSet(Pairs) BY <1>1, <1>4, FS_Product
<1>6. flat \in [Pairs -> Triples] BY DEF Triples
<1>7. ASSUME NEW s \in Triples PROVE \E p \in Pairs : flat[p] = s
  <2>1. <<s[1], <<s[2], s[3]>>>> \in Pairs /\ s = <<s[1], s[2], s[3]>> BY DEF Triples
  <2> QED BY <2>1
<1>8. flat \in Surjection(Pairs, Triples) BY <1>6, <1>7 DEF Surjection
<1>9. IsFiniteSet(Triples) BY <1>5, <1>8, FS_Surjection
<1> QED BY <1>9 DEF Triples

CompoundTerms ==
  {<<"exact", "whoRefers">>, <<"evidence", "refers">>, <<"exact", "where">>, <<"navigation", "whereToLook">>,
   <<"trace", "whoCalls">>, <<"trace", "calledByWhom">>, <<"modifier", "evidencePlease">>, <<"modifier", "withEvidence">>}

LEMMA CompoundsHoldTerms ==
  \A k \in DOMAIN Compound : Compound[k] \subseteq CompoundTerms /\ \A t \in Compound[k] : t[1] \in DOMAIN TermSignals
<1>1. \A k \in DOMAIN Compound : Compound[k] \subseteq CompoundTerms BY DEF Compound, CompoundTerms
<1>2. \A t \in CompoundTerms : t[1] \in DOMAIN TermSignals BY DEF CompoundTerms, TermSignals
<1> QED BY <1>1, <1>2

LEMMA TermsAreFew ==
  ASSUME NEW q, Asked(q)
  PROVE  Terms(q) \subseteq q \cup CompoundTerms /\ \A t \in Terms(q) : t[1] \in DOMAIN TermSignals
<1> SUFFICES ASSUME NEW t \in Terms(q)
             PROVE  t \in q \cup CompoundTerms /\ t[1] \in DOMAIN TermSignals
  OBVIOUS
<1>1. PICK i \in q : /\ i[1] \in DOMAIN TermSignals \cup {"compound"}
                     /\ t \in IF i[1] = "compound" THEN Compound[i[2]] ELSE {i}
  BY DEF Terms
<1>2. CASE i[1] = "compound"
  <2>1. i[2] \in DOMAIN Compound BY <1>2 DEF Asked, Accepted
  <2> QED BY <1>1, <1>2, <2>1, CompoundsHoldTerms
<1> QED BY <1>1, <1>2

ItemPairs(q) == UNION {{<<i, s>> : s \in ItemSignals(i)} : i \in q}
TermPairs(q) == {<<t, TermSignals[t[1]]>> : t \in Terms(q)}
WholePairs(q) == IF Vague(q) THEN {<<<<"question", "whole">>, <<"unknown", "vague_query", 45>>>>} ELSE {}

LEMMA SignalsAreThree ==
  ASSUME NEW q
  PROVE  Signals(q) = ItemPairs(q) \cup TermPairs(q) \cup WholePairs(q)
BY DEF Signals, ItemPairs, TermPairs, WholePairs

LEMMA SignalsAreFew ==
  ASSUME NEW q, Asked(q)
  PROVE  IsFiniteSet(Signals(q)) /\ \A s \in Signals(q) : s[2] \in Triples
<1> DEFINE Sources == q \cup (CompoundTerms \cup {<<"question", "whole">>})
<1>1. IsFiniteSet(CompoundTerms)
  <2>1. /\ IsFiniteSet({<<"exact", "whoRefers">>, <<"evidence", "refers">>, <<"exact", "where">>, <<"navigation", "whereToLook">>})
        /\ IsFiniteSet({<<"trace", "whoCalls">>, <<"trace", "calledByWhom">>, <<"modifier", "evidencePlease">>,
                        <<"modifier", "withEvidence">>})
    BY FewAreFinite
  <2>2. CompoundTerms =
          {<<"exact", "whoRefers">>, <<"evidence", "refers">>, <<"exact", "where">>, <<"navigation", "whereToLook">>} \cup
          {<<"trace", "whoCalls">>, <<"trace", "calledByWhom">>, <<"modifier", "evidencePlease">>,
           <<"modifier", "withEvidence">>}
    BY DEF CompoundTerms
  <2> QED BY <2>1, <2>2, FS_Union
<1>2. IsFiniteSet(CompoundTerms \cup {<<"question", "whole">>}) BY <1>1, FS_Singleton, FS_Union
<1>3. IsFiniteSet(Sources) BY <1>2, FS_Union DEF Asked
<1>4. IsFiniteSet(Sources \X Triples) BY <1>3, TriplesAreFinite, FS_Product
<1>5. <<"unknown", "vague_query", 45>> \in Triples BY IntentNames DEF Triples, SignalTypes
<1>6. ASSUME NEW s \in Signals(q) PROVE s \in Sources \X Triples /\ s[2] \in Triples
  <2>1. \/ \E i \in q : \E x \in ItemSignals(i) : s = <<i, x>>
        \/ \E t \in Terms(q) : s = <<t, TermSignals[t[1]]>>
        \/ s = <<<<"question", "whole">>, <<"unknown", "vague_query", 45>>>>
    <3>1. \/ s \in ItemPairs(q) \/ s \in TermPairs(q)
          \/ s \in {<<<<"question", "whole">>, <<"unknown", "vague_query", 45>>>>}
      BY SignalsAreThree DEF WholePairs
    <3> QED BY <3>1 DEF ItemPairs, TermPairs
  <2>2. ASSUME NEW i \in q, NEW x \in ItemSignals(i) PROVE x \in Triples
    BY ItemsAreSignals DEF Asked
  <2>3. ASSUME NEW t \in Terms(q) PROVE t \in q \cup CompoundTerms /\ TermSignals[t[1]] \in Triples
    BY TermsAreFew, TermsAreSignals
  <2> QED BY <1>5, <2>1, <2>2, <2>3
<1>7. Signals(q) \in SUBSET (Sources \X Triples) BY <1>6
<1> QED BY <1>4, <1>6, <1>7, FS_Subset

-----------------------------------------------------------------------------
(* Scores are numbers, and one of them is the best.                        *)

Weights(q, intent) == [s \in SignalsOf(q, intent) |-> s[2][3]]

LEMMA GatheredIsSum ==
  ASSUME NEW q, Asked(q), NEW intent
  PROVE  /\ IsFiniteSet(SignalsOf(q, intent)) /\ \A s \in SignalsOf(q, intent) :
              Weights(q, intent)[s] = s[2][3] /\ s[2][3] \in Nat /\ s[2][3] >= 10
         /\ Gathered(q, intent) = SumFunctionOnSet(Weights(q, intent), SignalsOf(q, intent))
<1>1. SignalsOf(q, intent) \in SUBSET Signals(q) BY DEF SignalsOf
<1>2. IsFiniteSet(SignalsOf(q, intent)) BY <1>1, SignalsAreFew, FS_Subset
<1>3. \A s \in SignalsOf(q, intent) : s[2] \in Triples BY <1>1, SignalsAreFew
<1>4. \A s \in SignalsOf(q, intent) : s[2][3] \in Nat /\ s[2][3] >= 10 BY <1>3, TriplesAreFinite
<1>5. DOMAIN Weights(q, intent) = SignalsOf(q, intent) BY DEF Weights
<1> QED BY <1>2, <1>4, <1>5 DEF Gathered, Weights, SumFunction

LEMMA GatheredIsNat ==
  ASSUME NEW q, Asked(q), NEW intent
  PROVE  Gathered(q, intent) \in Nat
BY GatheredIsSum, SumIsMonotone

LEMMA LeastOfTwo ==
  ASSUME NEW a \in Int, NEW b \in Int
  PROVE  Min({a, b}) = IF a <= b THEN a ELSE b
<1>1. \E x \in {a, b} : \A y \in {a, b} : x <= y OBVIOUS
<1>2. Min({a, b}) \in {a, b} /\ \A y \in {a, b} : Min({a, b}) <= y BY <1>1 DEF Min
<1> QED BY <1>2

LEMMA BonusIsNumber ==
  ASSUME NEW q, Asked(q), NEW intent
  PROVE  Bonus(q, intent) \in Int
<1>1. Gathered(q, "product_context") \in Nat BY GatheredIsNat
<1>2. -Min({5, Gathered(q, "product_context")}) \in Int BY <1>1, LeastOfTwo
<1> QED BY <1>2 DEF Bonus

LEMMA ScoreIsNumber ==
  ASSUME NEW q, Asked(q), NEW intent
  PROVE  Score(q, intent) \in Int
<1>1. Gathered(q, intent) \in Nat /\ Gathered(q, "evidence_lookup") \in Nat BY GatheredIsNat
<1>2. EvidenceScore(q) \in Int BY <1>1, LeastOfTwo DEF EvidenceScore
<1>3. (IF intent = "evidence_lookup" THEN EvidenceScore(q) ELSE Gathered(q, intent) + Bonus(q, intent)) \in Int
  BY <1>1, <1>2, BonusIsNumber
<1> QED BY <1>3, LeastOfTwo DEF Score

LEMMA NamesAreRanked ==
  \A i \in Intents : NameRank(i) \in 1..12 /\ ByName[NameRank(i)] = i
<1>1. Len(ByName) = 12 BY DEF ByName
<1>2. \A i \in Intents : \E n \in 1..12 : ByName[n] = i BY IntentNames DEF ByName
<1> QED BY <1>1, <1>2 DEF NameRank

\* Of scores there is one before all others.
Scores == Intents \X Int

LEMMA BestIsFirst ==
  ASSUME NEW S, IsFiniteSet(S), S \subseteq Scores, S # {}
  PROVE  Best(S) \in S /\ \A b \in S \ {Best(S)} : Before(Best(S), b)
<1> DEFINE F == {T \in SUBSET S : T # {} => \E a \in T : \A b \in T \ {a} : Before(a, b)}
<1>1. {} \in F OBVIOUS
<1>2. ASSUME NEW T \in SUBSET S, NEW x \in S \ T, T \in F PROVE T \cup {x} \in F
  <2>1. CASE T = {}
    BY <2>1
  <2>2. CASE T # {}
    <3>1. PICK a \in T : \A b \in T \ {a} : Before(a, b) BY <1>2, <2>2
    <3>2. Before(a, x) \/ Before(x, a)
      <4>1. a \in Scores /\ x \in Scores /\ a # x BY <3>1
      <4>2. a[1] = x[1] => a[2] # x[2] BY <4>1 DEF Scores
      <4>3. a[1] \in Intents /\ x[1] \in Intents /\ a[2] \in Int /\ x[2] \in Int BY <4>1 DEF Scores
      <4>4. a[1] # x[1] => NameRank(a[1]) # NameRank(x[1]) BY <4>3, NamesAreRanked
      <4>5. NameRank(a[1]) \in Int /\ NameRank(x[1]) \in Int BY <4>3, NamesAreRanked
      <4> QED BY <4>2, <4>3, <4>4, <4>5 DEF Before
    <3>3. CASE Before(a, x) BY <3>1, <3>3
    <3>4. CASE Before(x, a)
      <4>1. \A b \in T : Before(x, b)
        <5> SUFFICES ASSUME NEW b \in T, b # a PROVE Before(x, b) BY <3>4
        <5>1. Before(a, b) BY <3>1
        <5>2. /\ a[1] \in Intents /\ x[1] \in Intents /\ b[1] \in Intents
              /\ a[2] \in Int /\ x[2] \in Int /\ b[2] \in Int
          BY <3>1 DEF Scores
        <5>3. NameRank(a[1]) \in Int /\ NameRank(x[1]) \in Int /\ NameRank(b[1]) \in Int BY <5>2, NamesAreRanked
        <5> QED BY <3>4, <5>1, <5>2, <5>3 DEF Before
      <4> QED BY <4>1
    <3> QED BY <3>2, <3>3, <3>4
  <2> QED BY <2>1, <2>2
<1> HIDE DEF F
<1>3. S \in F BY <1>1, <1>2, SetsInduct
<1>4. \E a \in S : \A b \in S \ {a} : Before(a, b) BY <1>3 DEF F
<1> QED BY <1>4 DEF Best

AllScores(q) == {<<i, Score(q, i)>> : i \in Intents}

LEMMA ScoresAreFew ==
  ASSUME NEW q, Asked(q)
  PROVE  IsFiniteSet(AllScores(q)) /\ AllScores(q) \subseteq Scores /\ AllScores(q) # {}
<1> DEFINE score == [i \in Intents |-> <<i, Score(q, i)>>]
<1>1. score \in Surjection(Intents, AllScores(q)) BY DEF Surjection, AllScores
<1>2. IsFiniteSet(AllScores(q)) BY <1>1, IntentsAreFew, FS_Surjection
<1>3. AllScores(q) \subseteq Scores BY ScoreIsNumber DEF AllScores, Scores
<1> QED BY <1>2, <1>3, IntentNames DEF AllScores

-----------------------------------------------------------------------------
(* Warnings: each once.                                                    *)

LEMMA RangeOfAppended ==
  ASSUME NEW E, NEW s \in Seq(E), NEW e \in E
  PROVE  Append(s, e) \in Seq(E) /\ Range(Append(s, e)) = Range(s) \cup {e}
<1> DEFINE t == Append(s, e)
           n == Len(s)
<1>1. /\ t \in Seq(E) /\ n \in Nat /\ DOMAIN s = 1..n /\ DOMAIN t = 1..(n + 1)
      /\ t[n + 1] = e /\ \A k \in 1..n : t[k] = s[k]
  OBVIOUS
<1>2. n + 1 \in 1..(n + 1) /\ \A k \in 1..(n + 1) : k = n + 1 \/ k \in 1..n BY <1>1
<1> HIDE DEF t, n
<1>3. Range(t) = Range(s) \cup {e} BY <1>1, <1>2 DEF Range
<1> QED BY <1>1, <1>3 DEF t

LEMMA OneMoreCode ==
  ASSUME NEW E, NEW s \in Seq(E), NEW e \in E
  PROVE  /\ Deduped(s) \in Seq(E)
         /\ Deduped(Append(s, e)) = Deduped(s) \o (IF e \in Range(s) THEN <<>> ELSE <<e>>)
<1> DEFINE t == Append(s, e)
           last == Len(s) + 1
           old == [n \in DOMAIN s |-> IF \E m \in 1..(n - 1) : s[m] = s[n] THEN <<>> ELSE <<s[n]>>]
           new == [n \in DOMAIN t |-> IF \E m \in 1..(n - 1) : t[m] = t[n] THEN <<>> ELSE <<t[n]>>]
           more == IF e \in Range(s) THEN <<>> ELSE <<e>>
<1>1. /\ Len(s) \in Nat /\ DOMAIN s = 1..Len(s) /\ DOMAIN t = 1..last /\ last \in Nat
      /\ t[last] = e /\ \A n \in 1..Len(s) : t[n] = s[n] /\ s[n] \in E
  OBVIOUS
<1>2. \A n \in 1..Len(s) : old[n] = new[n]
  <2> SUFFICES ASSUME NEW n \in 1..Len(s) PROVE old[n] = new[n] OBVIOUS
  <2>1. n \in 1..last /\ t[n] = s[n] /\ \A m \in 1..(n - 1) : m \in 1..Len(s) /\ t[m] = s[m] BY <1>1
  <2>2. (\E m \in 1..(n - 1) : s[m] = s[n]) <=> (\E m \in 1..(n - 1) : t[m] = t[n]) BY <2>1
  <2> QED BY <1>1, <2>1, <2>2
<1>3. \A n \in 1..Len(s) : old[n] \in Seq(E)
  <2> SUFFICES ASSUME NEW n \in 1..Len(s) PROVE old[n] \in Seq(E) OBVIOUS
  <2>1. old[n] = <<>> \/ old[n] = <<s[n]>> BY <1>1
  <2>2. s[n] \in E BY <1>1
  <2> QED BY <2>1, <2>2
<1>4. new[last] = more
  <2>1. (\E m \in 1..(last - 1) : t[m] = t[last]) <=> e \in Range(s) BY <1>1 DEF Range
  <2>2. last \in DOMAIN t BY <1>1
  <2> QED BY <1>1, <2>1, <2>2
<1>5. more \in Seq(E) OBVIOUS
<1>6. old \in Seq(Seq(E)) /\ Len(old) = Len(s)
  BY <1>1, <1>3, IsASeq, LenProperties
<1>7. new = Append(old, more)
  <2>1. DOMAIN new = 1..last /\ new = [n \in 1..last |-> new[n]] BY <1>1
  <2> HIDE DEF old, new, more
  <2>2. Append(old, more) \in Seq(Seq(E)) /\ Len(Append(old, more)) = last
    BY <1>5, <1>6, AppendProperties
  <2>3. Append(old, more)[last] = more /\ \A n \in 1..Len(s) : Append(old, more)[n] = old[n]
    BY <1>5, <1>6, AppendProperties
  <2>4. \A n \in 1..last : n = last \/ n \in 1..Len(s) BY <1>1
  <2>5. \A n \in 1..last : new[n] = Append(old, more)[n] BY <1>2, <1>4, <2>3, <2>4
  <2>6. Append(old, more) = [n \in 1..last |-> Append(old, more)[n]] BY <2>2, LenProperties
  <2> QED BY <2>1, <2>5, <2>6
<1>8. Deduped(s) = FlattenSeq(old) /\ Deduped(t) = FlattenSeq(new) BY DEF Deduped
<1> HIDE DEF old, new, more, t
<1>9. FlattenSeq(old) \in Seq(E) /\ FlattenSeq(Append(old, more)) = FlattenSeq(old) \o more
  BY <1>5, <1>6, FlattenAppended
<1> QED BY <1>7, <1>8, <1>9 DEF t, more

Once(s, E) ==
  /\ Deduped(s) \in Seq(E) /\ Range(Deduped(s)) = Range(s) /\ IsFiniteSet(Range(s))
  /\ Cardinality(Range(s)) = Len(Deduped(s))

LEMMA EachCodeOnce ==
  ASSUME NEW E, NEW codes \in Seq(E)
  PROVE  Once(codes, E)
<1> DEFINE F == {s \in Seq(E) : Once(s, E)}
<1>1. <<>> \in F
  <2>1. Deduped(<<>>) = <<>>
    <3> DEFINE none == [n \in DOMAIN <<>> |-> IF \E m \in 1..(n - 1) : <<>>[m] = <<>>[n] THEN <<>> ELSE <<<<>>[n]>>]
    <3>1. none = <<>> OBVIOUS
    <3>2. Deduped(<<>>) = FlattenSeq(none) BY DEF Deduped
    <3> HIDE DEF none
    <3>3. Deduped(<<>>) = FlattenSeq(<<>>) BY <3>1, <3>2
    <3>4. <<>> \in Seq(Seq(E)) /\ <<>> \in Seq(E) OBVIOUS
    <3>5. FlattenSeq(<<>>) = <<>> BY <3>4, FlattenAppended
    <3> QED BY <3>3, <3>5
  <2>2. Range(<<>>) = {} BY DEF Range
  <2>3. <<>> \in Seq(E) /\ Len(<<>>) = 0 OBVIOUS
  <2>4. IsFiniteSet(Range(<<>>)) /\ Cardinality(Range(<<>>)) = 0 BY <2>2, FS_EmptySet
  <2>5. Once(<<>>, E)
    <3> DEFINE none == <<>>
    <3>1. Deduped(none) = none /\ none \in Seq(E) /\ Len(none) = 0 BY <2>1, <2>3
    <3>2. IsFiniteSet(Range(none)) /\ Cardinality(Range(none)) = 0 BY <2>4
    <3> HIDE DEF none
    <3>3. Once(none, E) BY <3>1, <3>2 DEF Once
    <3> QED BY <3>3 DEF none
  <2> QED BY <2>3, <2>5
<1>2. ASSUME NEW s \in Seq(E), NEW e \in E, s \in F PROVE Append(s, e) \in F
  <2> DEFINE t == Append(s, e)
  <2>1. Once(s, E) BY <1>2
  <2>2. Deduped(t) = Deduped(s) \o (IF e \in Range(s) THEN <<>> ELSE <<e>>) BY OneMoreCode
  <2>3. t \in Seq(E) /\ Range(t) = Range(s) \cup {e} BY RangeOfAppended
  <2>4. CASE e \in Range(s)
    <3>1. Deduped(t) = Deduped(s) BY <2>1, <2>2, <2>4 DEF Once
    <3>2. Range(t) = Range(s) BY <2>3, <2>4
    <3> QED BY <2>1, <2>3, <3>1, <3>2 DEF Once
  <2>5. CASE e \notin Range(s)
    <3>1. Deduped(t) = Append(Deduped(s), e) BY <2>1, <2>2, <2>5 DEF Once
    <3>2. Deduped(t) \in Seq(E) /\ Len(Deduped(t)) = Len(Deduped(s)) + 1 BY <2>1, <3>1 DEF Once
    <3>3. Range(Deduped(t)) = Range(Deduped(s)) \cup {e} BY <2>1, <3>1, RangeOfAppended DEF Once
    <3>4. IsFiniteSet(Range(t)) /\ Cardinality(Range(t)) = Cardinality(Range(s)) + 1
      BY <2>1, <2>3, <2>5, FS_AddElement DEF Once
    <3> QED BY <2>1, <2>3, <3>2, <3>3, <3>4 DEF Once
  <2> QED BY <2>4, <2>5
<1> HIDE DEF F
<1>3. \A s \in Seq(E) : s \in F BY <1>1, <1>2, SequencesInduct
<1> QED BY <1>3 DEF F

\* A set of strings in some order.
LEMMA SetInOrder ==
  ASSUME NEW S, IsFiniteSet(S)
  PROVE  SetToSeq(S) \in Seq(S)
<1>1. Cardinality(S) \in Nat /\ ExistsBijection(1..Cardinality(S), S) BY FS_CardinalityType
<1>2. PICK f \in Bijection(1..Cardinality(S), S) : TRUE BY <1>1 DEF ExistsBijection
<1>3. f \in [1..Cardinality(S) -> S] /\ IsInjective(f)
  BY <1>2, Zenon DEF Bijection, Injection, IsInjective
<1>5. SetToSeq(S) \in [1..Cardinality(S) -> S] BY <1>3 DEF SetToSeq
<1> QED BY <1>1, <1>5, SeqDef

-----------------------------------------------------------------------------
(* What a tool asks, and how it is routed.                                 *)

LEMMA ToolsGiveParameters ==
  ASSUME NEW tool \in DOMAIN SearchTools
  PROVE  /\ IsFiniteSet(SearchTools[tool].gives) /\ \A i \in SearchTools[tool].gives : Accepted(i)
         /\ Accepted(<<"caller", tool>>)
<1> DEFINE D == {<<"domain", "docs">>, <<"granularity", "doc_section">>}
           R == {<<"domain", "code">>, <<"view", "code">>, <<"granularity", "symbol">>}
           C == {<<"domain", "code">>, <<"view", "code">>, <<"granularity", "module">>}
           T == {<<"domain", "code">>, <<"view", "runtime">>, <<"granularity", "flow">>}
           P == {<<"view", "profile">>, <<"granularity", "profile">>}
           E == {<<"view", "evidence">>}
<1>1. SearchTools[tool].gives \in {{}, D, R, C, T, P, E} BY DEF SearchTools
<1>2. /\ IsFiniteSet({}) /\ IsFiniteSet(D) /\ IsFiniteSet(R) /\ IsFiniteSet(C)
      /\ IsFiniteSet(T) /\ IsFiniteSet(P) /\ IsFiniteSet(E)
  <2>1. /\ D = {<<"domain", "docs">>, <<"granularity", "doc_section">>, <<"domain", "docs">>, <<"domain", "docs">>}
        /\ R = {<<"domain", "code">>, <<"view", "code">>, <<"granularity", "symbol">>, <<"domain", "code">>}
        /\ C = {<<"domain", "code">>, <<"view", "code">>, <<"granularity", "module">>, <<"domain", "code">>}
        /\ T = {<<"domain", "code">>, <<"view", "runtime">>, <<"granularity", "flow">>, <<"domain", "code">>}
        /\ P = {<<"view", "profile">>, <<"granularity", "profile">>, <<"view", "profile">>, <<"view", "profile">>}
    OBVIOUS
  <2> HIDE DEF D, R, C, T, P
  <2> QED BY <2>1, FewAreFinite, FS_Singleton, FS_EmptySet
<1>3. \A i \in D \cup R \cup C \cup T \cup P \cup E : Accepted(i)
  BY DEF Accepted, DomainSignals, ViewSignals, GranularitySignals
<1>4. Accepted(<<"caller", tool>>) BY DEF Accepted, CallerWeights, SearchTools
<1> HIDE DEF D, R, C, T, P, E
<1> QED BY <1>1, <1>2, <1>3, <1>4

LEMMA RequestIsAsked ==
  ASSUME NEW q, Asked(q), NEW tool \in DOMAIN SearchTools
  PROVE  Asked(Request(tool, q))
<1> DEFINE spec == SearchTools[tool]
           asked == {i \in q : i[1] \in Parameters => i[1] \in spec.takes \cup {"profile_id"}}
           given == {i \in spec.gives : ~\E a \in asked : a[1] = i[1]}
<1>1. asked \in SUBSET q /\ given \in SUBSET spec.gives OBVIOUS
<1>2. IsFiniteSet(asked) /\ IsFiniteSet(given) BY <1>1, ToolsGiveParameters, FS_Subset DEF Asked
<1>3. \A i \in (asked \cup given) \cup {<<"caller", tool>>} : Accepted(i) BY <1>1, ToolsGiveParameters DEF Asked
<1>4. Request(tool, q) = (asked \cup given) \cup {<<"caller", tool>>} BY DEF Request
<1> HIDE DEF asked, given
<1>5. IsFiniteSet((asked \cup given) \cup {<<"caller", tool>>}) BY <1>2, FS_Union, FS_Singleton
<1> QED BY <1>3, <1>4, <1>5 DEF Asked

RouterCodes == {"router.low_confidence", "router.medium_confidence", "router.ambiguous_intent"}

\* What the answers need to know of a decision about a request.
Routed(request, d) ==
  /\ d.confidence \in Int
  /\ d.warnings \in SUBSET RouterCodes
  /\ Sensitive(d) /\ "none" \notin Value(request, "profile_id") => d.profile

LEMMA DecisionIsRouted ==
  ASSUME NEW q, NEW top, NEW second, top[2] \in Int
  PROVE  Routed(q, Decision(q, top, second))
<1> DEFINE d == Decision(q, top, second)
           matched == IF top[2] < Low /\ SignalsOf(q, top[1]) = {} THEN SignalsOf(q, "unknown") ELSE SignalsOf(q, top[1])
<1>1. /\ d.confidence = top[2] /\ d.warnings = RouterWarnings(top[2], second[2])
      /\ d.profile = AsksProfile(q, d.intent, d.view, matched)
  BY DEF Decision
<1>2. RouterWarnings(top[2], second[2]) \in SUBSET RouterCodes BY DEF RouterWarnings, RouterCodes
<1> HIDE DEF d, matched
<1>3. Sensitive(d) /\ "none" \notin Value(q, "profile_id") => AsksProfile(q, d.intent, d.view, matched)
  BY DEF Sensitive, AsksProfile
<1>4. AsksProfile(q, d.intent, d.view, matched) => d.profile BY <1>1
<1> QED BY <1>1, <1>2, <1>3, <1>4 DEF Routed, d

LEMMA RequestIsRouted ==
  ASSUME NEW q, Asked(q)
  PROVE  Routed(q, Route(q))
<1> DEFINE top == Best(AllScores(q))
           second == Best(AllScores(q) \ {top})
<1>1. Best(AllScores(q)) \in AllScores(q) BY ScoresAreFew, BestIsFirst
<1>2. Best(AllScores(q))[2] \in Int BY <1>1, ScoresAreFew DEF Scores
<1>3. Ranked(q) = <<top, second>> BY DEF Ranked, BestTwo, AllScores
<1>4. Route(q) = Decision(q, top, second)
  <2> HIDE DEF top, second
  <2> QED BY <1>3 DEF Route, Decide
<1> QED BY <1>2, <1>4, DecisionIsRouted

-----------------------------------------------------------------------------
(* The profile.                                                            *)

Known(world) == {c.id : c \in Candidates(world.profiles)}

LEMMA ResolvedIsKnown ==
  ASSUME NEW world, NEW requested, NEW r, r = ResolveProfile(world.profiles, requested)
  PROVE  /\ r.status \in {"resolved"} \cup Blocking
         /\ r.status = "resolved" => r.id \in Known(world)
         /\ r.status = "multiple_candidates" => r.candidates # {}
<1> DEFINE candidates == Candidates(world.profiles)
           wanted == IF requested = <<"auto">> THEN world.profiles.default ELSE requested
           named(id) == {c \in candidates : c.id = id}
           auto == {c \in candidates : AutoEligible(c)}
           first == (CHOOSE c \in auto : TRUE).id
<1>1. r = IF wanted # <<"auto">>
          THEN IF Cardinality(named(wanted)) = 1 THEN ProfileResolution("resolved", wanted, {})
               ELSE ProfileResolution("invalid", NoProfile, named(wanted))
          ELSE IF Cardinality(auto) = 1 THEN ProfileResolution("resolved", first, {})
          ELSE IF auto # {} THEN ProfileResolution("multiple_candidates", NoProfile, auto)
          ELSE IF Cardinality(named(world.profiles.baseline)) = 1
          THEN ProfileResolution("resolved", world.profiles.baseline, {})
          ELSE ProfileResolution("unresolved", NoProfile, {c \in candidates : c.status # "invalid"})
  BY DEF ResolveProfile
<1>2. \A id : Cardinality(named(id)) = 1 => id \in Known(world)
  <2> SUFFICES ASSUME NEW id, Cardinality(named(id)) = 1 PROVE id \in Known(world) OBVIOUS
  <2> DEFINE N == named(id)
  <2>1. Cardinality(N) = 1 OBVIOUS
  <2> HIDE DEF N
  <2>2. N # {} BY <2>1, FS_EmptySet
  <2>3. PICK c \in N : TRUE BY <2>2
  <2> QED BY <2>3 DEF Known, N
<1>3. Cardinality(auto) = 1 => first \in Known(world)
  <2> SUFFICES ASSUME Cardinality(auto) = 1 PROVE first \in Known(world) OBVIOUS
  <2>1. auto # {} BY FS_EmptySet
  <2>2. (CHOOSE c \in auto : TRUE) \in auto BY <2>1
  <2> QED BY <2>2 DEF Known
<1> HIDE DEF candidates, wanted, named, auto, first
<1> QED BY <1>1, <1>2, <1>3 DEF ProfileResolution, Blocking

\* What the answers need to know of a profile.
Resolved(decision, profile, world) ==
  /\ decision.profile => profile.status \in {"resolved"} \cup Blocking
  /\ profile.status = "resolved" => profile.id \in Known(world)
  /\ profile.status = "multiple_candidates" => profile.candidates # {}

LEMMA ProfileIsResolved ==
  ASSUME NEW request, NEW decision, NEW world
  PROVE  Resolved(decision, ProfileOf(request, decision, world), world)
<1> DEFINE profile == ProfileOf(request, decision, world)
<1>1. CASE decision.profile
  <2>1. PICK requested : profile = ResolveProfile(world.profiles, requested) BY <1>1 DEF ProfileOf
  <2> HIDE DEF profile
  <2>2. /\ profile.status \in {"resolved"} \cup Blocking
        /\ profile.status = "resolved" => profile.id \in Known(world)
        /\ profile.status = "multiple_candidates" => profile.candidates # {}
    BY <2>1, ResolvedIsKnown
  <2> QED BY <2>2 DEF Resolved, profile
<1>2. CASE ~decision.profile
  <2>1. profile.status = "not_required" BY <1>2 DEF ProfileOf, ProfileResolution
  <2> QED BY <1>2, <2>1 DEF Resolved
<1> QED BY <1>1, <1>2

-----------------------------------------------------------------------------
(* Every builder of an answer keeps the contract.                          *)

\* A result that is delivered as it is, about the given profile if it is one.
Keeps(r, id) ==
  /\ Contract(r) /\ r.status # "error"
  /\ r.status \in {"ok", "low_confidence", "partial_ready"} => r.profile = id

\* The codes of the builders themselves; retrievers have more.
OwnCodes ==
  RouterCodes \cup {"profile.invalid", "profile.multiple_candidates", "profile.unresolved",
                   "retrieval.zero_result", "retrieval.low_confidence"}

LEMMA CodesAreListed ==
  ASSUME NEW E, OwnCodes \subseteq E,
         NEW decision, decision.warnings \in SUBSET RouterCodes, NEW profile
  PROVE  ProfileCodes(profile.status) \in Seq(E) /\ DecisionCodes(decision, profile) \in Seq(E)
<1>1. IsFiniteSet(decision.warnings)
  <2>1. IsFiniteSet({"router.low_confidence", "router.medium_confidence", "router.ambiguous_intent", "router.ambiguous_intent"})
    BY FewAreFinite
  <2>2. IsFiniteSet(RouterCodes) BY <2>1 DEF RouterCodes
  <2> QED BY <2>2, FS_Subset
<1>2. SetToSeq(decision.warnings) \in Seq(decision.warnings) BY <1>1, SetInOrder
<1>3. decision.warnings \subseteq E BY DEF OwnCodes
<1>4. SetToSeq(decision.warnings) \in Seq(E) BY <1>2, <1>3, SeqMonotonic
<1>5. ProfileCodes(profile.status) \in Seq(E)
  <2>1. "profile.invalid" \in E /\ "profile.multiple_candidates" \in E /\ "profile.unresolved" \in E BY DEF OwnCodes
  <2>2. ProfileCodes(profile.status) \in
          {<<"profile.invalid">>, <<"profile.multiple_candidates">>, <<"profile.unresolved">>, <<>>}
    BY DEF ProfileCodes
  <2>3. /\ <<"profile.invalid">> \in Seq(E) /\ <<"profile.multiple_candidates">> \in Seq(E)
        /\ <<"profile.unresolved">> \in Seq(E) /\ <<>> \in Seq(E)
    BY <2>1
  <2> QED BY <2>2, <2>3
<1> QED BY <1>4, <1>5, ConcatProperties DEF DecisionCodes

LEMMA ProfileAnswerKeeps ==
  ASSUME NEW E, OwnCodes \subseteq E, NEW decision, decision.warnings \in SUBSET RouterCodes, decision.confidence \in Int,
         NEW profile, profile.status = "multiple_candidates" => profile.candidates # {}
  PROVE  Keeps(ProfileAnswer(decision, profile), profile.id)
<1> DEFINE all == DecisionCodes(decision, profile) \o ProfileCodes(profile.status)
           codes == Deduped(all)
           r == ProfileAnswer(decision, profile)
<1>1. all \in Seq(E) BY CodesAreListed, ConcatProperties
<1>2. Cardinality(Range(codes)) = Len(codes) BY <1>1, EachCodeOnce DEF Once
<1>3. /\ r.warnings = codes
      /\ \/ r.status = "multi_result" /\ r.candidates = profile.candidates /\ profile.status = "multiple_candidates"
         \/ r.status = "ambiguous" /\ r.required = TRUE /\ r.next = TRUE
  BY DEF ProfileAnswer, Result
<1> HIDE DEF codes, r
<1>4. Contract(r) BY <1>2, <1>3 DEF Contract
<1> QED BY <1>3, <1>4 DEF Keeps, r

LEMMA OnceMore ==
  ASSUME NEW E, NEW codes \in Seq(E), NEW code \in E
  PROVE  /\ Cardinality(Range(Deduped(codes \o <<code>>))) = Len(Deduped(codes \o <<code>>))
         /\ code \in Range(Deduped(codes \o <<code>>))
<1> DEFINE all == Append(codes, code)
<1>1. codes \o <<code>> = all BY AppendIsConcat
<1>2. all \in Seq(E) /\ Range(all) = Range(codes) \cup {code} BY RangeOfAppended
<1> HIDE DEF all
<1>3. Once(all, E) BY <1>2, EachCodeOnce
<1> QED BY <1>1, <1>2, <1>3 DEF Once

LEMMA MatrixAnswerKeeps ==
  ASSUME NEW E, OwnCodes \subseteq E, NEW request, NEW tool, NEW world, NEW decision, decision.warnings \in SUBSET RouterCodes,
         NEW profile
  PROVE  Keeps(MatrixAnswer(request, tool, decision, profile, world), profile.id)
<1> DEFINE codes == DecisionCodes(decision, profile)
           invalid == Deduped(codes \o <<"profile.invalid">>)
           zero == Deduped(codes \o <<"retrieval.zero_result">>)
           plain == Deduped(codes)
           r == MatrixAnswer(request, tool, decision, profile, world)
<1>1. codes \in Seq(E) BY CodesAreListed
<1>2. /\ Cardinality(Range(invalid)) = Len(invalid) /\ Cardinality(Range(zero)) = Len(zero)
      /\ Cardinality(Range(plain)) = Len(plain) /\ "retrieval.zero_result" \in Range(zero)
  <2> HIDE DEF codes
  <2>1. Once(codes, E) BY <1>1, EachCodeOnce
  <2>2. "profile.invalid" \in E /\ "retrieval.zero_result" \in E BY DEF OwnCodes
  <2>3. /\ Cardinality(Range(invalid)) = Len(invalid) /\ Cardinality(Range(zero)) = Len(zero)
        /\ "retrieval.zero_result" \in Range(zero)
    BY <1>1, <2>2, OnceMore
  <2> QED BY <2>1, <2>3 DEF Once
<1>3. \/ r.status = "ambiguous" /\ r.warnings = invalid /\ r.required = TRUE /\ r.next = TRUE
      \/ /\ r.status = "zero_result" /\ r.warnings = zero /\ r.next = TRUE
         /\ r.items = FALSE /\ r.evidence = FALSE /\ r.candidates = {}
      \/ r.status = "ok" /\ r.warnings = plain /\ r.profile = profile.id
  BY DEF MatrixAnswer, Result
<1> HIDE DEF codes, invalid, zero, plain, r
<1>4. Contract(r) BY <1>2, <1>3 DEF Contract
<1> QED BY <1>3, <1>4 DEF Keeps, r

LEMMA RetrievalAnswerKeeps ==
  ASSUME NEW E, OwnCodes \subseteq E, NEW world, world.notes \in Seq(E), NEW decision, decision.warnings \in SUBSET RouterCodes,
         decision.confidence \in Int, NEW profile
  PROVE  Keeps(RetrievalAnswer(decision, profile, world), profile.id)
<1> DEFINE codes == DecisionCodes(decision, profile) \o world.notes
           low == decision.confidence < Low \/ Range(codes) \cap LowCodes # {}
           noted == IF Range(codes) \cap LowCodes = {} THEN codes \o <<"retrieval.low_confidence">> ELSE codes
           plain == Deduped(codes)
           zero == Deduped(codes \o <<"retrieval.zero_result">>)
           marked == Deduped(noted)
           r == RetrievalAnswer(decision, profile, world)
<1>1. codes \in Seq(E) BY CodesAreListed, ConcatProperties
<1>2. /\ Cardinality(Range(plain)) = Len(plain) /\ Range(plain) = Range(codes)
      /\ Cardinality(Range(zero)) = Len(zero) /\ "retrieval.zero_result" \in Range(zero)
  <2> HIDE DEF codes
  <2>1. Once(codes, E) BY <1>1, EachCodeOnce
  <2>2. "retrieval.zero_result" \in E BY DEF OwnCodes
  <2>3. Cardinality(Range(zero)) = Len(zero) /\ "retrieval.zero_result" \in Range(zero)
    BY <1>1, <2>2, OnceMore
  <2> QED BY <2>1, <2>3 DEF Once
<1>3. Cardinality(Range(marked)) = Len(marked) /\ Range(marked) \cap LowCodes # {}
  <2> HIDE DEF codes
  <2>1. CASE Range(codes) \cap LowCodes = {}
    <3>1. "retrieval.low_confidence" \in E BY DEF OwnCodes
    <3>2. marked = Deduped(codes \o <<"retrieval.low_confidence">>) BY <2>1
    <3>3. Cardinality(Range(marked)) = Len(marked) /\ "retrieval.low_confidence" \in Range(marked)
      BY <1>1, <3>1, <3>2, OnceMore
    <3> QED BY <3>3 DEF LowCodes
  <2>2. CASE Range(codes) \cap LowCodes # {}
    <3>1. marked = plain BY <2>2
    <3> HIDE DEF plain, marked
    <3> QED BY <1>2, <2>2, <3>1
  <2> QED BY <2>1, <2>2
<1>4. LowConfidence(decision) < 50
  <2>1. Min({10000, decision.confidence * 85 + 1500}) \in Int BY LeastOfTwo
  <2>2. BaseConfidence(decision) \in Int BY <2>1 DEF BaseConfidence
  <2> QED BY <2>2, LeastOfTwo DEF LowConfidence
<1>5. \/ /\ r.status = "zero_result" /\ r.warnings = zero /\ r.next = TRUE
         /\ r.items = FALSE /\ r.evidence = FALSE /\ r.candidates = {}
      \/ /\ r.status = "partial_ready" /\ r.warnings = plain /\ r.index = TRUE /\ r.profile = profile.id
         /\ "index.partial_ready" \in Range(world.notes)
      \/ /\ r.status = "low_confidence" /\ r.warnings = marked /\ r.confidence = LowConfidence(decision)
         /\ r.evidence = TRUE /\ r.profile = profile.id
      \/ r.status = "ok" /\ r.warnings = plain /\ r.profile = profile.id
  <2> DEFINE found == [Result("ok", BaseConfidence(decision), plain)
                         EXCEPT !.items = TRUE, !.evidence = EvidenceFor(world.hits), !.profile = profile.id]
             none == [Result("zero_result", 0, zero) EXCEPT !.next = TRUE]
             weak == [found EXCEPT !.status = "low_confidence", !.warnings = marked, !.confidence = LowConfidence(decision)]
             empty == [Result("partial_ready", BaseConfidence(decision), plain)
                         EXCEPT !.next = TRUE, !.profile = profile.id, !.index = TRUE]
             partial == [found EXCEPT !.status = "partial_ready", !.index = TRUE]
  <2>1. r = IF world.hits = "none" /\ IndexStatus(world) THEN empty
            ELSE IF world.hits = "none" THEN none
            ELSE IF IndexStatus(world) THEN partial
            ELSE IF low THEN weak ELSE found
    BY DEF RetrievalAnswer
  <2> HIDE DEF codes, low, noted, plain, zero, marked, r
  <2>2. found.status = "ok" /\ found.warnings = plain /\ found.profile = profile.id /\ found.evidence = EvidenceFor(world.hits)
    BY DEF Result
  <2>3. /\ none.status = "zero_result" /\ none.warnings = zero /\ none.next = TRUE
        /\ none.items = FALSE /\ none.evidence = FALSE /\ none.candidates = {}
    BY DEF Result
  <2>4. /\ weak.status = "low_confidence" /\ weak.warnings = marked /\ weak.confidence = LowConfidence(decision)
        /\ weak.evidence = EvidenceFor(world.hits) /\ weak.profile = profile.id
    BY DEF Result
  <2>5. /\ empty.status = "partial_ready" /\ empty.warnings = plain /\ empty.index = TRUE /\ empty.profile = profile.id
        /\ partial.status = "partial_ready" /\ partial.warnings = plain /\ partial.index = TRUE
        /\ partial.profile = profile.id
    BY DEF Result
  <2> HIDE DEF found, none, weak, empty, partial
  <2>6. world.hits # "none" => EvidenceFor(world.hits) = TRUE BY DEF EvidenceFor
  <2>7. IndexStatus(world) => "index.partial_ready" \in Range(world.notes) BY DEF IndexStatus
  <2> QED BY <2>1, <2>2, <2>3, <2>4, <2>5, <2>6, <2>7
<1>6. \A c \in Range(world.notes) : c \in Range(codes)
  <2>1. DecisionCodes(decision, profile) \in Seq(E) BY CodesAreListed
  <2> HIDE DEF codes
  <2> QED BY <2>1, RangeConcatenation DEF codes
<1> HIDE DEF codes, low, noted, plain, zero, marked, r
<1>7. Contract(r) BY <1>2, <1>3, <1>4, <1>5, <1>6 DEF Contract, LowCodes
<1> QED BY <1>5, <1>7 DEF Keeps, r

-----------------------------------------------------------------------------
(* What is delivered.                                                      *)

LEMMA BlockedKeeps ==
  ASSUME NEW code, NEW id
  PROVE  Keeps(Result("blocked", 0, <<code>>), id)
<1> DEFINE r == Result("blocked", 0, <<code>>)
<1>1. /\ r.status = "blocked" /\ r.warnings = <<code>> /\ r.items = FALSE /\ r.candidates = {} /\ r.evidence = FALSE
  BY DEF Result
<1>2. Range(<<code>>) = {code} /\ Len(<<code>>) = 1 BY DEF Range
<1> HIDE DEF r
<1>3. Cardinality(Range(r.warnings)) = Len(r.warnings) /\ Range(r.warnings) # {} BY <1>1, <1>2, FS_Singleton
<1>4. Contract(r) BY <1>1, <1>3 DEF Contract
<1> QED BY <1>1, <1>4 DEF Keeps, r

\* A search ends with an answer that keeps its contract, or with what reading
\* raised; and what it finds out about a question that depends on the profile
\* is about a resolved one.
LEMMA SearchKeeps ==
  ASSUME NEW request, NEW tool, NEW world \in Worlds, NEW decision, Routed(request, decision),
         NEW profile, Resolved(decision, profile, world),
         NEW r, r = Search(request, tool, decision, profile, world)
  PROVE  \/ r = Failure /\ world.fails
         \/ /\ Contract(r) /\ r.status # "error"
            /\ r.status \in {"ok", "low_confidence", "partial_ready"} /\ Sensitive(decision) /\ "none" \notin Value(request, "profile_id") =>
                 r.profile \in Known(world)
<1> DEFINE E == OwnCodes \cup Range(world.notes)
           asked == Sensitive(decision) /\ "none" \notin Value(request, "profile_id")
<1>1. world.notes \in Seq(Range(world.notes)) BY WorldsAssumption
<1>2. OwnCodes \subseteq E /\ world.notes \in Seq(E) BY <1>1, SeqMonotonic
<1> HIDE DEF E
<1>3. decision.confidence \in Int /\ decision.warnings \in SUBSET RouterCodes BY DEF Routed
<1>4. CASE decision.profile /\ world.blocked
  <2>1. r = Result("blocked", 0, <<"security.path_blocked">>) BY <1>4 DEF Search, BlockedAnswer
  <2>2. Keeps(r, NoProfile) /\ r.status = "blocked" BY <2>1, BlockedKeeps DEF Result
  <2> QED BY <2>2 DEF Keeps
<1>5. CASE ~(decision.profile /\ world.blocked) /\ profile.status \in Blocking /\ Sensitive(decision)
  <2>1. r = ProfileAnswer(decision, profile) BY <1>5 DEF Search
  <2>2. Keeps(r, profile.id) BY <1>2, <1>3, <2>1, ProfileAnswerKeeps DEF Resolved
  <2>3. r.status \in {"multi_result", "ambiguous"} BY <2>1 DEF ProfileAnswer, Result
  <2> QED BY <2>2, <2>3 DEF Keeps
<1>6. CASE ~(decision.profile /\ world.blocked) /\ ~(profile.status \in Blocking /\ Sensitive(decision))
  <2>1. asked => profile.id \in Known(world)
    BY <1>6 DEF Routed, Resolved
  <2>2. CASE world.fails
    BY <1>6, <2>2 DEF Search
  <2>3. CASE ~world.fails
    <3>1. Keeps(r, profile.id)
      <4>1. CASE IsMatrix(request, tool, decision, profile, world)
        <5>1. r = MatrixAnswer(request, tool, decision, profile, world) BY <1>6, <2>3, <4>1 DEF Search
        <5> QED BY <1>2, <1>3, <5>1, MatrixAnswerKeeps
      <4>2. CASE ~IsMatrix(request, tool, decision, profile, world)
        <5>1. r = RetrievalAnswer(decision, profile, world) BY <1>6, <2>3, <4>2 DEF Search
        <5> QED BY <1>2, <1>3, <5>1, RetrievalAnswerKeeps
      <4> QED BY <4>1, <4>2
    <3> QED BY <2>1, <3>1 DEF Keeps
  <2> QED BY <2>2, <2>3
<1> QED BY <1>4, <1>5, <1>6

\* Whoever asks gets an answer that keeps its contract.
LEMMA DeliveredIsKept ==
  ASSUME NEW tool, NEW r, NEW world \in Worlds, NEW sensitive, NEW asked, sensitive \in BOOLEAN, asked \in BOOLEAN,
         Deliver(tool, r, world, sensitive, asked),
         \/ world.fails
         \/ Contract(r) /\ r.status # "error",
         Contract(r) /\ r.status \in {"ok", "low_confidence", "partial_ready"} /\ sensitive /\ asked => r.profile \in Known(world)
  PROVE  AnswersKeepContract'
<1>1. /\ answer'.status = (IF Contract(r) THEN r.status ELSE "error") /\ answer'.fails = world.fails
      /\ answer'.sensitive = sensitive /\ answer'.asked = asked
      /\ answer'.profile = r.profile /\ answer'.known = Known(world)
  BY DEF Deliver, Known
<1>2. world.fails \in BOOLEAN BY WorldsAssumption
<1>3. answer'.status = "error" => answer'.fails BY <1>1, <1>2
<1>4. answer'.status \in {"ok", "low_confidence", "partial_ready"} /\ answer'.sensitive /\ answer'.asked =>
        answer'.profile \in answer'.known
  BY <1>1
<1> QED BY <1>3, <1>4 DEF AnswersKeepContract

LEMMA AskKeeps ==
  ASSUME NEW tool \in DOMAIN SearchTools, Asked(question), Ask(tool)
  PROVE  AnswersKeepContract'
<1> DEFINE request == Request(tool, question)
           decision == Route(request)
<1>1. PICK world \in Worlds : \E profile \in {ProfileOf(request, decision, world)} :
        Deliver(tool, Search(request, tool, decision, profile, world), world,
                Sensitive(decision), "none" \notin Value(request, "profile_id"))
  BY DEF Ask
<1> DEFINE profile == ProfileOf(request, decision, world)
           r == Search(request, tool, decision, profile, world)
           sensitive == Sensitive(decision)
           asked == "none" \notin Value(request, "profile_id")
<1>2. Deliver(tool, r, world, sensitive, asked) BY <1>1
<1>3. Routed(request, decision) BY RequestIsAsked, RequestIsRouted
<1>4. Resolved(decision, profile, world) BY ProfileIsResolved
<1>5. sensitive \in BOOLEAN /\ asked \in BOOLEAN BY DEF Sensitive
<1>6. \/ r = Failure /\ world.fails
      \/ /\ Contract(r) /\ r.status # "error"
         /\ r.status \in {"ok", "low_confidence", "partial_ready"} /\ sensitive /\ asked => r.profile \in Known(world)
  <2> HIDE DEF request, decision, profile
  <2> QED BY <1>3, <1>4, SearchKeeps
<1> HIDE DEF request, decision, profile, r, sensitive, asked
<1>7. Failure.status = "error" BY DEF Failure, Result
<1>8. /\ world.fails \/ (Contract(r) /\ r.status # "error")
      /\ Contract(r) /\ r.status \in {"ok", "low_confidence", "partial_ready"} /\ sensitive /\ asked => r.profile \in Known(world)
  BY <1>6, <1>7
<1> QED BY <1>2, <1>5, <1>8, DeliveredIsKept

LEMMA AskDirectlyKeeps ==
  ASSUME NEW tool, AskDirectly(tool)
  PROVE  AnswersKeepContract'
<1>1. PICK world \in Worlds :
        Deliver(tool,
                IF world.blocked THEN BlockedAnswer
                ELSE IF world.fails THEN Failure
                ELSE IF world.hits = "none"
                THEN [Result("zero_result", 0, <<"retrieval.zero_result">>) EXCEPT !.next = TRUE]
                ELSE [Result("ok", 100, <<>>) EXCEPT !.items = TRUE, !.evidence = tool = "evidence_bundle"],
                world, FALSE, FALSE)
  BY DEF AskDirectly
<1> DEFINE zero == [Result("zero_result", 0, <<"retrieval.zero_result">>) EXCEPT !.next = TRUE]
           ok == [Result("ok", 100, <<>>) EXCEPT !.items = TRUE, !.evidence = tool = "evidence_bundle"]
           r == IF world.blocked THEN BlockedAnswer ELSE IF world.fails THEN Failure
                ELSE IF world.hits = "none" THEN zero ELSE ok
<1>2. Deliver(tool, r, world, FALSE, FALSE) BY <1>1
<1>3. Contract(BlockedAnswer) /\ BlockedAnswer.status # "error"
  <2>1. Keeps(Result("blocked", 0, <<"security.path_blocked">>), NoProfile) BY BlockedKeeps
  <2> QED BY <2>1 DEF Keeps, BlockedAnswer
<1>4. Contract(zero) /\ zero.status # "error"
  <2>1. /\ zero.status = "zero_result" /\ zero.warnings = <<"retrieval.zero_result">> /\ zero.next = TRUE
        /\ zero.items = FALSE /\ zero.evidence = FALSE /\ zero.candidates = {}
    BY DEF Result
  <2>2. Range(<<"retrieval.zero_result">>) = {"retrieval.zero_result"} /\ Len(<<"retrieval.zero_result">>) = 1
    BY DEF Range
  <2> HIDE DEF zero
  <2>3. Cardinality(Range(zero.warnings)) = Len(zero.warnings) BY <2>1, <2>2, FS_Singleton
  <2> QED BY <2>1, <2>2, <2>3 DEF Contract
<1>5. Contract(ok) /\ ok.status # "error"
  <2>1. ok.status = "ok" /\ ok.warnings = <<>> BY DEF Result
  <2>2. Range(<<>>) = {} /\ Len(<<>>) = 0 BY DEF Range
  <2> HIDE DEF ok
  <2>3. Cardinality(Range(ok.warnings)) = Len(ok.warnings) BY <2>1, <2>2, FS_EmptySet
  <2> QED BY <2>1, <2>3 DEF Contract
<1>6. world.fails \/ (Contract(r) /\ r.status # "error")
  <2> HIDE DEF zero, ok
  <2> QED BY <1>3, <1>4, <1>5
<1> HIDE DEF r, zero, ok
<1> QED BY <1>2, <1>6, DeliveredIsKept

LEMMA AskNothingKeeps ==
  ASSUME AskNothing
  PROVE  AnswersKeepContract'
<1> DEFINE r == Result("blocked", 0, <<"input.missing_locator">>)
<1>1. PICK world \in Worlds : Deliver("evidence_bundle", r, world, FALSE, FALSE) BY DEF AskNothing
<1>2. Keeps(r, NoProfile) BY BlockedKeeps
<1> HIDE DEF r
<1> QED BY <1>1, <1>2, DeliveredIsKept DEF Keeps

-----------------------------------------------------------------------------
(* Whatever is asked, whatever the stores hold.                            *)

AnswersInv == Asked(question) /\ AnswersKeepContract

LEMMA WordedIsAsked ==
  ASSUME Asked(question), RouterNext
  PROVE  Asked(question')
<1>1. PICK item \in Vocabulary : Add(item) BY DEF RouterNext
<1>2. question' = question \cup {item} BY <1>1 DEF Add
<1>3. Accepted(item) BY RouterAssumption
<1>4. IsFiniteSet(question \cup {item}) BY FS_AddElement DEF Asked
<1> QED BY <1>2, <1>3, <1>4 DEF Asked

LEMMA AnswersInvHolds == AnswersSpec => []AnswersInv
<1>1. AnswersInit => AnswersInv
  BY FS_EmptySet DEF AnswersInit, RouterInit, AnswersInv, Asked, AnswersKeepContract
<1>2. ASSUME AnswersInv, [AnswersNext]_answerVars PROVE AnswersInv'
  <2>1. CASE RouterNext /\ UNCHANGED answer
    <3>1. Asked(question') BY <1>2, <2>1, WordedIsAsked DEF AnswersInv
    <3>2. AnswersKeepContract' BY <1>2, <2>1 DEF AnswersInv, AnswersKeepContract
    <3> QED BY <3>1, <3>2 DEF AnswersInv, Asked
  <2>2. ASSUME NEW tool \in DOMAIN SearchTools, Ask(tool) PROVE AnswersInv'
    <3>1. AnswersKeepContract' BY <1>2, <2>2, AskKeeps DEF AnswersInv
    <3>2. question' = question BY <2>2 DEF Ask
    <3> QED BY <1>2, <3>1, <3>2 DEF AnswersInv, Asked
  <2>3. ASSUME NEW tool, AskDirectly(tool) PROVE AnswersInv'
    <3>1. AnswersKeepContract' BY <2>3, AskDirectlyKeeps
    <3>2. question' = question BY <2>3 DEF AskDirectly
    <3> QED BY <1>2, <3>1, <3>2 DEF AnswersInv, Asked
  <2>4. CASE AskNothing
    <3>1. AnswersKeepContract' BY <2>4, AskNothingKeeps
    <3>2. question' = question BY <2>4 DEF AskNothing
    <3> QED BY <1>2, <3>1, <3>2 DEF AnswersInv, Asked
  <2>5. CASE UNCHANGED answerVars
    BY <1>2, <2>5 DEF answerVars, AnswersInv, Asked, AnswersKeepContract
  <2> QED BY <1>2, <2>1, <2>2, <2>3, <2>4, <2>5 DEF AnswersNext
<1> QED BY <1>1, <1>2, PTL DEF AnswersSpec

\* Every answer keeps the contract of its status, whichever words, parameters
\* and tool it was asked with and whatever the stores hold: a tool answers with
\* an error only when reading failed, and an answer to a question that depends
\* on the profile is about one profile of the workspace (mcp/tools.py
\* _execute_search_tool, query/service.py search).
THEOREM AnswersAreKept == AnswersSpec => []AnswersKeepContract
<1>1. AnswersInv => AnswersKeepContract BY DEF AnswersInv
<1> QED BY <1>1, AnswersInvHolds, PTL

-----------------------------------------------------------------------------
(* What signals weigh together.                                            *)

LEMMA MoreSignalsWeighMore ==
  ASSUME NEW q, Asked(q), NEW r, Asked(r), NEW intent, SignalsOf(q, intent) \subseteq SignalsOf(r, intent)
  PROVE  /\ Gathered(q, intent) <= Gathered(r, intent)
         /\ SignalsOf(q, intent) # SignalsOf(r, intent) => Gathered(q, intent) + 10 <= Gathered(r, intent)
<1> DEFINE few == SignalsOf(q, intent)
           many == SignalsOf(r, intent)
           f == Weights(r, intent)
           h == Weights(q, intent)
<1>1. /\ IsFiniteSet(few) /\ IsFiniteSet(many) /\ few \in SUBSET many
      /\ \A s \in many : f[s] = s[2][3] /\ f[s] \in Nat /\ f[s] >= 10
      /\ \A s \in few : h[s] = s[2][3]
      /\ Gathered(q, intent) = SumFunctionOnSet(h, few) /\ Gathered(r, intent) = SumFunctionOnSet(f, many)
  BY GatheredIsSum
<1> HIDE DEF few, many, f, h
<1>2. \A s \in few : f[s] \in Int /\ h[s] = f[s] BY <1>1
<1>3. SumFunctionOnSet(h, few) = SumFunctionOnSet(f, few) BY <1>1, <1>2, SumsAgree
<1>4. \A T \in SUBSET many : SumFunctionOnSet(f, T) \in Nat /\ SumFunctionOnSet(f, T) <= SumFunctionOnSet(f, many)
  BY <1>1, SumIsMonotone
<1>5. ASSUME few # many PROVE SumFunctionOnSet(f, few) + 10 <= SumFunctionOnSet(f, many)
  <2>1. PICK s \in many : s \notin few BY <1>1, <1>5
  <2> DEFINE rest == many \ {s}
  <2>2. rest \in SUBSET many /\ few \in SUBSET rest BY <1>1, <2>1
  <2>3. IsFiniteSet(rest) /\ \A x \in rest : f[x] \in Nat BY <1>1, <2>2, FS_Subset
  <2>4. SumFunctionOnSet(f, many) = f[s] + SumFunctionOnSet(f, rest) BY <1>1, SumOfElement DEF Summable
  <2> HIDE DEF rest
  <2>5. SumFunctionOnSet(f, few) <= SumFunctionOnSet(f, rest) BY <2>2, <2>3, SumIsMonotone
  <2>6. f[s] \in Nat /\ f[s] >= 10 /\ SumFunctionOnSet(f, few) \in Nat /\ SumFunctionOnSet(f, rest) \in Nat
    BY <1>1, <1>4, <2>2
  <2> QED BY <2>4, <2>5, <2>6
<1> QED BY <1>1, <1>3, <1>4, <1>5 DEF few, many

\* One signal is at most all of them, and at least ten more if it is not alone.
LEMMA OneSignalWeighs ==
  ASSUME NEW q, Asked(q), NEW intent, NEW s \in SignalsOf(q, intent)
  PROVE  /\ Gathered(q, intent) = s[2][3] \/ Gathered(q, intent) >= s[2][3] + 10
         /\ \A r \in SignalsOf(q, intent) : r # s => Gathered(q, intent) >= s[2][3] + 10
<1> DEFINE all == SignalsOf(q, intent)
           f == Weights(q, intent)
           rest == all \ {s}
<1>1. /\ IsFiniteSet(all) /\ \A x \in all : f[x] = x[2][3] /\ f[x] \in Nat /\ f[x] >= 10
      /\ Gathered(q, intent) = SumFunctionOnSet(f, all) /\ s \in all
  BY GatheredIsSum
<1> HIDE DEF all, f
<1>2. SumFunctionOnSet(f, all) = f[s] + SumFunctionOnSet(f, rest) BY <1>1, SumOfElement DEF Summable
<1>3. IsFiniteSet(rest) /\ Summable(f, rest) BY <1>1, FS_RemoveElement DEF Summable
<1>4. rest = {} => SumFunctionOnSet(f, rest) = 0 BY <1>3, SumOfElement
<1>5. ASSUME rest # {} PROVE SumFunctionOnSet(f, rest) >= 10
  <2>1. PICK r \in rest : TRUE BY <1>5
  <2>2. SumFunctionOnSet(f, rest) = f[r] + SumFunctionOnSet(f, rest \ {r}) BY <1>3, SumOfElement
  <2>3. IsFiniteSet(all) /\ (rest \ {r}) \in SUBSET all /\ \A x \in all : f[x] \in Nat BY <1>1
  <2>4. SumFunctionOnSet(f, rest \ {r}) \in Nat BY <2>3, SumIsMonotone
  <2>5. f[r] \in Nat /\ f[r] >= 10 BY <1>1
  <2> HIDE DEF rest
  <2> QED BY <2>2, <2>4, <2>5
<1>6. SumFunctionOnSet(f, rest) \in Int BY <1>3, SumOfElement
<1>7. f[s] \in Nat /\ f[s] = s[2][3] BY <1>1
<1>8. \A r \in all : r # s => rest # {} OBVIOUS
<1> HIDE DEF rest
<1> QED BY <1>1, <1>2, <1>4, <1>5, <1>6, <1>7, <1>8 DEF all

-----------------------------------------------------------------------------
(* What one more item changes.                                             *)

TermIntent(t) == TermSignals[t[1]][1]
SaysBoundary(q) == \E t \in Terms(q) : t = <<"navigation", "boundary between">>

LEMMA SpokenFor ==
  ASSUME NEW item, Accepted(item), NEW I, SpeaksFor(item) = {I}
  PROVE  /\ \A t \in Terms({item}) : TermIntent(t) = I /\ t[1] \in DOMAIN TermSignals
         /\ \A s \in ItemSignals(item) : s[1] = I
         /\ (\E t \in Terms({item}) : TRUE) \/ (\E s \in ItemSignals(item) : TRUE)
<1>1. Asked({item}) BY FS_Singleton DEF Asked
<1>2. \A t \in Terms({item}) : t[1] \in DOMAIN TermSignals BY <1>1, TermsAreFew
<1>3. SpeaksFor(item) = {TermIntent(t) : t \in Terms({item})} \cup {s[1] : s \in ItemSignals(item)}
  BY DEF SpeaksFor, TermIntent
<1> QED BY <1>2, <1>3

LEMMA MoreTerms ==
  ASSUME NEW q, NEW item
  PROVE  Terms(q \cup {item}) = Terms(q) \cup Terms({item})
<1> DEFINE Held(i) == IF i[1] = "compound" THEN Compound[i[2]] ELSE {i}
           Wordy(i) == i[1] \in DOMAIN TermSignals \cup {"compound"}
<1>1. \A p : Terms(p) = UNION {Held(i) : i \in {x \in p : Wordy(x)}} BY DEF Terms
<1>2. \A p, t : t \in Terms(p) <=> \E i \in p : Wordy(i) /\ t \in Held(i)
  <2> SUFFICES ASSUME NEW p, NEW t PROVE t \in Terms(p) <=> \E i \in p : Wordy(i) /\ t \in Held(i) OBVIOUS
  <2>1. Terms(p) = UNION {Held(i) : i \in {x \in p : Wordy(x)}} BY <1>1
  <2> HIDE DEF Held, Wordy
  <2> QED BY <2>1
<1> HIDE DEF Held, Wordy
<1>3. \A t : t \in Terms(q \cup {item}) <=> t \in Terms(q) \/ t \in Terms({item})
  BY <1>2
<1> QED BY <1>3

LEMMA VagueBefore ==
  ASSUME NEW q, Asked(q), NEW item, Accepted(item), NEW I, SpeaksFor(item) = {I}, Vague(q \cup {item}),
         IsFiniteSet(Words(q \cup {item}))
  PROVE  Vague(q)
<1> DEFINE r == q \cup {item}
<1>1. \A i \in q : i[1] \notin DOMAIN AnchorSignals \ {"register"} BY DEF Vague
<1>2. item[1] # "pronoun"
  <2> SUFFICES ASSUME item[1] = "pronoun" PROVE FALSE OBVIOUS
  <2>1. "pronoun" \notin DOMAIN TermSignals \cup {"compound"} BY DEF TermSignals
  <2>2. "pronoun" \notin DOMAIN AnchorSignals BY DEF AnchorSignals
  <2>3. ItemSignals(item) = {} BY <2>2 DEF ItemSignals
  <2>4. \A t \in Terms({item}) : FALSE BY <2>1 DEF Terms
  <2> QED BY <2>3, <2>4, SpokenFor
<1>3. Value(r, "pronoun") = Value(q, "pronoun") BY <1>2 DEF Value
<1>4. Words(q) \in SUBSET Words(r) BY DEF Words
<1>5. Cardinality(Words(r)) <= ShortWords => Cardinality(Words(q)) <= ShortWords
  <2>1. IsFiniteSet(Words(q)) /\ Cardinality(Words(q)) <= Cardinality(Words(r)) BY <1>4, FS_Subset
  <2>2. Cardinality(Words(q)) \in Nat /\ Cardinality(Words(r)) \in Nat /\ ShortWords \in Nat
    BY <2>1, FS_CardinalityType, RouterAssumption
  <2> QED BY <2>1, <2>2
<1> QED BY <1>1, <1>3, <1>5 DEF Vague

\* An item that speaks for I alone: the others gain nothing, and none but
\* "unknown" loses anything.
Grows(q, r, I) ==
  /\ Asked(q) /\ Asked(r)
  /\ \A J : J # I => SignalsOf(r, J) \subseteq SignalsOf(q, J)
  /\ \A J : J # "unknown" => SignalsOf(q, J) \subseteq SignalsOf(r, J)
  /\ \A L : Says(q, L) => Says(r, L)
  /\ \A L \in DOMAIN TermSignals : TermSignals[L][1] # I /\ Says(r, L) => Says(q, L)
  /\ Says(r, "modifier") => Says(q, "modifier")
  /\ SaysBoundary(q) => SaysBoundary(r)
  /\ I # "workspace_nav" /\ SaysBoundary(r) => SaysBoundary(q)
  /\ I \in {"project_context", "product_context"} => SignalsOf(q, I) # SignalsOf(r, I)

LEMMA SignalsOfBoth ==
  ASSUME NEW q, Asked(q), NEW item, Accepted(item), NEW I, SpeaksFor(item) = {I}
  PROVE  /\ \A J : J # I => SignalsOf(q \cup {item}, J) \subseteq SignalsOf(q, J)
         /\ \A J : J # "unknown" => SignalsOf(q, J) \subseteq SignalsOf(q \cup {item}, J)
<1> DEFINE r == q \cup {item}
<1>1. \A p, s : s \in Signals(p) <=>
        \/ \E i \in p : \E x \in ItemSignals(i) : s = <<i, x>>
        \/ \E t \in Terms(p) : s = <<t, TermSignals[t[1]]>>
        \/ Vague(p) /\ s = <<<<"question", "whole">>, <<"unknown", "vague_query", 45>>>>
  <2> SUFFICES ASSUME NEW p, NEW s
               PROVE  s \in Signals(p) <=>
                        \/ \E i \in p : \E x \in ItemSignals(i) : s = <<i, x>>
                        \/ \E t \in Terms(p) : s = <<t, TermSignals[t[1]]>>
                        \/ Vague(p) /\ s = <<<<"question", "whole">>, <<"unknown", "vague_query", 45>>>>
    OBVIOUS
  <2>1. s \in Signals(p) <=> s \in ItemPairs(p) \/ s \in TermPairs(p) \/ s \in WholePairs(p) BY SignalsAreThree
  <2>2. s \in ItemPairs(p) <=> \E i \in p : \E x \in ItemSignals(i) : s = <<i, x>> BY DEF ItemPairs
  <2>3. s \in TermPairs(p) <=> \E t \in Terms(p) : s = <<t, TermSignals[t[1]]>> BY DEF TermPairs
  <2>4. s \in WholePairs(p) <=> Vague(p) /\ s = <<<<"question", "whole">>, <<"unknown", "vague_query", 45>>>>
    BY DEF WholePairs
  <2> QED BY <2>1, <2>2, <2>3, <2>4
<1>2. Terms(r) = Terms(q) \cup Terms({item}) BY MoreTerms
<1>3. Vague(r) => Vague(q)
  <2>1. IsFiniteSet(r) BY FS_AddElement DEF Asked
  <2>2. IsFiniteSet(Words(r)) BY <2>1, FS_Subset DEF Words
  <2> QED BY <2>2, VagueBefore
<1>4. /\ \A t \in Terms({item}) : TermIntent(t) = I
      /\ \A x \in ItemSignals(item) : x[1] = I
  BY SpokenFor
<1>5. ASSUME NEW J, J # I, NEW s \in SignalsOf(r, J) PROVE s \in SignalsOf(q, J)
  <2>1. s \in Signals(r) /\ s[2][1] = J BY <1>5 DEF SignalsOf
  <2>2. CASE \E i \in r : \E x \in ItemSignals(i) : s = <<i, x>>
    <3>1. PICK i \in r : \E x \in ItemSignals(i) : s = <<i, x>> BY <2>2
    <3>2. i # item BY <1>4, <1>5, <2>1, <3>1
    <3>3. i \in q BY <3>2
    <3>4. s \in Signals(q) BY <1>1, <3>1, <3>3
    <3> QED BY <2>1, <3>4 DEF SignalsOf
  <2>3. CASE \E t \in Terms(r) : s = <<t, TermSignals[t[1]]>>
    <3>1. PICK t \in Terms(r) : s = <<t, TermSignals[t[1]]>> BY <2>3
    <3>2. t \notin Terms({item}) BY <1>4, <1>5, <2>1, <3>1 DEF TermIntent
    <3>3. t \in Terms(q) BY <1>2, <3>2
    <3>4. s \in Signals(q) BY <1>1, <3>1, <3>3
    <3> QED BY <2>1, <3>4 DEF SignalsOf
  <2>4. CASE Vague(r) /\ s = <<<<"question", "whole">>, <<"unknown", "vague_query", 45>>>>
    <3>1. s \in Signals(q) BY <1>1, <1>3, <2>4
    <3> QED BY <2>1, <3>1 DEF SignalsOf
  <2> QED BY <1>1, <2>1, <2>2, <2>3, <2>4
<1>6. ASSUME NEW J, J # "unknown", NEW s \in SignalsOf(q, J) PROVE s \in SignalsOf(r, J)
  <2>1. s \in Signals(q) /\ s[2][1] = J BY <1>6 DEF SignalsOf
  <2>2. \/ \E i \in q : \E x \in ItemSignals(i) : s = <<i, x>>
        \/ \E t \in Terms(q) : s = <<t, TermSignals[t[1]]>>
        \/ s = <<<<"question", "whole">>, <<"unknown", "vague_query", 45>>>>
    BY <1>1, <2>1
  <2>3. s # <<<<"question", "whole">>, <<"unknown", "vague_query", 45>>>> BY <1>6, <2>1
  <2>4. \/ \E i \in r : \E x \in ItemSignals(i) : s = <<i, x>>
        \/ \E t \in Terms(r) : s = <<t, TermSignals[t[1]]>>
    BY <1>2, <2>2, <2>3
  <2>5. s \in Signals(r) BY <1>1, <2>4
  <2> QED BY <2>1, <2>5 DEF SignalsOf
<1> QED BY <1>5, <1>6

\* No compound holds a term of the projects or products: what speaks for one of
\* them is a signal the question did not give.
LEMMA NewSignal ==
  ASSUME NEW q, Asked(q), NEW item, item \notin q, Accepted(item), NEW I \in {"project_context", "product_context"},
         SpeaksFor(item) = {I}
  PROVE  SignalsOf(q, I) # SignalsOf(q \cup {item}, I)
<1> DEFINE r == q \cup {item}
           whole == <<<<"question", "whole">>, <<"unknown", "vague_query", 45>>>>
<1>1. /\ \A t \in Terms({item}) : TermIntent(t) = I /\ t[1] \in DOMAIN TermSignals
      /\ \A s \in ItemSignals(item) : s[1] = I
      /\ (\E t \in Terms({item}) : TRUE) \/ (\E s \in ItemSignals(item) : TRUE)
  BY SpokenFor
<1>2. \A t \in CompoundTerms : TermIntent(t) # I BY DEF CompoundTerms, TermIntent, TermSignals
<1>3. ASSUME NEW t \in Terms({item}) PROVE t = item /\ item \notin Terms(q)
  <2>1. t \notin CompoundTerms BY <1>1, <1>2
  <2>2. Asked({item}) BY FS_Singleton DEF Asked
  <2>3. t \in {item} \cup CompoundTerms BY <2>2, TermsAreFew
  <2>4. t = item BY <2>1, <2>3
  <2>5. item \notin Terms(q) BY <2>1, <2>4, TermsAreFew
  <2> QED BY <2>4, <2>5
<1>4. CASE \E t \in Terms({item}) : TRUE
  <2>1. item \in Terms({item}) /\ item \notin Terms(q) BY <1>3, <1>4
  <2> DEFINE s == <<item, TermSignals[item[1]]>>
  <2>2. s \in TermPairs(r)
    <3>1. item \in Terms(r) BY <2>1, MoreTerms
    <3> HIDE DEF r
    <3> QED BY <3>1 DEF TermPairs
  <2>3. s \in SignalsOf(r, I) BY <1>1, <2>1, <2>2, SignalsAreThree DEF SignalsOf, TermIntent
  <2>4. s \notin ItemPairs(q) BY DEF ItemPairs
  <2>5. s \notin TermPairs(q) BY <2>1 DEF TermPairs
  <2>6. s \notin WholePairs(q)
    <3>1. item[1] \in DOMAIN TermSignals BY <1>1, <2>1
    <3>2. "question" \notin DOMAIN TermSignals BY DEF TermSignals
    <3>3. item # <<"question", "whole">> BY <3>1, <3>2
    <3> QED BY <3>3 DEF WholePairs
  <2>7. s \notin SignalsOf(q, I) BY <2>4, <2>5, <2>6, SignalsAreThree DEF SignalsOf
  <2> QED BY <2>3, <2>7
<1>5. CASE (\E s \in ItemSignals(item) : TRUE) /\ ~(\E t \in Terms({item}) : TRUE)
  <2>1. PICK x \in ItemSignals(item) : TRUE BY <1>5
  <2> DEFINE s == <<item, x>>
  <2>2. s \in ItemPairs(r) /\ x[1] = I BY <1>1, <2>1 DEF ItemPairs
  <2>3. s \in SignalsOf(r, I) BY <2>2, SignalsAreThree DEF SignalsOf
  <2>4. s \notin ItemPairs(q) BY DEF ItemPairs
  <2>5. item \notin Terms(q)
    <3> SUFFICES ASSUME item \in Terms(q) PROVE FALSE OBVIOUS
    <3>1. item[1] \in DOMAIN TermSignals BY TermsAreFew
    <3>2. "compound" \notin DOMAIN TermSignals BY DEF TermSignals
    <3>3. item \in Terms({item}) BY <3>1, <3>2 DEF Terms
    <3> QED BY <1>5, <3>3
  <2>6. s \notin TermPairs(q) BY <2>5 DEF TermPairs
  <2>7. s \notin WholePairs(q) BY <2>2 DEF WholePairs
  <2>8. s \notin SignalsOf(q, I) BY <2>4, <2>6, <2>7, SignalsAreThree DEF SignalsOf
  <2> QED BY <2>3, <2>8
<1> QED BY <1>1, <1>4, <1>5

LEMMA OneItemGrows ==
  ASSUME NEW q, Asked(q), NEW item, item \notin q, Accepted(item), NEW I, SpeaksFor(item) = {I},
         ~Says({item}, "modifier")
  PROVE  Grows(q, q \cup {item}, I)
<1> DEFINE r == q \cup {item}
<1>1. Asked(r) BY FS_AddElement DEF Asked
<1>2. Terms(r) = Terms(q) \cup Terms({item}) BY MoreTerms
<1>3. \A t \in Terms({item}) : TermIntent(t) = I /\ t[1] \in DOMAIN TermSignals BY SpokenFor
<1> HIDE DEF r
<1>4. \A L : Says(q, L) => Says(r, L) BY <1>2 DEF Says
<1>5. \A L \in DOMAIN TermSignals : TermSignals[L][1] # I /\ Says(r, L) => Says(q, L)
  BY <1>2, <1>3 DEF Says, TermIntent
<1>6. Says(r, "modifier") => Says(q, "modifier") BY <1>2 DEF Says
<1>7. SaysBoundary(q) => SaysBoundary(r) BY <1>2 DEF SaysBoundary
<1>8. I # "workspace_nav" /\ SaysBoundary(r) => SaysBoundary(q)
  <2>1. TermIntent(<<"navigation", "boundary between">>) = "workspace_nav" BY DEF TermIntent, TermSignals
  <2> QED BY <1>2, <1>3, <2>1 DEF SaysBoundary
<1>9. /\ \A J : J # I => SignalsOf(r, J) \subseteq SignalsOf(q, J)
      /\ \A J : J # "unknown" => SignalsOf(q, J) \subseteq SignalsOf(r, J)
  BY SignalsOfBoth DEF r
<1>10. I \in {"project_context", "product_context"} => SignalsOf(q, I) # SignalsOf(r, I)
  BY NewSignal DEF r
<1> QED BY <1>1, <1>4, <1>5, <1>6, <1>7, <1>8, <1>9, <1>10 DEF Grows, r

-----------------------------------------------------------------------------
(* How the scores move then.                                               *)

Symbols(q) == {s \in SignalsOf(q, "call_trace") : s[2][2] = "symbol_like"}

LEMMA TermIntents ==
  /\ {"exact", "concept", "trace", "runtime", "keyword", "profile", "api", "widget", "navigation", "product", "project",
      "evidence", "modifier"} = DOMAIN TermSignals
  /\ TermSignals["exact"] = <<"code_exact", "lookup_phrase", 35>> /\ TermSignals["concept"] = <<"code_concept", "concept_phrase", 35>>
  /\ TermSignals["trace"] = <<"call_trace", "trace_phrase", 45>> /\ TermSignals["runtime"] = <<"runtime_flow", "runtime_phrase", 45>>
  /\ TermSignals["keyword"] = <<"runtime_flow", "runtime_keyword", 25>> /\ TermSignals["profile"] = <<"profile_diff", "profile_keyword", 35>>
  /\ TermSignals["navigation"] = <<"workspace_nav", "navigation_phrase", 45>>
  /\ TermSignals["product"] = <<"product_context", "product_keyword", 40>>
  /\ TermSignals["project"] = <<"project_context", "project_keyword", 40>>
BY DEF TermSignals

LEMMA TypesGrow ==
  ASSUME NEW q, NEW r, NEW J, SignalsOf(q, J) \subseteq SignalsOf(r, J)
  PROVE  Types(q, J) \subseteq Types(r, J)
BY DEF Types

LEMMA SymbolsGrow ==
  ASSUME NEW q, Asked(q), NEW r, Asked(r), SignalsOf(q, "call_trace") \subseteq SignalsOf(r, "call_trace")
  PROVE  /\ Cardinality(Symbols(q)) \in Nat /\ Cardinality(Symbols(r)) \in Nat
         /\ Cardinality(Symbols(q)) <= Cardinality(Symbols(r))
<1>1. Symbols(q) \in SUBSET Symbols(r) /\ Symbols(r) \in SUBSET SignalsOf(r, "call_trace") BY DEF Symbols
<1>2. IsFiniteSet(Symbols(r)) BY <1>1, GatheredIsSum, FS_Subset
<1>3. IsFiniteSet(Symbols(q)) /\ Cardinality(Symbols(q)) <= Cardinality(Symbols(r)) BY <1>1, <1>2, FS_Subset
<1> QED BY <1>2, <1>3, FS_CardinalityType

LEMMA ExactBonus ==
  \A q : Bonus(q, "code_exact") = IF Says(q, "exact") /\ ~Says(q, "profile") THEN 10 ELSE 0
BY DEF Bonus

LEMMA NavigationBonus ==
  \A q : Bonus(q, "workspace_nav") = (IF Says(q, "navigation") THEN 10 ELSE 0) + (IF SaysBoundary(q) THEN 20 ELSE 0)
BY DEF Bonus, SaysBoundary

LEMMA TraceBonus ==
  \A q : Bonus(q, "call_trace") =
    IF ~Says(q, "trace") \/ Cardinality(Symbols(q)) = 0 THEN 0 ELSE IF Cardinality(Symbols(q)) >= 2 THEN 15 ELSE 10
BY DEF Bonus, Symbols

LEMMA RuntimeBonus ==
  \A q : Bonus(q, "runtime_flow") = IF Says(q, "runtime") /\ Says(q, "keyword") THEN 15 ELSE 0
BY DEF Bonus

LEMMA ConceptBonus ==
  \A q : Bonus(q, "code_concept") =
    IF Says(q, "concept") /\ "path_like" \in Types(q, "code_concept") /\ ~Says(q, "navigation") THEN 15 ELSE 0
BY DEF Bonus

LEMMA ProjectBonus ==
  \A q : Bonus(q, "project_context") = IF Says(q, "project") THEN 15 ELSE 0
BY DEF Bonus

LEMMA ProductBonus ==
  \A q : Bonus(q, "product_context") =
    IF Says(q, "project") THEN -Min({5, Gathered(q, "product_context")}) ELSE IF Says(q, "product") THEN 10 ELSE 0
BY DEF Bonus

LEMMA ApiBonus ==
  \A q : Bonus(q, "api_lookup") = IF {"api_keyword", "symbol_like"} \subseteq Types(q, "api_lookup") THEN 5 ELSE 0
BY DEF Bonus

LEMMA NoBonus ==
  \A q : \A J \in {"profile_diff", "widget_lookup", "evidence_lookup", "unknown"} : Bonus(q, J) = 0
BY DEF Bonus

LEMMA OthersGainNothing ==
  ASSUME NEW q, NEW r, NEW I, I # "unknown", Grows(q, r, I), NEW J \in Intents, J # I
  PROVE  Gathered(r, J) <= Gathered(q, J) /\ Bonus(r, J) <= Bonus(q, J)
<1>1. Asked(q) /\ Asked(r) /\ SignalsOf(r, J) \subseteq SignalsOf(q, J) BY DEF Grows
<1>2. Gathered(r, J) <= Gathered(q, J) BY <1>1, MoreSignalsWeighMore
<1>3. /\ \A L : Says(q, L) => Says(r, L)
      /\ \A L \in DOMAIN TermSignals : TermSignals[L][1] # I /\ Says(r, L) => Says(q, L)
      /\ SaysBoundary(q) => SaysBoundary(r)
      /\ I # "workspace_nav" /\ SaysBoundary(r) => SaysBoundary(q)
  BY DEF Grows
<1>4. Types(r, J) \subseteq Types(q, J) BY <1>1, TypesGrow
<1>5. CASE J \in {"code_exact", "workspace_nav", "runtime_flow", "code_concept", "project_context"}
  <2>1. Says(r, "exact") /\ I # "code_exact" => Says(q, "exact") BY <1>3, TermIntents
  <2>2. Says(r, "navigation") /\ I # "workspace_nav" => Says(q, "navigation") BY <1>3, TermIntents
  <2>3. Says(r, "runtime") /\ I # "runtime_flow" => Says(q, "runtime") BY <1>3, TermIntents
  <2>4. Says(r, "keyword") /\ I # "runtime_flow" => Says(q, "keyword") BY <1>3, TermIntents
  <2>5. Says(r, "concept") /\ I # "code_concept" => Says(q, "concept") BY <1>3, TermIntents
  <2>6. Says(r, "project") /\ I # "project_context" => Says(q, "project") BY <1>3, TermIntents
  <2>7. Bonus(r, J) <= Bonus(q, J)
    <3>1. CASE J = "code_exact" BY <1>3, <2>1, <3>1, ExactBonus
    <3>2. CASE J = "workspace_nav" BY <1>3, <2>2, <3>2, NavigationBonus
    <3>3. CASE J = "runtime_flow" BY <2>3, <2>4, <3>3, RuntimeBonus
    <3>4. CASE J = "code_concept" BY <1>3, <1>4, <2>5, <3>4, ConceptBonus
    <3>5. CASE J = "project_context" BY <2>6, <3>5, ProjectBonus
    <3> QED BY <1>5, <3>1, <3>2, <3>3, <3>4, <3>5
  <2> QED BY <1>2, <2>7
<1>6. CASE J = "call_trace"
  <2>1. Says(r, "trace") => Says(q, "trace") BY <1>3, <1>6, TermIntents
  <2>2. /\ Cardinality(Symbols(q)) \in Nat /\ Cardinality(Symbols(r)) \in Nat
        /\ Cardinality(Symbols(r)) <= Cardinality(Symbols(q))
    BY <1>1, <1>6, SymbolsGrow
  <2>3. Bonus(r, J) <= Bonus(q, J) BY <1>6, <2>1, <2>2, TraceBonus
  <2> QED BY <1>2, <2>3
<1>7. CASE J = "product_context"
  <2>1. SignalsOf(q, J) = SignalsOf(r, J) BY <1>1, <1>7 DEF Grows
  <2>2. Gathered(q, J) = Gathered(r, J) BY <2>1 DEF Gathered
  <2>3. Says(r, "product") => Says(q, "product") BY <1>3, <1>7, TermIntents
  <2>4. Gathered(q, J) \in Nat BY <1>1, GatheredIsNat
  <2>5. Min({5, Gathered(q, J)}) \in Nat BY <2>4, LeastOfTwo
  <2>6. Says(q, "project") => Says(r, "project") BY <1>3
  <2>7. /\ Bonus(r, J) = IF Says(r, "project") THEN -Min({5, Gathered(q, J)}) ELSE IF Says(r, "product") THEN 10 ELSE 0
        /\ Bonus(q, J) = IF Says(q, "project") THEN -Min({5, Gathered(q, J)}) ELSE IF Says(q, "product") THEN 10 ELSE 0
    BY <1>7, <2>2, ProductBonus
  <2>8. Bonus(r, J) <= Bonus(q, J) BY <2>3, <2>5, <2>6, <2>7
  <2> QED BY <1>2, <2>8
<1>8. CASE J = "api_lookup"
  <2>1. Bonus(r, J) <= Bonus(q, J) BY <1>4, <1>8, ApiBonus
  <2> QED BY <1>2, <2>1
<1>9. CASE J \in {"profile_diff", "widget_lookup", "evidence_lookup", "unknown"}
  <2>1. Bonus(r, J) <= Bonus(q, J) BY <1>9, NoBonus
  <2> QED BY <1>2, <2>1
<1> QED BY <1>5, <1>6, <1>7, <1>8, <1>9, IntentNames

LEMMA OwnGains ==
  ASSUME NEW q, NEW r, NEW I \in Intents, I # "unknown", Grows(q, r, I)
  PROVE  /\ Gathered(q, I) <= Gathered(r, I)
         /\ Gathered(q, I) + Bonus(q, I) <= Gathered(r, I) + Bonus(r, I)
<1>1. Asked(q) /\ Asked(r) /\ SignalsOf(q, I) \subseteq SignalsOf(r, I) BY DEF Grows
<1>2. Gathered(q, I) <= Gathered(r, I) BY <1>1, MoreSignalsWeighMore
<1>3. Gathered(q, I) \in Nat /\ Gathered(r, I) \in Nat /\ Bonus(q, I) \in Int /\ Bonus(r, I) \in Int
  BY <1>1, GatheredIsNat, BonusIsNumber
<1>4. /\ \A L : Says(q, L) => Says(r, L)
      /\ \A L \in DOMAIN TermSignals : TermSignals[L][1] # I /\ Says(r, L) => Says(q, L)
      /\ SaysBoundary(q) => SaysBoundary(r)
  BY DEF Grows
<1>5. Types(q, I) \subseteq Types(r, I) BY <1>1, TypesGrow
<1>6. CASE I # "product_context"
  <2>1. Bonus(q, I) <= Bonus(r, I)
    <3>1. CASE I = "code_exact"
      <4>1. Says(r, "profile") => Says(q, "profile") BY <1>4, <3>1, TermIntents
      <4> QED BY <1>4, <3>1, <4>1, ExactBonus
    <3>2. CASE I = "workspace_nav" BY <1>4, <3>2, NavigationBonus
    <3>3. CASE I = "call_trace"
      <4>1. /\ Cardinality(Symbols(q)) \in Nat /\ Cardinality(Symbols(r)) \in Nat
            /\ Cardinality(Symbols(q)) <= Cardinality(Symbols(r))
        BY <1>1, <3>3, SymbolsGrow
      <4> QED BY <1>4, <3>3, <4>1, TraceBonus
    <3>4. CASE I = "runtime_flow" BY <1>4, <3>4, RuntimeBonus
    <3>5. CASE I = "code_concept"
      <4>1. Says(r, "navigation") => Says(q, "navigation") BY <1>4, <3>5, TermIntents
      <4> QED BY <1>4, <1>5, <3>5, <4>1, ConceptBonus
    <3>6. CASE I = "project_context" BY <1>4, <3>6, ProjectBonus
    <3>7. CASE I = "api_lookup" BY <1>5, <3>7, ApiBonus
    <3>8. CASE I \in {"profile_diff", "widget_lookup", "evidence_lookup"} BY <3>8, NoBonus
    <3> QED BY <1>6, <3>1, <3>2, <3>3, <3>4, <3>5, <3>6, <3>7, <3>8, IntentNames
  <2> QED BY <1>2, <1>3, <2>1
<1>7. CASE I = "product_context"
  <2>1. Says(r, "project") => Says(q, "project") BY <1>4, <1>7, TermIntents
  <2>2. Says(q, "project") <=> Says(r, "project") BY <1>4, <2>1
  <2>3. Says(q, "product") => Says(r, "product") BY <1>4
  <2> DEFINE lost(g) == IF 5 <= g THEN 5 ELSE g
  <2>4. /\ Bonus(q, I) = IF Says(q, "project") THEN -lost(Gathered(q, I)) ELSE IF Says(q, "product") THEN 10 ELSE 0
        /\ Bonus(r, I) = IF Says(r, "project") THEN -lost(Gathered(r, I)) ELSE IF Says(r, "product") THEN 10 ELSE 0
    <3>1. Min({5, Gathered(q, I)}) = lost(Gathered(q, I)) /\ Min({5, Gathered(r, I)}) = lost(Gathered(r, I))
      BY <1>3, LeastOfTwo
    <3> HIDE DEF lost
    <3> QED BY <1>7, <3>1, ProductBonus
  <2>5. CASE Says(q, "project")
    <3>1. Bonus(q, I) = -lost(Gathered(q, I)) /\ Bonus(r, I) = -lost(Gathered(r, I)) BY <2>2, <2>4, <2>5
    <3> QED BY <1>2, <1>3, <3>1
  <2>6. CASE ~Says(q, "project")
    <3>1. Bonus(q, I) <= Bonus(r, I) BY <2>2, <2>3, <2>4, <2>6
    <3> QED BY <1>2, <1>3, <3>1
  <2> QED BY <2>5, <2>6
<1> QED BY <1>2, <1>6, <1>7
LEMMA TermWeighs ==
  ASSUME NEW q, NEW L, Says(q, L)
  PROVE  \E s \in SignalsOf(q, TermSignals[L][1]) : s[2] = TermSignals[L]
<1>1. PICK t \in Terms(q) : t[1] = L BY DEF Says
<1> DEFINE s == <<t, TermSignals[t[1]]>>
<1>2. s \in TermPairs(q) BY DEF TermPairs
<1>3. s \in SignalsOf(q, TermSignals[L][1]) BY <1>1, <1>2, SignalsAreThree DEF SignalsOf
<1> QED BY <1>1, <1>3

\* An intent that a question is routed to silences the "with evidence" of the
\* question, and so it does with one signal more.
LEMMA StrongEnough ==
  ASSUME NEW q, NEW r, NEW I \in Intents, I \notin {"unknown", "evidence_lookup"}, Grows(q, r, I),
         Gathered(q, I) + Bonus(q, I) >= 50
  PROVE  Gathered(r, I) >= 45
<1>1. Asked(q) /\ Asked(r) /\ SignalsOf(q, I) \subseteq SignalsOf(r, I) BY DEF Grows
<1>2. Gathered(q, I) \in Nat /\ Gathered(r, I) \in Nat /\ Bonus(q, I) \in Int BY <1>1, GatheredIsNat, BonusIsNumber
<1>3. Gathered(q, I) <= Gathered(r, I) BY <1>1, MoreSignalsWeighMore
<1> SUFFICES ASSUME Gathered(r, I) < 45 PROVE FALSE
  BY <1>2
<1>4. Gathered(q, I) < 45 BY <1>2, <1>3
<1>5. Bonus(q, I) > 5 BY <1>2, <1>4
<1>6. CASE I = "code_exact"
  <2>1. Bonus(q, I) = 10 /\ Says(q, "exact") BY <1>5, <1>6, ExactBonus
  <2>2. PICK s \in SignalsOf(q, I) : s[2] = <<"code_exact", "lookup_phrase", 35>>
    BY <1>6, <2>1, TermWeighs, TermIntents
  <2>3. s[2][3] = 35 BY <2>2
  <2>4. Gathered(q, I) = 35 \/ Gathered(q, I) >= 45 BY <1>1, <2>3, OneSignalWeighs
  <2> QED BY <1>2, <1>4, <2>1, <2>4
<1>7. CASE I = "workspace_nav"
  <2>1. Says(q, "navigation")
    <3>1. ASSUME NEW t \in Terms(q), t = <<"navigation", "boundary between">> PROVE Says(q, "navigation")
      <4>1. t[1] = "navigation" BY <3>1
      <4> QED BY <4>1 DEF Says
    <3>2. SaysBoundary(q) => Says(q, "navigation") BY <3>1 DEF SaysBoundary
    <3> QED BY <1>5, <1>7, <3>2, NavigationBonus
  <2>2. PICK s \in SignalsOf(q, I) : s[2] = <<"workspace_nav", "navigation_phrase", 45>>
    BY <1>7, <2>1, TermWeighs, TermIntents
  <2>3. s[2][3] = 45 BY <2>2
  <2> QED BY <1>1, <1>2, <1>4, <2>3, OneSignalWeighs
<1>8. CASE I = "call_trace"
  <2>1. Says(q, "trace") BY <1>5, <1>8, TraceBonus
  <2>2. PICK s \in SignalsOf(q, I) : s[2] = <<"call_trace", "trace_phrase", 45>>
    BY <1>8, <2>1, TermWeighs, TermIntents
  <2>3. s[2][3] = 45 BY <2>2
  <2> QED BY <1>1, <1>2, <1>4, <2>3, OneSignalWeighs
<1>9. CASE I = "runtime_flow"
  <2>1. Says(q, "runtime") BY <1>5, <1>9, RuntimeBonus
  <2>2. PICK s \in SignalsOf(q, I) : s[2] = <<"runtime_flow", "runtime_phrase", 45>>
    BY <1>9, <2>1, TermWeighs, TermIntents
  <2>3. s[2][3] = 45 BY <2>2
  <2> QED BY <1>1, <1>2, <1>4, <2>3, OneSignalWeighs
<1>10. CASE I = "code_concept"
  <2>1. Says(q, "concept") /\ "path_like" \in Types(q, I) BY <1>5, <1>10, ConceptBonus
  <2>2. PICK s \in SignalsOf(q, I) : s[2] = <<"code_concept", "concept_phrase", 35>>
    BY <1>10, <2>1, TermWeighs, TermIntents
  <2>3. PICK p \in SignalsOf(q, I) : p[2][2] = "path_like" BY <2>1 DEF Types
  <2>4. p # s /\ s[2][3] = 35 BY <2>2, <2>3
  <2>5. Gathered(q, I) >= 45 BY <1>1, <2>4, OneSignalWeighs
  <2> QED BY <1>4, <2>5, <1>2
<1>11. CASE I \in {"project_context", "product_context"}
  <2>1. Gathered(q, I) + 10 <= Gathered(r, I) BY <1>1, <1>11, MoreSignalsWeighMore DEF Grows
  <2>2. CASE I = "project_context"
    <3>1. Says(q, "project") BY <1>5, <2>2, ProjectBonus
    <3>2. PICK s \in SignalsOf(q, I) : s[2] = <<"project_context", "project_keyword", 40>>
      BY <2>2, <3>1, TermWeighs, TermIntents
    <3>3. s[2][3] = 40 BY <3>2
    <3>4. Gathered(q, I) >= 40 BY <1>1, <1>2, <3>3, OneSignalWeighs
    <3> QED BY <1>2, <2>1, <3>4
  <2>3. CASE I = "product_context"
    <3>1. Min({5, Gathered(q, I)}) \in Nat BY <1>2, LeastOfTwo
    <3>2. Bonus(q, I) <= 10 BY <2>3, <3>1, ProductBonus
    <3> QED BY <1>2, <2>1, <3>2
  <2> QED BY <1>11, <2>2, <2>3
<1>12. CASE I = "api_lookup"
  BY <1>5, <1>12, ApiBonus
<1>13. CASE I \in {"profile_diff", "widget_lookup"}
  BY <1>5, <1>13, NoBonus
<1> QED BY <1>6, <1>7, <1>8, <1>9, <1>10, <1>11, <1>12, <1>13, IntentNames
\* "With evidence" weighs little beside a strong signal of another intent.
Silenced(q) == Says(q, "modifier") /\ \E i \in Intents \ {"evidence_lookup"} : Gathered(q, i) >= 45

LEMMA EvidenceIs ==
  ASSUME NEW q, Asked(q)
  PROVE  EvidenceScore(q) = IF Silenced(q) /\ Gathered(q, "evidence_lookup") > 20 THEN 20
                            ELSE Gathered(q, "evidence_lookup")
<1> DEFINE others == Intents \ {"evidence_lookup"}
           all == {Gathered(q, i) : i \in others}
           gathered == [i \in others |-> Gathered(q, i)]
           raw == Gathered(q, "evidence_lookup")
<1>1. IsFiniteSet(others) BY IntentsAreFew, FS_Subset
<1>2. gathered \in Surjection(others, all) BY DEF Surjection
<1>3. IsFiniteSet(all) BY <1>1, <1>2, FS_Surjection
<1>4. \A i : Gathered(q, i) \in Nat BY GatheredIsNat
<1>5. all # {} /\ all \subseteq Int BY <1>4, IntentNames
<1>6. Max(all) \in all /\ \A x \in all : x <= Max(all) BY <1>3, <1>5, LargestOfFew
<1>7. Max(all) >= 45 <=> \E i \in others : Gathered(q, i) >= 45
  <2>1. Max(all) >= 45 => \E i \in others : Gathered(q, i) >= 45 BY <1>6
  <2>2. ASSUME NEW i \in others, Gathered(q, i) >= 45 PROVE Max(all) >= 45
    <3>1. Gathered(q, i) \in all OBVIOUS
    <3>2. Gathered(q, i) <= Max(all) /\ Max(all) \in Int /\ Gathered(q, i) \in Int BY <1>5, <1>6, <3>1
    <3> HIDE DEF all
    <3> QED BY <2>2, <3>2
  <2> QED BY <2>1, <2>2
<1>8. EvidenceScore(q) = IF Says(q, "modifier") /\ Max(all) >= 45 THEN Min({raw, 20}) ELSE raw
  BY DEF EvidenceScore
<1>9. Min({raw, 20}) = IF raw <= 20 THEN raw ELSE 20 BY <1>4, LeastOfTwo
<1>10. raw \in Nat BY <1>4
<1> HIDE DEF all, raw
<1>11. EvidenceScore(q) = IF Silenced(q) THEN Min({raw, 20}) ELSE raw BY <1>7, <1>8 DEF Silenced
<1>12. EvidenceScore(q) = IF Silenced(q) /\ raw > 20 THEN 20 ELSE raw
  <2>1. CASE Silenced(q) BY <1>9, <1>10, <1>11, <2>1
  <2>2. CASE ~Silenced(q) BY <1>11, <2>2
  <2> QED BY <2>1, <2>2
<1> QED BY <1>12 DEF raw

Total(q, i) == IF i = "evidence_lookup" THEN EvidenceScore(q) ELSE Gathered(q, i) + Bonus(q, i)

LEMMA ScoreIsTotal ==
  ASSUME NEW q, Asked(q), NEW i
  PROVE  Total(q, i) \in Int /\ Score(q, i) = IF Total(q, i) <= 100 THEN Total(q, i) ELSE 100
<1>1. Gathered(q, i) \in Nat /\ Gathered(q, "evidence_lookup") \in Nat BY GatheredIsNat
<1>2. EvidenceScore(q) \in Int BY <1>1, EvidenceIs
<1>3. Total(q, i) \in Int BY <1>1, <1>2, BonusIsNumber DEF Total
<1>4. Score(q, i) = Min({100, Total(q, i)}) BY DEF Score, Total
<1>5. Min({100, Total(q, i)}) = IF 100 <= Total(q, i) THEN 100 ELSE Total(q, i) BY <1>3, LeastOfTwo
<1> QED BY <1>3, <1>4, <1>5

LEMMA OthersScoreNoMore ==
  ASSUME NEW q, NEW r, NEW I \in Intents, I # "unknown", Grows(q, r, I), Total(q, I) >= 50,
         NEW J \in Intents, J # I
  PROVE  Total(r, J) <= Total(q, J)
<1>1. Asked(q) /\ Asked(r) BY DEF Grows
<1>2. Gathered(r, J) <= Gathered(q, J) /\ Bonus(r, J) <= Bonus(q, J) BY OthersGainNothing
<1>3. /\ Gathered(q, J) \in Nat /\ Gathered(r, J) \in Nat
      /\ Bonus(q, J) \in Int /\ Bonus(r, J) \in Int
  BY <1>1, GatheredIsNat, BonusIsNumber
<1>4. CASE J # "evidence_lookup"
  BY <1>2, <1>3, <1>4 DEF Total
<1>5. CASE J = "evidence_lookup"
  <2>1. Gathered(q, I) + Bonus(q, I) >= 50 BY <1>5 DEF Total
  <2>2. Gathered(r, I) >= 45 BY <1>5, <2>1, StrongEnough
  <2>3. Silenced(q) => Silenced(r)
    <3>1. Says(q, "modifier") => Says(r, "modifier") BY DEF Grows
    <3> QED BY <1>5, <2>2, <3>1 DEF Silenced
  <2>4. /\ Total(q, J) = IF Silenced(q) /\ Gathered(q, J) > 20 THEN 20 ELSE Gathered(q, J)
        /\ Total(r, J) = IF Silenced(r) /\ Gathered(r, J) > 20 THEN 20 ELSE Gathered(r, J)
    BY <1>1, <1>5, EvidenceIs DEF Total
  <2> QED BY <1>2, <1>3, <2>3, <2>4
<1> QED BY <1>4, <1>5

LEMMA OwnScoresNoLess ==
  ASSUME NEW q, NEW r, NEW I \in Intents, I # "unknown", Grows(q, r, I), Total(q, I) >= 50
  PROVE  Total(q, I) <= Total(r, I)
<1>1. Asked(q) /\ Asked(r) BY DEF Grows
<1>2. Gathered(q, I) <= Gathered(r, I) /\ Gathered(q, I) + Bonus(q, I) <= Gathered(r, I) + Bonus(r, I) BY OwnGains
<1>3. Gathered(q, I) \in Nat /\ Gathered(r, I) \in Nat BY <1>1, GatheredIsNat
<1>4. CASE I # "evidence_lookup"
  BY <1>2, <1>4 DEF Total
<1>5. CASE I = "evidence_lookup"
  <2>1. /\ Total(q, I) = IF Silenced(q) /\ Gathered(q, I) > 20 THEN 20 ELSE Gathered(q, I)
        /\ Total(r, I) = IF Silenced(r) /\ Gathered(r, I) > 20 THEN 20 ELSE Gathered(r, I)
    BY <1>1, <1>5, EvidenceIs DEF Total
  <2>2. ~Silenced(q)
    <3>1. Silenced(q) /\ Gathered(q, I) > 20 => Total(q, I) = 20 BY <2>1
    <3>2. Silenced(q) /\ Gathered(q, I) <= 20 => Total(q, I) <= 20 BY <1>3, <2>1
    <3>3. Total(q, I) \in Int BY <1>1, ScoreIsTotal
    <3> QED BY <1>3, <3>1, <3>2, <3>3
  <2>3. Silenced(r) => Silenced(q)
    <3>1. Says(r, "modifier") => Says(q, "modifier") BY DEF Grows
    <3>2. ASSUME NEW i \in Intents \ {"evidence_lookup"}, Gathered(r, i) >= 45 PROVE Gathered(q, i) >= 45
      <4>1. Gathered(r, i) <= Gathered(q, i) BY <1>5, OthersGainNothing
      <4>2. Gathered(r, i) \in Nat /\ Gathered(q, i) \in Nat BY <1>1, GatheredIsNat
      <4> QED BY <3>2, <4>1, <4>2
    <3> QED BY <3>1, <3>2 DEF Silenced
  <2> QED BY <1>2, <2>1, <2>2, <2>3
<1> QED BY <1>4, <1>5

LEMMA RoutedTo ==
  ASSUME NEW q, Asked(q)
  PROVE  \E J \in Intents :
           /\ \A K \in Intents \ {J} : Before(<<J, Score(q, J)>>, <<K, Score(q, K)>>)
           /\ Route(q).intent = IF Score(q, J) < 50 THEN "unknown" ELSE J
<1> DEFINE top == Best(AllScores(q))
           second == Best(AllScores(q) \ {top})
<1>1. top \in AllScores(q) /\ \A b \in AllScores(q) \ {top} : Before(top, b) BY ScoresAreFew, BestIsFirst
<1>2. PICK J \in Intents : top = <<J, Score(q, J)>> BY <1>1 DEF AllScores
<1>3. \A K \in Intents \ {J} : Before(<<J, Score(q, J)>>, <<K, Score(q, K)>>)
  <2> SUFFICES ASSUME NEW K \in Intents \ {J} PROVE Before(<<J, Score(q, J)>>, <<K, Score(q, K)>>)
    OBVIOUS
  <2>1. <<K, Score(q, K)>> \in AllScores(q) BY DEF AllScores
  <2>2. <<K, Score(q, K)>> # <<J, Score(q, J)>> OBVIOUS
  <2> QED BY <1>1, <1>2, <2>1, <2>2
<1>4. Ranked(q) = <<top, second>> BY DEF Ranked, BestTwo, AllScores
<1>5. Route(q) = Decision(q, top, second)
  <2> HIDE DEF top, second
  <2> QED BY <1>4 DEF Route, Decide
<1> HIDE DEF top, second
<1>6. Route(q).intent = IF top[2] < 50 THEN "unknown" ELSE top[1] BY <1>5 DEF Decision, Low
<1> QED BY <1>2, <1>3, <1>6

LEMMA StaysRouted ==
  ASSUME NEW q, NEW r, NEW I, I # "unknown", Route(q).intent = I, Grows(q, r, I)
  PROVE  Route(r).intent = I
<1>1. Asked(q) /\ Asked(r) BY DEF Grows
<1>2. PICK J \in Intents :
           /\ \A K \in Intents \ {J} : Before(<<J, Score(q, J)>>, <<K, Score(q, K)>>)
           /\ Route(q).intent = IF Score(q, J) < 50 THEN "unknown" ELSE J
  BY <1>1, RoutedTo
<1>3. PICK M \in Intents :
           /\ \A K \in Intents \ {M} : Before(<<M, Score(r, M)>>, <<K, Score(r, K)>>)
           /\ Route(r).intent = IF Score(r, M) < 50 THEN "unknown" ELSE M
  BY <1>1, RoutedTo
<1>4. I = J /\ ~(Score(q, I) < 50) BY <1>2
<1>5. \A K : /\ Total(q, K) \in Int /\ Score(q, K) = IF Total(q, K) <= 100 THEN Total(q, K) ELSE 100
             /\ Total(r, K) \in Int /\ Score(r, K) = IF Total(r, K) <= 100 THEN Total(r, K) ELSE 100
  BY <1>1, ScoreIsTotal
<1>6. Total(q, I) >= 50 BY <1>4, <1>5
<1>7. Total(q, I) <= Total(r, I) BY <1>4, <1>6, OwnScoresNoLess
<1>8. Score(q, I) <= Score(r, I) BY <1>5, <1>7
<1>9. M = I
  <2> SUFFICES ASSUME M # I PROVE FALSE OBVIOUS
  <2>1. Total(r, M) <= Total(q, M) BY <1>4, <1>6, OthersScoreNoMore
  <2>2. Score(r, M) <= Score(q, M) BY <1>5, <2>1
  <2>3. Score(q, I) > Score(q, M) \/ (Score(q, I) = Score(q, M) /\ NameRank(I) > NameRank(M))
    BY <1>2, <1>4 DEF Before
  <2>4. Score(r, M) > Score(r, I) \/ (Score(r, M) = Score(r, I) /\ NameRank(M) > NameRank(I))
    BY <1>3, <1>4 DEF Before
  <2>5. NameRank(M) \in Int /\ NameRank(I) \in Int BY <1>4, NamesAreRanked
  <2>6. /\ Score(q, M) \in Int /\ Score(q, I) \in Int
        /\ Score(r, M) \in Int /\ Score(r, I) \in Int
    BY <1>5
  <2> QED BY <1>8, <2>2, <2>3, <2>4, <2>5, <2>6
<1> QED BY <1>3, <1>4, <1>5, <1>6, <1>7, <1>9

\* Whatever else a question says and however its terms, hints and parameters
\* follow each other, one more that speaks only for the intent it is routed to
\* leaves it there: no conflict rule takes back more than the item gives, and
\* names decide between the same scores only (router.py route, _apply_conflicts).
THEOREM OwnTermsStay == RouterSpec => OwnTermsKeepIntent
<1> DEFINE Inv == Asked(question)
<1>1. RouterInit => Inv BY FS_EmptySet DEF RouterInit, Asked
<1>2. Inv /\ [RouterNext]_question => Inv'
  BY WordedIsAsked DEF Asked
<1>3. ASSUME Inv, RouterNext
      PROVE  \A item \in question' \ question :
               LET intent == Route(question).intent
               IN intent # "unknown" /\ SpeaksFor(item) = {intent} /\ ~Says({item}, "modifier")
                  => \E after \in {Route(question')} : after.intent = intent
  <2>1. PICK item \in Vocabulary : Add(item) BY <1>3 DEF RouterNext
  <2>2. question' = question \cup {item} /\ item \notin question BY <2>1 DEF Add
  <2>3. Accepted(item) BY RouterAssumption
  <2>4. ASSUME NEW intent, intent = Route(question).intent, intent # "unknown", SpeaksFor(item) = {intent},
               ~Says({item}, "modifier")
        PROVE  Route(question').intent = intent
    <3>1. Grows(question, question \cup {item}, intent) BY <1>3, <2>2, <2>3, <2>4, OneItemGrows
    <3>2. Route(question \cup {item}).intent = intent BY <2>4, <3>1, StaysRouted
    <3> QED BY <2>2, <3>2
  <2> QED BY <2>2, <2>4
<1> HIDE DEF Inv
<1> QED BY <1>1, <1>2, <1>3, PTL DEF RouterSpec, OwnTermsKeepIntent
=============================================================================
