---------------------------- MODULE QueryRouter -----------------------------
(***************************************************************************)
(* How a question is routed: the signals its wording, its parameters and   *)
(* its client context give each intent, the conflict rules, the choice of  *)
(* an intent, a view, a granularity and a plan of tools (query/router.py). *)
(*                                                                         *)
(* A question is a set of items, tagged pairs: terms of the word lists,    *)
(* words that hold several terms, anchors (paths, functions, macros, error *)
(* codes, symbols), and parameters.  Scores are in hundredths.             *)
(***************************************************************************)
EXTENDS Integers, Sequences, FiniteSets, FiniteSetsExt, Functions

CONSTANTS
  Vocabulary,  \* the items a question may hold
  MaxItems,    \* bound: items in one question
  ShortWords   \* questions of at most so many words have at most ten characters

VARIABLE question

Low == 50
High == 80
AmbiguousMargin == 15

\* _DEFAULT_VIEW_BY_INTENT and _DEFAULT_GRANULARITY_BY_INTENT
DefaultView ==
  [code_exact |-> "code", code_concept |-> "domain", call_trace |-> "code",
   runtime_flow |-> "runtime", profile_diff |-> "profile", api_lookup |-> "evidence",
   widget_lookup |-> "feature", workspace_nav |-> "workspace", product_context |-> "feature",
   project_context |-> "evidence", evidence_lookup |-> "evidence", unknown |-> "evidence"]

DefaultGranularity ==
  [code_exact |-> "symbol", code_concept |-> "module", call_trace |-> "flow",
   runtime_flow |-> "flow", profile_diff |-> "profile", api_lookup |-> "doc_section",
   widget_lookup |-> "doc_section", workspace_nav |-> "module", product_context |-> "feature",
   project_context |-> "doc_section", evidence_lookup |-> "doc_section", unknown |-> "doc_section"]

Intents == DOMAIN DefaultView

\* The order of names, by which ties are broken.
ByName ==
  <<"api_lookup", "call_trace", "code_concept", "code_exact", "evidence_lookup", "product_context",
    "profile_diff", "project_context", "runtime_flow", "unknown", "widget_lookup", "workspace_nav">>
NameRank(i) == CHOOSE n \in 1..Len(ByName) : ByName[n] = i

-----------------------------------------------------------------------------
\* What an item gives: a set of triples of an intent, a type and a weight.
Hint(intents, weight) == {<<i, "client_context_hint", weight>> : i \in intents}

DomainSignals ==
  [api |-> {<<"api_lookup", "api_keyword", 55>>}, widget |-> {<<"widget_lookup", "widget_keyword", 55>>},
   product |-> {<<"product_context", "product_keyword", 55>>},
   project |-> {<<"project_context", "project_keyword", 55>>},
   code |-> Hint({"code_exact"}, 20), engineering |-> Hint({"code_concept"}, 20),
   docs |-> Hint({"api_lookup"}, 15), design |-> {<<"product_context", "product_keyword", 15>>}]

ViewSignals ==
  [runtime |-> Hint({"runtime_flow"}, 50), profile |-> Hint({"profile_diff"}, 50),
   workspace |-> Hint({"workspace_nav"}, 45), layer |-> Hint({"workspace_nav"}, 35),
   domain |-> Hint({"code_concept"}, 25), feature |-> Hint({"product_context"}, 20),
   evidence |-> Hint({"evidence_lookup"}, 40), code |-> Hint({"code_exact"}, 25)]

GranularitySignals ==
  [symbol |-> Hint({"code_exact"}, 45), file |-> Hint({"code_exact"}, 45),
   function |-> Hint({"code_exact"}, 40), flow |-> Hint({"call_trace", "runtime_flow"}, 35),
   profile |-> Hint({"profile_diff"}, 45),
   module |-> Hint({"workspace_nav"}, 30) \cup Hint({"code_concept"}, 25),
   directory |-> Hint({"workspace_nav"}, 35), workspace |-> Hint({"workspace_nav"}, 35),
   feature |-> Hint({"product_context"}, 20) \cup Hint({"code_concept"}, 15),
   doc_section |-> Hint({"api_lookup", "widget_lookup"}, 15) \cup Hint({"evidence_lookup"}, 10)]

\* _score_caller_tool
CallerWeights ==
  [code_trace |-> {<<"call_trace", 40>>, <<"runtime_flow", 30>>}, config_impact |-> {<<"profile_diff", 45>>},
   docs_search |-> {"api_lookup", "widget_lookup", "product_context", "project_context"} \X {15},
   workspace_view |-> {<<"workspace_nav", 35>>}, evidence_bundle |-> {<<"evidence_lookup", 45>>},
   code_resolve |-> {<<"code_exact", 40>>}, code_context |-> {<<"code_concept", 35>>},
   kb_search |-> {<<"unknown", 10>>}]

\* _score_anchor_patterns.  A macro, an error code and the name of a file are
\* symbol-like as well; a symbol inside a function's span is not counted.
Symbol == {<<"code_exact", "symbol_like", 22>>, <<"call_trace", "symbol_like", 15>>,
           <<"evidence_lookup", "symbol_like", 12>>}
Dotted == Symbol \cup {<<"api_lookup", "symbol_like", 15>>}
Path == {<<"code_exact", "path_like", 35>>, <<"workspace_nav", "path_like", 20>>,
         <<"code_concept", "path_like", 15>>, <<"evidence_lookup", "path_like", 15>>}

AnchorSignals ==
  [path |-> Path, file |-> Path \cup Dotted,
   function |-> {<<"code_exact", "symbol_like", 35>>, <<"call_trace", "symbol_like", 20>>,
                 <<"evidence_lookup", "symbol_like", 15>>},
   macro |-> Symbol \cup {<<"code_exact", "macro_name", 25>>, <<"profile_diff", "macro_name", 25>>,
                          <<"evidence_lookup", "macro_name", 15>>},
   error |-> Symbol \cup {<<"code_exact", "error_code", 25>>}, register |-> {<<"code_exact", "error_code", 25>>},
   symbol |-> Symbol, dotted |-> Dotted]

\* The word lists and _score_phrases
TermSignals ==
  [exact |-> <<"code_exact", "lookup_phrase", 35>>, concept |-> <<"code_concept", "concept_phrase", 35>>,
   trace |-> <<"call_trace", "trace_phrase", 45>>, runtime |-> <<"runtime_flow", "runtime_phrase", 45>>,
   keyword |-> <<"runtime_flow", "runtime_keyword", 25>>, profile |-> <<"profile_diff", "profile_keyword", 35>>,
   api |-> <<"api_lookup", "api_keyword", 30>>, widget |-> <<"widget_lookup", "widget_keyword", 40>>,
   navigation |-> <<"workspace_nav", "navigation_phrase", 45>>,
   product |-> <<"product_context", "product_keyword", 40>>,
   project |-> <<"project_context", "project_keyword", 40>>,
   evidence |-> <<"evidence_lookup", "evidence_keyword", 50>>,
   modifier |-> <<"evidence_lookup", "evidence_keyword", 12>>]

\* Terms that hold other terms: "who refers to", "where to look", "is called by
\* whom", "with evidence please".
Compound ==
  [whoRefers |-> {<<"exact", "whoRefers">>, <<"evidence", "refers">>},
   whereToLook |-> {<<"exact", "where">>, <<"navigation", "whereToLook">>},
   calledByWhom |-> {<<"trace", "whoCalls">>, <<"trace", "calledByWhom">>},
   evidencePlease |-> {<<"modifier", "evidencePlease">>, <<"modifier", "withEvidence">>}]

\* find_term_matches: all terms of a question, each counted once.
Terms(q) ==
  UNION {IF i[1] = "compound" THEN Compound[i[2]] ELSE {i} : i \in {x \in q : x[1] \in DOMAIN TermSignals \cup {"compound"}}}

Says(q, list) == \E t \in Terms(q) : t[1] = list
Value(q, kind) == {i[2] : i \in {x \in q : x[1] = kind}}

\* is_vague_query
Words(q) == {i \in q : i[1] \in DOMAIN TermSignals \cup DOMAIN AnchorSignals \cup {"compound", "pronoun"}}
Vague(q) ==
  /\ \A i \in q : i[1] \notin DOMAIN AnchorSignals \ {"register"}
  /\ Cardinality(Words(q)) <= ShortWords \/ Value(q, "pronoun") # {}

\* _score_explicit_params, _score_client_context and the rest: the signals of
\* an item that is no term.
ItemSignals(i) ==
  CASE i[1] = "domain" -> DomainSignals[i[2]]
    [] i[1] = "view" -> ViewSignals[i[2]]
    [] i[1] = "granularity" -> GranularitySignals[i[2]]
    [] i[1] = "caller" -> {<<w[1], "caller_tool_hint", w[2]>> : w \in CallerWeights[i[2]]}
    [] i[1] = "profile_id" -> IF i[2] = "named" THEN {<<"profile_diff", "profile_keyword", 35>>} ELSE {}
    [] i[1] = "selected" -> Hint({"call_trace"}, 10) \cup
         (IF i[2] = "macro" THEN {<<"profile_diff", "macro_name", 20>>} ELSE {<<"code_exact", "symbol_like", 20>>})
    [] i[1] = "active_file" -> Hint({"workspace_nav"}, 15) \cup Hint({"code_concept"}, 10)
    [] i[1] = "previous" -> Hint({i[2]}, 10)
    [] OTHER -> IF i[1] \in DOMAIN AnchorSignals THEN AnchorSignals[i[1]] ELSE {}

\* A parameter has one of the values the tools accept; "auto", "client" and
\* "skill" say nothing and are no items.
Accepted(i) ==
  /\ i[1] = "domain" => i[2] \in DOMAIN DomainSignals
  /\ i[1] = "view" => i[2] \in DOMAIN ViewSignals
  /\ i[1] = "granularity" => i[2] \in DOMAIN GranularitySignals
  /\ i[1] = "caller" => i[2] \in DOMAIN CallerWeights
  /\ i[1] = "previous" => i[2] \in Intents
  /\ i[1] = "compound" => i[2] \in DOMAIN Compound

ASSUME RouterAssumption ==
  /\ MaxItems \in Nat /\ ShortWords \in Nat
  /\ \A i \in Vocabulary : Len(i) = 2 /\ Accepted(i)

\* add_signal: each counted once; what gave it is kept beside it.
Signals(q) ==
  (UNION {{<<i, s>> : s \in ItemSignals(i)} : i \in q}) \cup
  {<<t, TermSignals[t[1]]>> : t \in Terms(q)} \cup
  (IF Vague(q) THEN {<<<<"question", "whole">>, <<"unknown", "vague_query", 45>>>>} ELSE {})

SignalsOf(q, intent) == {s \in Signals(q) : s[2][1] = intent}
Types(q, intent) == {s[2][2] : s \in SignalsOf(q, intent)}

\* Mutant: a signal replaces what the intent had collected.
LastWeight(q, intent) ==
  LET weights == {s[2][3] : s \in SignalsOf(q, intent)} IN IF weights = {} THEN 0 ELSE Min(weights)

Gathered(q, intent) == SumFunction([s \in SignalsOf(q, intent) |-> s[2][3]])

-----------------------------------------------------------------------------
\* _apply_conflicts, rule by rule, for the intent each one moves.
EvidenceScore(q) ==
  LET raw == Gathered(q, "evidence_lookup")
      strongest == Max({Gathered(q, i) : i \in Intents \ {"evidence_lookup"}})
  IN IF Says(q, "modifier") /\ strongest >= 45 THEN Min({raw, 20}) ELSE raw

Bonus(q, intent) ==
  CASE intent = "code_exact" -> IF Says(q, "exact") /\ ~Says(q, "profile") THEN 10 ELSE 0
    [] intent = "workspace_nav" ->
         (IF Says(q, "navigation") THEN 10 ELSE 0) +
         (IF \E t \in Terms(q) : t = <<"navigation", "boundary between">> THEN 20 ELSE 0)
    [] intent = "call_trace" ->
         LET symbols == Cardinality({s \in SignalsOf(q, "call_trace") : s[2][2] = "symbol_like"})
         IN IF ~Says(q, "trace") \/ symbols = 0 THEN 0 ELSE IF symbols >= 2 THEN 15 ELSE 10
    [] intent = "runtime_flow" -> IF Says(q, "runtime") /\ Says(q, "keyword") THEN 15 ELSE 0
    [] intent = "code_concept" ->
         IF Says(q, "concept") /\ "path_like" \in Types(q, "code_concept") /\ ~Says(q, "navigation")
         THEN 15 ELSE 0
    [] intent = "project_context" -> IF Says(q, "project") THEN 15 ELSE 0
    [] intent = "product_context" ->
         IF Says(q, "project") THEN -Min({5, Gathered(q, "product_context")})
         ELSE IF Says(q, "product") THEN 10 ELSE 0
    [] intent = "api_lookup" ->
         IF {"api_keyword", "symbol_like"} \subseteq Types(q, "api_lookup") THEN 5 ELSE 0
    [] OTHER -> 0

Score(q, intent) ==
  Min({100, IF intent = "evidence_lookup" THEN EvidenceScore(q) ELSE Gathered(q, intent) + Bonus(q, intent)})

-----------------------------------------------------------------------------
\* route
Before(a, b) == a[2] > b[2] \/ (a[2] = b[2] /\ NameRank(a[1]) > NameRank(b[1]))

Best(scores) == CHOOSE a \in scores : \A b \in scores \ {a} : Before(a, b)
BestTwo(scores) == <<Best(scores), Best(scores \ {Best(scores)})>>
Ranked(q) == BestTwo({<<i, Score(q, i)>> : i \in Intents})

RouterWarnings(top, second) ==
  IF top < Low THEN {"router.low_confidence"}
  ELSE (IF top < High THEN {"router.medium_confidence"} ELSE {}) \cup
       (IF top < High /\ top - second < AmbiguousMargin THEN {"router.ambiguous_intent"} ELSE {})

\* _select_view
SelectView(q, intent, matched) ==
  IF Value(q, "view") # {} THEN CHOOSE v \in Value(q, "view") : TRUE
  ELSE IF intent = "code_concept" /\ \E s \in matched : s[2][2] = "path_like" THEN "code"
  ELSE IF intent = "workspace_nav" /\ \E s \in matched : s[1] \in {"navigation"} \X {"boundary", "boundary between"}
  THEN "layer" ELSE DefaultView[intent]

\* _select_granularity
CodeTypes == {"symbol_like", "path_like", "macro_name", "error_code"}

SelectGranularity(q, intent, matched) ==
  LET types == {s[2][2] : s \in matched}
  IN IF Value(q, "granularity") # {} THEN CHOOSE g \in Value(q, "granularity") : TRUE
     ELSE IF intent = "code_exact" /\ "path_like" \in types THEN "file"
     ELSE IF intent = "workspace_nav" /\ \E s \in matched : s[2][2] = "path_like" \/ s[1] = <<"navigation", "directories">>
     THEN "directory"
     ELSE IF intent = "evidence_lookup" /\ types \cap CodeTypes # {} THEN "symbol"
     ELSE DefaultGranularity[intent]

\* _resolve_profile asks the collector, unless nothing of the question needs a profile.
AsksProfile(q, intent, view, matched) ==
  /\ "none" \notin Value(q, "profile_id")
  /\ \/ Value(q, "profile_id") \cap {"current", "named"} # {}
     \/ view = "profile"
     \/ intent \in {"profile_diff", "call_trace", "runtime_flow"}
     \/ \E s \in matched : s[2][2] = "profile_keyword"

\* _build_tool_plan
Plan(intent, matched, confidence) ==
  LET anchored == \E s \in matched : s[2][2] \in CodeTypes
      direct(tool, others) == [mode |-> "direct", tool |-> tool, fallbacks |-> others, chain |-> {}]
      chained(tool, others, next) == [mode |-> "chain", tool |-> tool, fallbacks |-> others, chain |-> next]
  IN CASE intent = "unknown" ->
            [direct("kb_search", {"code_resolve", "docs_search", "workspace_view", "config_impact"}) EXCEPT !.mode = "explore"]
       [] intent = "code_exact" -> direct("code_resolve", {"code_context", "evidence_bundle", "kb_search"})
       [] intent = "code_concept" ->
            [direct(IF anchored THEN "code_context" ELSE "kb_search", {"workspace_view", "docs_search", "evidence_bundle"})
               EXCEPT !.mode = IF anchored THEN "direct" ELSE "explore"]
       [] intent = "call_trace" ->
            chained("code_resolve", {"code_context", "kb_search", "evidence_bundle"}, {"code_trace", "evidence_bundle"})
       [] intent = "runtime_flow" ->
            chained(IF anchored THEN "code_trace" ELSE "workspace_view",
                    {"docs_search", "kb_search", "evidence_bundle"}, {"docs_search", "evidence_bundle"})
       [] intent = "profile_diff" ->
            chained("config_impact", {"code_resolve", "workspace_view", "evidence_bundle"}, {"evidence_bundle"})
       [] intent = "api_lookup" -> direct("docs_search", {"code_resolve", "kb_search", "evidence_bundle"})
       [] intent = "widget_lookup" -> direct("docs_search", {"workspace_view", "code_resolve", "evidence_bundle"})
       [] intent = "workspace_nav" -> direct("workspace_view", {"code_context", "kb_search", "evidence_bundle"})
       [] intent = "product_context" ->
            direct(IF confidence >= Low THEN "docs_search" ELSE "kb_search", {"workspace_view", "evidence_bundle"})
       [] intent = "project_context" -> direct("docs_search", {"evidence_bundle", "workspace_view"})
       [] intent = "evidence_lookup" -> direct("evidence_bundle", {"code_resolve", "docs_search", "kb_search"})

Decision(q, top, second) ==
  LET intent == IF top[2] < Low THEN "unknown" ELSE top[1]
      matched == IF top[2] < Low /\ SignalsOf(q, top[1]) = {} THEN SignalsOf(q, "unknown") ELSE SignalsOf(q, top[1])
      view == SelectView(q, intent, matched)
  IN [intent |-> intent, confidence |-> top[2], warnings |-> RouterWarnings(top[2], second[2]),
      view |-> view, granularity |-> SelectGranularity(q, intent, matched),
      profile |-> AsksProfile(q, intent, view, matched), plan |-> Plan(intent, matched, top[2])]

Decide(q, ranked) == Decision(q, ranked[1], ranked[2])
Route(q) == Decide(q, Ranked(q))

\* The client words its question: one more term, anchor or parameter; a
\* parameter has one value.
Parameters == {"domain", "view", "granularity", "caller", "profile_id", "selected", "active_file", "previous"}

Add(item) ==
  /\ Cardinality(question) < MaxItems
  /\ item \notin question
  /\ item[1] \in Parameters => Value(question, item[1]) = {}
  /\ question' = question \cup {item}

RouterInit == question = {}
RouterNext == \E item \in Vocabulary : Add(item)
RouterSpec == RouterInit /\ [][RouterNext]_question

\* The intents an item speaks for.
SpeaksFor(item) ==
  {TermSignals[t[1]][1] : t \in Terms({item})} \cup {s[1] : s \in ItemSignals(item)}

\* Signals add up, but rules take some back, and scores end at one, where names
\* decide.  Whatever else a question says, one more term, hint or parameter
\* that speaks only for the intent it is routed to leaves it there, unless it is
\* the "with evidence" that the code keeps from weighing (router.py route,
\* _apply_conflicts).
OwnTermsKeepIntent ==
  [][\A item \in question' \ question :
       LET intent == Route(question).intent
       IN intent # "unknown" /\ SpeaksFor(item) = {intent} /\ ~Says({item}, "modifier")
          => \E after \in {Route(question')} : after.intent = intent]_question
=============================================================================
