---------------------------- MODULE QueryAnswers -----------------------------
(***************************************************************************)
(* What a query tool answers (mcp/tools.py, query/service.py and           *)
(* query/profile_query.py): each tool adds its own parameters to the       *)
(* question, the route and the profile decide which kind of answer is      *)
(* built, and the answer must keep the contract of its status              *)
(* (models/responses.py), or the caller gets an error.                     *)
(*                                                                         *)
(* What the stores hold for a question is a record: profiles, the          *)
(* workspace of ProfileSelection; blocked, a profile file lies outside the *)
(* allowed roots; named and compare, the profiles the caller names;        *)
(* indexed, those stored; differ, the compared ones do; hits, "none",      *)
(* "bare" without evidence of their own, or "cited"; notes, the warnings   *)
(* of the retrievers; detailed, that of a partly ready index says what is  *)
(* missing; fails, reading raises.                                         *)
(***************************************************************************)
EXTENDS QueryRouter, ProfileSelection

CONSTANT Worlds  \* what the stores may hold

ASSUME WorldsAssumption ==
  \A w \in Worlds : w.notes \in Seq(Range(w.notes)) /\ {w.fails, w.detailed} \subseteq BOOLEAN

VARIABLE answer

answerVars == <<question, answer>>

Unasked == [tool |-> "none", status |-> "none"]

-----------------------------------------------------------------------------
\* The parameters a tool takes from the caller, and those it gives itself.
SearchTools ==
  [kb_search |-> [takes |-> {"domain", "view", "granularity"}, gives |-> {}],
   docs_search |-> [takes |-> {"domain", "view", "granularity"},
                    gives |-> {<<"domain", "docs">>, <<"granularity", "doc_section">>}],
   code_resolve |-> [takes |-> {"granularity"},
                     gives |-> {<<"domain", "code">>, <<"view", "code">>, <<"granularity", "symbol">>}],
   code_context |-> [takes |-> {"view", "granularity"},
                     gives |-> {<<"domain", "code">>, <<"view", "code">>, <<"granularity", "module">>}],
   code_trace |-> [takes |-> {"view", "granularity"},
                   gives |-> {<<"domain", "code">>, <<"view", "runtime">>, <<"granularity", "flow">>}],
   config_impact |-> [takes |-> {}, gives |-> {<<"view", "profile">>, <<"granularity", "profile">>}],
   evidence_bundle |-> [takes |-> {}, gives |-> {<<"view", "evidence">>}]]

Request(tool, q) ==
  LET spec == SearchTools[tool]
      asked == {i \in q : i[1] \in Parameters => i[1] \in spec.takes \cup {"profile_id"}}
  IN asked \cup {i \in spec.gives : ~\E a \in asked : a[1] = i[1]} \cup {<<"caller", tool>>}

-----------------------------------------------------------------------------
\* QueryResult: what validate_contract looks at.
Result(status, confidence, warnings) ==
  [status |-> status, confidence |-> confidence, warnings |-> warnings, profile |-> NoProfile,
   items |-> FALSE, candidates |-> {}, evidence |-> FALSE, next |-> FALSE, required |-> FALSE, index |-> FALSE]

\* dedupe_query_warnings
Deduped(codes) ==
  FlattenSeq([n \in DOMAIN codes |-> IF \E m \in 1..(n - 1) : codes[m] = codes[n] THEN <<>> ELSE <<codes[n]>>])

\* validate_contract
Contract(r) ==
  LET codes == Range(r.warnings)
  IN /\ Cardinality(codes) = Len(r.warnings)
     /\ r.status = "zero_result" =>
          ~r.items /\ r.candidates = {} /\ ~r.evidence /\ r.next /\ "retrieval.zero_result" \in codes
     /\ r.status = "multi_result" => r.candidates # {}
     /\ r.status = "ambiguous" => r.required /\ r.next
     /\ r.status = "low_confidence" =>
          r.confidence < 50 /\ r.evidence /\ codes \cap {"router.low_confidence", "retrieval.low_confidence"} # {}
     /\ r.status = "partial_ready" => r.index /\ "index.partial_ready" \in codes
     /\ r.status = "blocked" => ~r.items /\ r.candidates = {} /\ ~r.evidence /\ codes # {}

-----------------------------------------------------------------------------
\* _resolve_profile and _profile_resolution_warnings
ProfileOf(request, decision, world) ==
  IF ~decision.profile THEN ProfileResolution("not_required", NoProfile, {})
  ELSE ResolveProfile(world.profiles, IF "named" \in Value(request, "profile_id") THEN world.named ELSE <<"auto">>)

ProfileCodes(status) ==
  CASE status = "invalid" -> <<"profile.invalid">>
    [] status = "multiple_candidates" -> <<"profile.multiple_candidates">>
    [] status = "unresolved" -> <<"profile.unresolved">>
    [] OTHER -> <<>>

\* Those of the router, each once.
DecisionCodes(decision, profile) == SetToSeq(decision.warnings) \o ProfileCodes(profile.status)

Blocking == {"multiple_candidates", "unresolved", "invalid"}
Sensitive(decision) ==
  decision.intent \in {"profile_diff", "call_trace", "runtime_flow"} \/ decision.view = "profile"

\* build_profile_resolution_result: the warnings of the profile are merged in
\* once more.
ProfileAnswer(decision, profile) ==
  LET codes == Deduped(DecisionCodes(decision, profile) \o ProfileCodes(profile.status))
      confidence == Min({decision.confidence, 49})
  IN IF profile.status = "multiple_candidates"
     THEN [Result("multi_result", confidence, codes) EXCEPT !.candidates = profile.candidates, !.next = TRUE]
     ELSE [Result("ambiguous", confidence, codes) EXCEPT !.required = TRUE, !.next = TRUE]

\* build_profile_matrix_result: when two profiles or a macro are asked about.
CompareTo(tool, world) == IF tool = "config_impact" THEN world.compare ELSE NoProfile

NamesMacro(request, decision) ==
  \E s \in SignalsOf(request, decision.intent) : s[2][2] = "macro_name"

IsMatrix(request, tool, decision, profile, world) ==
  /\ decision.intent = "profile_diff"
  /\ CompareTo(tool, world) # NoProfile \/ NamesMacro(request, decision)
  /\ profile.id # NoProfile

MatrixAnswer(request, tool, decision, profile, world) ==
  LET compared == {CompareTo(tool, world)} \ {NoProfile}
      codes == DecisionCodes(decision, profile)
  IN IF ~({profile.id} \cup compared \subseteq world.indexed)
     THEN [Result("ambiguous", Min({decision.confidence, 49}), Deduped(codes \o <<"profile.invalid">>))
             EXCEPT !.required = TRUE, !.next = TRUE]
     ELSE IF ~NamesMacro(request, decision) /\ ~(world.differ /\ compared # {profile.id})
     THEN [Result("zero_result", 0, Deduped(codes \o <<"retrieval.zero_result">>)) EXCEPT !.next = TRUE]
     ELSE [Result("ok", Min({10000, decision.confidence * 85 + 1000}) \div 100, Deduped(codes))
             EXCEPT !.items = TRUE, !.evidence = TRUE, !.profile = profile.id]

\* Mutant: what has no evidence of its own is not cited.
EvidenceOfKeys(hits) == hits = "cited"

\* bundle_for_query: what has no evidence is cited by its own path.
EvidenceFor(hits) == hits # "none"

\* The rest of QueryService.search.
LowCodes == {"router.low_confidence", "retrieval.low_confidence"}

BaseConfidence(decision) == Min({10000, decision.confidence * 85 + 1500}) \div 100

\* What a low confidence answer claims: at most 0.49.
LowConfidence(decision) == Min({BaseConfidence(decision), 49})

\* _extract_partial_ready_index_status: the warning alone is not enough.
IndexStatus(world) == "index.partial_ready" \in Range(world.notes) /\ world.detailed

RetrievalAnswer(decision, profile, world) ==
  LET codes == DecisionCodes(decision, profile) \o world.notes
      low == decision.confidence < Low \/ Range(codes) \cap LowCodes # {}
      noted == IF Range(codes) \cap LowCodes = {} THEN codes \o <<"retrieval.low_confidence">> ELSE codes
      found == [Result("ok", BaseConfidence(decision), Deduped(codes))
                  EXCEPT !.items = TRUE, !.evidence = EvidenceFor(world.hits), !.profile = profile.id]
      empty == [Result("partial_ready", BaseConfidence(decision), Deduped(codes))
                  EXCEPT !.next = TRUE, !.profile = profile.id, !.index = TRUE]
  IN IF world.hits = "none" /\ IndexStatus(world) THEN empty
     ELSE IF world.hits = "none"
     THEN [Result("zero_result", 0, Deduped(codes \o <<"retrieval.zero_result">>)) EXCEPT !.next = TRUE]
     ELSE IF IndexStatus(world) THEN [found EXCEPT !.status = "partial_ready", !.index = TRUE]
     ELSE IF low
     THEN [found EXCEPT !.status = "low_confidence", !.warnings = Deduped(noted), !.confidence = LowConfidence(decision)]
     ELSE found

BlockedAnswer == Result("blocked", 0, <<"security.path_blocked">>)
Failure == Result("error", 0, <<>>)

Search(request, tool, decision, profile, world) ==
  IF decision.profile /\ world.blocked THEN BlockedAnswer
  ELSE IF profile.status \in Blocking /\ Sensitive(decision) THEN ProfileAnswer(decision, profile)
  ELSE IF world.fails THEN Failure
  ELSE IF IsMatrix(request, tool, decision, profile, world)
  THEN MatrixAnswer(request, tool, decision, profile, world)
  ELSE RetrievalAnswer(decision, profile, world)

\* _execute_search_tool, as every query tool: whatever raises, the contract
\* included, becomes an error.
Deliver(tool, result, world, sensitive, asked) ==
  answer' = [tool |-> tool, status |-> IF Contract(result) THEN result.status ELSE "error",
             fails |-> world.fails, sensitive |-> sensitive, asked |-> asked,
             profile |-> result.profile, known |-> {c.id : c \in Candidates(world.profiles)}]

\* A search tool is called; questions of fewer than MaxItems items, for the
\* tool adds its own.
Ask(tool) ==
  /\ Cardinality(question) < MaxItems
  /\ \E request \in {Request(tool, question)} : \E decision \in {Route(request)}, world \in Worlds :
       \E profile \in {ProfileOf(request, decision, world)} :
         Deliver(tool, Search(request, tool, decision, profile, world), world,
                 Sensitive(decision), "none" \notin Value(request, "profile_id"))
  /\ UNCHANGED question

\* workspace_view, and evidence_bundle of an entity.
AskDirectly(tool) ==
  /\ question = {}
  /\ \E world \in Worlds :
       Deliver(tool,
               IF world.blocked THEN BlockedAnswer
               ELSE IF world.fails THEN Failure
               ELSE IF world.hits = "none"
               THEN [Result("zero_result", 0, <<"retrieval.zero_result">>) EXCEPT !.next = TRUE]
               ELSE [Result("ok", 100, <<>>) EXCEPT !.items = TRUE, !.evidence = tool = "evidence_bundle"],
               world, FALSE, FALSE)
  /\ UNCHANGED question

\* evidence_bundle of nothing.
AskNothing ==
  /\ question = {}
  /\ \E world \in Worlds :
       Deliver("evidence_bundle", Result("blocked", 0, <<"input.missing_locator">>), world, FALSE, FALSE)
  /\ UNCHANGED question

AnswersInit == RouterInit /\ answer = Unasked

AnswersNext ==
  \/ answer = Unasked /\ RouterNext /\ UNCHANGED answer
  \/ answer = Unasked /\ \E tool \in DOMAIN SearchTools : Ask(tool)
  \/ answer = Unasked /\ \E tool \in {"workspace_view", "evidence_bundle"} : AskDirectly(tool)
  \/ answer = Unasked /\ AskNothing

AnswersSpec == AnswersInit /\ [][AnswersNext]_answerVars

\* The contract is checked when an answer is built, and an answer that breaks
\* it is turned into an error: five builders, the warnings of four components
\* and a confidence computed three ways must keep it.  A tool answers with an
\* error only when reading failed, and an answer to a question that depends on
\* the profile is about one profile of the workspace, unless the caller wants
\* none (mcp/tools.py _execute_search_tool, query/service.py search).
AnswersKeepContract ==
  answer # Unasked =>
    /\ answer.status = "error" => answer.fails
    /\ answer.status \in {"ok", "low_confidence", "partial_ready"} /\ answer.sensitive /\ answer.asked =>
         answer.profile \in answer.known
=============================================================================
