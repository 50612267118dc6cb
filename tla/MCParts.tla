------------------------------- MODULE MCParts ------------------------------
(* The parts that keep no state together with another one, each explored on *)
(* its own: the initial state says which one moves.                         *)
EXTENDS ApplyBatches, EmbeddingCache, SchemaMigration, QueryAnswers, MakeConditions, DocChunks,
        WorkspaceScan, Observability, ProfileRelations, QueryRanking

VARIABLE subject

ItemRecords == [i \in Items |-> IF i = 3 THEN 4 ELSE i % 3]
PoisonedSets == {{}, {2}, {3, 5}}
Configurations == {[provider |-> "local", model |-> "m", scanned |-> s] : s \in BOOLEAN}

\* Every list of words and every kind of anchor; the values that differ most of each parameter.
QuestionItems ==
  {<<list, "1">> : list \in DOMAIN TermSignals} \cup {<<"compound", c>> : c \in DOMAIN Compound} \cup
  ({"navigation"} \X {"boundary between", "directories"}) \cup {<<"runtime", "2">>, <<"symbol", "2">>} \cup
  {<<a, "1">> : a \in DOMAIN AnchorSignals} \cup {<<"pronoun", "1">>} \cup
  ({"domain"} \X {"api", "product"}) \cup ({"view"} \X {"profile", "evidence"}) \cup
  ({"granularity"} \X {"flow", "module"}) \cup ({"caller"} \X {"evidence_bundle", "code_trace"}) \cup
  ({"profile_id"} \X {"named", "none"}) \cup {<<"selected", "macro">>, <<"previous", "call_trace">>, <<"active_file", "1">>}

\* Questions that are routed only are longer, over the items that let rivals reach
\* one, names decide and the conflict rules take points back.
RouterItems ==
  {<<list, "1">> : list \in DOMAIN TermSignals} \cup {<<"compound", c>> : c \in DOMAIN Compound} \cup
  {<<"navigation", "boundary between">>, <<"symbol", "1">>, <<"function", "1">>, <<"path", "1">>,
   <<"domain", "product">>, <<"view", "profile">>, <<"view", "evidence">>, <<"caller", "evidence_bundle">>,
   <<"caller", "code_trace">>}
\* Those that are answered hold at most one item beside the one their tool adds.
AnsweredBriefly == Cardinality(question) < 2 /\ AnswersNext

\* A defconfig and builds of two boards, one of them with a variant.
ConfigFile(path, kind, boards, text) ==
  [path |-> path, kind |-> kind, apps |-> <<"app">>, boards |-> boards, preferred |-> boards[Len(boards)],
   text |-> text, clean |-> TRUE, scanned |-> TRUE]
Def == ConfigFile(1, "defconfig", <<"b1">>, "def")
Dot == ConfigFile(2, "dotconfig", <<"b1">>, "dot")
Twin == ConfigFile(3, "dotconfig", <<"b1", "b1_v2">>, "twin")
Other == ConfigFile(4, "dotconfig", <<"b2">>, "other")

ProfileIds == {<<"b1", "app">>, <<"b2", "app">>}
Workspaces ==
  {[files |-> files, seeds |-> seeds, default |-> default, baseline |-> <<"b1", "app">>] :
     files \in {{}, {Def}, {Def, Dot}, {Dot, Twin}, {Def, Dot, Other}},
     seeds \in {<<>>, <<[NoSeed EXCEPT !.id = <<"known">>, !.dot = 2, !.priority = 1]>>},
     default \in {<<"auto">>, <<"b1", "app">>}}
\* Warnings of the retrievers, and whether one of them describes the index.
RetrieverNotes ==
  {<<<<>>, FALSE>>, <<<<"embedding.disabled", "retrieval.vector_fallback">>, FALSE>>,
   <<<<"index.partial_ready">>, FALSE>>, <<<<"index.partial_ready">>, TRUE>>}
StoredWorlds ==
  {[profiles |-> p, blocked |-> FALSE, named |-> <<"b1", "app">>, compare |-> c, indexed |-> i, differ |-> TRUE,
    hits |-> h, notes |-> n[1], detailed |-> n[2], fails |-> f] :
     p \in Workspaces, c \in {NoProfile, <<"b2", "app">>}, i \in {{}, ProfileIds}, h \in {"none", "bare", "cited"},
     n \in RetrieverNotes, f \in BOOLEAN}
AnswerWorlds == StoredWorlds \cup {[w EXCEPT !.blocked = TRUE] : w \in {x \in StoredWorlds : x.hits = "none"}}

Tests == {<<"ifdef", "A">>, <<"ifndef", "B">>, <<"ifeq", "B">>, <<"ifneq", "A">>}
MakeLines ==
  ({"if", "else if"} \X Tests) \cup {<<"else">>, <<"endif">>} \cup ({"add"} \X {"f"} \X {"A", "always"})
\* Every way to leave macros open, a tristate, and a defconfig that says things
\* twice and is overruled.
ConfigText(m) == {<<>>, <<<<"set", m, "y">>>>, <<<<"unset", m>>>>}
MakeConfigs ==
  {<<<<>>, text>> : text \in ConfigText("A") \cup {<<<<"set", "A", "y">>, <<"unset", "B">>>>, <<<<"unset", "A">>, <<"set", "B", "y">>>>}} \cup
  {<<<<<<"set", "B", "m">>>>, <<<<"unset", "A">>>>>>,
   <<<<<<"set", "A", "n">>, <<"other">>, <<"set", "B", "n">>, <<"set", "B", "y">>>>, <<<<"set", "A", "m">>>>>>}

\* Documents about a_b: "ue" is a title without Latin letters.
Open(tag) == <<"open", tag>>
Close(tag) == <<"close", tag>>
DocLines ==
  {<<"atx", 1, <<"a">>>>, <<"atx", 2, <<"a", "_", "b">>>>, <<"atx", 1, <<"ue">>>>, <<"text", <<"a">>>>,
   <<"text", <<"a", "_", "b">>>>, <<"blank">>, <<"=">>, <<"-">>, <<"fence", "tick">>,
   <<"field", "code_symbols", <<<<"a", "_", "b">>, <<"a">>>>>>}
DocOpenings ==
  {<<>>, <<<<"-">>, <<"field", "code_symbols", <<<<"a", "_", "b">>, <<"a">>>>>>, <<"-">>>>,
   <<<<"-">>, <<"field", "widget", <<<<"a", "_", "b">>>>>>>>,
   <<<<"-">>, <<"field", "code_symbols", <<<<"a">>>>>>, <<"text", <<"a">>>>>>}
TagLines ==
  {<<Open("h1"), <<"data", <<"a">>>>, Close("h1")>>, <<Open("h2"), <<"data", <<"b">>>>, Close("h2")>>,
   <<Open("p"), <<"data", <<"a">>>>>>, <<Close("p")>>, <<Open("li"), <<"data", <<"b">>>>, Close("li")>>,
   <<Open("div"), <<"data", <<"a">>>>, Close("div")>>, <<Open("tr"), Open("td"), <<"data", <<"a">>>>>>,
   <<Close("td")>>, <<Close("td"), Close("tr")>>, <<Close("tr")>>}

\* A workspace with two nested repositories, a link and a directory of build outputs.
TreePaths ==
  <<<<"app">>, <<"app", "main">>, <<"app", "sub">>, <<"app", "sub", "lib">>, <<"app", "tmp">>,
    <<"link">>, <<"out">>, <<"out", "gen">>>>
NoTarget == <<"nowhere">>
BuildAreas == <<<<"app">>, <<"app", "sub">>, <<"out", "gen">>>>
BuildFiles == <<<<"link">>, <<"out", "gen">>>>
TreeNode(p, target) ==
  CASE p \in {<<"app">>, <<"app", "sub">>, <<"out">>} -> [kind |-> "dir"]
    [] p = <<"link">> -> [kind |-> "link", to |-> target]
    [] OTHER -> [kind |-> "file", content |-> 1]
ScanTrees ==
  {[root |-> root, node |-> [p \in Paths |-> TreeNode(p, target)]] :
     root \in {"workspace", "docs", "outputs"}, target \in {<<"app">>, <<"app", "main">>, NoTarget}}
Rules(outer, inner) ==
  [r \in Paths \cup {<<>>} |-> CASE r = <<>> -> outer [] r = <<"app">> -> inner [] OTHER -> {}]
ScanGits ==
  {[markers |-> m, listed |-> l, ignored |-> Rules(outer, inner)] :
     m \in {{}, {<<>>, <<"app", "sub">>}, {<<"app">>, <<"app", "sub">>}}, l \in {{}, {<<"app", "sub">>}},
     outer \in {{}, {<<"app", "main">>, <<"app", "sub", "lib">>}, {<<"app", "sub">>}}, inner \in {{}, {<<"app", "sub", "lib">>}}}
ScanIncludes == {<<"below", <<"app">>>>, <<"path", <<"link">>>>}
ScanExcludes == {<<"name", "tmp">>, <<"anywhere", <<"cache">>>>}

\* Two calls of each kind to choose from.
QueryCall(status, warnings, time) ==
  [kind |-> "query", status |-> status, warnings |-> warnings, time |-> time, candidates |-> 2, evidence |-> 1]
IndexCall(status, time) == [kind |-> "index", status |-> status, time |-> time, files |-> 2, failed |-> 1]
StatusCall(live) == [kind |-> "status", live |-> live, queue |-> 1, size |-> 1]
CallChoices ==
  {QueryCall("ready", 1, 2), QueryCall("error", 0, 1), IndexCall("partial_ready", 3), IndexCall("ready", 1),
   StatusCall("none"), StatusCall("ready")}
CallerCalls == {<<a, b, c>> : a \in CallChoices, b \in CallChoices, c \in {QueryCall("ready", 0, 3), StatusCall("none")}}

\* Code and a document, code of several profiles, documents.
Trait(kind, profile, authority, age) == [kind |-> kind, profile |-> profile, authority |-> authority, age |-> age]
ObjectTraits ==
  {<<Trait("entity", "all", "derived", "none"), Trait("entity", "all", "derived", "none"),
     Trait("doc", "all", "source_doc", "month")>>,
   <<Trait("entity", "watch", "derived", "none"), Trait("doc", "all", "derived", "week"),
     Trait("doc", "all", "api_doc", "old")>>,
   <<Trait("entity", "watch", "derived", "none"), Trait("entity", "other", "derived", "none"),
     Trait("entity", "all", "derived", "none")>>}
RetrieverSets == {Range(Retrievers), {}}

vars == <<subject, phaseVars, cacheVars, migrationVars, answerVars, makeVars, docVars, scanVars, metricVars,
          profileVars, ranking>>

\* The one initial state of a part that does not move.
PhaseIdle == PhaseInit /\ phase = IdlePhase("metadata", "code", {})
CacheIdle == CacheInit /\ \A p \in Embedders : embed[p].cfg = CHOOSE c \in Configs : TRUE
MigrationIdle == MigrationInit /\ store.target = "baseline_metadata" /\ store.current = 0

DocIdle == DocInit /\ document.format = "html"
MetricsIdle == MetricsInit /\ call = (CHOOSE c \in Calls : TRUE)
ProfilesIdle == ProfilesInit /\ builds = NoProfiles
NoRanking == [done |-> FALSE]
ScanIdle == ScanInit /\ tree = (CHOOSE t \in Trees : TRUE) /\ git = (CHOOSE g \in GitWorlds : TRUE)

Init ==
  /\ AnswersInit /\ MakeInit
  /\ subject \in {"phase", "cache", "migration", "routing", "question", "makefile", "document", "walk", "metrics", "profiles", "ranking"}
  /\ IF subject = "phase" THEN PhaseInit ELSE PhaseIdle
  /\ IF subject = "cache" THEN CacheInit ELSE CacheIdle
  /\ IF subject = "migration" THEN MigrationInit ELSE MigrationIdle
  /\ IF subject = "document" THEN DocInit ELSE DocIdle
  /\ IF subject = "walk" THEN ScanInit ELSE ScanIdle
  /\ IF subject = "metrics" THEN MetricsInit ELSE MetricsIdle
  /\ IF subject = "profiles" THEN ProfilesInit ELSE ProfilesIdle
  /\ IF subject = "ranking" THEN RankingInit ELSE ranking = NoRanking

Next ==
  /\ \/ subject = "phase" /\ PhaseNext
        /\ UNCHANGED <<cacheVars, migrationVars, answerVars, makeVars, docVars, scanVars, metricVars, profileVars, ranking>>
     \/ subject = "cache" /\ CacheNext
        /\ UNCHANGED <<phaseVars, migrationVars, answerVars, makeVars, docVars, scanVars, metricVars, profileVars, ranking>>
     \/ subject = "migration" /\ MigrationNext
        /\ UNCHANGED <<phaseVars, cacheVars, answerVars, makeVars, docVars, scanVars, metricVars, profileVars, ranking>>
     \/ subject = "routing" /\ RouterNext /\ question' \subseteq RouterItems
        /\ UNCHANGED <<phaseVars, cacheVars, migrationVars, answer, makeVars, docVars, scanVars, metricVars, profileVars, ranking>>
     \/ subject = "question" /\ AnsweredBriefly
        /\ UNCHANGED <<phaseVars, cacheVars, migrationVars, makeVars, docVars, scanVars, metricVars, profileVars, ranking>>
     \/ subject = "makefile" /\ MakeNext
        /\ UNCHANGED <<phaseVars, cacheVars, migrationVars, answerVars, docVars, scanVars, metricVars, profileVars, ranking>>
     \/ subject = "document" /\ DocNext
        /\ UNCHANGED <<phaseVars, cacheVars, migrationVars, answerVars, makeVars, scanVars, metricVars, profileVars, ranking>>
     \/ subject = "walk" /\ ScanNext
        /\ UNCHANGED <<phaseVars, cacheVars, migrationVars, answerVars, makeVars, docVars, metricVars, profileVars, ranking>>
     \/ subject = "metrics" /\ MetricsNext
        /\ UNCHANGED <<phaseVars, cacheVars, migrationVars, answerVars, makeVars, docVars, scanVars, profileVars, ranking>>
     \/ subject = "profiles" /\ ProfilesNext
        /\ UNCHANGED <<phaseVars, cacheVars, migrationVars, answerVars, makeVars, docVars, scanVars, metricVars, ranking>>
     \/ subject = "ranking" /\ RankingNext
        /\ UNCHANGED <<phaseVars, cacheVars, migrationVars, answerVars, makeVars, docVars, scanVars, metricVars, profileVars>>
  /\ UNCHANGED subject

\* A process that opens a store goes on unless it dies.
Spec ==
  /\ Init /\ [][Next]_vars
  /\ \A p \in Migrators :
       WF_vars(subject = "migration" /\ Migrate(p)
               /\ UNCHANGED <<subject, phaseVars, cacheVars, answerVars, makeVars, docVars, scanVars, metricVars, profileVars, ranking>>)
=============================================================================
