----------------------------- MODULE Retrieval ------------------------------
(***************************************************************************)
(* What a query finds, and the evidence it cites, while files are being    *)
(* indexed: the four retrievers (query/retrievers.py, query/graph.py),     *)
(* their fusion (query/rerank.py) and the evidence packager                *)
(* (query/evidence_packager.py).  Scores only order the candidates and cut *)
(* them to top_k: the answers here are those before the cut.               *)
(*                                                                         *)
(* A question is a record: text, the revision whose wording it uses;       *)
(* names, the kinds of entity it names; selected, the entity of its        *)
(* client_context; embeddings, whether the query can be embedded.  An      *)
(* evidence key is a pair <<table, id>>: ids begin with their kind.        *)
(***************************************************************************)
EXTENDS KnowledgeStore

CONSTANTS
  FollowedTypes,  \* the relation types of the intent
  MaxDepth        \* _graph_max_depth of the intent

ASSUME RetrievalAssumption == MaxDepth \in Nat

\* What a query reads: each retriever opens the store anew, here at one moment.
ReadStore(base) ==
  [chunks |-> LogicalObjects(base, "chunk"), entities |-> LogicalObjects(base, "entity"),
   relations |-> LogicalRelations(base), evidence |-> LogicalEvidence(base)]

\* get_chunk, get_entity, get_file: the row with an id, hidden or not.
GetPhysical(base, table, id) == {r \in Shadowed(base, table) : r.id = id}

Candidate(id, keys) == [id |-> id, keys |-> keys]

-----------------------------------------------------------------------------
\* SymbolRetriever: entities by name, by full text, or mentioned in a document
\* that full text finds.
SymbolTypes == {"symbol", "File", "Module"}

\* code_symbols, of the front matter.
MentionedNames(chunk) == IF chunk.file \in Docs THEN {"symbol"} ELSE {}

DocMentions(base, text) ==
  UNION {MentionedNames(c) : c \in
    UNION {GetPhysical(base, "chunk", i.row.id) : i \in SearchFts(base, "chunk", text)}}

SymbolHits(base, store, q) ==
  {i \in store.entities :
     /\ i.row.key \in SymbolTypes
     /\ \/ i.row.key \in q.names \cup DocMentions(base, q.text)
        \/ i.id \in Ids(SearchFts(base, "entity", q.text))}

SymbolCandidates(base, store, q) ==
  {Candidate(i.id, {<<"evidence", e.id>> : e \in {x \in store.evidence :
                      x.row.about = "entity" /\ x.row.object = i.id}}) :
     i \in SymbolHits(base, store, q)}

-----------------------------------------------------------------------------
\* FullTextRetriever: of the rows that match and stand for one object, the
\* preferred one gives the candidate its keys.
SourcePriority(source) == CASE source = "overlay" -> 3 [] source = "merged" -> 2 [] OTHER -> 1

Preferred(matches) ==
  {m \in matches : \A n \in matches :
     n.id = m.id => SourcePriority(n.source) <= SourcePriority(m.source)}

TextCandidates(base, text) ==
  UNION {{Candidate(m.id, {<<t, m.row.id>>, <<"file", m.row.file>>}) :
            m \in Preferred(SearchFts(base, t, text))} : t \in {"chunk", "entity"}}

\* _to_vector_match_result: a hit without a row is dropped, a row that is
\* hidden is not.
Hydrated(base, hits) == UNION {GetPhysical(base, "chunk", h.chunk) : h \in hits}

\* _vector_matches_to_fusion
NearCandidates(chunks) == {Candidate(c.id, {<<"chunk", c.id>>, <<"file", c.file>>}) : c \in chunks}

\* VectorRetriever: whatever is near, or full text without an embedding.
VectorCandidates(base, below, on, q) ==
  IF q.embeddings THEN NearCandidates(Hydrated(base, VectorHits(base, below, on)))
  ELSE TextCandidates(base, q.text)

-----------------------------------------------------------------------------
\* traverse_entity_graph from the live ones of the seeds; relations followed
\* are those of the intent.
Reached(store, seeds) ==
  LET reached[d \in 0..MaxDepth] ==
        IF d = 0 THEN seeds \cap Ids(store.entities)
        ELSE reached[d - 1] \cup
             UNION {{i.row.src, i.row.dst} : i \in {x \in store.relations :
               x.row.type \in FollowedTypes /\ {x.row.src, x.row.dst} \cap reached[d - 1] # {}}}
  IN reached[MaxDepth]

\* _graph_nodes_to_fusion: nodes carry no keys.
NodeCandidate(node) == Candidate(node.id, {})

\* Nodes of the workspace map are left out.
GraphCandidates(store, seeds) ==
  {NodeCandidate(i) : i \in {x \in store.entities : x.id \in Reached(store, seeds)}}

\* The best three: exact names first, then functions before files before modules.
Rank(q, i) ==
  LET type == CASE i.row.key = "symbol" -> 0 [] i.row.key = "File" -> 1 [] OTHER -> 2
  IN IF i.row.key \in q.names THEN type ELSE 3 + type

GraphSeeds(q, hits) ==
  IF hits = {} THEN {q.selected}
  ELSE Ids(CHOOSE best \in SUBSET hits :
             /\ Cardinality(best) = Min({3, Cardinality(hits)})
             /\ \A i \in best, j \in hits \ best : Rank(q, i) <= Rank(q, j))

-----------------------------------------------------------------------------
\* fuse_ranked_candidates: one candidate for each object, with all its keys.
Fuse(candidates) ==
  {Candidate(id, UNION {c.keys : c \in {x \in candidates : x.id = id}}) :
     id \in {c.id : c \in candidates}}

\* Mutant: the catalogue is made of every row of evidence.
RawCatalog(base, store) == {Item(r.id, r, "overlay") : r \in Shadowed(base, "evidence")}

\* _logical_evidence_catalog
Catalog(base, store) == store.evidence

\* _catalog_entries
Entries(catalog, key) ==
  {e \in catalog : key \in {<<"evidence", e.id>>, <<"chunk", e.row.chunk>>,
                            <<e.row.about, e.row.object>>, <<"file", e.row.file>>}}

\* _evidence_ref_from_logical: lines and excerpt are those of its chunk and
\* its entity.
CitedByEvidence(base, e) ==
  UNION {{<<key[1], r>> : r \in GetPhysical(base, key[1], key[2])} :
           key \in {<<"chunk", e.row.chunk>>, <<e.row.about, e.row.object>>}}

\* _candidate_evidence_refs: the entries of the catalogue, and the object the
\* key itself names.
CitedByKey(base, catalog, key) ==
  (UNION {CitedByEvidence(base, e) : e \in Entries(catalog, key)}) \cup
  (IF key[1] \in {"chunk", "entity", "file"}
   THEN {<<key[1], r>> : r \in GetPhysical(base, key[1], key[2])} ELSE {})

\* bundle_for_query: rows of the store that are cited for a candidate; one
\* without any is cited by its own title and path.
CitedFor(base, catalog, c) == UNION {CitedByKey(base, catalog, k) : k \in c.keys}

Cited(base, catalog, candidates) == UNION {CitedFor(base, catalog, c) : c \in candidates}

\* bundle_for_entity
CitedForEntity(base, catalog, id) ==
  (UNION {CitedByEvidence(base, e) : e \in Entries(catalog, <<"entity", id>>)}) \cup
  {<<"entity", r>> : r \in GetPhysical(base, "entity", id)}

\* QueryService.search
Answer(base, below, on, q) ==
  LET store == ReadStore(base)
  IN Fuse(SymbolCandidates(base, store, q) \cup TextCandidates(base, q.text) \cup
          VectorCandidates(base, below, on, q) \cup
          GraphCandidates(store, GraphSeeds(q, SymbolHits(base, store, q))))

-----------------------------------------------------------------------------
\* What the logical view shows.
ShownRows(base, store) ==
  {<<"chunk", i.row>> : i \in store.chunks} \cup {<<"entity", i.row>> : i \in store.entities} \cup
  {<<"file", r>> : r \in {x \in Shadowed(base, "file") : ~IsTombstoned(base, "file", x.id)}}

NoEntity == <<>>
EverStored(base) == Ids(Shadowed(base, "entity"))

Questions(base, embeddings) ==
  [text : 1..MaxRevision, names : {{}, {"symbol"}, SymbolTypes},
   selected : {NoEntity} \cup EverStored(base), embeddings : embeddings]

\* An entity, its evidence, the chunk that cites and the vector of a chunk are
\* found through different rows, each hidden or replaced by rules of its own.
\* In the middle of any run, whatever is cited for an entity or for what is
\* near in meaning is text that the view shows, and no function or module
\* found by name is without evidence (evidence_packager.py bundle_for_query,
\* bundle_for_entity).
EvidenceCitesView ==
  LET store == ReadStore(db)
      catalog == Catalog(db, store)
      rows == ShownRows(db, store)
      named == SymbolCandidates(db, store, [text |-> MaxRevision, names |-> SymbolTypes])
      proven == SymbolCandidates(db, store, [text |-> Missing, names |-> SymbolTypes \ {"File"}])
      near == VectorCandidates(db, BaselineVectors, disk, [embeddings |-> TRUE])
  IN /\ Cited(db, catalog, Fuse(named \cup near)) \subseteq rows
     /\ \A c \in proven : CitedFor(db, catalog, c) # {}
     /\ \A i \in store.entities : CitedForEntity(db, catalog, i.id) \subseteq rows

\* "Tombstones must take part in every query path: metadata, FTS, vector,
\* relation, evidence" (doc/active_knowledge_server_architecture_design.md:3809,
\* also :3709): what an answer cites is never text that was replaced or deleted.
AnswerCitesView ==
  LET store == ReadStore(db)
  IN \A q \in Questions(db, BOOLEAN) :
       Cited(db, Catalog(db, store), Answer(db, BaselineVectors, disk, q)) \subseteq ShownRows(db, store)
=============================================================================
