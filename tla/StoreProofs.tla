----------------------------- MODULE StoreProofs -----------------------------
(***************************************************************************)
(* That what readers find agrees, whatever runs, crashes and edits did to  *)
(* the store: full-text search with the logical view, the evidence that is *)
(* cited with the text that is shown, the vectors with the references that *)
(* were committed, what readers see with what was planned, and what is     *)
(* stored of each path with what other paths refer to (KnowledgeStore,     *)
(* Retrieval, OverlayMap, StoreValidation).                                *)
(***************************************************************************)
EXTENDS Retrieval, DataFacts

(***************************************************************************)
(* The invariant.                                                          *)
(***************************************************************************)
Revisions == 1..MaxRevision

\* Every row there can be.
AllRows(t) ==
  UNION {UNION {IF t = "vector_ref" THEN RefRows(p, v) ELSE Bundle(p, v, Paths)[t] :
                  v \in Revisions} : p \in Paths}

Keys == UNION {{<<t, id>> : id \in Ids(AllRows(t))} : t \in Tables}

Writing == run.pc \in {"manifest", "refs"}

TypedRun ==
  /\ run = [pc |-> run.pc, job |-> run.job, plan |-> run.plan, todo |-> run.todo,
            vectors |-> run.vectors, segment |-> run.segment, doc |-> run.doc,
            dirty |-> run.dirty, failed |-> run.failed]
  /\ run.pc \in {"idle", "metadata", "vectors", "manifest", "refs", "compact", "save"}
  /\ run.plan \in [Paths -> Hashes] /\ run.todo \subseteq Paths /\ run.vectors \subseteq Docs
  /\ \A d \in run.vectors : run.plan[d] # Missing
  /\ Writing => run.doc \in run.vectors
  /\ ws \in [Paths -> 1..Gone]

TypedStore ==
  /\ db = [baseline |-> PublishedBaseline, overlay |-> db.overlay,
           tombstone |-> db.tombstone, replacement |-> db.replacement]
  /\ db.overlay = [t \in Tables |-> db.overlay[t]]
  /\ \A t \in Tables : db.overlay[t] \subseteq AllRows(t)
  /\ DOMAIN db.replacement \subseteq Keys

\* What is replaced is hidden, by something of the same kind in the same file.
ReplacedIsHidden ==
  \A k \in DOMAIN db.replacement : k[1] \in {"chunk", "entity"} =>
    /\ k \in db.tombstone
    /\ db.replacement[k][1] = k[2][1] /\ db.replacement[k][2] = k[2][2]
    /\ k[2][2] \in {"section", "symbol", "Symbol"}

\* A symbol's chunk, entity and evidence are stored together, and hidden so.
SymbolChunk(p, l) == <<p, "symbol", l>>
SymbolEntity(p, l) == <<p, "Symbol", l>>
SymbolEvidence(p, l) == Evidence(p, SymbolEntity(p, l), SymbolChunk(p, l))
ModuleEvidence(p) == Evidence(p, <<p, "Module">>, NoChunk)

TwinsIn(base) ==
  \A p \in Paths :
    /\ \A l \in Nat : /\ SymbolChunk(p, l) \in Ids(base["chunk"]) <=> SymbolEntity(p, l) \in Ids(base["entity"])
                      /\ SymbolEntity(p, l) \in Ids(base["entity"]) => SymbolEvidence(p, l) \in base["evidence"]
    /\ <<p, "Module">> \in Ids(base["entity"]) => ModuleEvidence(p) \in base["evidence"]

TwinsHiddenIn(hidden) ==
  \A p \in Paths :
    \/ <<"file", p>> \in hidden
    \/ /\ \A l \in Nat :
            /\ <<"chunk", SymbolChunk(p, l)>> \in hidden => <<"entity", SymbolEntity(p, l)>> \in hidden
            /\ <<"evidence", SymbolEvidence(p, l).id>> \in hidden => <<"chunk", SymbolChunk(p, l)>> \in hidden
       /\ <<"evidence", ModuleEvidence(p).id>> \notin hidden

StoreInv ==
  TypedRun /\ TypedStore /\ ReplacedIsHidden /\ TwinsIn(db.overlay) /\ TwinsHiddenIn(db.tombstone)

-----------------------------------------------------------------------------
Loads(on, k, h) == k \in DOMAIN LoadRows(on) /\ LoadRows(on)[k] = h

Names == [job : Nat, part : Nat]

TypedFiles(on) ==
  /\ on = [rows |-> on.rows, segments |-> on.segments, listed |-> on.listed]
  /\ IsFiniteSet(DOMAIN on.segments) /\ DOMAIN on.segments \subseteq Names
  /\ on.segments = [n \in DOMAIN on.segments |-> on.segments[n]]
  /\ on.listed \in Seq(Names)

TypedDisk == TypedFiles(disk) /\ (run.pc # "compact" => Listed(disk) \subseteq DOMAIN disk.segments)

TypedPhase ==
  /\ run.pc # "metadata" => run.todo = {}
  /\ run.job \in Nat

PendingSegment ==
  Writing => /\ run.segment \in DOMAIN disk.segments
             /\ disk.segments[run.segment] = VectorRows(run.doc)
             /\ run.pc = "manifest" => run.segment \notin Listed(disk)

\* No text is newer than the workspace, nor than what a run will write over it.
TextsAreOld ==
  /\ \A p \in Paths : run.plan[p] <= ws[p]
  /\ \A c \in db.overlay["chunk"] :
       /\ c.text <= ws[c.file]
       /\ c.file \in run.todo /\ run.plan[c.file] # Missing => c.text <= run.plan[c.file]

ChunksAreOnce == \A a, b \in db.overlay["chunk"] : a.id = b.id => a = b

\* The documents whose vectors are to come have their chunks.
ChunksComeFirst ==
  \A d \in run.vectors : d \in run.todo \/ ChunkRows(d, run.plan[d]) \subseteq db.overlay["chunk"]

\* What the files hold of a row, the segment being written left aside.
Settled(k, h) ==
  /\ Writing => Loads(RemoveSegment(disk, run.segment), k, h)
  /\ run.pc = "compact" => k \in DOMAIN disk.rows /\ disk.rows[k] = h
  /\ ~Writing /\ run.pc # "compact" => Loads(disk, k, h)

RefsAreSettled ==
  \A r \in db.overlay["vector_ref"] : \E c \in db.overlay["chunk"] :
    /\ c.id = r.object /\ r.hash <= c.text
    /\ c.text = r.hash => Settled(r.id, r.hash)

VectorsInv ==
  TypedDisk /\ TypedPhase /\ PendingSegment /\ TextsAreOld /\ ChunksAreOnce /\ ChunksComeFirst /\ RefsAreSettled

(***************************************************************************)
(* Rows.                                                                   *)
(***************************************************************************)
LEMMA Bound == MaxRevision \in Nat \ {0} /\ Revisions \subseteq Nat /\ 1 \in Revisions /\ Hashes = Revisions \cup {Missing}
BY StoreAssumption DEF Revisions, Hashes, Missing

\* What a chunk's row is: its id tells its file and its kind.
IsChunk(p, v, c) ==
  /\ c = Row(p, c.id[2], c.id, v) /\ c.id[1] = p /\ c.id # NoChunk
  /\ \/ c.id \in {<<p, "header">>, <<p, "symbol", Line[v]>>} /\ p \in Sources
     \/ c.id \in {<<p, "section", v>>, <<p, "item">>} /\ p \in Docs

LEMMA ChunkRowsAre ==
  ASSUME NEW p \in Paths, NEW v
  PROVE  \A c \in ChunkRows(p, v) : IsChunk(p, v, c)
<1>1. p \in Sources => p \notin Docs
  BY StoreAssumption DEF CodePaths
<1>2. CASE p \in Sources
  <2> SUFFICES ASSUME NEW c \in SourceChunkRows(p, v) PROVE IsChunk(p, v, c)
    BY <1>1, <1>2 DEF ChunkRows
  <2>1. c = Row(p, "header", <<p, "header">>, v) \/ c = Row(p, "symbol", <<p, "symbol", Line[v]>>, v)
    BY DEF SourceChunkRows
  <2> QED BY <1>2, <2>1 DEF Row, IsChunk, NoChunk
<1>3. CASE p \in Docs
  BY <1>1, <1>3 DEF ChunkRows, DocChunkRows, Row, IsChunk, NoChunk
<1>4. CASE p \notin Sources /\ p \notin Docs
  BY <1>4 DEF ChunkRows
<1> QED BY <1>2, <1>3, <1>4

LEMMA ChunkOfKind ==
  ASSUME NEW p \in Paths, NEW v, NEW a \in ChunkRows(p, v), NEW b \in ChunkRows(p, v), a.id[2] = b.id[2]
  PROVE  a = b
<1>1. IsChunk(p, v, a) /\ IsChunk(p, v, b)
  BY ChunkRowsAre
<1>2. a.id = b.id
  <2>1. p \in Sources => p \notin Docs
    BY StoreAssumption DEF CodePaths
  <2>2. CASE p \in Sources
    BY <1>1, <2>1, <2>2 DEF IsChunk
  <2>3. CASE p \in Docs
    BY <1>1, <2>1, <2>3 DEF IsChunk
  <2> QED BY <1>1, <2>2, <2>3 DEF IsChunk
<1> QED BY <1>1, <1>2 DEF IsChunk

IsEntity(p, v, e) ==
  /\ e.file = p /\ e.text = v /\ e.id[1] = p
  /\ \/ e.id = <<p, "Symbol", Line[v]>> /\ e.key = "symbol" /\ p \in Sources
     \/ e.id \in {<<p, "File">>, <<p, "Document">>, <<p, "API">>} /\ e.key = e.id[2]
     \/ e.id = <<p, "Module">> /\ e.key = "Module" /\ p \in Makefiles

LEMMA EntityRowsAre ==
  ASSUME NEW p \in Paths, NEW v
  PROVE  \A e \in EntityRows(p, v) : IsEntity(p, v, e)
<1>1. p \in Sources => p \notin Makefiles
  BY StoreAssumption
<1>2. CASE p \in Sources
  <2> SUFFICES ASSUME NEW e \in SourceEntityRows(p, v) PROVE IsEntity(p, v, e)
    BY <1>1, <1>2 DEF EntityRows
  <2>1. e = Row(p, "File", <<p, "File">>, v) \/ e = Row(p, "symbol", <<p, "Symbol", Line[v]>>, v)
    BY DEF SourceEntityRows
  <2> QED BY <1>2, <2>1 DEF Row, IsEntity
<1>3. CASE p \in Makefiles
  BY <1>1, <1>3 DEF EntityRows, ModuleRows, Row, IsEntity
<1>4. CASE p \notin Sources /\ p \notin Makefiles
  BY <1>4 DEF EntityRows, DocEntityRows, Row, IsEntity
<1> QED BY <1>2, <1>3, <1>4

LEMMA EntityOfKind ==
  ASSUME NEW p \in Paths, NEW v, NEW a \in EntityRows(p, v), NEW b \in EntityRows(p, v), a.key = b.key
  PROVE  a.id = b.id
BY EntityRowsAre DEF IsEntity

LEMMA FinitePaths == /\ IsFiniteSet(Paths) /\ IsFiniteSet(Makefiles) /\ IsFiniteSet(Sources)
                     /\ IsFiniteSet(Revisions) /\ IsFiniteSet(Tables)
<1>1. IsFiniteSet(Paths) BY StoreAssumption
<1>2. Makefiles \in SUBSET Paths /\ Sources \in SUBSET Paths BY DEF Paths, CodePaths
<1>3. IsFiniteSet(Makefiles) /\ IsFiniteSet(Sources) BY <1>1, <1>2, FS_Subset
<1>4. IsFiniteSet(Revisions) BY Bound, FS_Interval DEF Revisions
<1>5. IsFiniteSet({"file", "chunk", "entity", "relation"}) /\ IsFiniteSet({"evidence", "vector_ref", "file", "chunk"})
  BY FewAreFinite
<1>6. IsFiniteSet({"file", "chunk", "entity", "relation"} \cup {"evidence", "vector_ref", "file", "chunk"})
  BY <1>5, FS_Union
<1>7. Tables = {"file", "chunk", "entity", "relation"} \cup {"evidence", "vector_ref", "file", "chunk"}
  BY DEF Tables
<1> QED BY <1>1, <1>3, <1>4, <1>6, <1>7

LEMMA FewChunks == \A p, v : IsFiniteSet(ChunkRows(p, v))
<1> SUFFICES ASSUME NEW p, NEW v PROVE IsFiniteSet(ChunkRows(p, v)) OBVIOUS
<1> DEFINE all == {Row(p, "header", <<p, "header">>, v), Row(p, "symbol", <<p, "symbol", Line[v]>>, v),
                   Row(p, "section", <<p, "section", v>>, v), Row(p, "item", <<p, "item">>, v)}
<1>1. ChunkRows(p, v) \in SUBSET all
  <2>1. SourceChunkRows(p, v) \subseteq all BY DEF SourceChunkRows
  <2>2. DocChunkRows(p, v) \subseteq all BY DEF DocChunkRows
  <2> QED BY <2>1, <2>2 DEF ChunkRows
<1>2. IsFiniteSet(all) BY FewAreFinite
<1> QED BY <1>1, <1>2, FS_Subset

LEMMA FewEntities == \A p, v : IsFiniteSet(EntityRows(p, v))
<1> SUFFICES ASSUME NEW p, NEW v PROVE IsFiniteSet(EntityRows(p, v)) OBVIOUS
<1> DEFINE code == {Row(p, "File", <<p, "File">>, v), Row(p, "symbol", <<p, "Symbol", Line[v]>>, v),
                    Row(p, "Module", <<p, "Module">>, v), Row(p, "File", <<p, "File">>, v)}
           doc == {Row(p, "Document", <<p, "Document">>, v), Row(p, "API", <<p, "API">>, v),
                   Row(p, "Document", <<p, "Document">>, v), Row(p, "API", <<p, "API">>, v)}
<1>1. EntityRows(p, v) \in SUBSET (code \cup doc)
  <2>1. SourceEntityRows(p, v) \subseteq code BY DEF SourceEntityRows
  <2>2. ModuleRows(p, v) \subseteq code /\ DocEntityRows(p, v) \subseteq doc BY DEF ModuleRows, DocEntityRows
  <2> QED BY <2>1, <2>2 DEF EntityRows
<1>2. IsFiniteSet(code) /\ IsFiniteSet(doc) BY FewAreFinite
<1>3. IsFiniteSet(code \cup doc) BY <1>2, FS_Union
<1> QED BY <1>1, <1>3, FS_Subset

LEMMA FewEvidence == \A p, v : IsFiniteSet(EvidenceRows(p, v))
<1> SUFFICES ASSUME NEW p, NEW v PROVE IsFiniteSet(EvidenceRows(p, v)) OBVIOUS
<1> DEFINE code == {Evidence(p, <<p, "File">>, <<p, "header">>),
                    Evidence(p, <<p, "Symbol", Line[v]>>, <<p, "symbol", Line[v]>>),
                    Evidence(p, <<p, "Module">>, <<>>), Evidence(p, <<p, "API">>, <<p, "item">>)}
           doc == {Evidence(p, <<p, "Document">>, <<p, "section", v>>)}
<1>1. EvidenceRows(p, v) \in SUBSET (code \cup doc)
  <2>1. SourceEvidence(p, v) \subseteq code BY DEF SourceEvidence
  <2>2. DocEvidence(p, v) \subseteq code \cup doc BY DEF DocEvidence
  <2> QED BY <2>1, <2>2 DEF EvidenceRows
<1>2. IsFiniteSet(code) /\ IsFiniteSet(doc) BY FewAreFinite, FS_Singleton
<1>3. IsFiniteSet(code \cup doc) BY <1>2, FS_Union
<1> QED BY <1>1, <1>3, FS_Subset

LEMMA FewRelations == \A p, v : IsFiniteSet(RelationRows(p, v, Paths))
<1> SUFFICES ASSUME NEW p, NEW v PROVE IsFiniteSet(RelationRows(p, v, Paths)) OBVIOUS
<1> DEFINE defines == {Relation("defines", <<p, "File">>, <<p, "Symbol", Line[v]>>),
                       Relation("defines", <<p, "File">>, <<p, "Module">>),
                       Relation("defines", <<p, "File">>, <<p, "Symbol", Line[v]>>),
                       Relation("defines", <<p, "File">>, <<p, "Module">>)}
           pair(m) == [s \in Sources |-> {Relation("contains", <<m, "Module">>, <<s, "File">>),
                                          Relation("belongs_to_module", <<s, "File">>, <<m, "Module">>)}]
           members(m) == UNION {pair(m)[s] : s \in Sources}
           touching == [m \in Makefiles |-> {r \in Membership(m, Paths) : p \in {r.src[1], r.dst[1]}}]
<1>1. Defines(p, v) \in SUBSET defines BY DEF Defines
<1>2. IsFiniteSet(Defines(p, v)) BY <1>1, FewAreFinite, FS_Subset
<1>3. ASSUME NEW m \in Makefiles PROVE IsFiniteSet(touching[m])
  <2>1. \A s \in Sources : IsFiniteSet(pair(m)[s])
    <3>1. ASSUME NEW a, NEW b PROVE IsFiniteSet({a, b})
      <4>1. {a, b} = {a, b, a, b} OBVIOUS
      <4>2. IsFiniteSet({a, b, a, b}) BY FewAreFinite
      <4> QED BY <4>1, <4>2
    <3> QED BY <3>1
  <2>2. IsFiniteSet(members(m))
    <3> HIDE DEF pair
    <3> QED BY <2>1, FinitePaths, UnionIsFinite
  <2>3. touching[m] \in SUBSET members(m) BY DEF Membership
  <2> QED BY <2>2, <2>3, FS_Subset
<1>4. IsFiniteSet(UNION {touching[m] : m \in Makefiles})
  <2> HIDE DEF touching
  <2> QED BY <1>3, FinitePaths, UnionIsFinite
<1>5. RelationRows(p, v, Paths) = Defines(p, v) \cup UNION {touching[m] : m \in Makefiles}
  <2>1. Makefiles \cap Paths = Makefiles BY DEF Paths, CodePaths
  <2> QED BY <2>1 DEF RelationRows
<1> HIDE DEF touching
<1>6. IsFiniteSet(Defines(p, v) \cup UNION {touching[m] : m \in Makefiles})
  BY <1>2, <1>4, FS_Union
<1> QED BY <1>5, <1>6

LEMMA FewRefs == \A p, v : IsFiniteSet(RefRows(p, v))
<1> SUFFICES ASSUME NEW p, NEW v PROVE IsFiniteSet(RefRows(p, v)) OBVIOUS
<1> DEFINE f == [c \in ChunkRows(p, v) |-> [id |-> <<"ref", c.id>>, object |-> c.id, hash |-> c.text]]
<1>1. IsFiniteSet({f[c] : c \in ChunkRows(p, v)})
  <2> HIDE DEF f
  <2> QED BY FewChunks, ImageIsFinite
<1>2. RefRows(p, v) \subseteq {f[c] : c \in ChunkRows(p, v)} BY DEF RefRows
<1> QED BY <1>1, <1>2, FS_Subset

LEMMA KeysAreFinite == IsFiniteSet(Keys)
<1> DEFINE Of(t, p, v) == IF t = "vector_ref" THEN RefRows(p, v) ELSE Bundle(p, v, Paths)[t]
           Upto(t, p) == UNION {Of(t, p, v) : v \in Revisions}
<1>1. ASSUME NEW t \in Tables, NEW p, NEW v PROVE IsFiniteSet(Of(t, p, v))
  <2>1. CASE t = "vector_ref"
    <3>1. Of(t, p, v) = RefRows(p, v) BY <2>1
    <3> QED BY <3>1, FewRefs
  <2>2. CASE t = "chunk" BY <2>2, FewChunks DEF Bundle
  <2>3. CASE t = "entity" BY <2>3, FewEntities DEF Bundle
  <2>4. CASE t = "relation" BY <2>4, FewRelations DEF Bundle
  <2>5. CASE t = "evidence" BY <2>5, FewEvidence DEF Bundle
  <2>6. CASE t = "file"
    <3>1. Of(t, p, v) = {[id |-> p, text |-> v]} BY <2>6 DEF Bundle, FileRows
    <3> QED BY <3>1, FS_Singleton
  <2> QED BY <2>1, <2>2, <2>3, <2>4, <2>5, <2>6 DEF Tables
<1> HIDE DEF Of
<1>2. ASSUME NEW t \in Tables, NEW p PROVE IsFiniteSet(Upto(t, p))
  <2> DEFINE f == [v \in Revisions |-> Of(t, p, v)]
  <2>1. \A v \in Revisions : IsFiniteSet(f[v]) BY <1>1
  <2>2. UNION {f[v] : v \in Revisions} = Upto(t, p) OBVIOUS
  <2> HIDE DEF f
  <2>3. IsFiniteSet(UNION {f[v] : v \in Revisions}) BY <2>1, FinitePaths, UnionIsFinite
  <2> QED BY <2>2, <2>3
<1> HIDE DEF Upto
<1>3. ASSUME NEW t \in Tables PROVE IsFiniteSet(AllRows(t))
  <2> DEFINE f == [p \in Paths |-> Upto(t, p)]
  <2>1. \A p \in Paths : IsFiniteSet(f[p]) BY <1>2
  <2>2. UNION {f[p] : p \in Paths} = AllRows(t) BY DEF AllRows, Upto, Of
  <2> HIDE DEF f
  <2> QED BY <2>1, <2>2, FinitePaths, UnionIsFinite
<1>4. ASSUME NEW t \in Tables PROVE IsFiniteSet({<<t, id>> : id \in Ids(AllRows(t))})
  <2> DEFINE f == [r \in AllRows(t) |-> <<t, r.id>>]
  <2>1. IsFiniteSet({f[r] : r \in AllRows(t)})
    <3> HIDE DEF f
    <3> QED BY <1>3, ImageIsFinite
  <2>2. {f[r] : r \in AllRows(t)} = {<<t, id>> : id \in Ids(AllRows(t))} BY DEF Ids
  <2> QED BY <2>1, <2>2
<1> DEFINE g == [t \in Tables |-> {<<t, id>> : id \in Ids(AllRows(t))}]
<1>5. \A t \in Tables : IsFiniteSet(g[t]) BY <1>4
<1>6. Keys = UNION {g[t] : t \in Tables} BY DEF Keys
<1> HIDE DEF g
<1> QED BY <1>5, <1>6, FinitePaths, UnionIsFinite

-----------------------------------------------------------------------------
\* What is stored, and what its id says of it.
LEMMA StoredRows ==
  ASSUME NEW t \in Tables \ {"vector_ref"}, NEW p \in Paths, NEW v \in Revisions, NEW C \in SUBSET Paths
  PROVE  Bundle(p, v, C)[t] \subseteq AllRows(t)
<1>1. Bundle(p, v, Paths)[t] \subseteq AllRows(t) BY DEF AllRows
<1>2. Bundle(p, v, C)[t] \subseteq Bundle(p, v, Paths)[t]
  <2>1. RelationRows(p, v, C) \subseteq RelationRows(p, v, Paths)
    <3>1. \A m : Membership(m, C) \subseteq Membership(m, Paths) BY DEF Membership
    <3>2. Makefiles \cap C \subseteq Makefiles \cap Paths OBVIOUS
    <3> QED BY <3>1, <3>2 DEF RelationRows
  <2>2. CASE t = "relation" BY <2>1, <2>2 DEF Bundle
  <2>3. CASE t # "relation" BY <2>3 DEF Bundle, Tables
  <2> QED BY <2>2, <2>3
<1> QED BY <1>1, <1>2

LEMMA StoredRefs ==
  ASSUME NEW p \in Paths, NEW v \in Revisions
  PROVE  RefRows(p, v) \subseteq AllRows("vector_ref")
BY DEF AllRows

LEMMA StoredIn ==
  ASSUME NEW t \in Tables \ {"vector_ref"}, NEW r \in AllRows(t)
  PROVE  \E p \in Paths, v \in Revisions : r \in Bundle(p, v, Paths)[t]
BY DEF AllRows

LEMMA KnownChunk ==
  ASSUME NEW c \in AllRows("chunk")
  PROVE  \E p \in Paths, v \in Revisions : c \in ChunkRows(p, v) /\ IsChunk(p, v, c)
<1>1. PICK p \in Paths, v \in Revisions : c \in Bundle(p, v, Paths)["chunk"]
  BY StoredIn DEF Tables
<1>2. c \in ChunkRows(p, v) BY <1>1 DEF Bundle
<1> QED BY <1>2, ChunkRowsAre

LEMMA KnownEntity ==
  ASSUME NEW e \in AllRows("entity")
  PROVE  \E p \in Paths, v \in Revisions : e \in EntityRows(p, v) /\ IsEntity(p, v, e)
<1>1. PICK p \in Paths, v \in Revisions : e \in Bundle(p, v, Paths)["entity"]
  BY StoredIn DEF Tables
<1>2. e \in EntityRows(p, v) BY <1>1 DEF Bundle
<1> QED BY <1>2, EntityRowsAre

LEMMA KnownObject ==
  ASSUME NEW t \in {"chunk", "entity"}, NEW r \in AllRows(t)
  PROVE  r.file = r.id[1] /\ r.id[1] \in Paths /\ r.text \in Revisions
<1>1. CASE t = "chunk"
  <2>1. PICK p \in Paths, v \in Revisions : IsChunk(p, v, r) BY <1>1, KnownChunk
  <2> QED BY <2>1 DEF IsChunk, Row
<1>2. CASE t = "entity" BY <1>2, KnownEntity DEF IsEntity
<1> QED BY <1>1, <1>2

LEMMA KnownEvidence ==
  ASSUME NEW e \in AllRows("evidence")
  PROVE  /\ e = Evidence(e.file, e.object, e.chunk)
         /\ e.file \in Paths /\ e.object[1] = e.file
         /\ e.chunk # NoChunk => e.chunk[1] = e.file
<1>1. PICK p \in Paths, v \in Revisions : e \in Bundle(p, v, Paths)["evidence"]
  BY StoredIn DEF Tables
<1>2. e \in EvidenceRows(p, v) BY <1>1 DEF Bundle
<1>3. CASE e \in SourceEvidence(p, v)
  <2>1. e = Evidence(p, <<p, "File">>, <<p, "header">>)
        \/ e = Evidence(p, <<p, "Symbol", Line[v]>>, <<p, "symbol", Line[v]>>)
    BY <1>3 DEF SourceEvidence
  <2> QED BY <2>1 DEF Evidence, NoChunk
<1>4. CASE e = Evidence(p, <<p, "Module">>, <<>>) BY <1>4 DEF Evidence, NoChunk
<1>5. CASE e \in DocEvidence(p, v) BY <1>5 DEF DocEvidence, Evidence, NoChunk
<1> QED BY <1>2, <1>3, <1>4, <1>5 DEF EvidenceRows

LEMMA KnownRef ==
  ASSUME NEW r \in AllRows("vector_ref")
  PROVE  \E d \in Docs, v \in Revisions : \E c \in ChunkRows(d, v) :
           r = [id |-> <<"ref", c.id>>, object |-> c.id, hash |-> v]
<1>1. PICK p \in Paths, v \in Revisions : r \in RefRows(p, v) BY DEF AllRows
<1>2. p \in Docs BY <1>1 DEF RefRows
<1>3. PICK c \in ChunkRows(p, v) : r = [id |-> <<"ref", c.id>>, object |-> c.id, hash |-> c.text]
  BY <1>1, <1>2 DEF RefRows
<1>4. c.text = v BY ChunkRowsAre DEF IsChunk, Row
<1> QED BY <1>2, <1>3, <1>4

-----------------------------------------------------------------------------
(* Replacements.                                                           *)

Follows(f, d, t, id) ==
  f = [k \in 0..Cardinality(DOMAIN d.replacement) |->
         IF k = 0 THEN [at |-> id, seen |-> {id}]
         ELSE LET prev == f[k - 1]
                  key == <<t, prev.at>>
              IN IF key \in DOMAIN d.replacement /\ d.replacement[key] \notin prev.seen
                 THEN [at |-> d.replacement[key], seen |-> prev.seen \cup {d.replacement[key]}]
                 ELSE prev]

\* Following replacements does not leave a set that they do not lead out of.
LEMMA ResolveStays ==
  ASSUME NEW d, IsFiniteSet(DOMAIN d.replacement), NEW t, NEW C, NEW id \in C,
         \A k \in DOMAIN d.replacement : k[1] = t /\ k[2] \in C => d.replacement[k] \in C
  PROVE  Resolve(d, t, id) \in C
<1> DEFINE n == Cardinality(DOMAIN d.replacement)
           V == [at : C, seen : SUBSET C]
           Goes(v) == <<t, v.at>> \in DOMAIN d.replacement /\ d.replacement[<<t, v.at>>] \notin v.seen
           Next1(v) == IF Goes(v)
                      THEN [at |-> d.replacement[<<t, v.at>>], seen |-> v.seen \cup {d.replacement[<<t, v.at>>]}]
                      ELSE v
           Op == [pair \in (1..n) \X V |-> Next1(pair[2])]
           start == [at |-> id, seen |-> {id}]
           f == CHOOSE g : Follows(g, d, t, id)
<1>1. n \in Nat BY FS_CardinalityType
<1>2. \A v \in V : Next1(v) \in V
  <2> TAKE v \in V
  <2>1. CASE Goes(v)
    <3>1. d.replacement[<<t, v.at>>] \in C BY <2>1
    <3> QED BY <2>1, <3>1
  <2> QED BY <2>1
<1>3. start \in V OBVIOUS
<1> HIDE DEF Next1, V, start, n
<1>4. \A k \in 1..n : \A v \in V : Op[<<k, v>>] = Next1(v) OBVIOUS
<1> HIDE DEF Op
<1>5. PICK g \in [0..n -> V] : Stepped(g, n, start, Op)
  <2>1. StepsStay(n, V, Op) BY <1>2, <1>4 DEF StepsStay
  <2> HIDE DEF f
  <2> QED BY <1>1, <1>3, <2>1, RecursionOverPositions
<1>6. \A k \in 0..n : g[k] = IF k = 0 THEN start ELSE Next1(g[k - 1])
  <2> TAKE k \in 0..n
  <2>1. k # 0 => k \in 1..n /\ g[k - 1] \in V BY <1>1, <1>5
  <2> QED BY <1>4, <1>5, <2>1 DEF Stepped
<1>7. g = [k \in 0..n |-> IF k = 0 THEN start ELSE Next1(g[k - 1])] BY <1>5, <1>6
<1>8. Follows(g, d, t, id) BY <1>7 DEF Follows, Next1, start, n
<1>9. Follows(f, d, t, id) BY <1>8
<1>10. Resolve(d, t, id) = IF <<t, id>> \notin DOMAIN d.replacement THEN id ELSE f[n].at
  BY DEF Resolve, Follows, n
<1> HIDE DEF f
<1>11. f = [k \in 0..n |-> IF k = 0 THEN start ELSE Next1(f[k - 1])] BY <1>9 DEF Follows, Next1, start, n
<1>12. \A k \in 0..n : f[k] = IF k = 0 THEN start ELSE Next1(f[k - 1]) BY <1>11, Zenon
<1> DEFINE N == {m \in Nat : m \in 0..n => f[m] \in V}
<1>13. 0 \in N BY <1>3, <1>12
<1>14. ASSUME NEW m \in Nat, m \in N PROVE m + 1 \in N
  <2> SUFFICES ASSUME m + 1 \in 0..n PROVE f[m + 1] \in V OBVIOUS
  <2>1. m \in 0..n /\ m + 1 # 0 /\ (m + 1) - 1 = m BY <1>1
  <2>2. f[m + 1] = Next1(f[m]) BY <1>12, <2>1
  <2> QED BY <1>2, <1>14, <2>1, <2>2
<1> HIDE DEF N
<1>15. n \in N BY <1>1, <1>13, <1>14, NumbersInduct
<1>16. f[n] \in V BY <1>1, <1>15 DEF N
<1> QED BY <1>10, <1>16 DEF V

(***************************************************************************)
(* The logical view.                                                       *)
(***************************************************************************)
Objects == {"chunk", "entity"}

LEMMA StoredRow ==
  ASSUME TypedStore, NEW t \in Tables
  PROVE  db.overlay[t] \subseteq AllRows(t) /\ db.baseline[t] \subseteq AllRows(t)
<1>1. 1 \in Revisions /\ Baseline \subseteq Paths BY Bound, StoreAssumption
<1>2. PublishedBaseline[t] \subseteq AllRows(t)
  <2>1. CASE t = "vector_ref"
    <3>1. \A p \in Baseline : RefRows(p, 1) \subseteq AllRows("vector_ref") BY <1>1, StoredRefs
    <3> QED BY <2>1, <3>1 DEF PublishedBaseline
  <2>2. CASE t # "vector_ref"
    <3>1. \A p \in Baseline : Bundle(p, 1, Baseline)[t] \subseteq AllRows(t) BY <1>1, <2>2, StoredRows
    <3> QED BY <2>2, <3>1 DEF PublishedBaseline
  <2> QED BY <2>1, <2>2
<1>3. db.baseline = PublishedBaseline BY DEF TypedStore
<1> QED BY <1>2, <1>3 DEF TypedStore

\* Nothing stands for an object that is not hidden.
LEMMA NotReplaced ==
  ASSUME ReplacedIsHidden, NEW t \in Objects, NEW id, ~IsTombstoned(db, t, id)
  PROVE  Resolve(db, t, id) = id /\ ~IsReplaced(db, t, id)
BY DEF ReplacedIsHidden, IsTombstoned, Resolve, IsReplaced, Objects

\* What stands for an object is of its kind and of its file.
LEMMA SuccessorIsLike ==
  ASSUME TypedStore, ReplacedIsHidden, NEW t \in Objects, NEW id
  PROVE  /\ Resolve(db, t, id)[1] = id[1] /\ Resolve(db, t, id)[2] = id[2]
         /\ IsReplaced(db, t, id) => <<t, id>> \in db.tombstone /\ id[2] \in {"section", "symbol", "Symbol"}
<1> DEFINE C == {x \in {id} \cup {db.replacement[k] : k \in DOMAIN db.replacement} :
                   x[1] = id[1] /\ x[2] = id[2]}
<1>1. IsFiniteSet(DOMAIN db.replacement) BY KeysAreFinite, FS_Subset DEF TypedStore
<1>2. \A k \in DOMAIN db.replacement : k[1] = t /\ k[2] \in C => db.replacement[k] \in C
  BY DEF ReplacedIsHidden, Objects
<1>3. id \in C OBVIOUS
<1>4. Resolve(db, t, id) \in C
  <2> HIDE DEF C
  <2> QED BY <1>1, <1>2, <1>3, ResolveStays
<1>5. IsReplaced(db, t, id) => <<t, id>> \in DOMAIN db.replacement BY DEF IsReplaced, Resolve
<1> QED BY <1>4, <1>5 DEF ReplacedIsHidden, Objects

\* A row is hidden by its id and the file its id names.
LEMMA HiddenById ==
  ASSUME NEW t \in Objects, NEW r \in AllRows(t)
  PROVE  RowHidden(db, t, r) <=> <<t, r.id>> \in db.tombstone \/ <<"file", r.id[1]>> \in db.tombstone
BY KnownObject DEF RowHidden, IsTombstoned, Objects

\* An item of the view shows its own row: none stands for another.
ShowsOwnRow(t, i) ==
  /\ i.id = i.row.id /\ i.row \in Shadowed(db, t) /\ ~RowHidden(db, t, i.row)
  /\ \/ i.source = "overlay" /\ i.row \in db.overlay[t]
     \/ i.source = "baseline" /\ i.row \in db.baseline[t] /\ i.id \notin Ids(db.overlay[t])


LEMMA ItemsAre ==
  ASSUME TypedStore, ReplacedIsHidden, NEW t \in Objects, NEW i \in LogicalObjects(db, t)
  PROVE  ShowsOwnRow(t, i)
<1> DEFINE displayed == {r \in db.overlay[t] : ~RowHidden(db, t, r)}
           live == LiveIds(db, t)
           below == {r \in db.baseline[t] : Resolve(db, t, r.id) \notin Ids(displayed)}
           kept == {r \in below : ~IsReplaced(db, t, r.id) /\ ~RowHidden(db, t, r)}
           moved == {r \in below : IsReplaced(db, t, r.id) /\ Resolve(db, t, r.id) \in live}
           successors == {Resolve(db, t, r.id) : r \in moved} \ Ids(kept)
<1>1. \/ i \in {Item(r.id, r, "overlay") : r \in displayed}
      \/ i \in {Item(r.id, r, "baseline") : r \in kept}
      \/ i \in {Item(id, CHOOSE r \in moved : Resolve(db, t, r.id) = id, "merged") : id \in successors}
  BY DEF LogicalObjects
<1>2. db.overlay[t] \subseteq AllRows(t) /\ db.baseline[t] \subseteq AllRows(t)
  BY StoredRow DEF Objects, Tables
<1>3. CASE i \in {Item(r.id, r, "overlay") : r \in displayed}
  BY <1>3 DEF Item, ShowsOwnRow, Shadowed
<1>4. CASE i \in {Item(r.id, r, "baseline") : r \in kept}
  <2>1. PICK r \in kept : i = Item(r.id, r, "baseline") BY <1>4
  <2>2. Resolve(db, t, r.id) = r.id BY <2>1 DEF IsReplaced
  <2>3. ASSUME r.id \in Ids(db.overlay[t]) PROVE FALSE
    <3>1. PICK s \in db.overlay[t] : s.id = r.id BY <2>3 DEF Ids
    <3>2. RowHidden(db, t, s) <=> RowHidden(db, t, r) BY <1>2, <2>1, <3>1, HiddenById
    <3>3. s \in displayed BY <2>1, <3>2
    <3>4. r.id \in Ids(displayed) BY <3>1, <3>3 DEF Ids
    <3> QED BY <2>1, <2>2, <3>4
  <2>4. i.id = r.id /\ i.row = r /\ i.source = "baseline" BY <2>1 DEF Item
  <2> QED BY <2>1, <2>3, <2>4 DEF ShowsOwnRow, Shadowed
<1>5. CASE i \in {Item(id, CHOOSE r \in moved : Resolve(db, t, r.id) = id, "merged") : id \in successors}
  <2>1. PICK id \in successors : i = Item(id, CHOOSE r \in moved : Resolve(db, t, r.id) = id, "merged") BY <1>5
  <2>2. \E r \in moved : Resolve(db, t, r.id) = id BY <2>1
  <2>3. id \notin Ids(displayed) /\ id \in live /\ id \notin Ids(kept) BY <2>2
  <2>4. PICK x \in Shadowed(db, t) : x.id = id /\ ~RowHidden(db, t, x) BY <2>3 DEF LiveIds, Ids
  <2>5. x \notin db.overlay[t] BY <2>3, <2>4 DEF Ids
  <2>6. x \in db.baseline[t] BY <2>4, <2>5 DEF Shadowed
  <2>7. Resolve(db, t, id) = id /\ ~IsReplaced(db, t, id) BY <2>4, NotReplaced DEF RowHidden
  <2>8. x \in kept BY <2>3, <2>4, <2>6, <2>7
  <2> QED BY <2>3, <2>4, <2>8 DEF Ids
<1> QED BY <1>1, <1>3, <1>4, <1>5

\* The view shows every row that is not hidden.
LEMMA LiveIsShown ==
  ASSUME TypedStore, ReplacedIsHidden, NEW t \in Objects, NEW r \in Shadowed(db, t), ~RowHidden(db, t, r)
  PROVE  \E i \in LogicalObjects(db, t) : i.id = r.id /\ i.row = r /\ i.source \in {"overlay", "baseline"}
<1>1. db.overlay[t] \subseteq AllRows(t) /\ db.baseline[t] \subseteq AllRows(t)
  BY StoredRow DEF Objects, Tables
<1>2. Resolve(db, t, r.id) = r.id /\ ~IsReplaced(db, t, r.id) BY NotReplaced DEF RowHidden
<1>3. CASE r \in db.overlay[t]
  <2>1. Item(r.id, r, "overlay") \in LogicalObjects(db, t) BY <1>3 DEF LogicalObjects
  <2> QED BY <2>1 DEF Item
<1>4. CASE r \in db.baseline[t] /\ r.id \notin Ids(db.overlay[t])
  <2>1. r.id \notin Ids({x \in db.overlay[t] : ~RowHidden(db, t, x)}) BY <1>4 DEF Ids
  <2>2. Item(r.id, r, "baseline") \in LogicalObjects(db, t) BY <1>2, <1>4, <2>1 DEF LogicalObjects
  <2> QED BY <2>2 DEF Item
<1> QED BY <1>3, <1>4 DEF Shadowed

\* What is live is not hidden, and has a row of its own.
LEMMA LiveRows ==
  ASSUME TypedStore, NEW t \in Objects, NEW id \in LiveIds(db, t)
  PROVE  /\ \E r \in Shadowed(db, t) : r.id = id
         /\ \A r \in Shadowed(db, t) : r.id = id => ~RowHidden(db, t, r)
         /\ <<t, id>> \notin db.tombstone /\ <<"file", id[1]>> \notin db.tombstone
<1>1. Shadowed(db, t) \subseteq AllRows(t) BY StoredRow DEF Shadowed, Objects, Tables
<1>2. PICK r \in Shadowed(db, t) : r.id = id /\ ~RowHidden(db, t, r) BY DEF LiveIds, Ids
<1> QED BY <1>1, <1>2, HiddenById

LEMMA ItemIsLive ==
  ASSUME TypedStore, ReplacedIsHidden, NEW t \in Objects, NEW i \in LogicalObjects(db, t)
  PROVE  i.id \in LiveIds(db, t)
BY ItemsAre DEF ShowsOwnRow, LiveIds, Ids

LEMMA LiveHasItem ==
  ASSUME TypedStore, ReplacedIsHidden, NEW t \in Objects, NEW id \in LiveIds(db, t)
  PROVE  id \in Ids(LogicalObjects(db, t))
<1>1. PICK r \in Shadowed(db, t) : r.id = id /\ ~RowHidden(db, t, r) BY LiveRows
<1> QED BY <1>1, LiveIsShown DEF Ids

-----------------------------------------------------------------------------
(* Full-text search finds what the view shows.                             *)

LEMMA RowsAreFound ==
  ASSUME NEW t, NEW r, NEW h,
         \/ r \in db.overlay[t] /\ h \in Candidates(db, t, r, "overlay")
         \/ r \in db.baseline[t] /\ h \in Candidates(db, t, r, "baseline")
  PROVE  h.id \in Ids(SearchFts(db, t, r.text))
<1>1. r \in db.overlay[t] => r \in MatchingRows(db.overlay[t], r.text) BY DEF MatchingRows
<1>2. r \in db.baseline[t] => r \in MatchingRows(db.baseline[t], r.text) BY DEF MatchingRows
<1>3. CASE r \in db.overlay[t] /\ h \in Candidates(db, t, r, "overlay")
  <2>1. h \in UNION {Candidates(db, t, x, "overlay") : x \in MatchingRows(db.overlay[t], r.text)} BY <1>1, <1>3
  <2>2. h \in SearchFts(db, t, r.text) BY <2>1, Zenon DEF SearchFts
  <2> QED BY <2>2 DEF Ids
<1>4. CASE r \in db.baseline[t] /\ h \in Candidates(db, t, r, "baseline")
  <2>1. h \in UNION {Candidates(db, t, x, "baseline") : x \in MatchingRows(db.baseline[t], r.text)} BY <1>2, <1>4
  <2>2. h \in SearchFts(db, t, r.text) BY <2>1, Zenon DEF SearchFts
  <2> QED BY <2>2 DEF Ids
<1> QED BY <1>3, <1>4

LEMMA HitsAreShown ==
  ASSUME TypedStore, ReplacedIsHidden, NEW t \in Objects, NEW v, NEW h \in SearchFts(db, t, v)
  PROVE  h.id \in LiveIds(db, t) /\ v \in Revisions
<1> DEFINE From(r, source) ==
             /\ h \in Candidates(db, t, r, source) /\ r.text = v
             /\ \/ source = "overlay" /\ r \in db.overlay[t]
                \/ source = "baseline" /\ r \in db.baseline[t]
<1>a. \/ \E r \in MatchingRows(db.overlay[t], v) : h \in Candidates(db, t, r, "overlay")
      \/ \E r \in MatchingRows(db.baseline[t], v) : h \in Candidates(db, t, r, "baseline")
  BY Zenon DEF SearchFts
<1>b. (\E r : From(r, "overlay")) \/ (\E r : From(r, "baseline"))
  BY <1>a DEF MatchingRows
<1>c. \E r, source : From(r, source)
  <2> HIDE DEF From
  <2> QED BY <1>b
<1>1. PICK r, source : From(r, source)
  <2> HIDE DEF From
  <2> QED BY <1>c
<1>2. r \in AllRows(t) BY <1>1, StoredRow DEF Objects, Tables
<1>3. r.text \in Revisions /\ r.file = r.id[1] BY <1>2, KnownObject DEF Objects
<1>4. h.id = Resolve(db, t, r.id) /\ ~IsTombstoned(db, "file", r.file) /\ ~IsTombstoned(db, t, h.id)
  BY <1>1 DEF Candidates, Item
<1>5. CASE h.id # r.id BY <1>1, <1>3, <1>4, <1>5 DEF Candidates, LogicalObjectExists
<1>6. CASE h.id = r.id
  <2>1. ~RowHidden(db, t, r) BY <1>4, <1>6 DEF RowHidden
  <2>2. source = "baseline" => r.id \notin Ids(db.overlay[t])
    BY <1>1, <1>4, <1>6 DEF Candidates, OverlayLive
  <2>3. r \in Shadowed(db, t) BY <1>1, <2>2 DEF Shadowed
  <2> QED BY <1>1, <1>3, <1>6, <2>1, <2>3 DEF LiveIds, Ids
<1> QED BY <1>5, <1>6

LEMMA ShownIsFound ==
  ASSUME TypedStore, ReplacedIsHidden, NEW t \in Objects, NEW i \in LogicalObjects(db, t)
  PROVE  /\ i.row.text \in Revisions
         /\ i.id \in Ids(SearchFts(db, t, i.row.text))
<1>1. db.overlay[t] \subseteq AllRows(t) /\ db.baseline[t] \subseteq AllRows(t)
  BY StoredRow DEF Objects, Tables
<1>2. i.row \in db.overlay[t] \/ i.row \in db.baseline[t]
  BY ItemsAre DEF ShowsOwnRow
<1>3. i.row.text \in Revisions /\ i.row.file = i.row.id[1] BY <1>1, <1>2, KnownObject DEF Objects
<1>4. ~IsTombstoned(db, t, i.id) /\ ~IsTombstoned(db, "file", i.id[1])
  BY ItemIsLive, LiveRows DEF IsTombstoned
<1>5. ShowsOwnRow(t, i) BY ItemsAre
<1>6. Resolve(db, t, i.row.id) = i.row.id BY <1>4, <1>5, NotReplaced DEF ShowsOwnRow
<1>7. ~IsTombstoned(db, "file", i.row.file) BY <1>3, <1>4, <1>5 DEF ShowsOwnRow
<1>8. CASE i.row \in db.overlay[t]
  <2>1. Item(i.id, i.row, "overlay") \in Candidates(db, t, i.row, "overlay")
    BY <1>4, <1>5, <1>6, <1>7 DEF Candidates, ShowsOwnRow
  <2>2. Item(i.id, i.row, "overlay").id \in Ids(SearchFts(db, t, i.row.text))
    BY <1>8, <2>1, RowsAreFound
  <2> QED BY <1>3, <2>2 DEF Item
<1>9. CASE i.row \in db.baseline[t] /\ i.id \notin Ids(db.overlay[t])
  <2>1. Item(i.id, i.row, "baseline") \in Candidates(db, t, i.row, "baseline")
    BY <1>4, <1>5, <1>6, <1>7, <1>9 DEF Candidates, ShowsOwnRow, OverlayLive
  <2>2. Item(i.id, i.row, "baseline").id \in Ids(SearchFts(db, t, i.row.text))
    BY <1>9, <2>1, RowsAreFound
  <2> QED BY <1>3, <2>2 DEF Item
<1> QED BY <1>5, <1>8, <1>9 DEF ShowsOwnRow

LEMMA SearchAgrees == TypedStore /\ ReplacedIsHidden => FtsAgreesWithView
<1> SUFFICES ASSUME TypedStore, ReplacedIsHidden, NEW t \in Objects
             PROVE  LET objects == LogicalObjects(db, t)
                        hits == [v \in 1..MaxRevision |-> Ids(SearchFts(db, t, v))]
                    IN /\ UNION {hits[v] : v \in DOMAIN hits} \subseteq Ids(objects)
                       /\ \A i \in objects : i.id \in hits[i.row.text]
  BY DEF FtsAgreesWithView, Objects
<1> DEFINE hits == [v \in 1..MaxRevision |-> Ids(SearchFts(db, t, v))]
<1>1. ASSUME NEW v \in 1..MaxRevision, NEW id \in hits[v] PROVE id \in Ids(LogicalObjects(db, t))
  <2>1. PICK h \in SearchFts(db, t, v) : h.id = id BY DEF Ids
  <2> QED BY <2>1, HitsAreShown, LiveHasItem
<1>2. \A i \in LogicalObjects(db, t) : i.id \in hits[i.row.text] BY ShownIsFound DEF Revisions
<1> HIDE DEF hits
<1>3. DOMAIN hits = 1..MaxRevision BY DEF hits
<1>4. UNION {hits[v] : v \in DOMAIN hits} \subseteq Ids(LogicalObjects(db, t)) BY <1>1, <1>3
<1> QED BY <1>2, <1>4 DEF hits

(***************************************************************************)
(* What a batch writes.                                                    *)
(***************************************************************************)
LEMMA RunStays == ASSUME TypedRun, [Next]_vars PROVE TypedRun'
<1> USE DEF TypedRun, Writing
<1>1. ASSUME NEW p \in Edited, Edit(p) PROVE TypedRun'
  <2>1. MaxRevision \in Nat /\ Gone \in Nat /\ p \in Paths BY StoreAssumption DEF Gone
  <2>2. ws' \in [Paths -> 1..Gone] BY <1>1, <2>1 DEF Edit, Gone, Missing
  <2>3. run' = run BY <1>1 DEF Edit
  <2> QED BY <2>2, <2>3
<1>2. ASSUME NEW j \in Jobs, StartRun(j) PROVE TypedRun'
  <2>1. MaxRevision \in Nat /\ Gone \in Nat BY StoreAssumption DEF Gone
  <2>2. Captured \in [Paths -> Hashes] BY <2>1 DEF Captured, Hashes, Gone, Missing
  <2>3. run' = [pc |-> "metadata", job |-> j, plan |-> Captured, todo |-> Changed(Captured) \cup Deleted(Captured),
                vectors |-> Changed(Captured) \cap Docs, segment |-> NoSegment, doc |-> "none",
                dirty |-> FALSE, failed |-> FALSE]
    BY <1>2 DEF StartRun, IdleRun
  <2>4. \A d \in Changed(Captured) : Captured[d] # Missing BY DEF Changed
  <2>5. Changed(Captured) \subseteq Paths /\ Deleted(Captured) \subseteq Paths BY DEF Changed, Deleted
  <2>6. ws' = ws BY <1>2 DEF StartRun
  <2> HIDE DEF Captured
  <2> QED BY <2>2, <2>3, <2>4, <2>5, <2>6
<1>3. CASE CommitBatch BY <1>3 DEF CommitBatch
<1>4. CASE AppendSegment BY <1>4 DEF AppendSegment
<1>5. CASE AppendToManifest BY <1>5 DEF AppendToManifest
<1>6. CASE CommitRefs BY <1>6 DEF CommitRefs, NextVector
<1>7. CASE RejectRows BY <1>7 DEF RejectRows, NextVector
<1>8. CASE Flush BY <1>8 DEF Flush
<1>9. CASE DeleteSegment BY <1>9 DEF DeleteSegment
<1>10. CASE EndCompaction BY <1>10 DEF EndCompaction
<1>11. ASSUME run' = IdleRun, ws' = ws PROVE TypedRun'
  BY <1>11, Bound DEF IdleRun, NothingPlanned
<1>12. CASE SaveState BY <1>11, <1>12 DEF SaveState
<1>13. CASE Crash BY <1>11, <1>13 DEF Crash
<1>14. CASE UNCHANGED vars BY <1>14 DEF vars
<1> QED BY <1>1, <1>2, <1>3, <1>4, <1>5, <1>6, <1>7, <1>8, <1>9, <1>10, <1>12, <1>13, <1>14 DEF Next, RunStep

-----------------------------------------------------------------------------
\* The rows of a file that are read back before they are replaced.
LEMMA LiveRowsOf ==
  ASSUME TypedStore, ReplacedIsHidden, NEW t \in Objects, NEW p, NEW r \in LiveBundle(db, p)[t]
  PROVE  /\ r \in AllRows(t) /\ r.file = p /\ r.id[1] = p
         /\ r \in db.overlay[t] \cup db.baseline[t]
         /\ r \in Shadowed(db, t) /\ ~RowHidden(db, t, r)
<1>1. PICK i \in LogicalObjects(db, t) : i.row = r /\ r.file = p
  BY DEF LiveBundle, Objects
<1>2. ShowsOwnRow(t, i) BY ItemsAre
<1>3. r \in db.overlay[t] \cup db.baseline[t] BY <1>1, <1>2 DEF ShowsOwnRow
<1>4. r \in AllRows(t) BY <1>3, StoredRow DEF Objects, Tables
<1>5. r.id[1] = p BY <1>1, <1>4, KnownObject DEF Objects
<1> QED BY <1>1, <1>2, <1>3, <1>4, <1>5 DEF ShowsOwnRow

LEMMA LiveIsRead ==
  ASSUME TypedStore, ReplacedIsHidden, NEW t \in Objects, NEW r \in Shadowed(db, t), ~RowHidden(db, t, r)
  PROVE  r.id \in Ids(LiveBundle(db, r.file)[t])
<1>1. PICK i \in LogicalObjects(db, t) : i.row = r BY LiveIsShown
<1>2. r \in LiveBundle(db, r.file)[t] BY <1>1 DEF LiveBundle, Objects
<1> QED BY <1>2 DEF Ids

LEMMA ChunkSuccessors ==
  ASSUME TypedStore, ReplacedIsHidden, NEW p \in Paths, NEW v, NEW old, old = LiveBundle(db, p),
         NEW s \in Successors(old.chunk, ChunkRows(p, v))
  PROVE  /\ s[1] \in Ids(AllRows("chunk")) /\ s[1] \in Retired(old.chunk, ChunkRows(p, v))
         /\ s[2][1] = s[1][1] /\ s[2][2] = s[1][2] /\ s[1][2] \in {"section", "symbol", "Symbol"}
<1>1. PICK pair \in old.chunk \X ChunkRows(p, v) :
        s = <<pair[1].id, pair[2].id>> /\ pair[1].key = pair[2].key /\ pair[1].id # pair[2].id
  BY DEF Successors
<1>2. PICK a \in old.chunk, b \in ChunkRows(p, v) : a = pair[1] /\ b = pair[2] BY <1>1
<1>3. a \in AllRows("chunk") /\ a.file = p /\ a.id[1] = p BY <1>2, LiveRowsOf DEF Objects
<1>4. PICK q \in Paths, w \in Revisions : IsChunk(q, w, a) BY <1>3, KnownChunk
<1>5. q = p /\ IsChunk(p, v, b) BY <1>2, <1>3, <1>4, ChunkRowsAre DEF IsChunk
<1>6. a.key = a.id[2] /\ b.key = b.id[2] BY <1>4, <1>5 DEF IsChunk, Row
<1>7. a.id[2] = b.id[2] BY <1>1, <1>2, <1>6
<1>8. a.id[2] \in {"section", "symbol"}
  <2>1. a.id # b.id BY <1>1, <1>2
  <2>2. p \in Sources => p \notin Docs BY StoreAssumption DEF CodePaths
  <2> QED BY <1>4, <1>5, <1>7, <2>1, <2>2 DEF IsChunk
<1>9. a.id \notin Ids(ChunkRows(p, v))
  <2> SUFFICES ASSUME NEW c \in ChunkRows(p, v), c.id = a.id PROVE FALSE BY DEF Ids
  <2>1. c = b BY <1>2, <1>7, ChunkOfKind
  <2> QED BY <1>1, <1>2, <2>1
<1> QED BY <1>1, <1>2, <1>3, <1>5, <1>7, <1>8, <1>9 DEF Retired, Ids, IsChunk

LEMMA EntitySuccessors ==
  ASSUME TypedStore, ReplacedIsHidden, NEW p \in Paths, NEW v, NEW old, old = LiveBundle(db, p),
         NEW s \in Successors(old.entity, EntityRows(p, v))
  PROVE  /\ s[1] \in Ids(AllRows("entity")) /\ s[1] \in Retired(old.entity, EntityRows(p, v))
         /\ s[2][1] = s[1][1] /\ s[2][2] = s[1][2] /\ s[1][2] \in {"section", "symbol", "Symbol"}
<1>1. PICK pair \in old.entity \X EntityRows(p, v) :
        s = <<pair[1].id, pair[2].id>> /\ pair[1].key = pair[2].key /\ pair[1].id # pair[2].id
  BY DEF Successors
<1>2. PICK a \in old.entity, b \in EntityRows(p, v) : a = pair[1] /\ b = pair[2] BY <1>1
<1>3. a \in AllRows("entity") /\ a.file = p /\ a.id[1] = p BY <1>2, LiveRowsOf DEF Objects
<1>4. PICK q \in Paths, w \in Revisions : IsEntity(q, w, a) BY <1>3, KnownEntity
<1>5. q = p /\ IsEntity(p, v, b) BY <1>2, <1>3, <1>4, EntityRowsAre DEF IsEntity
<1>6. a.id = <<p, "Symbol", Line[w]>> /\ b.id = <<p, "Symbol", Line[v]>>
  BY <1>1, <1>2, <1>4, <1>5 DEF IsEntity
<1>7. a.id \notin Ids(EntityRows(p, v))
  <2> SUFFICES ASSUME NEW c \in EntityRows(p, v), c.id = a.id PROVE FALSE BY DEF Ids
  <2>1. c.key = b.key BY <1>5, <1>6, EntityRowsAre DEF IsEntity
  <2>2. c.id = b.id BY <1>2, <2>1, EntityOfKind
  <2> QED BY <1>1, <1>2, <2>2
<1> QED BY <1>1, <1>2, <1>3, <1>6, <1>7 DEF Retired, Ids

LEMMA KnownRelation ==
  ASSUME NEW r \in AllRows("relation")
  PROVE  r = Relation(r.type, r.src, r.dst)
<1>1. PICK p \in Paths, v \in Revisions : r \in RelationRows(p, v, Paths)
  <2>1. PICK p \in Paths, v \in Revisions : r \in Bundle(p, v, Paths)["relation"]
    BY StoredIn DEF Tables
  <2> QED BY <2>1 DEF Bundle
<1>2. r \in Defines(p, v) \/ \E m \in Makefiles : r \in Membership(m, Paths)
  BY <1>1 DEF RelationRows
<1>3. PICK type, src, dst : r = Relation(type, src, dst)
  <2>1. r \in Defines(p, v) => \E type, src, dst : r = Relation(type, src, dst)
    BY DEF Defines
  <2>2. \A m : r \in Membership(m, Paths) => \E type, src, dst : r = Relation(type, src, dst)
    BY DEF Membership
  <2> QED BY <1>2, <2>1, <2>2
<1>4. r.type = type /\ r.src = src /\ r.dst = dst BY <1>3 DEF Relation
<1> QED BY <1>3, <1>4

LEMMA TriplesDiffer ==
  ASSUME NEW a, NEW b, NEW c, NEW d, NEW e, NEW f, <<a, b, c>> = <<d, e, f>>
  PROVE  a = d /\ b = e /\ c = f
<1>1. <<a, b, c>>[1] = a /\ <<a, b, c>>[2] = b /\ <<a, b, c>>[3] = c OBVIOUS
<1>2. <<d, e, f>>[1] = d /\ <<d, e, f>>[2] = e /\ <<d, e, f>>[3] = f OBVIOUS
<1> QED BY <1>1, <1>2

\* The id of a relation, and of evidence, tells all of it.
LEMMA IdsTell ==
  ASSUME NEW t \in {"relation", "evidence"}, NEW a \in AllRows(t), NEW b \in AllRows(t), a.id = b.id
  PROVE  a = b
<1>1. CASE t = "evidence"
  <2>1. /\ a = Evidence(a.file, a.object, a.chunk) /\ a.object[1] = a.file
        /\ b = Evidence(b.file, b.object, b.chunk) /\ b.object[1] = b.file
    BY <1>1, KnownEvidence
  <2>2. a.id = <<"evidence", a.object, a.chunk>> /\ b.id = <<"evidence", b.object, b.chunk>>
    BY <2>1 DEF Evidence
  <2>3. <<"evidence", a.object, a.chunk>> = <<"evidence", b.object, b.chunk>> BY <2>2
  <2>4. a.object = b.object /\ a.chunk = b.chunk BY <2>3, TriplesDiffer, Zenon
  <2>5. Evidence(a.file, a.object, a.chunk) = Evidence(b.file, b.object, b.chunk) BY <2>1, <2>4
  <2> QED BY <2>1, <2>5
<1>2. CASE t = "relation"
  <2>1. a = Relation(a.type, a.src, a.dst) /\ b = Relation(b.type, b.src, b.dst) BY <1>2, KnownRelation
  <2>2. a.id = <<a.type, a.src, a.dst>> /\ b.id = <<b.type, b.src, b.dst>> BY <2>1 DEF Relation
  <2>3. <<a.type, a.src, a.dst>> = <<b.type, b.src, b.dst>> BY <2>2
  <2>4. a.type = b.type /\ a.src = b.src /\ a.dst = b.dst BY <2>3, TriplesDiffer, Zenon
  <2>5. Relation(a.type, a.src, a.dst) = Relation(b.type, b.src, b.dst) BY <2>4
  <2> QED BY <2>1, <2>5
<1> QED BY <1>1, <1>2

\* What the view shows of a relation.
ShowsRelation(i, r) ==
  /\ RelationShown(db, r)
  /\ {Endpoints(db, r).src, Endpoints(db, r).dst} \subseteq LiveIds(db, "entity")
  /\ i.row = [id |-> r.id, type |-> r.type, src |-> Endpoints(db, r).src, dst |-> Endpoints(db, r).dst]

LEMMA RelationsRead ==
  ASSUME TypedStore, NEW i \in LogicalRelations(db)
  PROVE  \E r \in AllRows("relation") :
           /\ r \in db.overlay["relation"] \/ r \in db.baseline["relation"]
           /\ ShowsRelation(i, r)
<1>1. db.overlay["relation"] \subseteq AllRows("relation") /\ db.baseline["relation"] \subseteq AllRows("relation")
  BY StoredRow DEF Tables
<1>2. PICK r \in AllRows("relation") :
        /\ r \in db.overlay["relation"] \/ r \in db.baseline["relation"]
        /\ RelationShown(db, r)
        /\ {Endpoints(db, r).src, Endpoints(db, r).dst} \subseteq LiveIds(db, "entity")
        /\ \E source :
             i = Item(r.id, [r EXCEPT !.src = Endpoints(db, r).src, !.dst = Endpoints(db, r).dst], source)
  BY <1>1 DEF LogicalRelations
<1>3. i.row = [r EXCEPT !.src = Endpoints(db, r).src, !.dst = Endpoints(db, r).dst] BY <1>2 DEF Item
<1>4. r = Relation(r.type, r.src, r.dst) BY KnownRelation
<1>5. i.row = [id |-> r.id, type |-> r.type, src |-> Endpoints(db, r).src, dst |-> Endpoints(db, r).dst]
  BY <1>3, <1>4 DEF Relation
<1> QED BY <1>2, <1>5 DEF ShowsRelation

\* What was read of a chunk is among what is hidden with it.
LEMMA RetiredIsHidden ==
  ASSUME TypedStore, ReplacedIsHidden, NEW p, NEW new, NEW c \in Retired(LiveBundle(db, p).chunk, new)
  PROVE  <<"chunk", c>> \in TombstoneChunk(db, c) /\ c # NoChunk
<1>1. PICK r \in LiveBundle(db, p).chunk : r.id = c BY DEF Retired, Ids
<1>2. r \in AllRows("chunk") /\ (r \in db.overlay["chunk"] \/ r \in db.baseline["chunk"])
  BY LiveRowsOf DEF Objects
<1>3. c # NoChunk BY <1>1, <1>2, KnownChunk DEF IsChunk
<1> QED BY <1>1, <1>2, <1>3 DEF TombstoneChunk

-----------------------------------------------------------------------------
\* What one item of a batch may write.
SuccessorIsSound(t, s, hidden) ==
  /\ <<t, s[1]>> \in hidden
  /\ s[2][1] = s[1][1] /\ s[2][2] = s[1][2] /\ s[1][2] \in {"section", "symbol", "Symbol"}

SoundWrites(w) ==
  /\ \A t \in Tables : /\ w.rows[t] \subseteq AllRows(t)
                       /\ \A s \in w.successors[t] : s[1] \in Ids(AllRows(t))
  /\ \A t \in Objects : \A s \in w.successors[t] : SuccessorIsSound(t, s, w.tombstones)
  /\ TwinsIn(w.rows)
  /\ TwinsHiddenIn(db.tombstone \cup w.tombstones)

LEMMA BundleTwins ==
  ASSUME NEW p \in Paths, NEW v \in Revisions, NEW C, NEW rows,
         \A t \in {"chunk", "entity", "evidence"} : rows[t] = Bundle(p, v, C)[t]
  PROVE  TwinsIn(rows)
<1>1. rows["chunk"] = ChunkRows(p, v) /\ rows["entity"] = EntityRows(p, v) /\ rows["evidence"] = EvidenceRows(p, v)
  BY DEF Bundle
<1>2. p \in Sources => p \notin Docs /\ p \notin Makefiles BY StoreAssumption DEF CodePaths
<1> SUFFICES ASSUME NEW q \in Paths
             PROVE  /\ \A l \in Nat : /\ SymbolChunk(q, l) \in Ids(ChunkRows(p, v)) <=> SymbolEntity(q, l) \in Ids(EntityRows(p, v))
                                      /\ SymbolEntity(q, l) \in Ids(EntityRows(p, v)) => SymbolEvidence(q, l) \in EvidenceRows(p, v)
                    /\ <<q, "Module">> \in Ids(EntityRows(p, v)) => ModuleEvidence(q) \in EvidenceRows(p, v)
  BY <1>1 DEF TwinsIn
<1>3. \A l : SymbolChunk(q, l) \in Ids(ChunkRows(p, v)) => q = p /\ p \in Sources /\ l = Line[v]
  BY ChunkRowsAre DEF IsChunk, Ids, SymbolChunk
<1>4. \A l : SymbolEntity(q, l) \in Ids(EntityRows(p, v)) => q = p /\ p \in Sources /\ l = Line[v]
  BY EntityRowsAre DEF IsEntity, Ids, SymbolEntity
<1>5. <<q, "Module">> \in Ids(EntityRows(p, v)) => q = p /\ p \in Makefiles
  BY EntityRowsAre DEF IsEntity, Ids
<1>6. CASE p \in Sources
  <2> DEFINE l == Line[v]
  <2>1. SymbolChunk(p, l) \in Ids(ChunkRows(p, v)) <=> l # 0
    <3>1. ChunkRows(p, v) = SourceChunkRows(p, v) BY <1>2, <1>6 DEF ChunkRows
    <3>2. ASSUME l # 0 PROVE SymbolChunk(p, l) \in Ids(SourceChunkRows(p, v))
      <4>1. Row(p, "symbol", <<p, "symbol", l>>, v) \in SourceChunkRows(p, v) BY <3>2 DEF SourceChunkRows
      <4> QED BY <4>1 DEF Ids, Row, SymbolChunk
    <3>3. ASSUME NEW r \in SourceChunkRows(p, v), r.id = SymbolChunk(p, l) PROVE l # 0
      <4>1. r.id = <<p, "header">> \/ l # 0 BY DEF SourceChunkRows, Row
      <4> QED BY <3>3, <4>1 DEF SymbolChunk
    <3> QED BY <3>1, <3>2, <3>3 DEF Ids
  <2>2. SymbolEntity(p, l) \in Ids(EntityRows(p, v)) <=> l # 0
    <3>1. EntityRows(p, v) = SourceEntityRows(p, v) BY <1>2, <1>6 DEF EntityRows
    <3>2. ASSUME l # 0 PROVE SymbolEntity(p, l) \in Ids(SourceEntityRows(p, v))
      <4>1. Row(p, "symbol", <<p, "Symbol", l>>, v) \in SourceEntityRows(p, v) BY <3>2 DEF SourceEntityRows
      <4> QED BY <4>1 DEF Ids, Row, SymbolEntity
    <3>3. ASSUME NEW r \in SourceEntityRows(p, v), r.id = SymbolEntity(p, l) PROVE l # 0
      <4>1. r.id = <<p, "File">> \/ l # 0 BY DEF SourceEntityRows, Row
      <4> QED BY <3>3, <4>1 DEF SymbolEntity
    <3> QED BY <3>1, <3>2, <3>3 DEF Ids
  <2>3. l # 0 => SymbolEvidence(p, l) \in EvidenceRows(p, v)
    <3>1. EvidenceRows(p, v) = SourceEvidence(p, v) BY <1>2, <1>6 DEF EvidenceRows
    <3> QED BY <3>1 DEF SourceEvidence, SymbolEvidence, SymbolEntity, SymbolChunk
  <2> HIDE DEF l
  <2> QED BY <1>2, <1>3, <1>4, <1>5, <1>6, <2>1, <2>2, <2>3 DEF l
<1>7. CASE p \notin Sources
  <2>1. p \in Makefiles => ModuleEvidence(p) \in EvidenceRows(p, v)
    BY <1>7 DEF EvidenceRows, ModuleEvidence, NoChunk
  <2> QED BY <1>3, <1>4, <1>5, <1>7, <2>1
<1> QED BY <1>6, <1>7

LEMMA MarksAre ==
  ASSUME NEW old, NEW new, NEW w, w = MarkStale(db, old, new)
  PROVE  /\ w.rows = NoRows
         /\ w.successors["chunk"] = Successors(old.chunk, new.chunk)
         /\ w.successors["entity"] = Successors(old.entity, new.entity)
         /\ \A s \in w.successors["relation"] : \E r \in old.relation :
              s[1] = r.id /\ \E x \in new.relation : r.type = x.type /\ r.id # x.id
         /\ w.successors["relation"] =
              RelationSuccessors(old.relation, new.relation, Successors(old.entity, new.entity))
         /\ \A t \in Tables \ {"chunk", "entity", "relation"} : w.successors[t] = {}
         /\ w.tombstones = (UNION {TombstoneChunk(db, c) : c \in Retired(old.chunk, new.chunk)})
                           \cup {<<"entity", e>> : e \in Retired(old.entity, new.entity)}
                           \cup {<<"relation", r>> : r \in Retired(old.relation, new.relation)}
<1> DEFINE moved == Successors(old.entity, new.entity)
           S == [[t \in Tables |-> {}] EXCEPT !["chunk"] = Successors(old.chunk, new.chunk),
                   !["entity"] = moved, !["relation"] = RelationSuccessors(old.relation, new.relation, moved)]
           T == (UNION {TombstoneChunk(db, c) : c \in Retired(old.chunk, new.chunk)})
                           \cup {<<"entity", e>> : e \in Retired(old.entity, new.entity)}
                           \cup {<<"relation", r>> : r \in Retired(old.relation, new.relation)}
<1>1. w = [rows |-> NoRows, tombstones |-> T, successors |-> S]
  BY DEF MarkStale, NoWrites
<1>2. w.rows = NoRows /\ w.tombstones = T /\ w.successors = S
  <2> HIDE DEF S, T
  <2> QED BY <1>1
<1>3. /\ S["chunk"] = Successors(old.chunk, new.chunk) /\ S["entity"] = moved
      /\ S["relation"] = RelationSuccessors(old.relation, new.relation, moved)
      /\ \A t \in Tables \ {"chunk", "entity", "relation"} : S[t] = {}
  <2> HIDE DEF moved
  <2> QED BY DEF Tables
<1>4. \A s \in RelationSuccessors(old.relation, new.relation, moved) : \E r \in old.relation :
        s[1] = r.id /\ \E x \in new.relation : r.type = x.type /\ r.id # x.id
  <2> HIDE DEF moved
  <2> QED BY DEF RelationSuccessors
<1> HIDE DEF S, T
<1> QED BY <1>2, <1>3, <1>4 DEF T

LEMMA NoWritesIsSound ==
  ASSUME TwinsHiddenIn(db.tombstone)
  PROVE  SoundWrites(NoWrites)
<1>1. db.tombstone \cup {} = db.tombstone OBVIOUS
<1>2. TwinsIn(NoRows) BY DEF TwinsIn, NoRows, Ids, Tables
<1> QED BY <1>1, <1>2 DEF SoundWrites, NoWrites, NoRows, Objects, Tables

LEMMA BaselineTwins == TwinsIn(PublishedBaseline)
<1> DEFINE B(t) == UNION {Bundle(p, 1, Baseline)[t] : p \in Baseline}
<1>1. Baseline \subseteq Paths /\ 1 \in Revisions BY Bound, StoreAssumption
<1>2. \A p \in Baseline : TwinsIn(Bundle(p, 1, Baseline)) BY <1>1, BundleTwins
<1>3. \A t \in {"chunk", "entity", "evidence"} : PublishedBaseline[t] = B(t)
  BY DEF PublishedBaseline, Tables
<1>4. \A t, id : id \in Ids(B(t)) <=> \E p \in Baseline : id \in Ids(Bundle(p, 1, Baseline)[t]) BY DEF Ids
<1>5. \A t, e : e \in B(t) <=> \E p \in Baseline : e \in Bundle(p, 1, Baseline)[t] OBVIOUS
<1> HIDE DEF B
<1> QED BY <1>2, <1>3, <1>4, <1>5 DEF TwinsIn

\* A symbol's chunk or entity is stored only together with the other.
LEMMA TwinIsStored ==
  ASSUME TypedStore, TwinsIn(db.overlay), NEW p \in Paths, NEW l \in Nat,
         SymbolChunk(p, l) \in Ids(Shadowed(db, "chunk"))
  PROVE  SymbolEntity(p, l) \in Ids(Shadowed(db, "entity"))
<1>1. \A t : Ids(Shadowed(db, t)) = Ids(db.overlay[t]) \cup Ids(db.baseline[t]) BY DEF Shadowed, Ids
<1>2. db.baseline = PublishedBaseline BY DEF TypedStore
<1> QED BY <1>1, <1>2, BaselineTwins DEF TwinsIn

LEMMA FileWritesAreSound ==
  ASSUME TypedStore, TwinsHiddenIn(db.tombstone), NEW p \in Paths, KnowsFile(db, p)
  PROVE  SoundWrites(TombstonePath(db, p))
<1> DEFINE T == TombstoneFile(db, p)
           w == [NoWrites EXCEPT !.tombstones = T]
<1>1. TombstonePath(db, p) = w BY DEF TombstonePath
<1>2. w.rows = NoRows /\ w.tombstones = T /\ w.successors = [t \in Tables |-> {}]
  <2> HIDE DEF T
  <2> QED BY DEF NoWrites
<1>3. TwinsIn(NoRows) BY DEF TwinsIn, NoRows, Ids, Tables
<1> DEFINE below(t) == RowsOfFile(db.baseline, t, p)
           both(t) == below(t) \cup RowsOfFile(db.overlay, t, p)
           rows == [t \in Tables |->
             CASE t = "file" -> {r \in db.baseline[t] \cup db.overlay[t] : r.id = p}
               [] t = "relation" -> RelationsTouching(db.baseline, Ids(below("entity"))) \cup
                                    RelationsTouching(db.overlay, Ids(both("entity")))
               [] t = "vector_ref" -> RefsTo(db.baseline, Ids(below("chunk"))) \cup
                                      RefsTo(db.overlay, Ids(both("chunk")))
               [] OTHER -> both(t)]
<1>4. T = UNION {{<<t, r.id>> : r \in rows[t]} : t \in Tables} BY DEF TombstoneFile
<1>5. rows["chunk"] = both("chunk") /\ rows["evidence"] = both("evidence")
      /\ rows["file"] = {r \in db.baseline["file"] \cup db.overlay["file"] : r.id = p}
  <2> HIDE DEF both, below
  <2> QED BY DEF Tables
<1>6. \A t : both(t) = {r \in db.baseline[t] \cup db.overlay[t] : r.file = p} BY DEF RowsOfFile
<1> HIDE DEF rows, both
<1>7. \A x \in T : \E t \in Tables : \E r \in rows[t] : x = <<t, r.id>> BY <1>4
<1> HIDE DEF T
<1>8. <<"file", p>> \in T
  <2>1. PICK r \in Shadowed(db, "file") : r.id = p BY DEF KnowsFile, Ids
  <2>2. r \in rows["file"] BY <1>5, <2>1 DEF Shadowed
  <2> QED BY <1>4, <2>1, <2>2 DEF Tables
<1>9. \A id : <<"chunk", id>> \in T => id[1] = p
  <2> SUFFICES ASSUME NEW id, <<"chunk", id>> \in T PROVE id[1] = p OBVIOUS
  <2>1. PICK r \in rows["chunk"] : r.id = id BY <1>7
  <2>2. r \in AllRows("chunk") /\ r.file = p BY <1>5, <1>6, <2>1, StoredRow DEF Tables
  <2> QED BY <2>1, <2>2, KnownObject
<1>10. \A id : <<"evidence", id>> \in T => id[2][1] = p
  <2> SUFFICES ASSUME NEW id, <<"evidence", id>> \in T PROVE id[2][1] = p OBVIOUS
  <2>1. PICK r \in rows["evidence"] : r.id = id BY <1>7
  <2>2. r \in AllRows("evidence") /\ r.file = p BY <1>5, <1>6, <2>1, StoredRow DEF Tables
  <2> QED BY <2>1, <2>2, KnownEvidence DEF Evidence
<1>11. TwinsHiddenIn(db.tombstone \cup T)
  <2> SUFFICES ASSUME NEW q \in Paths, <<"file", q>> \notin db.tombstone \cup T
               PROVE  /\ \A l \in Nat :
                           /\ <<"chunk", SymbolChunk(q, l)>> \in db.tombstone \cup T => <<"entity", SymbolEntity(q, l)>> \in db.tombstone \cup T
                           /\ <<"evidence", SymbolEvidence(q, l).id>> \in db.tombstone \cup T => <<"chunk", SymbolChunk(q, l)>> \in db.tombstone \cup T
                      /\ <<"evidence", ModuleEvidence(q).id>> \notin db.tombstone \cup T
    BY DEF TwinsHiddenIn
  <2>1. q # p BY <1>8
  <2>2. \A l \in Nat : /\ <<"chunk", SymbolChunk(q, l)>> \notin T /\ <<"evidence", SymbolEvidence(q, l).id>> \notin T
    BY <1>9, <1>10, <2>1 DEF SymbolChunk, SymbolEntity, SymbolEvidence, Evidence
  <2>3. <<"evidence", ModuleEvidence(q).id>> \notin T
    BY <1>10, <2>1 DEF ModuleEvidence, Evidence
  <2> QED BY <2>2, <2>3 DEF TwinsHiddenIn
<1> HIDE DEF w
<1> QED BY <1>1, <1>2, <1>3, <1>11 DEF SoundWrites, NoRows, Objects, Tables

LEMMA BundleWritesAreSound ==
  ASSUME TypedStore, ReplacedIsHidden, TwinsIn(db.overlay), TwinsHiddenIn(db.tombstone),
         NEW p \in Paths, NEW v \in Revisions, NEW C \in SUBSET Paths
  PROVE  SoundWrites(ApplyBundle(db, p, Bundle(p, v, C)))
<1> DEFINE new == Bundle(p, v, C)
           old == LiveBundle(db, p)
           marks == IF KnowsFile(db, p) THEN MarkStale(db, old, new) ELSE NoWrites
           rows == [t \in Tables |-> IF t \in DOMAIN new THEN new[t] ELSE {}]
           w == ApplyBundle(db, p, new)
<1>1. new.chunk = ChunkRows(p, v) /\ new.entity = EntityRows(p, v) BY DEF Bundle
<1>2. marks = [rows |-> marks.rows, tombstones |-> marks.tombstones, successors |-> marks.successors]
  BY DEF MarkStale, NoWrites
<1>3. w = [marks EXCEPT !.rows = rows] BY DEF ApplyBundle
<1>4. w.rows = rows /\ w.tombstones = marks.tombstones /\ w.successors = marks.successors
  <2> HIDE DEF marks, rows, w
  <2> QED BY <1>2, <1>3
<1>5. \A t \in Tables : rows[t] \subseteq AllRows(t)
  <2>1. DOMAIN new = Tables \ {"vector_ref"} BY DEF Bundle, Tables
  <2> QED BY <2>1, StoredRows
<1>6. TwinsIn(rows)
  <2>1. \A t \in {"chunk", "entity", "evidence"} : rows[t] = new[t] BY DEF Tables, Bundle
  <2> HIDE DEF rows
  <2> QED BY <2>1, BundleTwins
<1>7. CASE ~KnowsFile(db, p)
  <2>1. w.tombstones = {} /\ w.successors = [t \in Tables |-> {}] BY <1>4, <1>7 DEF NoWrites
  <2>2. db.tombstone \cup {} = db.tombstone OBVIOUS
  <2> HIDE DEF w, rows, marks
  <2>3. SoundWrites(w) BY <1>4, <1>5, <1>6, <2>1, <2>2 DEF SoundWrites, Objects, Tables
  <2> QED BY <2>3 DEF w
<1>8. CASE KnowsFile(db, p)
  <2> DEFINE m == MarkStale(db, old, new)
             T == m.tombstones
  <2>1. marks = m BY <1>8
  <2>2. /\ m.successors["chunk"] = Successors(old.chunk, new.chunk)
        /\ m.successors["entity"] = Successors(old.entity, new.entity)
        /\ \A s \in m.successors["relation"] : \E r \in old.relation : s[1] = r.id
        /\ \A t \in Tables \ {"chunk", "entity", "relation"} : m.successors[t] = {}
        /\ T = (UNION {TombstoneChunk(db, c) : c \in Retired(old.chunk, new.chunk)})
               \cup {<<"entity", e>> : e \in Retired(old.entity, new.entity)}
               \cup {<<"relation", r>> : r \in Retired(old.relation, new.relation)}
    <3> HIDE DEF old, new
    <3> QED BY MarksAre
  <2> HIDE DEF m, T, marks, w, rows
  <2>3. /\ \A c \in Retired(old.chunk, new.chunk) : <<"chunk", c>> \in T
        /\ \A e \in Retired(old.entity, new.entity) : <<"entity", e>> \in T
    <3>1. \A c \in Retired(old.chunk, new.chunk) : <<"chunk", c>> \in TombstoneChunk(db, c)
      BY RetiredIsHidden
    <3> HIDE DEF old, new
    <3> QED BY <2>2, <3>1
  <2>4. \A s \in m.successors["chunk"] : s[1] \in Ids(AllRows("chunk")) /\ SuccessorIsSound("chunk", s, T)
    BY <1>1, <2>2, <2>3, ChunkSuccessors DEF SuccessorIsSound
  <2>5. \A s \in m.successors["entity"] : s[1] \in Ids(AllRows("entity")) /\ SuccessorIsSound("entity", s, T)
    BY <1>1, <2>2, <2>3, EntitySuccessors DEF SuccessorIsSound
  <2>6. \A s \in m.successors["relation"] : s[1] \in Ids(AllRows("relation"))
    <3>1. ASSUME NEW r \in old.relation PROVE r.id \in Ids(AllRows("relation"))
      <4>1. PICK i \in LogicalRelations(db) : i.row = r BY DEF LiveBundle
      <4>2. PICK x \in AllRows("relation") : ShowsRelation(i, x) BY RelationsRead
      <4>3. r.id = x.id BY <4>1, <4>2 DEF ShowsRelation
      <4> QED BY <4>3 DEF Ids
    <3> HIDE DEF old
    <3> QED BY <2>2, <3>1
  <2>7. \A t \in Tables : \A s \in m.successors[t] : s[1] \in Ids(AllRows(t))
    BY <2>2, <2>4, <2>5, <2>6
  <2>8. TwinsHiddenIn(db.tombstone \cup T)
    <3>1. \A id : <<"chunk", id>> \in T => id \in Retired(old.chunk, new.chunk)
      <4>1. \A c, id : <<"chunk", id>> \in TombstoneChunk(db, c) => id = c BY DEF TombstoneChunk
      <4> HIDE DEF old, new
      <4> QED BY <2>2, <4>1
    <3>2. \A id : <<"evidence", id>> \in T =>
            \E c \in Retired(old.chunk, new.chunk), e \in AllRows("evidence") : e.id = id /\ e.chunk = c
      <4> SUFFICES ASSUME NEW id, <<"evidence", id>> \in T
                   PROVE  \E c \in Retired(old.chunk, new.chunk), e \in AllRows("evidence") : e.id = id /\ e.chunk = c
        OBVIOUS
      <4>1. PICK c \in Retired(old.chunk, new.chunk) : <<"evidence", id>> \in TombstoneChunk(db, c)
        <5> HIDE DEF old, new
        <5> QED BY <2>2
      <4>2. PICK e \in EvidenceOfChunk(db.baseline, c) \cup EvidenceOfChunk(db.overlay, c) : e.id = id
        BY <4>1 DEF TombstoneChunk
      <4>3. e \in AllRows("evidence") BY <4>2, StoredRow DEF EvidenceOfChunk, Tables
      <4>4. e.about = "entity" BY <4>3, KnownEvidence DEF Evidence
      <4>5. e.chunk = c BY <4>2, <4>4 DEF EvidenceOfChunk
      <4> HIDE DEF old, new
      <4> QED BY <4>2, <4>3, <4>5
    <3> SUFFICES ASSUME NEW q \in Paths, <<"file", q>> \notin db.tombstone \cup T
                 PROVE  /\ \A l \in Nat :
                             /\ <<"chunk", SymbolChunk(q, l)>> \in db.tombstone \cup T => <<"entity", SymbolEntity(q, l)>> \in db.tombstone \cup T
                             /\ <<"evidence", SymbolEvidence(q, l).id>> \in db.tombstone \cup T => <<"chunk", SymbolChunk(q, l)>> \in db.tombstone \cup T
                        /\ <<"evidence", ModuleEvidence(q).id>> \notin db.tombstone \cup T
      BY DEF TwinsHiddenIn
    <3>3. ASSUME NEW l \in Nat, <<"chunk", SymbolChunk(q, l)>> \in T
          PROVE  <<"entity", SymbolEntity(q, l)>> \in db.tombstone \cup T
      <4>1. PICK r \in old.chunk : r.id = SymbolChunk(q, l) BY <3>1, <3>3 DEF Retired, Ids
      <4>2. SymbolChunk(q, l) \notin Ids(ChunkRows(p, v)) BY <1>1, <3>1, <3>3 DEF Retired
      <4>3. /\ r.id[1] = p
            /\ r \in Shadowed(db, "chunk") /\ ~RowHidden(db, "chunk", r)
            /\ r \in AllRows("chunk")
        BY <4>1, LiveRowsOf DEF Objects
      <4>4. q = p BY <4>1, <4>3 DEF SymbolChunk
      <4>5. CASE <<"entity", SymbolEntity(p, l)>> \notin db.tombstone
        <5>1. PICK e \in Shadowed(db, "entity") : e.id = SymbolEntity(p, l)
          BY <4>1, <4>3, <4>4, TwinIsStored DEF Ids
        <5>2. e \in AllRows("entity") BY <5>1, StoredRow DEF Shadowed, Tables
        <5>3. e.file = p BY <5>1, <5>2, KnownObject DEF SymbolEntity
        <5>4. ~RowHidden(db, "entity", e)
          <6>1. <<"file", p>> \notin db.tombstone BY <4>3, HiddenById DEF Objects
          <6>2. e.id[1] = p BY <5>1 DEF SymbolEntity
          <6> QED BY <4>5, <5>1, <5>2, <6>1, <6>2, HiddenById DEF Objects
        <5>5. SymbolEntity(p, l) \in Ids(old.entity) BY <5>1, <5>3, <5>4, LiveIsRead DEF Objects
        <5>6. SymbolEntity(p, l) \notin Ids(EntityRows(p, v))
          <6>1. TwinsIn(new) BY BundleTwins
          <6>2. new["chunk"] = ChunkRows(p, v) /\ new["entity"] = EntityRows(p, v) BY <1>1
          <6> HIDE DEF new
          <6> QED BY <4>2, <4>4, <6>1, <6>2 DEF TwinsIn
        <5> QED BY <1>1, <2>3, <4>4, <5>5, <5>6 DEF Retired
      <4> QED BY <4>4, <4>5
    <3>4. ASSUME NEW l \in Nat, <<"evidence", SymbolEvidence(q, l).id>> \in T
          PROVE  <<"chunk", SymbolChunk(q, l)>> \in T
      <4>1. PICK c \in Retired(old.chunk, new.chunk), e \in AllRows("evidence") :
              e.id = SymbolEvidence(q, l).id /\ e.chunk = c
        BY <3>2, <3>4
      <4>2. e.chunk = SymbolChunk(q, l) BY <4>1, KnownEvidence DEF Evidence, SymbolEvidence
      <4> QED BY <2>3, <4>1, <4>2
    <3>5. <<"evidence", ModuleEvidence(q).id>> \notin T
      <4> SUFFICES ASSUME <<"evidence", ModuleEvidence(q).id>> \in T PROVE FALSE OBVIOUS
      <4>1. PICK c \in Retired(old.chunk, new.chunk), e \in AllRows("evidence") :
              e.id = ModuleEvidence(q).id /\ e.chunk = c
        BY <3>2
      <4>2. e.chunk = NoChunk BY <4>1, KnownEvidence DEF Evidence, ModuleEvidence
      <4>3. c # NoChunk BY <4>1, RetiredIsHidden
      <4> QED BY <4>1, <4>2, <4>3
    <3> QED BY <3>3, <3>4, <3>5 DEF TwinsHiddenIn
  <2>9. SoundWrites(w) BY <1>4, <1>5, <1>6, <2>1, <2>4, <2>5, <2>7, <2>8 DEF SoundWrites, Objects, T
  <2> QED BY <2>9 DEF w
<1> QED BY <1>7, <1>8

LEMMA ItemIsSound ==
  ASSUME StoreInv, NEW p \in Paths
  PROVE  SoundWrites(ApplyItem(db, p))
<1> USE DEF StoreInv
<1>1. CASE run.plan[p] = Missing /\ KnowsFile(db, p)
  BY <1>1, FileWritesAreSound DEF ApplyItem
<1>2. CASE run.plan[p] = Missing /\ ~KnowsFile(db, p)
  <2>1. ApplyItem(db, p) = NoWrites BY <1>2 DEF ApplyItem, TombstonePath
  <2> QED BY <2>1, NoWritesIsSound
<1>3. CASE run.plan[p] # Missing
  <2>1. run.plan[p] \in Revisions BY <1>3, Bound DEF TypedRun
  <2>2. CollectedWith(run.plan) \in SUBSET Paths BY DEF CollectedWith, Changed, Paths, CodePaths
  <2> HIDE DEF StoreInv
  <2>3. SoundWrites(ApplyBundle(db, p, Bundle(p, run.plan[p], CollectedWith(run.plan))))
    BY <2>1, <2>2, BundleWritesAreSound DEF StoreInv
  <2> QED BY <1>3, <2>3 DEF ApplyItem
<1> QED BY <1>1, <1>2, <1>3

-----------------------------------------------------------------------------
(* A commit of sound writes.                                               *)

CommittedFrom(new, items) ==
  /\ new = [baseline |-> db.baseline, overlay |-> new.overlay,
            tombstone |-> new.tombstone, replacement |-> new.replacement]
  /\ new.overlay = [t \in Tables |-> UpsertRows(db.overlay[t], UNION {i.rows[t] : i \in items})]
  /\ new.tombstone = db.tombstone \cup UNION {i.tombstones : i \in items}
  /\ \A k \in DOMAIN new.replacement :
       \/ k \in DOMAIN db.replacement /\ new.replacement[k] = db.replacement[k]
       \/ \E t \in Tables : \E i \in items : \E s \in i.successors[t] :
            k = <<t, s[1]>> /\ new.replacement[k] = s[2]

LEMMA CommittedDb ==
  ASSUME TypedStore, NEW items, NEW new, new = Commit(db, items)
  PROVE  CommittedFrom(new, items)
<1> DEFINE R == [t \in Tables |-> UNION {i.rows[t] : i \in items}]
           T == UNION {i.tombstones : i \in items}
           S == [t \in Tables |-> UNION {i.successors[t] : i \in items}]
           O == [t \in Tables |-> UpsertRows(db.overlay[t], R[t])]
           written == [db EXCEPT !.overlay = [t \in Tables |-> UpsertRows(@[t], R[t])]]
           Of(k) == {s \in S[k[1]] : s[1] = k[2]}
           D == DOMAIN db.replacement \cup UNION {{<<t, s[1]>> : s \in S[t]} : t \in Tables}
           F == [k \in D |-> IF Of(k) = {} THEN db.replacement[k] ELSE (CHOOSE s \in Of(k) : TRUE)[2]]
<1>1. db = [baseline |-> db.baseline, overlay |-> db.overlay, tombstone |-> db.tombstone, replacement |-> db.replacement]
  BY DEF TypedStore
<1>2. written = [baseline |-> db.baseline, overlay |-> O, tombstone |-> db.tombstone, replacement |-> db.replacement]
  <2>1. [t \in Tables |-> UpsertRows(db.overlay[t], R[t])] = O OBVIOUS
  <2> HIDE DEF R, O
  <2> QED BY <1>1, <2>1
<1>3. new = Tombstone(Replace(written, S), T) BY Zenon DEF Commit
<1>4. Replace(written, S) = [baseline |-> db.baseline, overlay |-> O, tombstone |-> db.tombstone, replacement |-> F]
  <2> HIDE DEF R, O, S, written
  <2>1. written.replacement = db.replacement BY <1>2
  <2>2. Replace(written, S) = [written EXCEPT !.replacement = F] BY <2>1 DEF Replace
  <2> HIDE DEF F
  <2> QED BY <1>2, <2>2
<1>5. new = [baseline |-> db.baseline, overlay |-> O, tombstone |-> db.tombstone \cup T, replacement |-> F]
  <2> HIDE DEF R, O, S, T, F, written
  <2> QED BY <1>3, <1>4 DEF Tombstone
<1>6. new.replacement = F /\ new.overlay = O /\ new.tombstone = db.tombstone \cup T
  <2> HIDE DEF R, O, S, T, F, written
  <2> QED BY <1>5
<1>7. ASSUME NEW k \in D
      PROVE  \/ k \in DOMAIN db.replacement /\ F[k] = db.replacement[k]
             \/ \E t \in Tables : \E i \in items : \E s \in i.successors[t] : k = <<t, s[1]>> /\ F[k] = s[2]
  <2>1. PICK t \in Tables : k = <<t, k[2]>>
    <3>1. ASSUME k \in DOMAIN db.replacement PROVE \E t \in Tables : k = <<t, k[2]>>
      <4>1. k \in Keys BY <3>1 DEF TypedStore
      <4> QED BY <4>1 DEF Keys
    <3>2. ASSUME k \in UNION {{<<t, s[1]>> : s \in S[t]} : t \in Tables} PROVE \E t \in Tables : k = <<t, k[2]>>
      <4> HIDE DEF S
      <4> QED BY <3>2
    <3> QED BY <3>1, <3>2
  <2>2. k[1] = t BY <2>1
  <2> HIDE DEF S
  <2>3. CASE Of(k) = {}
    <3>1. k \notin UNION {{<<u, s[1]>> : s \in S[u]} : u \in Tables}
      <4> SUFFICES ASSUME NEW u \in Tables, NEW s \in S[u], k = <<u, s[1]>> PROVE FALSE OBVIOUS
      <4> QED BY <2>3
    <3> QED BY <2>3, <3>1
  <2>4. CASE Of(k) # {}
    <3> DEFINE s == CHOOSE x \in Of(k) : TRUE
    <3>1. s \in Of(k) BY <2>4
    <3>2. F[k] = s[2] BY <2>4
    <3> HIDE DEF s
    <3>3. s \in S[t] /\ s[1] = k[2] BY <2>2, <3>1
    <3>4. PICK i \in items : s \in i.successors[t] BY <3>3 DEF S
    <3> HIDE DEF F
    <3> QED BY <2>1, <3>2, <3>3, <3>4
  <2> QED BY <2>3, <2>4
<1>8. DOMAIN F = D BY Zenon
<1> HIDE DEF F, D
<1> QED BY <1>5, <1>6, <1>7, <1>8 DEF CommittedFrom

\* Whatever an upsert adds to stored rows of which ids tell all.
LEMMA CommitKeepsStore ==
  ASSUME TypedStore, ReplacedIsHidden, TwinsIn(db.overlay), TwinsHiddenIn(db.tombstone),
         NEW items, \A i \in items : SoundWrites(i), db' = Commit(db, items)
  PROVE  (TypedStore /\ ReplacedIsHidden /\ TwinsIn(db.overlay) /\ TwinsHiddenIn(db.tombstone))'
<1>1. /\ db' = [baseline |-> db.baseline, overlay |-> db'.overlay,
                tombstone |-> db'.tombstone, replacement |-> db'.replacement]
      /\ db'.overlay = [t \in Tables |-> UpsertRows(db.overlay[t], UNION {i.rows[t] : i \in items})]
      /\ db'.tombstone = db.tombstone \cup UNION {i.tombstones : i \in items}
      /\ \A k \in DOMAIN db'.replacement :
           \/ k \in DOMAIN db.replacement /\ db'.replacement[k] = db.replacement[k]
           \/ \E t \in Tables : \E i \in items : \E s \in i.successors[t] :
                k = <<t, s[1]>> /\ db'.replacement[k] = s[2]
  <2>1. CommittedFrom(db', items) BY CommittedDb
  <2> QED BY <2>1 DEF CommittedFrom
<1> DEFINE R(t) == UNION {i.rows[t] : i \in items}
<1>2. \A t \in Tables : db'.overlay[t] = UpsertRows(db.overlay[t], R(t)) BY <1>1
<1>3. \A t \in Tables : R(t) \subseteq AllRows(t) BY DEF SoundWrites
<1>4. \A t \in Tables : Ids(db'.overlay[t]) = Ids(db.overlay[t]) \cup Ids(R(t))
  <2> HIDE DEF R
  <2> QED BY <1>2 DEF UpsertRows, Ids
<1>5. TypedStore'
  <2>1. \A t \in Tables : db'.overlay[t] \subseteq AllRows(t)
    BY <1>2, <1>3 DEF UpsertRows, TypedStore
  <2>2. DOMAIN db'.replacement \subseteq Keys
    <3> SUFFICES ASSUME NEW k \in DOMAIN db'.replacement PROVE k \in Keys OBVIOUS
    <3>1. CASE k \in DOMAIN db.replacement BY <3>1 DEF TypedStore
    <3>2. CASE \E t \in Tables : \E i \in items : \E s \in i.successors[t] : k = <<t, s[1]>>
      <4>1. PICK t \in Tables, i \in items : \E s \in i.successors[t] : k = <<t, s[1]>> BY <3>2
      <4>2. PICK s \in i.successors[t] : k = <<t, s[1]>> BY <4>1
      <4>3. s[1] \in Ids(AllRows(t)) BY DEF SoundWrites
      <4>4. \A u \in Tables : \A id \in Ids(AllRows(u)) : <<u, id>> \in Keys BY DEF Keys
      <4> QED BY <4>2, <4>3, <4>4
    <3> QED BY <1>1, <3>1, <3>2
  <2>3. db.baseline = PublishedBaseline BY DEF TypedStore
  <2>4. db'.overlay = [t \in Tables |-> db'.overlay[t]]
    <3> DEFINE f == [t \in Tables |-> UpsertRows(db.overlay[t], UNION {i.rows[t] : i \in items})]
    <3>1. f = [t \in Tables |-> f[t]] OBVIOUS
    <3> HIDE DEF f
    <3> QED BY <1>1, <3>1 DEF f
  <2> QED BY <1>1, <2>1, <2>2, <2>3, <2>4 DEF TypedStore
<1>6. ReplacedIsHidden'
  <2> SUFFICES ASSUME NEW k \in DOMAIN db'.replacement, k[1] \in {"chunk", "entity"}
               PROVE  /\ k \in db'.tombstone
                      /\ db'.replacement[k][1] = k[2][1] /\ db'.replacement[k][2] = k[2][2]
                      /\ k[2][2] \in {"section", "symbol", "Symbol"}
    BY DEF ReplacedIsHidden
  <2>1. CASE k \in DOMAIN db.replacement /\ db'.replacement[k] = db.replacement[k]
    BY <1>1, <2>1 DEF ReplacedIsHidden
  <2>2. CASE \E t \in Tables : \E i \in items : \E s \in i.successors[t] :
               k = <<t, s[1]>> /\ db'.replacement[k] = s[2]
    <3>1. PICK t \in Tables, i \in items : \E s \in i.successors[t] : k = <<t, s[1]>> /\ db'.replacement[k] = s[2]
      BY <2>2
    <3>2. PICK s \in i.successors[t] : k = <<t, s[1]>> /\ db'.replacement[k] = s[2] BY <3>1
    <3>3. t \in Objects BY <3>2 DEF Objects
    <3>4. SuccessorIsSound(t, s, i.tombstones) BY <3>3 DEF SoundWrites
    <3>5. k \in db'.tombstone BY <1>1, <3>2, <3>4 DEF SuccessorIsSound
    <3> QED BY <3>2, <3>4, <3>5 DEF SuccessorIsSound
  <2> QED BY <1>1, <2>1, <2>2
<1>7. TwinsIn(db.overlay)'
  <2>1. \A i \in items : TwinsIn(i.rows) BY DEF SoundWrites
  <2>2. \A t, id : id \in Ids(R(t)) <=> \E i \in items : id \in Ids(i.rows[t]) BY DEF Ids
  <2>3. \A i \in items : i.rows["evidence"] \subseteq R("evidence") OBVIOUS
  <2>4. \A e \in db.overlay["evidence"] \cup R("evidence") :
          (\E p, o, c : e = Evidence(p, o, c) /\ p = o[1]) => e \in db'.overlay["evidence"]
    <3> HIDE DEF R
    <3> SUFFICES ASSUME NEW e \in db.overlay["evidence"], NEW p, NEW o, NEW c, e = Evidence(p, o, c), p = o[1],
                        e \notin R("evidence")
                 PROVE  e \in db'.overlay["evidence"]
      BY <1>2 DEF UpsertRows, Tables
    <3>1. ASSUME NEW f \in R("evidence"), f.id = e.id PROVE FALSE
      <4>1. f \in AllRows("evidence") BY <1>3 DEF Tables
      <4>2. f = Evidence(f.file, f.object, f.chunk) /\ f.object[1] = f.file BY <4>1, KnownEvidence
      <4>3. f.id = <<"evidence", f.object, f.chunk>> /\ e.id = <<"evidence", o, c>> BY <4>2 DEF Evidence
      <4>4. f.object = o /\ f.chunk = c BY <3>1, <4>3
      <4>5. f = e BY <4>2, <4>4
      <4> QED BY <4>5
    <3> QED BY <1>2, <3>1 DEF UpsertRows, Ids, Tables
  <2> HIDE DEF R
  <2> SUFFICES ASSUME NEW p \in Paths
               PROVE  /\ \A l \in Nat : /\ SymbolChunk(p, l) \in Ids(db'.overlay["chunk"]) <=> SymbolEntity(p, l) \in Ids(db'.overlay["entity"])
                                        /\ SymbolEntity(p, l) \in Ids(db'.overlay["entity"]) => SymbolEvidence(p, l) \in db'.overlay["evidence"]
                      /\ <<p, "Module">> \in Ids(db'.overlay["entity"]) => ModuleEvidence(p) \in db'.overlay["evidence"]
    BY DEF TwinsIn
  <2>5. Ids(db'.overlay["chunk"]) = Ids(db.overlay["chunk"]) \cup Ids(R("chunk"))
        /\ Ids(db'.overlay["entity"]) = Ids(db.overlay["entity"]) \cup Ids(R("entity"))
    BY <1>4 DEF Tables
  <2>6. \A l \in Nat : SymbolChunk(p, l) \in Ids(R("chunk")) <=> SymbolEntity(p, l) \in Ids(R("entity"))
    BY <2>1, <2>2 DEF TwinsIn
  <2>7. \A l \in Nat : SymbolEntity(p, l) \in Ids(db'.overlay["entity"]) => SymbolEvidence(p, l) \in db.overlay["evidence"] \cup R("evidence")
    BY <2>1, <2>2, <2>3, <2>5 DEF TwinsIn
  <2>8. <<p, "Module">> \in Ids(db'.overlay["entity"]) => ModuleEvidence(p) \in db.overlay["evidence"] \cup R("evidence")
    BY <2>1, <2>2, <2>3, <2>5 DEF TwinsIn
  <2>9. \A l \in Nat : SymbolEvidence(p, l) \in db.overlay["evidence"] \cup R("evidence") => SymbolEvidence(p, l) \in db'.overlay["evidence"]
    BY <2>4 DEF SymbolEvidence, SymbolEntity
  <2>10. ModuleEvidence(p) \in db.overlay["evidence"] \cup R("evidence") => ModuleEvidence(p) \in db'.overlay["evidence"]
    BY <2>4 DEF ModuleEvidence
  <2> QED BY <2>5, <2>6, <2>7, <2>8, <2>9, <2>10 DEF TwinsIn
<1>8. TwinsHiddenIn(db.tombstone)'
  <2> DEFINE T == UNION {i.tombstones : i \in items}
  <2>1. \A i \in items : TwinsHiddenIn(db.tombstone \cup i.tombstones) BY DEF SoundWrites
  <2>2. \A x : x \in db.tombstone \cup T <=> x \in db.tombstone \/ \E i \in items : x \in i.tombstones OBVIOUS
  <2>3. db'.tombstone = db.tombstone \cup T BY <1>1
  <2> HIDE DEF T
  <2>4. TwinsHiddenIn(db.tombstone \cup T)
    <3> SUFFICES ASSUME NEW q \in Paths, <<"file", q>> \notin db.tombstone \cup T
                 PROVE  /\ \A l \in Nat :
                             /\ <<"chunk", SymbolChunk(q, l)>> \in db.tombstone \cup T => <<"entity", SymbolEntity(q, l)>> \in db.tombstone \cup T
                             /\ <<"evidence", SymbolEvidence(q, l).id>> \in db.tombstone \cup T => <<"chunk", SymbolChunk(q, l)>> \in db.tombstone \cup T
                        /\ <<"evidence", ModuleEvidence(q).id>> \notin db.tombstone \cup T
      BY DEF TwinsHiddenIn
    <3>1. \A i \in items :
            /\ \A l \in Nat :
                 /\ <<"chunk", SymbolChunk(q, l)>> \in db.tombstone \cup i.tombstones => <<"entity", SymbolEntity(q, l)>> \in db.tombstone \cup i.tombstones
                 /\ <<"evidence", SymbolEvidence(q, l).id>> \in db.tombstone \cup i.tombstones => <<"chunk", SymbolChunk(q, l)>> \in db.tombstone \cup i.tombstones
            /\ <<"evidence", ModuleEvidence(q).id>> \notin db.tombstone \cup i.tombstones
      BY <2>1, <2>2 DEF TwinsHiddenIn
    <3>2. /\ \A l \in Nat :
               /\ <<"chunk", SymbolChunk(q, l)>> \in db.tombstone => <<"entity", SymbolEntity(q, l)>> \in db.tombstone
               /\ <<"evidence", SymbolEvidence(q, l).id>> \in db.tombstone => <<"chunk", SymbolChunk(q, l)>> \in db.tombstone
          /\ <<"evidence", ModuleEvidence(q).id>> \notin db.tombstone
      BY DEF TwinsHiddenIn
    <3> QED BY <2>2, <3>1, <3>2
  <2> QED BY <2>3, <2>4
<1> QED BY <1>5, <1>6, <1>7, <1>8

LEMMA RefsKeepStore ==
  ASSUME StoreInv, CommitRefs
  PROVE  (TypedStore /\ ReplacedIsHidden /\ TwinsIn(db.overlay) /\ TwinsHiddenIn(db.tombstone))'
<1> DEFINE new == RefRows(run.doc, run.plan[run.doc])
           O == [db.overlay EXCEPT !["vector_ref"] = UpsertRows(@, new)]
<1>1. db = [baseline |-> db.baseline, overlay |-> db.overlay, tombstone |-> db.tombstone, replacement |-> db.replacement]
      /\ db.baseline = PublishedBaseline /\ db.overlay = [t \in Tables |-> db.overlay[t]]
  BY DEF StoreInv, TypedStore
<1>2. db' = [db EXCEPT !.overlay["vector_ref"] = UpsertRows(@, new)] BY DEF CommitRefs, Upsert
<1> HIDE DEF new
<1>3. db' = [baseline |-> db.baseline, overlay |-> O, tombstone |-> db.tombstone, replacement |-> db.replacement]
  BY <1>1, <1>2
<1>4. db'.baseline = db.baseline /\ db'.overlay = O /\ db'.tombstone = db.tombstone /\ db'.replacement = db.replacement
  <2> HIDE DEF O
  <2> QED BY <1>3
<1>5. DOMAIN O = Tables /\ O["vector_ref"] = UpsertRows(db.overlay["vector_ref"], new)
      /\ \A t \in Tables \ {"vector_ref"} : O[t] = db.overlay[t]
  <2>1. DOMAIN db.overlay = Tables BY <1>1
  <2> HIDE DEF TypedStore
  <2> QED BY <2>1 DEF Tables
<1>6. O = [t \in Tables |-> O[t]] BY <1>1
<1> HIDE DEF O
<1>7. new \subseteq AllRows("vector_ref")
  <2>1. run.doc \in Docs /\ run.doc \in Paths /\ run.plan[run.doc] \in Revisions
    BY Bound DEF CommitRefs, StoreInv, TypedRun, Writing, Paths
  <2> QED BY <2>1, StoredRefs DEF new
<1>8. \A t \in Tables : O[t] \subseteq AllRows(t)
  BY <1>5, <1>7 DEF StoreInv, TypedStore, UpsertRows
<1>9. TypedStore' BY <1>1, <1>3, <1>4, <1>6, <1>8 DEF StoreInv, TypedStore
<1>10. TwinsIn(db.overlay)'
  <2>1. db'.overlay["chunk"] = db.overlay["chunk"] /\ db'.overlay["entity"] = db.overlay["entity"]
        /\ db'.overlay["evidence"] = db.overlay["evidence"]
    BY <1>4, <1>5 DEF Tables
  <2> QED BY <2>1 DEF StoreInv, TwinsIn
<1>11. ReplacedIsHidden' /\ TwinsHiddenIn(db.tombstone)'
  BY <1>4 DEF StoreInv, ReplacedIsHidden, TwinsHiddenIn
<1> QED BY <1>9, <1>10, <1>11

LEMMA StoreStarts == ASSUME Init PROVE StoreInv
<1>1. db = [baseline |-> PublishedBaseline, overlay |-> NoRows, tombstone |-> {}, replacement |-> <<>>]
  BY DEF Init, EmptyDb
<1>2. TypedStore BY <1>1 DEF TypedStore, NoRows, Tables
<1>3. ReplacedIsHidden BY <1>1 DEF ReplacedIsHidden
<1>4. TwinsIn(db.overlay) BY <1>1 DEF TwinsIn, NoRows, Ids, Tables
<1>5. TwinsHiddenIn(db.tombstone) BY <1>1 DEF TwinsHiddenIn
<1>6. TypedRun
  <2>1. 1 \in 1..Gone BY StoreAssumption DEF Gone
  <2> QED BY <2>1, Bound DEF Init, TypedRun, IdleRun, NothingPlanned, Writing
<1> QED BY <1>2, <1>3, <1>4, <1>5, <1>6 DEF StoreInv

LEMMA StoreStays == ASSUME StoreInv, [Next]_vars PROVE StoreInv'
<1> DEFINE Kept == TypedStore /\ ReplacedIsHidden /\ TwinsIn(db.overlay) /\ TwinsHiddenIn(db.tombstone)
<1>1. TypedRun' BY RunStays DEF StoreInv
<1>2. db' = db => Kept'
  BY DEF StoreInv, TypedStore, ReplacedIsHidden, TwinsIn, TwinsHiddenIn
<1>3. CommitRefs => Kept' BY RefsKeepStore
<1>4. CommitBatch => Kept'
  <2> SUFFICES ASSUME CommitBatch PROVE Kept' OBVIOUS
  <2>1. PICK batch \in SUBSET run.todo : db' = Commit(db, {ApplyItem(db, p) : p \in batch})
    BY DEF CommitBatch
  <2>2. run.todo \subseteq Paths BY DEF StoreInv, TypedRun
  <2> DEFINE items == {ApplyItem(db, p) : p \in batch}
  <2>3. \A i \in items : SoundWrites(i) BY <2>2, ItemIsSound
  <2> HIDE DEF items
  <2>4. db' = Commit(db, items) BY <2>1 DEF items
  <2> QED BY <2>3, <2>4, CommitKeepsStore DEF StoreInv
<1>5. CommitBatch \/ CommitRefs \/ db' = db
  BY DEF Next, RunStep, Edit, StartRun, AppendSegment, AppendToManifest, RejectRows, Flush,
         DeleteSegment, EndCompaction, SaveState, Crash, vars
<1> HIDE DEF Kept
<1>6. Kept' BY <1>2, <1>3, <1>4, <1>5
<1> QED BY <1>1, <1>6 DEF StoreInv, Kept

\* The store keeps its shape, hides what is replaced, and stores and hides a
\* symbol's chunk, entity and evidence together (_diff_and_mark_stale,
\* _tombstone_deleted_path).
THEOREM StoreIsSound == Spec => []StoreInv
<1>1. Init => StoreInv BY StoreStarts
<1>2. StoreInv /\ [Next]_vars => StoreInv' BY StoreStays
<1> QED BY <1>1, <1>2, PTL DEF Spec

\* Whatever runs, crashes and edits did, full-text search and the logical view
\* of the store show the same objects (_fts_candidate_from_raw, logical_chunks,
\* logical_entities).
THEOREM SearchShowsTheView == Spec => []FtsAgreesWithView
<1>1. StoreInv => FtsAgreesWithView BY SearchAgrees DEF StoreInv
<1> QED BY <1>1, StoreIsSound, PTL

(***************************************************************************)
(* What is cited.                                                          *)
(***************************************************************************)
LEMMA LiveRowIsCitable ==
  ASSUME TypedStore, ReplacedIsHidden, NEW t \in Objects, NEW r \in Shadowed(db, t), ~RowHidden(db, t, r)
  PROVE  <<t, r>> \in ShownRows(db, ReadStore(db))
<1>1. PICK i \in LogicalObjects(db, t) : i.row = r BY LiveIsShown
<1> QED BY <1>1 DEF ShownRows, ReadStore, Objects

LEMMA LiveIdIsCitable ==
  ASSUME TypedStore, ReplacedIsHidden, NEW t \in Objects, NEW id \in LiveIds(db, t)
  PROVE  \A r \in GetPhysical(db, t, id) : <<t, r>> \in ShownRows(db, ReadStore(db))
BY LiveRows, LiveRowIsCitable DEF GetPhysical

LEMMA EvidenceIsLive ==
  ASSUME TypedStore, ReplacedIsHidden, NEW e \in LogicalEvidence(db)
  PROVE  /\ e.row \in AllRows("evidence") /\ e.id = e.row.id
         /\ e.row \in db.overlay["evidence"] \cup db.baseline["evidence"]
         /\ ~EvidenceHidden(db, e.row)
<1>1. db.overlay["evidence"] \subseteq AllRows("evidence") /\ db.baseline["evidence"] \subseteq AllRows("evidence")
  BY StoredRow DEF Tables
<1>2. PICK r \in AllRows("evidence") :
        /\ r \in db.overlay["evidence"] \cup db.baseline["evidence"]
        /\ ~EvidenceHidden(db, r)
        /\ \E source :
             e = Item(r.id, [r EXCEPT !.object = Resolve(db, r.about, r.object),
                               !.chunk = IF @ = r.object THEN Resolve(db, r.about, r.object) ELSE @], source)
  BY <1>1 DEF LogicalEvidence
<1>3. r = Evidence(r.file, r.object, r.chunk) BY <1>2, KnownEvidence
<1>4. r.about = "entity" BY <1>3 DEF Evidence
<1>5. Resolve(db, r.about, r.object) = r.object
  BY <1>2, <1>4, NotReplaced DEF EvidenceHidden, Objects
<1>6. e.row = r /\ e.id = r.id
  <2>1. e.row = [r EXCEPT !.object = r.object, !.chunk = IF @ = r.object THEN r.object ELSE @] /\ e.id = r.id
    BY <1>2, <1>5 DEF Item
  <2>2. (IF r.chunk = r.object THEN r.object ELSE r.chunk) = r.chunk OBVIOUS
  <2>3. [r EXCEPT !.object = r.object, !.chunk = IF @ = r.object THEN r.object ELSE @] = r
    BY <1>3, <2>2 DEF Evidence
  <2> QED BY <2>1, <2>3
<1> QED BY <1>2, <1>6

LEMMA EvidenceCitesShown ==
  ASSUME TypedStore, ReplacedIsHidden, NEW e \in LogicalEvidence(db)
  PROVE  CitedByEvidence(db, e) \subseteq ShownRows(db, ReadStore(db))
<1> DEFINE x == e.row
<1>1. x \in AllRows("evidence") /\ ~EvidenceHidden(db, x) BY EvidenceIsLive
<1>2. /\ x = Evidence(x.file, x.object, x.chunk) /\ x.object[1] = x.file
      /\ x.chunk # NoChunk => x.chunk[1] = x.file
  BY <1>1, KnownEvidence
<1>3. x.about = "entity" BY <1>2 DEF Evidence
<1>4. /\ <<"file", x.file>> \notin db.tombstone /\ <<"entity", x.object>> \notin db.tombstone
      /\ x.chunk # NoChunk => <<"chunk", x.chunk>> \notin db.tombstone
  BY <1>1, <1>3 DEF EvidenceHidden, IsTombstoned
<1> HIDE DEF x
<1>5. \A r \in GetPhysical(db, "chunk", x.chunk) : <<"chunk", r>> \in ShownRows(db, ReadStore(db))
  <2> SUFFICES ASSUME NEW r \in Shadowed(db, "chunk"), r.id = x.chunk
               PROVE  <<"chunk", r>> \in ShownRows(db, ReadStore(db))
    BY DEF GetPhysical
  <2>1. r \in AllRows("chunk") BY StoredRow DEF Shadowed, Tables
  <2>2. r.id # NoChunk BY <2>1, KnownChunk DEF IsChunk
  <2>3. ~RowHidden(db, "chunk", r) BY <1>2, <1>4, <2>1, <2>2, HiddenById DEF Objects
  <2> QED BY <2>3, LiveRowIsCitable DEF Objects
<1>6. \A r \in GetPhysical(db, "entity", x.object) : <<"entity", r>> \in ShownRows(db, ReadStore(db))
  <2> SUFFICES ASSUME NEW r \in Shadowed(db, "entity"), r.id = x.object
               PROVE  <<"entity", r>> \in ShownRows(db, ReadStore(db))
    BY DEF GetPhysical
  <2>1. r \in AllRows("entity") BY StoredRow DEF Shadowed, Tables
  <2>2. ~RowHidden(db, "entity", r) BY <1>2, <1>4, <2>1, HiddenById DEF Objects
  <2> QED BY <2>2, LiveRowIsCitable DEF Objects
<1> SUFFICES ASSUME NEW key \in {<<"chunk", x.chunk>>, <<x.about, x.object>>},
                    NEW r \in GetPhysical(db, key[1], key[2])
             PROVE  <<key[1], r>> \in ShownRows(db, ReadStore(db))
  BY DEF CitedByEvidence, x
<1>7. CASE key = <<"chunk", x.chunk>> BY <1>5, <1>7
<1>8. CASE key = <<x.about, x.object>> BY <1>3, <1>6, <1>8
<1> QED BY <1>7, <1>8

\* A key whose own object is live cites what is shown.
LEMMA KeyCitesShown ==
  ASSUME TypedStore, ReplacedIsHidden, NEW key,
         key[1] \in {"chunk", "entity", "file"} =>
           \A r \in GetPhysical(db, key[1], key[2]) : <<key[1], r>> \in ShownRows(db, ReadStore(db))
  PROVE  CitedByKey(db, LogicalEvidence(db), key) \subseteq ShownRows(db, ReadStore(db))
<1> DEFINE C == LogicalEvidence(db)
           S == ShownRows(db, ReadStore(db))
           own == IF key[1] \in {"chunk", "entity", "file"}
                  THEN {<<key[1], r>> : r \in GetPhysical(db, key[1], key[2])} ELSE {}
<1>1. \A e \in Entries(C, key) : CitedByEvidence(db, e) \subseteq S
  BY EvidenceCitesShown DEF Entries
<1>2. own \subseteq S OBVIOUS
<1>3. CitedByKey(db, C, key) = (UNION {CitedByEvidence(db, e) : e \in Entries(C, key)}) \cup own
  BY DEF CitedByKey
<1> HIDE DEF own, S, C
<1>4. CitedByKey(db, C, key) \subseteq S BY <1>1, <1>2, <1>3
<1> QED BY <1>4 DEF C, S

LEMMA HitsAreLive ==
  ASSUME TypedStore, ReplacedIsHidden, NEW h \in VectorHits(db, BaselineVectors, disk)
  PROVE  h.chunk \in LiveIds(db, "chunk")
<1>1. \A rows : h \in Matches(db, rows) => \E i \in LogicalObjects(db, "chunk") : i.id = h.chunk
  BY DEF Matches
<1>2. PICK i \in LogicalObjects(db, "chunk") : i.id = h.chunk BY <1>1 DEF VectorHits
<1> QED BY <1>2, ItemIsLive DEF Objects

\* The keys of a candidate are of evidence, or of an object that is live.
SafeKey(key) ==
  \/ key[1] = "evidence"
  \/ \A r \in GetPhysical(db, key[1], key[2]) : <<key[1], r>> \in ShownRows(db, ReadStore(db))

LEMMA NearKeysAreSafe ==
  ASSUME TypedStore, ReplacedIsHidden,
         NEW c \in VectorCandidates(db, BaselineVectors, disk, [embeddings |-> TRUE]), NEW key \in c.keys
  PROVE  SafeKey(key)
<1>1. PICK r \in Hydrated(db, VectorHits(db, BaselineVectors, disk)) :
        c = Candidate(r.id, {<<"chunk", r.id>>, <<"file", r.file>>})
  BY DEF VectorCandidates, NearCandidates
<1>a. PICK h \in VectorHits(db, BaselineVectors, disk) : r \in GetPhysical(db, "chunk", h.chunk)
  BY DEF Hydrated
<1>2. h.chunk \in LiveIds(db, "chunk") /\ r.id = h.chunk /\ r \in Shadowed(db, "chunk")
  BY <1>a, HitsAreLive DEF GetPhysical
<1>3. CASE key = <<"chunk", r.id>>
  BY <1>2, <1>3, LiveIdIsCitable DEF SafeKey, Objects
<1>4. CASE key = <<"file", r.file>>
  <2>1. r \in AllRows("chunk") BY <1>2, StoredRow DEF Shadowed, Tables
  <2>2. <<"file", r.file>> \notin db.tombstone BY <1>2, <2>1, LiveRows, KnownObject DEF Objects
  <2>3. \A f \in GetPhysical(db, "file", r.file) : <<"file", f>> \in ShownRows(db, ReadStore(db))
    BY <2>2 DEF GetPhysical, ShownRows, IsTombstoned
  <2> QED BY <1>4, <2>3 DEF SafeKey
<1> QED BY <1>1, <1>3, <1>4 DEF Candidate

LEMMA CitedIsShown ==
  ASSUME TypedStore, ReplacedIsHidden, NEW candidates,
         \A c \in candidates : \A key \in c.keys : SafeKey(key)
  PROVE  Cited(db, LogicalEvidence(db), Fuse(candidates)) \subseteq ShownRows(db, ReadStore(db))
<1>1. \A c \in Fuse(candidates) : \A key \in c.keys : \E d \in candidates : key \in d.keys
  BY DEF Fuse, Candidate
<1>2. \A c \in Fuse(candidates) : \A key \in c.keys : SafeKey(key) BY <1>1
<1>3. \A key : SafeKey(key) => CitedByKey(db, LogicalEvidence(db), key) \subseteq ShownRows(db, ReadStore(db))
  BY KeyCitesShown DEF SafeKey
<1>4. \A c \in Fuse(candidates) : CitedFor(db, LogicalEvidence(db), c) \subseteq ShownRows(db, ReadStore(db))
  BY <1>2, <1>3 DEF CitedFor
<1> QED BY <1>4 DEF Cited

\* Stored evidence that is not hidden is in the view.
LEMMA EvidenceIsShown ==
  ASSUME TypedStore, ReplacedIsHidden, NEW r \in db.overlay["evidence"] \cup db.baseline["evidence"],
         ~EvidenceHidden(db, r)
  PROVE  r.about = "entity" /\ \E e \in LogicalEvidence(db) : e.row = r
<1> DEFINE object(x) == Resolve(db, x.about, x.object)
           live(x) == /\ ~EvidenceHidden(db, x)
                      /\ IsReplaced(db, x.about, x.object) =>
                           x.about \in {"chunk", "entity"} /\ LogicalObjectExists(db, x.about, object(x))
           resolved(x) == [x EXCEPT !.object = object(x), !.chunk = IF @ = x.object THEN object(x) ELSE @]
           above == {x \in db.overlay["evidence"] : live(x)}
           below == {x \in db.baseline["evidence"] : live(x) /\ x.id \notin Ids(above)}
<1>1. db.overlay["evidence"] \subseteq AllRows("evidence") /\ db.baseline["evidence"] \subseteq AllRows("evidence")
  BY StoredRow DEF Tables
<1>2. LogicalEvidence(db) = {Item(x.id, resolved(x), "overlay") : x \in above} \cup
                            {Item(x.id, resolved(x), "baseline") : x \in below}
  BY DEF LogicalEvidence
<1>3. \A x \in AllRows("evidence") : ~EvidenceHidden(db, x) =>
        live(x) /\ resolved(x) = x /\ x.about = "entity"
  <2> SUFFICES ASSUME NEW x \in AllRows("evidence"), ~EvidenceHidden(db, x)
               PROVE  live(x) /\ resolved(x) = x /\ x.about = "entity"
    OBVIOUS
  <2>1. x = Evidence(x.file, x.object, x.chunk) BY KnownEvidence
  <2>2. x.about = "entity" BY <2>1 DEF Evidence
  <2>3. object(x) = x.object /\ ~IsReplaced(db, x.about, x.object)
    BY <2>2, NotReplaced DEF EvidenceHidden, Objects
  <2>4. resolved(x) = [x EXCEPT !.object = x.object, !.chunk = IF @ = x.object THEN x.object ELSE @]
    BY <2>3
  <2>5. resolved(x) = x
    <3>1. (IF x.chunk = x.object THEN x.object ELSE x.chunk) = x.chunk OBVIOUS
    <3> HIDE DEF resolved
    <3> QED BY <2>1, <2>4, <3>1 DEF Evidence
  <2> QED BY <2>2, <2>3, <2>5
<1> HIDE DEF live, resolved, object
<1>4. r \in AllRows("evidence") /\ live(r) BY <1>1, <1>3
<1>5. CASE r \in above \/ r \in below
  <2>1. PICK source : Item(r.id, resolved(r), source) \in LogicalEvidence(db) BY <1>2, <1>5
  <2> QED BY <1>3, <1>4, <2>1 DEF Item
<1>6. CASE r \in db.baseline["evidence"] /\ r.id \in Ids(above)
  <2>1. PICK x \in above : x.id = r.id BY <1>6 DEF Ids
  <2>2. x \in AllRows("evidence") BY <1>1, <2>1
  <2>3. x = r BY <1>4, <2>1, <2>2, IdsTell
  <2>4. Item(x.id, resolved(x), "overlay") \in LogicalEvidence(db) BY <1>2, <2>1
  <2>5. ~EvidenceHidden(db, x) BY <2>1 DEF live
  <2> QED BY <1>3, <2>2, <2>3, <2>4, <2>5 DEF Item
<1> QED BY <1>4, <1>5, <1>6

\* A function or a module that is shown has evidence that is shown.
LEMMA NamedHasEvidence ==
  ASSUME StoreInv, NEW i \in LogicalObjects(db, "entity"), i.row.key \in {"symbol", "Module"}
  PROVE  \E e \in LogicalEvidence(db) : e.row.about = "entity" /\ e.row.object = i.id
<1> USE DEF StoreInv
<1>1. ShowsOwnRow("entity", i) BY ItemsAre DEF Objects
<1>2. i.id \in LiveIds(db, "entity") BY ItemIsLive DEF Objects
<1>3. i.row \in AllRows("entity")
  BY <1>1, StoredRow DEF ShowsOwnRow, Shadowed, Objects, Tables
<1>4. PICK r \in Shadowed(db, "entity") : r.id = i.id BY <1>2, LiveRows DEF Objects
<1>5. r \in AllRows("entity") BY StoredRow DEF Shadowed, Tables
<1>6. PICK p \in Paths, v \in Revisions : IsEntity(p, v, r) BY <1>5, KnownEntity
<1>7. i.row.id[2] \in {"Symbol", "Module"} BY <1>3, KnownEntity DEF IsEntity
<1>8. i.id[2] = i.row.id[2]
  BY <1>1 DEF ShowsOwnRow
<1>9. i.id[2] \in {"Symbol", "Module"} BY <1>7, <1>8
<1>10. Line[v] \in Nat BY <1>6, StoreAssumption DEF Revisions
<1>11. i.id = SymbolEntity(p, Line[v]) \/ i.id = <<p, "Module">>
  BY <1>4, <1>6, <1>9 DEF IsEntity, SymbolEntity
<1>12. <<"entity", i.id>> \notin db.tombstone /\ <<"file", p>> \notin db.tombstone
  <2>1. i.id[1] = p BY <1>11 DEF SymbolEntity
  <2> QED BY <1>2, <2>1, LiveRows DEF Objects
<1>13. i.id \in Ids(db.overlay["entity"]) \/ i.id \in Ids(db.baseline["entity"])
  BY <1>4 DEF Shadowed, Ids
<1>14. TwinsIn(db.baseline) BY BaselineTwins DEF TypedStore
<1> SUFFICES \E x \in db.overlay["evidence"] \cup db.baseline["evidence"] : x.object = i.id /\ ~EvidenceHidden(db, x)
  BY EvidenceIsShown
<1>15. CASE i.id = SymbolEntity(p, Line[v])
  <2> DEFINE x == SymbolEvidence(p, Line[v])
  <2>1. x \in db.overlay["evidence"] \cup db.baseline["evidence"]
    BY <1>10, <1>13, <1>14, <1>15 DEF TwinsIn
  <2>2. <<"chunk", SymbolChunk(p, Line[v])>> \notin db.tombstone /\ <<"evidence", x.id>> \notin db.tombstone
    BY <1>10, <1>12, <1>15 DEF TwinsHiddenIn
  <2>3. x.object = i.id /\ x.file = p /\ x.chunk = SymbolChunk(p, Line[v]) /\ x.about = "entity"
    BY <1>15 DEF SymbolEvidence, Evidence
  <2>4. ~EvidenceHidden(db, x) BY <1>12, <2>2, <2>3 DEF EvidenceHidden, IsTombstoned
  <2> QED BY <2>1, <2>3, <2>4
<1>16. CASE i.id = <<p, "Module">>
  <2> DEFINE x == ModuleEvidence(p)
  <2>1. x \in db.overlay["evidence"] \cup db.baseline["evidence"]
    BY <1>13, <1>14, <1>16 DEF TwinsIn
  <2>2. <<"evidence", x.id>> \notin db.tombstone BY <1>12 DEF TwinsHiddenIn
  <2>3. x.object = i.id /\ x.file = p /\ x.chunk = NoChunk /\ x.about = "entity"
    BY <1>16 DEF ModuleEvidence, Evidence
  <2>4. ~EvidenceHidden(db, x) BY <1>12, <2>2, <2>3 DEF EvidenceHidden, IsTombstoned
  <2> QED BY <2>1, <2>3, <2>4
<1> QED BY <1>11, <1>15, <1>16

LEMMA NamedIsProven ==
  ASSUME StoreInv,
         NEW c \in SymbolCandidates(db, ReadStore(db), [text |-> Missing, names |-> SymbolTypes \ {"File"}])
  PROVE  CitedFor(db, LogicalEvidence(db), c) # {}
<1> USE DEF StoreInv
<1> DEFINE q == [text |-> Missing, names |-> SymbolTypes \ {"File"}]
           store == ReadStore(db)
<1>1. SearchFts(db, "entity", Missing) = {} /\ SearchFts(db, "chunk", Missing) = {}
  <2>1. Missing \notin Revisions BY Bound DEF Missing, Revisions
  <2> QED BY <2>1, HitsAreShown DEF Objects
<1>2. DocMentions(db, Missing) = {} BY <1>1 DEF DocMentions
<1>3. store.entities = LogicalObjects(db, "entity") /\ store.evidence = LogicalEvidence(db) BY DEF ReadStore
<1> HIDE DEF store
<1>4. PICK i \in SymbolHits(db, store, q) :
        c = Candidate(i.id, {<<"evidence", e.id>> : e \in {x \in store.evidence :
                      x.row.about = "entity" /\ x.row.object = i.id}})
  BY DEF SymbolCandidates, store
<1>5. i \in LogicalObjects(db, "entity") /\ i.row.key \in {"symbol", "Module"}
  <2>1. q.names = {"symbol", "Module"} /\ q.text = Missing BY DEF SymbolTypes
  <2>2. i \in store.entities /\ (i.row.key \in q.names \cup DocMentions(db, q.text) \/ i.id \in Ids(SearchFts(db, "entity", q.text)))
    BY DEF SymbolHits
  <2> HIDE DEF q
  <2> QED BY <1>1, <1>2, <1>3, <2>1, <2>2 DEF Ids
<1>6. PICK e \in LogicalEvidence(db) : e.row.about = "entity" /\ e.row.object = i.id
  BY <1>5, NamedHasEvidence
<1> DEFINE key == <<"evidence", e.id>>
<1>7. key \in c.keys BY <1>3, <1>4, <1>6 DEF Candidate
<1>8. e \in Entries(LogicalEvidence(db), key) BY DEF Entries
<1>9. PICK r \in Shadowed(db, "entity") : r.id = i.id
  BY <1>5, ItemIsLive, LiveRows DEF Objects
<1>10. <<"entity", r>> \in CitedByEvidence(db, e)
  <2>1. r \in GetPhysical(db, "entity", i.id) BY <1>9 DEF GetPhysical
  <2> DEFINE k == <<e.row.about, e.row.object>>
  <2>2. k = <<"entity", i.id>> BY <1>6
  <2>3. <<k[1], r>> \in {<<k[1], x>> : x \in GetPhysical(db, k[1], k[2])} /\ k[1] = "entity" BY <2>1, <2>2
  <2> QED BY <2>3 DEF CitedByEvidence
<1>11. <<"entity", r>> \in CitedByKey(db, LogicalEvidence(db), key) BY <1>8, <1>10 DEF CitedByKey
<1>12. <<"entity", r>> \in CitedFor(db, LogicalEvidence(db), c) BY <1>7, <1>11 DEF CitedFor
<1> QED BY <1>12

LEMMA EvidenceAgrees == StoreInv => EvidenceCitesView
<1> SUFFICES ASSUME StoreInv PROVE EvidenceCitesView OBVIOUS
<1> DEFINE store == ReadStore(db)
           rows == ShownRows(db, store)
           named == SymbolCandidates(db, store, [text |-> MaxRevision, names |-> SymbolTypes])
           proven == SymbolCandidates(db, store, [text |-> Missing, names |-> SymbolTypes \ {"File"}])
           near == VectorCandidates(db, BaselineVectors, disk, [embeddings |-> TRUE])
<1>1. TypedStore /\ ReplacedIsHidden BY DEF StoreInv
<1>2. Catalog(db, store) = LogicalEvidence(db) /\ store.entities = LogicalObjects(db, "entity")
  BY DEF Catalog, ReadStore
<1>3. \A c \in named : \A key \in c.keys : SafeKey(key)
  BY DEF SymbolCandidates, Candidate, SafeKey
<1>4. \A c \in near : \A key \in c.keys : SafeKey(key)
  BY <1>1, NearKeysAreSafe
<1> HIDE DEF named, near
<1>5. Cited(db, Catalog(db, store), Fuse(named \cup near)) \subseteq rows
  BY <1>1, <1>2, <1>3, <1>4, CitedIsShown
<1>6. \A c \in proven : CitedFor(db, Catalog(db, store), c) # {}
  BY <1>2, NamedIsProven
<1>7. \A i \in store.entities : CitedForEntity(db, Catalog(db, store), i.id) \subseteq rows
  <2> SUFFICES ASSUME NEW i \in LogicalObjects(db, "entity")
               PROVE  CitedForEntity(db, LogicalEvidence(db), i.id) \subseteq rows
    BY <1>2
  <2>1. \A e \in Entries(LogicalEvidence(db), <<"entity", i.id>>) : CitedByEvidence(db, e) \subseteq rows
    BY <1>1, EvidenceCitesShown DEF Entries
  <2>2. {<<"entity", r>> : r \in GetPhysical(db, "entity", i.id)} \subseteq rows
    BY <1>1, ItemIsLive, LiveIdIsCitable DEF Objects
  <2> HIDE DEF rows
  <2> QED BY <2>1, <2>2 DEF CitedForEntity
<1> HIDE DEF store, rows, proven
<1>8. EvidenceCitesView
  <2>1. store = ReadStore(db) BY DEF store
  <2> QED BY <1>5, <1>6, <1>7, <2>1 DEF EvidenceCitesView, rows, named, near, proven, store
<1> QED BY <1>8

\* In the middle of any run, after any crash and edit, what is cited for an
\* entity or for what is near in meaning is text that the view shows, and a
\* function or module found by name has evidence (bundle_for_query,
\* bundle_for_entity).
THEOREM CitedTextIsShown == Spec => []EvidenceCitesView
BY EvidenceAgrees, StoreIsSound, PTL

(***************************************************************************)
(* The files of vectors.                                                   *)
(***************************************************************************)
\* Where the manifest lists a file last.
IsPlace(on, m, j) == j \in DOMAIN on.listed /\ on.listed[j] = m /\ \A i \in DOMAIN on.listed : on.listed[i] = m => i <= j
Place(on, m) == CHOOSE j \in Nat : IsPlace(on, m, j)

LEMMA PlaceExists ==
  ASSUME NEW on, on.listed \in Seq(Names), NEW m \in Listed(on)
  PROVE  Place(on, m) \in Nat /\ IsPlace(on, m, Place(on, m))
<1> DEFINE n == Len(on.listed)
           T == {i \in 1..n : on.listed[i] = m}
<1>1. n \in Nat /\ DOMAIN on.listed = 1..n BY LenProperties
<1>2. T \in SUBSET (1..n) /\ T # {} BY <1>1 DEF Listed
<1> HIDE DEF n
<1>3. PICK j \in T : \A i \in T : i <= j
  <2> HIDE DEF T
  <2> QED BY <1>1, <1>2, LargestNumber
<1>4. j \in Nat /\ IsPlace(on, m, j) BY <1>1, <1>3 DEF IsPlace
<1> QED BY <1>4 DEF Place

LEMMA ListedByPlace ==
  ASSUME NEW on, on.listed \in Seq(Names), NEW m \in Listed(on), NEW n \in Listed(on)
  PROVE  /\ ListedBefore(on, m, n) <=> Place(on, m) < Place(on, n)
         /\ Place(on, m) = Place(on, n) => m = n
<1>1. /\ Place(on, m) \in Nat /\ IsPlace(on, m, Place(on, m))
      /\ Place(on, n) \in Nat /\ IsPlace(on, n, Place(on, n))
  BY PlaceExists
<1>2. DOMAIN on.listed \subseteq Nat BY LenProperties
<1>3. ASSUME ListedBefore(on, m, n) PROVE Place(on, m) < Place(on, n)
  <2>1. PICK j \in DOMAIN on.listed : on.listed[j] = n /\ \A i \in DOMAIN on.listed : on.listed[i] = m => i < j
    BY <1>3 DEF ListedBefore
  <2>2. Place(on, m) < j /\ j <= Place(on, n) /\ j \in Nat BY <1>1, <1>2, <2>1 DEF IsPlace
  <2> QED BY <1>1, <2>2
<1>4. ASSUME Place(on, m) < Place(on, n) PROVE ListedBefore(on, m, n)
  <2>1. \A i \in DOMAIN on.listed : on.listed[i] = m => i < Place(on, n)
    <3> SUFFICES ASSUME NEW i \in DOMAIN on.listed, on.listed[i] = m PROVE i < Place(on, n) OBVIOUS
    <3>1. i <= Place(on, m) /\ i \in Nat BY <1>1, <1>2 DEF IsPlace
    <3> QED BY <1>1, <1>4, <3>1
  <2> QED BY <1>1, <2>1 DEF ListedBefore, IsPlace
<1>5. Place(on, m) = Place(on, n) => m = n BY <1>1 DEF IsPlace
<1> QED BY <1>3, <1>4, <1>5

LEMMA LoadOrder ==
  ASSUME NEW on, on.listed \in Seq(Names), NEW a \in Names, NEW b \in Names, NEW c \in Names
  PROVE  /\ a # b => LoadedBefore(on, a, b) \/ LoadedBefore(on, b, a)
         /\ ~(LoadedBefore(on, a, b) /\ LoadedBefore(on, b, a))
         /\ LoadedBefore(on, a, b) /\ LoadedBefore(on, b, c) => LoadedBefore(on, a, c)
<1> DEFINE L == Listed(on)
           P(m) == Place(on, m)
<1>1. \A m, n \in L : (ListedBefore(on, m, n) <=> P(m) < P(n)) /\ (P(m) = P(n) => m = n) /\ P(m) \in Nat
  BY ListedByPlace, PlaceExists
<1>2. /\ a # b => SegmentBefore(a, b) \/ SegmentBefore(b, a)
      /\ ~(SegmentBefore(a, b) /\ SegmentBefore(b, a))
      /\ SegmentBefore(a, b) /\ SegmentBefore(b, c) => SegmentBefore(a, c)
  BY DEF SegmentBefore, Names
<1> HIDE DEF P
<1>3. \A m, n : LoadedBefore(on, m, n) <=>
        \/ m \in L /\ n \in L /\ ListedBefore(on, m, n)
        \/ m \in L /\ n \notin L
        \/ m \notin L /\ n \notin L /\ SegmentBefore(m, n)
  BY DEF LoadedBefore
<1> HIDE DEF L
<1>4. \A m, n \in L : LoadedBefore(on, m, n) <=> P(m) < P(n) BY <1>1, <1>3
<1>5. a # b => LoadedBefore(on, a, b) \/ LoadedBefore(on, b, a)
  <2>1. CASE a \in L /\ b \in L
    <3>1. P(a) \in Nat /\ P(b) \in Nat /\ (P(a) = P(b) => a = b) BY <1>1, <2>1
    <3> QED BY <1>4, <2>1, <3>1
  <2>2. CASE ~(a \in L /\ b \in L) BY <1>2, <1>3, <2>2
  <2> QED BY <2>1, <2>2
<1>6. ~(LoadedBefore(on, a, b) /\ LoadedBefore(on, b, a))
  <2>1. CASE a \in L /\ b \in L
    <3>1. P(a) \in Nat /\ P(b) \in Nat BY <1>1, <2>1
    <3> QED BY <1>4, <2>1, <3>1
  <2>2. CASE ~(a \in L /\ b \in L) BY <1>2, <1>3, <2>2
  <2> QED BY <2>1, <2>2
<1>7. LoadedBefore(on, a, b) /\ LoadedBefore(on, b, c) => LoadedBefore(on, a, c)
  <2>1. CASE a \in L /\ b \in L /\ c \in L
    <3>1. P(a) \in Nat /\ P(b) \in Nat /\ P(c) \in Nat BY <1>1, <2>1
    <3> QED BY <1>4, <2>1, <3>1
  <2>2. CASE ~(a \in L /\ b \in L /\ c \in L) BY <1>2, <1>3, <2>2
  <2> QED BY <2>1, <2>2
<1> QED BY <1>5, <1>6, <1>7

\* Of some files there is one that is loaded last.
IsLatest(on, names, n) == n \in names /\ \A m \in names \ {n} : LoadedBefore(on, m, n)

LEMMA LatestIs ==
  ASSUME NEW on, on.listed \in Seq(Names), NEW S, IsFiniteSet(S), S \subseteq Names, S # {}
  PROVE  /\ IsLatest(on, S, Latest(on, S))
         /\ \A n : IsLatest(on, S, n) => n = Latest(on, S)
<1> DEFINE F == {T \in SUBSET S : T # {} => \E n : IsLatest(on, T, n)}
<1>1. {} \in F OBVIOUS
<1>2. ASSUME NEW T \in SUBSET S, NEW x \in S \ T, T \in F PROVE T \cup {x} \in F
  <2>1. CASE T = {}
    <3>1. IsLatest(on, T \cup {x}, x) BY <2>1 DEF IsLatest
    <3> QED BY <3>1
  <2>2. CASE T # {}
    <3>1. PICK n : IsLatest(on, T, n) BY <1>2, <2>2
    <3>2. n \in T /\ n \in Names /\ x \in Names /\ n # x BY <3>1 DEF IsLatest
    <3>3. CASE LoadedBefore(on, x, n)
      <4>1. IsLatest(on, T \cup {x}, n) BY <3>1, <3>3 DEF IsLatest
      <4> QED BY <4>1
    <3>4. CASE LoadedBefore(on, n, x)
      <4>1. \A m \in T : LoadedBefore(on, m, x)
        <5> SUFFICES ASSUME NEW m \in T, m # n PROVE LoadedBefore(on, m, x) BY <3>4
        <5>1. LoadedBefore(on, m, n) BY <3>1 DEF IsLatest
        <5>2. m \in Names OBVIOUS
        <5> QED BY <3>2, <3>4, <5>1, <5>2, LoadOrder
      <4>2. IsLatest(on, T \cup {x}, x) BY <4>1 DEF IsLatest
      <4> QED BY <4>2
    <3> QED BY <3>2, <3>3, <3>4, LoadOrder
  <2> QED BY <2>1, <2>2
<1> HIDE DEF F
<1>3. S \in F BY <1>1, <1>2, SetsInduct
<1>4. \E n : IsLatest(on, S, n) BY <1>3 DEF F
<1>5. IsLatest(on, S, Latest(on, S)) BY <1>4 DEF IsLatest, Latest
<1>6. ASSUME NEW n, IsLatest(on, S, n) PROVE n = Latest(on, S)
  <2> DEFINE l == Latest(on, S)
  <2>1. n \in Names /\ l \in Names BY <1>5, <1>6 DEF IsLatest
  <2>2. n # l => LoadedBefore(on, n, l) /\ LoadedBefore(on, l, n) BY <1>5, <1>6 DEF IsLatest
  <2> HIDE DEF l
  <2>3. n = l BY <2>1, <2>2, LoadOrder
  <2> QED BY <2>3 DEF l
<1> QED BY <1>5, <1>6

-----------------------------------------------------------------------------
(* What is loaded of a row.                                                *)

LEMMA LoadsIs ==
  ASSUME NEW on, NEW k, NEW h
  PROVE  Loads(on, k, h) <=>
           IF SegmentsWith(on, k) = {} THEN k \in DOMAIN on.rows /\ on.rows[k] = h
           ELSE on.segments[Latest(on, SegmentsWith(on, k))][k] = h
<1> DEFINE D == DOMAIN on.rows \cup UNION {DOMAIN on.segments[n] : n \in DOMAIN on.segments}
<1>1. k \in D <=> k \in DOMAIN on.rows \/ SegmentsWith(on, k) # {} BY DEF SegmentsWith
<1>2. LoadRows(on) = [x \in D |-> IF SegmentsWith(on, x) = {} THEN on.rows[x]
                                  ELSE on.segments[Latest(on, SegmentsWith(on, x))][x]]
  BY DEF LoadRows
<1> HIDE DEF D
<1>3. DOMAIN LoadRows(on) = D BY <1>2
<1>4. k \in D => LoadRows(on)[k] = IF SegmentsWith(on, k) = {} THEN on.rows[k]
                                   ELSE on.segments[Latest(on, SegmentsWith(on, k))][k]
  BY <1>2
<1> QED BY <1>1, <1>3, <1>4 DEF Loads

LEMMA RemovedIs ==
  ASSUME NEW on, TypedFiles(on), NEW n, NEW new, new = RemoveSegment(on, n)
  PROVE  /\ TypedFiles(new) /\ new.rows = on.rows /\ new.listed = on.listed
         /\ DOMAIN new.segments = DOMAIN on.segments \ {n}
         /\ \A m \in DOMAIN new.segments : new.segments[m] = on.segments[m]
<1> DEFINE S == [m \in DOMAIN on.segments \ {n} |-> on.segments[m]]
<1>1. new = [on EXCEPT !.segments = S] BY DEF RemoveSegment
<1>2. S = [m \in DOMAIN S |-> S[m]] /\ DOMAIN S = DOMAIN on.segments \ {n}
      /\ \A m \in DOMAIN S : S[m] = on.segments[m]
  OBVIOUS
<1> HIDE DEF S
<1>3. new = [rows |-> on.rows, segments |-> S, listed |-> on.listed] BY <1>1 DEF TypedFiles
<1>4. new.rows = on.rows /\ new.segments = S /\ new.listed = on.listed BY <1>3
<1>5. IsFiniteSet(DOMAIN S) /\ DOMAIN S \subseteq Names BY <1>2, FS_Subset DEF TypedFiles
<1> QED BY <1>2, <1>3, <1>4, <1>5 DEF TypedFiles

\* A file changes nothing of a row that it holds with the same content, or not at all.
LEMMA LoadsWith ==
  ASSUME NEW on, TypedFiles(on), NEW n \in DOMAIN on.segments, NEW k, NEW h,
         k \in DOMAIN on.segments[n] => on.segments[n][k] = h,
         Loads(RemoveSegment(on, n), k, h)
  PROVE  Loads(on, k, h)
<1> DEFINE less == RemoveSegment(on, n)
           S == SegmentsWith(on, k)
           R == SegmentsWith(less, k)
<1>1. /\ TypedFiles(less) /\ less.rows = on.rows /\ less.listed = on.listed
      /\ DOMAIN less.segments = DOMAIN on.segments \ {n}
      /\ \A m \in DOMAIN less.segments : less.segments[m] = on.segments[m]
  BY RemovedIs
<1> HIDE DEF less
<1>2. R = S \ {n} BY <1>1 DEF SegmentsWith
<1>3. \A a, b : LoadedBefore(less, a, b) <=> LoadedBefore(on, a, b)
  BY <1>1 DEF LoadedBefore, ListedBefore, Listed
<1>4. Loads(less, k, h) BY DEF less
<1>5. /\ S \subseteq DOMAIN on.segments /\ IsFiniteSet(S) /\ S \subseteq Names /\ on.listed \in Seq(Names)
      /\ IsFiniteSet(R) /\ R \subseteq Names /\ R \subseteq DOMAIN less.segments
  <2>1. S \subseteq DOMAIN on.segments /\ R \subseteq DOMAIN less.segments BY DEF SegmentsWith
  <2>2. IsFiniteSet(S) /\ IsFiniteSet(R) BY <1>2, <2>1, FS_Subset DEF TypedFiles
  <2> HIDE DEF S, R
  <2> QED BY <1>1, <2>1, <2>2 DEF TypedFiles
<1>6. n \in S => on.segments[n][k] = h BY DEF SegmentsWith
<1> HIDE DEF S, R
<1>7. CASE S = {}
  BY <1>1, <1>2, <1>4, <1>7, LoadsIs DEF S, R
<1>8. CASE S # {}
  <2>1. IsLatest(on, S, Latest(on, S)) BY <1>5, <1>8, LatestIs
  <2>2. Latest(on, S) \in S BY <2>1 DEF IsLatest
  <2>3. CASE Latest(on, S) = n BY <1>6, <1>8, <2>2, <2>3, LoadsIs DEF S
  <2>4. CASE Latest(on, S) # n
    <3> DEFINE l == Latest(on, S)
    <3>1. l \in R BY <1>2, <2>2, <2>4
    <3>2. IsLatest(less, R, l) BY <1>2, <1>3, <2>1, <3>1 DEF IsLatest
    <3> HIDE DEF l
    <3>3. l = Latest(less, R) BY <1>1, <1>5, <3>1, <3>2, LatestIs
    <3>4. less.segments[l][k] = h BY <1>4, <3>1, <3>3, LoadsIs DEF R
    <3>5. less.segments[l] = on.segments[l] BY <1>1, <1>5, <3>1
    <3> QED BY <1>8, <3>4, <3>5, LoadsIs DEF S, l
  <2> QED BY <2>3, <2>4
<1> QED BY <1>7, <1>8

\* Only the order of the files that are there matters.
LEMMA LoadsSame ==
  ASSUME NEW on, NEW new, new.rows = on.rows, new.segments = on.segments,
         \A a, b \in DOMAIN on.segments : LoadedBefore(new, a, b) <=> LoadedBefore(on, a, b),
         NEW k, NEW h
  PROVE  Loads(new, k, h) <=> Loads(on, k, h)
<1> DEFINE S == SegmentsWith(on, k)
<1>1. SegmentsWith(new, k) = S /\ S \subseteq DOMAIN on.segments BY DEF SegmentsWith
<1> HIDE DEF S
<1>2. \A n \in S : (\A m \in S \ {n} : LoadedBefore(new, m, n)) <=> (\A m \in S \ {n} : LoadedBefore(on, m, n))
  BY <1>1
<1>3. Latest(new, S) = Latest(on, S) BY <1>2 DEF Latest
<1> QED BY <1>1, <1>3, LoadsIs DEF S

LEMMA NewSegment ==
  ASSUME NEW on, TypedFiles(on), NEW j \in Nat
  PROVE  NextSegment(on, j) \in Names \ DOMAIN on.segments
<1> DEFINE D == {x \in DOMAIN on.segments : x.job = j}
           f == [n \in D |-> n.part]
           P == {n.part : n \in D}
           S == {0} \cup P
<1>1. IsFiniteSet(D) BY FS_Subset DEF TypedFiles
<1>2. P = {f[n] : n \in D} OBVIOUS
<1>3. IsFiniteSet({f[n] : n \in D})
  <2> HIDE DEF f, D
  <2> QED BY <1>1, ImageIsFinite
<1>4. P \subseteq Nat BY DEF TypedFiles, Names
<1> HIDE DEF P, f
<1>5. IsFiniteSet(S) /\ S \subseteq Nat /\ S # {}
  <2>1. IsFiniteSet({0}) BY FS_Singleton
  <2>2. IsFiniteSet({0} \cup P) BY <1>2, <1>3, <2>1, FS_Union
  <2> QED BY <1>4, <2>2
<1> HIDE DEF S
<1>6. Max(S) \in S /\ \A x \in S : x <= Max(S)
  <2>1. S \subseteq Int BY <1>5
  <2> QED BY <1>5, <2>1, LargestOfFew
<1>7. Max(S) \in Nat BY <1>5, <1>6
<1>8. NextSegment(on, j) = [job |-> j, part |-> 1 + Max(S)] BY DEF NextSegment, S, P
<1>9. [job |-> j, part |-> 1 + Max(S)] \notin DOMAIN on.segments
  <2> SUFFICES ASSUME [job |-> j, part |-> 1 + Max(S)] \in DOMAIN on.segments PROVE FALSE OBVIOUS
  <2>1. 1 + Max(S) \in P BY DEF P
  <2>2. 1 + Max(S) <= Max(S) BY <1>6, <2>1 DEF S
  <2> QED BY <1>7, <2>2
<1> QED BY <1>7, <1>8, <1>9 DEF Names

LEMMA WrittenIs ==
  ASSUME NEW on, TypedFiles(on), NEW n \in Names \ DOMAIN on.segments, NEW rows,
         NEW new, new = WriteSegment(on, n, rows)
  PROVE  /\ TypedFiles(new) /\ new.listed = on.listed
         /\ DOMAIN new.segments = DOMAIN on.segments \cup {n} /\ new.segments[n] = rows
         /\ RemoveSegment(new, n) = on
<1> DEFINE S == Merge(on.segments, [m \in {n} |-> rows])
<1>1. new = [on EXCEPT !.segments = S] BY DEF WriteSegment
<1>2. S = [m \in DOMAIN on.segments \cup {n} |-> IF m \in {n} THEN rows ELSE on.segments[m]]
  BY DEF Merge
<1>4. /\ DOMAIN S = DOMAIN on.segments \cup {n} /\ S[n] = rows
      /\ \A m \in DOMAIN on.segments : S[m] = on.segments[m]
      /\ S = [m \in DOMAIN S |-> S[m]]
  <2> HIDE DEF S
  <2> QED BY <1>2
<1> HIDE DEF S
<1>5. new = [rows |-> on.rows, segments |-> S, listed |-> on.listed] BY <1>1 DEF TypedFiles
<1>6. new.rows = on.rows /\ new.segments = S /\ new.listed = on.listed BY <1>5
<1>7. IsFiniteSet(DOMAIN S)
  <2>1. IsFiniteSet({n}) BY FS_Singleton
  <2>2. IsFiniteSet(DOMAIN on.segments) BY DEF TypedFiles
  <2>3. IsFiniteSet(DOMAIN on.segments \cup {n}) BY <2>1, <2>2, FS_Union
  <2> QED BY <1>4, <2>3
<1>8. TypedFiles(new)
  <2>1. DOMAIN S \subseteq Names /\ on.listed \in Seq(Names) BY <1>4 DEF TypedFiles
  <2>2. new = [rows |-> new.rows, segments |-> new.segments, listed |-> new.listed] BY <1>5, <1>6
  <2>3. new.segments = [m \in DOMAIN new.segments |-> new.segments[m]] BY <1>4, <1>6
  <2>4. IsFiniteSet(DOMAIN new.segments) /\ DOMAIN new.segments \subseteq Names BY <1>6, <1>7, <2>1
  <2> QED BY <1>6, <2>1, <2>2, <2>3, <2>4 DEF TypedFiles
<1>9. [m \in DOMAIN S \ {n} |-> S[m]] = on.segments
  <2>1. DOMAIN S \ {n} = DOMAIN on.segments BY <1>4
  <2>2. [m \in DOMAIN S \ {n} |-> S[m]] = [m \in DOMAIN on.segments |-> on.segments[m]] BY <1>4, <2>1
  <2> QED BY <2>2 DEF TypedFiles
<1>10. RemoveSegment(new, n) = [rows |-> on.rows, segments |-> on.segments, listed |-> on.listed]
  BY <1>5, <1>6, <1>9 DEF RemoveSegment
<1> QED BY <1>4, <1>6, <1>8, <1>10 DEF TypedFiles

LEMMA ListingKeepsOrder ==
  ASSUME NEW on, TypedFiles(on), NEW n \in Names, n \notin Listed(on),
         NEW new, new = ListSegment(on, n)
  PROVE  /\ TypedFiles(new) /\ new.rows = on.rows /\ new.segments = on.segments
         /\ Listed(new) = Listed(on) \cup {n}
         /\ \A k, h : Loads(RemoveSegment(on, n), k, h) => Loads(RemoveSegment(new, n), k, h)
<1> DEFINE s == on.listed
           t == Append(s, n)
           len == Len(s)
<1>1. new = [rows |-> on.rows, segments |-> on.segments, listed |-> t]
  <2>1. new = [on EXCEPT !.listed = t] BY DEF ListSegment
  <2> HIDE DEF t
  <2> QED BY <2>1 DEF TypedFiles
<1>2. t \in Seq(Names) BY DEF TypedFiles
<1>3. /\ len \in Nat /\ DOMAIN s = 1..len /\ DOMAIN t = 1..(len + 1) /\ t[len + 1] = n
      /\ \A i \in 1..len : t[i] = s[i]
  <2>1. s \in Seq(Names) BY DEF TypedFiles
  <2> HIDE DEF s
  <2> QED BY <2>1, AppendProperties, LenProperties
<1>4. new.rows = on.rows /\ new.segments = on.segments /\ new.listed = t
  <2> HIDE DEF t
  <2> QED BY <1>1
<1>5. TypedFiles(new)
  <2> HIDE DEF t
  <2> QED BY <1>1, <1>2, <1>4 DEF TypedFiles
<1> HIDE DEF s, t, len
<1>6. DOMAIN t = DOMAIN s \cup {len + 1} /\ len + 1 \notin DOMAIN s BY <1>3
<1>7. Listed(new) = Listed(on) \cup {n} BY <1>3, <1>4, <1>6 DEF Listed, s
<1> DEFINE a0 == RemoveSegment(on, n)
           a1 == RemoveSegment(new, n)
<1>8. a0.rows = on.rows /\ a0.listed = on.listed /\ DOMAIN a0.segments = DOMAIN on.segments \ {n}
  BY RemovedIs
<1>9. a1.rows = new.rows /\ a1.listed = new.listed BY <1>5, RemovedIs
<1>10. a1.segments = a0.segments
  <2>1. a0.segments = [m \in DOMAIN on.segments \ {n} |-> on.segments[m]] BY DEF RemoveSegment, TypedFiles
  <2>2. a1.segments = [m \in DOMAIN new.segments \ {n} |-> new.segments[m]] BY <1>5 DEF RemoveSegment, TypedFiles
  <2> QED BY <1>4, <2>1, <2>2
<1> HIDE DEF a0, a1
<1>11. \A a, b : a # n /\ b # n => (ListedBefore(a1, a, b) <=> ListedBefore(a0, a, b))
  <2> SUFFICES ASSUME NEW a, NEW b, a # n, b # n
               PROVE  ListedBefore(a1, a, b) <=> ListedBefore(a0, a, b)
    OBVIOUS
  <2>a. a1.listed = t /\ a0.listed = s BY <1>4, <1>8, <1>9 DEF s
  <2> SUFFICES (\E j \in DOMAIN t : t[j] = b /\ \A i \in DOMAIN t : t[i] = a => i < j)
                  <=> (\E j \in DOMAIN s : s[j] = b /\ \A i \in DOMAIN s : s[i] = a => i < j)
    BY <2>a DEF ListedBefore
  <2>1. \A j \in DOMAIN t : t[j] = b => j \in DOMAIN s BY <1>3, <1>6
  <2>2. \A j : (\A i \in DOMAIN t : t[i] = a => i < j) <=> (\A i \in DOMAIN s : s[i] = a => i < j)
    BY <1>3, <1>6
  <2>3. \A j \in DOMAIN s : t[j] = s[j] /\ j \in DOMAIN t BY <1>3, <1>6
  <2> QED BY <2>1, <2>2, <2>3
<1>12. \A a : a # n => (a \in Listed(a1) <=> a \in Listed(a0))
  BY <1>4, <1>7, <1>8, <1>9 DEF Listed
<1>13. \A a, b \in DOMAIN a0.segments : LoadedBefore(a1, a, b) <=> LoadedBefore(a0, a, b)
  <2> SUFFICES ASSUME NEW a, NEW b, a # n, b # n PROVE LoadedBefore(a1, a, b) <=> LoadedBefore(a0, a, b)
    BY <1>8
  <2> QED BY <1>11, <1>12 DEF LoadedBefore
<1>14. \A k, h : Loads(a1, k, h) <=> Loads(a0, k, h)
  BY <1>4, <1>8, <1>9, <1>10, <1>13, LoadsSame
<1> QED BY <1>4, <1>5, <1>7, <1>14 DEF a0, a1

-----------------------------------------------------------------------------
(* The files while a run writes them.                                      *)

LEMMA DiskStays ==
  ASSUME StoreInv, VectorsInv, [Next]_vars, "torn_compaction" \notin Faults
  PROVE  (TypedDisk /\ TypedPhase /\ PendingSegment)'
<1> USE DEF VectorsInv, TypedDisk, TypedPhase, PendingSegment, Writing
<1>1. TypedRun BY DEF StoreInv
<1>2. CASE AppendSegment
  <2> DEFINE name == NextSegment(disk, run.job)
  <2>1. PICK d \in run.vectors :
          /\ disk' = WriteSegment(disk, name, VectorRows(d))
          /\ run' = [run EXCEPT !.pc = "manifest", !.segment = name, !.doc = d]
    BY <1>2 DEF AppendSegment
  <2>2. /\ run'.pc = "manifest" /\ run'.segment = name /\ run'.doc = d /\ run'.job = run.job
        /\ run'.todo = run.todo /\ run'.plan = run.plan /\ run.pc = "vectors"
    BY <1>1, <1>2, <2>1 DEF TypedRun, AppendSegment
  <2>3. name \in Names \ DOMAIN disk.segments BY NewSegment
  <2> HIDE DEF name
  <2>4. /\ TypedFiles(disk') /\ disk'.listed = disk.listed
        /\ DOMAIN disk'.segments = DOMAIN disk.segments \cup {name} /\ disk'.segments[name] = VectorRows(d)
    BY <2>1, <2>3, WrittenIs
  <2>5. Listed(disk') = Listed(disk) BY <2>4 DEF Listed
  <2>6. VectorRows(run.doc)' = VectorRows(d) BY <2>2 DEF VectorRows
  <2> QED BY <2>2, <2>3, <2>4, <2>5, <2>6
<1>3. CASE AppendToManifest
  <2>1. disk' = ListSegment(disk, run.segment) /\ run' = [run EXCEPT !.pc = "refs", !.dirty = TRUE] /\ run.pc = "manifest"
    BY <1>3 DEF AppendToManifest
  <2>2. /\ run'.pc = "refs" /\ run'.segment = run.segment /\ run'.doc = run.doc /\ run'.job = run.job
        /\ run'.todo = run.todo /\ run'.plan = run.plan
    BY <1>1, <2>1 DEF TypedRun
  <2>3. run.segment \in DOMAIN disk.segments /\ run.segment \in Names /\ run.segment \notin Listed(disk)
    BY <2>1 DEF TypedFiles
  <2>4. TypedFiles(disk') /\ disk'.segments = disk.segments /\ Listed(disk') = Listed(disk) \cup {run.segment}
    BY <2>1, <2>3, ListingKeepsOrder
  <2>5. VectorRows(run.doc)' = VectorRows(run.doc) BY <2>2 DEF VectorRows
  <2> QED BY <2>1, <2>2, <2>3, <2>4, <2>5
<1>4. CASE Flush
  <2>1. run.pc = "vectors" BY <1>4 DEF Flush
  <2>2. CASE disk' = disk /\ run' = [run EXCEPT !.pc = "save"]
    BY <1>1, <2>1, <2>2 DEF TypedRun
  <2>3. CASE disk' = WriteCompacted(disk) /\ run' = [run EXCEPT !.pc = "compact"]
    <3>1. TypedFiles(disk')
      <4> DEFINE L == LoadRows(disk)
      <4>1. disk' = [disk EXCEPT !.rows = L] BY <2>3 DEF WriteCompacted
      <4> HIDE DEF L
      <4>2. disk' = [rows |-> L, segments |-> disk.segments, listed |-> disk.listed]
        BY <4>1 DEF TypedFiles
      <4>3. disk'.rows = L /\ disk'.segments = disk.segments /\ disk'.listed = disk.listed BY <4>2
      <4> QED BY <4>2, <4>3 DEF TypedFiles
    <3> QED BY <1>1, <2>1, <2>3, <3>1 DEF TypedRun
  <2> QED BY <1>4, <2>2, <2>3 DEF Flush
<1>5. CASE DeleteSegment
  <2>1. PICK n \in DOMAIN disk.segments : disk' = RemoveSegment(disk, n) BY <1>5 DEF DeleteSegment
  <2>2. TypedFiles(disk') BY <2>1, RemovedIs
  <2> QED BY <1>5, <2>2 DEF DeleteSegment
<1>6. CASE EndCompaction
  <2>1. disk' = ClearManifest(disk) /\ run' = [run EXCEPT !.pc = "save"] /\ run.pc = "compact" /\ disk.segments = <<>>
    BY <1>6 DEF EndCompaction
  <2>2. disk' = [rows |-> disk.rows, segments |-> disk.segments, listed |-> <<>>]
    BY <2>1 DEF ClearManifest, TypedFiles
  <2>3. disk'.rows = disk.rows /\ disk'.segments = disk.segments /\ disk'.listed = <<>> BY <2>2
  <2>4. TypedFiles(disk') BY <2>2, <2>3 DEF TypedFiles
  <2>5. Listed(disk') = {} BY <2>3 DEF Listed
  <2> QED BY <1>1, <2>1, <2>4, <2>5 DEF TypedRun
<1>7. ASSUME disk' = disk, run'.pc \notin {"manifest", "refs"}, run'.pc = "compact" <=> run.pc = "compact",
             run'.job \in Nat, run'.pc # "metadata" => run'.todo = {}
      PROVE  (TypedDisk /\ TypedPhase /\ PendingSegment)'
  BY <1>7
<1>8. CASE CommitBatch
  <2>1. PICK batch \in SUBSET run.todo :
          run' = [run EXCEPT !.todo = @ \ batch, !.pc = IF run.todo = batch THEN "vectors" ELSE @]
    BY <1>8 DEF CommitBatch
  <2>2. run'.todo = run.todo \ batch /\ run'.pc = (IF run.todo = batch THEN "vectors" ELSE run.pc) /\ run'.job = run.job
    BY <1>1, <2>1 DEF TypedRun
  <2>3. run.pc = "metadata" /\ disk' = disk BY <1>8 DEF CommitBatch
  <2>4. run'.pc # "metadata" => run'.todo = {} BY <2>2, <2>3
  <2> QED BY <1>7, <2>2, <2>3, <2>4
<1>9. CASE CommitRefs \/ RejectRows
  <2>1. run.pc = "refs" /\ disk' = disk /\ (NextVector(FALSE) \/ NextVector(TRUE))
    BY <1>9 DEF CommitRefs, RejectRows
  <2>2. run'.pc = "vectors" /\ run'.todo = run.todo /\ run'.job = run.job
    BY <1>1, <2>1 DEF TypedRun, NextVector
  <2> QED BY <1>7, <2>1, <2>2
<1>10. CASE SaveState \/ Crash
  <2>1. run' = IdleRun /\ disk' = disk /\ run.pc # "compact"
    BY <1>10 DEF SaveState, Crash
  <2>2. run'.pc = "idle" /\ run'.job = 0 /\ run'.todo = {} BY <2>1 DEF IdleRun
  <2> QED BY <1>7, <2>1, <2>2
<1>11. ASSUME NEW j \in Jobs, StartRun(j) PROVE (TypedDisk /\ TypedPhase /\ PendingSegment)'
  <2>1. j \in Nat BY StoreAssumption
  <2>2. run.pc = "idle" /\ disk' = disk /\ run'.pc = "metadata" /\ run'.job = j BY <1>11 DEF StartRun, IdleRun
  <2> QED BY <1>7, <2>1, <2>2
<1>12. ASSUME run' = run, disk' = disk PROVE (TypedDisk /\ TypedPhase /\ PendingSegment)'
  BY <1>12 DEF VectorRows
<1>13. ASSUME NEW p \in Edited, Edit(p) PROVE (TypedDisk /\ TypedPhase /\ PendingSegment)'
  BY <1>12, <1>13 DEF Edit
<1>14. CASE UNCHANGED vars BY <1>12, <1>14 DEF vars
<1> QED BY <1>2, <1>3, <1>4, <1>5, <1>6, <1>8, <1>9, <1>10, <1>11, <1>13, <1>14 DEF Next, RunStep

-----------------------------------------------------------------------------
(* What a batch makes of the chunks.                                       *)

LEMMA ItemRows ==
  ASSUME NEW p \in Paths
  PROVE  /\ ApplyItem(db, p).rows["chunk"] = IF run.plan[p] = Missing THEN {} ELSE ChunkRows(p, run.plan[p])
         /\ ApplyItem(db, p).rows["vector_ref"] = {}
<1>1. CASE run.plan[p] = Missing
  <2> DEFINE T == TombstoneFile(db, p)
  <2>1. ApplyItem(db, p) = [NoWrites EXCEPT !.tombstones = T] \/ ApplyItem(db, p) = NoWrites
    BY <1>1 DEF ApplyItem, TombstonePath
  <2> HIDE DEF T
  <2>2. ApplyItem(db, p).rows = NoRows BY <2>1 DEF NoWrites
  <2> QED BY <1>1, <2>2 DEF NoRows, Tables
<1>2. CASE run.plan[p] # Missing
  <2> DEFINE new == Bundle(p, run.plan[p], CollectedWith(run.plan))
             marks == IF KnowsFile(db, p) THEN MarkStale(db, LiveBundle(db, p), new) ELSE NoWrites
             rows == [t \in Tables |-> IF t \in DOMAIN new THEN new[t] ELSE {}]
  <2>1. marks = [rows |-> marks.rows, tombstones |-> marks.tombstones, successors |-> marks.successors]
    BY DEF MarkStale, NoWrites
  <2>2. ApplyItem(db, p) = [marks EXCEPT !.rows = rows] BY <1>2 DEF ApplyItem, ApplyBundle
  <2>3. ApplyItem(db, p).rows = rows
    <3> HIDE DEF marks, rows
    <3> QED BY <2>1, <2>2
  <2>4. rows["chunk"] = ChunkRows(p, run.plan[p]) /\ rows["vector_ref"] = {} BY DEF Bundle, Tables
  <2> HIDE DEF rows
  <2> QED BY <1>2, <2>3, <2>4
<1> QED BY <1>1, <1>2

Fresh(batch) == UNION {IF run.plan[p] = Missing THEN {} ELSE ChunkRows(p, run.plan[p]) : p \in batch}

BatchIs(batch) ==
  /\ batch \subseteq run.todo /\ run'.todo = run.todo \ batch
  /\ run'.plan = run.plan /\ run'.vectors = run.vectors
  /\ run.pc = "metadata" /\ run'.pc \in {"metadata", "vectors"}
  /\ db'.overlay["chunk"] = UpsertRows(db.overlay["chunk"], Fresh(batch))
  /\ db'.overlay["vector_ref"] = db.overlay["vector_ref"]
  /\ ws' = ws /\ disk' = disk

LEMMA BatchChunks ==
  ASSUME StoreInv, CommitBatch
  PROVE  \E batch : BatchIs(batch)
<1>1. PICK batch \in SUBSET run.todo :
        /\ db' = Commit(db, {ApplyItem(db, p) : p \in batch})
        /\ run' = [run EXCEPT !.todo = @ \ batch, !.pc = IF run.todo = batch THEN "vectors" ELSE @]
  BY Zenon DEF CommitBatch
<1>2. /\ run'.todo = run.todo \ batch /\ run'.plan = run.plan /\ run'.vectors = run.vectors
      /\ run'.pc \in {"metadata", "vectors"} /\ run.pc = "metadata" /\ ws' = ws /\ disk' = disk
  BY <1>1 DEF CommitBatch, StoreInv, TypedRun
<1> DEFINE items == {ApplyItem(db, p) : p \in batch}
<1>3. db'.overlay = [t \in Tables |-> UpsertRows(db.overlay[t], UNION {i.rows[t] : i \in items})]
  <2> HIDE DEF items
  <2>1. db' = Commit(db, items) BY <1>1 DEF items
  <2>2. CommittedFrom(db', items) BY <2>1, CommittedDb DEF StoreInv
  <2> QED BY <2>2 DEF CommittedFrom
<1>4. \A t : UNION {i.rows[t] : i \in items} = UNION {ApplyItem(db, p).rows[t] : p \in batch} OBVIOUS
<1>5. batch \subseteq Paths BY DEF StoreInv, TypedRun
<1>6. UNION {ApplyItem(db, p).rows["chunk"] : p \in batch} = Fresh(batch) BY <1>5, ItemRows DEF Fresh
<1>7. UNION {ApplyItem(db, p).rows["vector_ref"] : p \in batch} = {} BY <1>5, ItemRows
<1> HIDE DEF items
<1>a. /\ db'.overlay["chunk"] = UpsertRows(db.overlay["chunk"], UNION {i.rows["chunk"] : i \in items})
      /\ db'.overlay["vector_ref"] = UpsertRows(db.overlay["vector_ref"], UNION {i.rows["vector_ref"] : i \in items})
  BY <1>3 DEF Tables
<1>8. db'.overlay["chunk"] = UpsertRows(db.overlay["chunk"], Fresh(batch)) BY <1>a, <1>4, <1>6
<1>9. db'.overlay["vector_ref"] = UpsertRows(db.overlay["vector_ref"], {})
  <2>1. UNION {i.rows["vector_ref"] : i \in items} = {} BY <1>4, <1>7
  <2> HIDE DEF StoreInv
  <2> QED BY <1>a, <2>1
<1>10. UpsertRows(db.overlay["vector_ref"], {}) = db.overlay["vector_ref"] BY DEF UpsertRows, Ids
<1> QED BY <1>1, <1>2, <1>8, <1>9, <1>10 DEF BatchIs

\* The chunks after a batch: those of its files, and the others as they were.
LEMMA BatchRows ==
  ASSUME StoreInv, NEW batch, BatchIs(batch)
  PROVE  /\ \A c \in Fresh(batch) : /\ c \in db'.overlay["chunk"] /\ c.file \in batch /\ c.id[1] = c.file
                                    /\ run.plan[c.file] # Missing /\ c.text = run.plan[c.file]
                                    /\ c \in ChunkRows(c.file, run.plan[c.file])
         /\ \A c \in db'.overlay["chunk"] :
              c \in Fresh(batch) \/ (c \in db.overlay["chunk"] /\ c.id \notin Ids(Fresh(batch)))
         /\ \A c \in db.overlay["chunk"] : c \in db'.overlay["chunk"] \/ c.id \in Ids(Fresh(batch))
         /\ \A d \in batch : run.plan[d] # Missing => ChunkRows(d, run.plan[d]) \subseteq Fresh(batch)
<1>1. batch \subseteq Paths BY DEF BatchIs, StoreInv, TypedRun
<1>2. ASSUME NEW c \in Fresh(batch)
      PROVE  /\ c.file \in batch /\ c.id[1] = c.file /\ run.plan[c.file] # Missing
             /\ c.text = run.plan[c.file] /\ c \in ChunkRows(c.file, run.plan[c.file])
  <2>1. PICK p \in batch : run.plan[p] # Missing /\ c \in ChunkRows(p, run.plan[p]) BY DEF Fresh
  <2>2. IsChunk(p, run.plan[p], c) BY <1>1, <2>1, ChunkRowsAre
  <2>3. c.file = p /\ c.id[1] = p /\ c.text = run.plan[p] BY <2>2 DEF IsChunk, Row
  <2> QED BY <2>1, <2>3
<1>3. \A d \in batch : run.plan[d] # Missing => ChunkRows(d, run.plan[d]) \subseteq Fresh(batch) BY DEF Fresh
<1>4. db'.overlay["chunk"] = {c \in db.overlay["chunk"] : c.id \notin Ids(Fresh(batch))} \cup Fresh(batch)
  BY DEF BatchIs, UpsertRows
<1> QED BY <1>2, <1>3, <1>4

LEMMA UpsertedRefs ==
  ASSUME StoreInv, CommitRefs
  PROVE  /\ db'.overlay["chunk"] = db.overlay["chunk"]
         /\ db'.overlay["vector_ref"] = UpsertRows(db.overlay["vector_ref"], RefRows(run.doc, run.plan[run.doc]))
<1> DEFINE new == RefRows(run.doc, run.plan[run.doc])
           O == [db.overlay EXCEPT !["vector_ref"] = UpsertRows(@, new)]
<1>1. db' = [db EXCEPT !.overlay["vector_ref"] = UpsertRows(@, new)] BY DEF CommitRefs, Upsert
<1>2. db = [baseline |-> db.baseline, overlay |-> db.overlay, tombstone |-> db.tombstone, replacement |-> db.replacement]
      /\ db.overlay = [t \in Tables |-> db.overlay[t]]
  BY DEF StoreInv, TypedStore
<1> HIDE DEF new
<1>3. db'.overlay = O BY <1>1, <1>2
<1>4. DOMAIN db.overlay = Tables BY <1>2
<1>5. O["chunk"] = db.overlay["chunk"] /\ O["vector_ref"] = UpsertRows(db.overlay["vector_ref"], new)
  BY <1>4 DEF Tables
<1> HIDE DEF O
<1> QED BY <1>3, <1>5 DEF new

\* What the steps other than a batch and the edits do to texts: nothing.
LEMMA TextsStart ==
  ASSUME StoreInv, VectorsInv, NEW j \in Jobs, StartRun(j)
  PROVE  (TextsAreOld /\ ChunksComeFirst)'
<1>1. MaxRevision \in Nat /\ Gone = MaxRevision + 1 BY StoreAssumption DEF Gone
<1>2. ws \in [Paths -> 1..Gone] BY DEF StoreInv, TypedRun
<1> DEFINE todo == Changed(Captured) \cup Deleted(Captured)
<1>3. /\ run'.plan = Captured /\ run'.todo = todo /\ run'.vectors = Changed(Captured) \cap Docs
      /\ ws' = ws /\ db' = db
  BY DEF StartRun, IdleRun
<1>4. \A p \in Paths : Captured[p] = (IF ws[p] = Gone THEN 0 ELSE ws[p]) BY DEF Captured, Missing
<1>5. \A p \in Paths : Captured[p] <= ws[p] BY <1>1, <1>2, <1>4
<1> HIDE DEF todo
<1>6. TextsAreOld'
  <2>1. \A c \in db.overlay["chunk"] : c.file \in Paths /\ c.text <= ws[c.file]
    BY KnownObject, StoredRow DEF VectorsInv, TextsAreOld, StoreInv, Tables
  <2>2. \A c \in db.overlay["chunk"] : Captured[c.file] # Missing => Captured[c.file] = ws[c.file]
    BY <1>4, <2>1 DEF Missing
  <2>3. \A c \in db.overlay["chunk"] : Captured[c.file] # Missing => c.text <= Captured[c.file]
    BY <2>1, <2>2
  <2> HIDE DEF StoreInv, VectorsInv
  <2> QED BY <1>3, <1>5, <2>1, <2>3 DEF TextsAreOld
<1>7. ChunksComeFirst' BY <1>3 DEF ChunksComeFirst, todo
<1> QED BY <1>6, <1>7

LEMMA TextsAfterBatch ==
  ASSUME StoreInv, VectorsInv, NEW batch, BatchIs(batch)
  PROVE  (TextsAreOld /\ ChunksAreOnce /\ ChunksComeFirst)'
<1>1. /\ \A c \in Fresh(batch) : /\ c \in db'.overlay["chunk"] /\ c.file \in batch /\ c.id[1] = c.file
                                 /\ run.plan[c.file] # Missing /\ c.text = run.plan[c.file]
                                 /\ c \in ChunkRows(c.file, run.plan[c.file])
      /\ \A c \in db'.overlay["chunk"] :
           c \in Fresh(batch) \/ (c \in db.overlay["chunk"] /\ c.id \notin Ids(Fresh(batch)))
      /\ \A c \in db.overlay["chunk"] : c \in db'.overlay["chunk"] \/ c.id \in Ids(Fresh(batch))
      /\ \A d \in batch : run.plan[d] # Missing => ChunkRows(d, run.plan[d]) \subseteq Fresh(batch)
  BY BatchRows
<1>2. /\ batch \subseteq Paths /\ run'.todo = run.todo \ batch /\ run'.plan = run.plan
      /\ run'.vectors = run.vectors /\ ws' = ws
  BY DEF BatchIs, StoreInv, TypedRun
<1>3. TextsAreOld'
  <2>1. \A p \in Paths : run.plan[p] <= ws[p] BY DEF VectorsInv, TextsAreOld
  <2> SUFFICES ASSUME NEW c \in db'.overlay["chunk"]
               PROVE  /\ c.text <= ws[c.file]
                      /\ c.file \in run'.todo /\ run.plan[c.file] # Missing => c.text <= run.plan[c.file]
    BY <1>2, <2>1 DEF TextsAreOld
  <2>2. CASE c \in Fresh(batch)
    <3>1. c.file \in batch /\ c.text = run.plan[c.file] BY <1>1, <2>2
    <3> QED BY <1>2, <2>1, <3>1
  <2>3. CASE c \in db.overlay["chunk"] BY <1>2, <2>3 DEF VectorsInv, TextsAreOld
  <2> QED BY <1>1, <2>2, <2>3
<1>4. ChunksAreOnce'
  <2> SUFFICES ASSUME NEW a \in db'.overlay["chunk"], NEW b \in db'.overlay["chunk"], a.id = b.id
               PROVE  a = b
    BY DEF ChunksAreOnce
  <2>1. CASE a \in Fresh(batch) /\ b \in Fresh(batch)
    <3>1. /\ a.file = b.file /\ a.file \in Paths
          /\ a \in ChunkRows(a.file, run.plan[a.file]) /\ b \in ChunkRows(a.file, run.plan[a.file])
      BY <1>1, <1>2, <2>1
    <3> QED BY <3>1, ChunkOfKind
  <2>2. CASE a \in Fresh(batch) /\ b \notin Fresh(batch) BY <1>1, <2>2 DEF Ids
  <2>3. CASE a \notin Fresh(batch) /\ b \in Fresh(batch) BY <1>1, <2>3 DEF Ids
  <2>4. CASE a \notin Fresh(batch) /\ b \notin Fresh(batch) BY <1>1, <2>4 DEF VectorsInv, ChunksAreOnce
  <2> QED BY <2>1, <2>2, <2>3, <2>4
<1>5. ChunksComeFirst'
  <2> SUFFICES ASSUME NEW d \in run.vectors, d \notin run'.todo
               PROVE  ChunkRows(d, run.plan[d]) \subseteq db'.overlay["chunk"]
    BY <1>2 DEF ChunksComeFirst
  <2>1. d \in Paths /\ run.plan[d] # Missing BY DEF StoreInv, TypedRun, Paths
  <2>2. CASE d \in batch BY <1>1, <2>1, <2>2
  <2>3. CASE d \notin batch
    <3>1. ChunkRows(d, run.plan[d]) \subseteq db.overlay["chunk"]
      BY <1>2, <2>3 DEF VectorsInv, ChunksComeFirst
    <3>2. \A c \in ChunkRows(d, run.plan[d]) : c.id[1] = d BY <2>1, ChunkRowsAre DEF IsChunk
    <3>3. \A c \in ChunkRows(d, run.plan[d]) : c.id \notin Ids(Fresh(batch)) BY <1>1, <2>3, <3>2 DEF Ids
    <3> QED BY <1>1, <3>1, <3>3
  <2> QED BY <2>2, <2>3
<1> QED BY <1>3, <1>4, <1>5

LEMMA TextsStay ==
  ASSUME StoreInv, VectorsInv, [Next]_vars, "readd" \notin Edits
  PROVE  (TextsAreOld /\ ChunksAreOnce /\ ChunksComeFirst)'
<1>1. TextsAreOld /\ ChunksAreOnce /\ ChunksComeFirst BY DEF VectorsInv
<1>2. TypedRun BY DEF StoreInv
<1>3. MaxRevision \in Nat /\ Gone = MaxRevision + 1 /\ ws \in [Paths -> 1..Gone]
  BY StoreAssumption DEF Gone, StoreInv, TypedRun
<1>4. ASSUME NEW p \in Edited, Edit(p) PROVE (TextsAreOld /\ ChunksAreOnce /\ ChunksComeFirst)'
  <2>1. p \in Paths /\ run' = run /\ db' = db BY <1>4, StoreAssumption DEF Edit
  <2>2. \A q \in Paths : ws[q] <= ws'[q] /\ ws'[q] \in Nat /\ ws[q] \in Nat
    BY <1>3, <1>4, <2>1 DEF Edit, Missing
  <2>3. \A q \in Paths : run.plan[q] \in Nat BY <1>2, Bound DEF TypedRun, Missing
  <2>4. \A c \in db.overlay["chunk"] : c.file \in Paths /\ c.text \in Nat
    BY KnownObject, StoredRow, Bound DEF StoreInv, Tables
  <2>5. \A q \in Paths : run.plan[q] <= ws'[q]
    <3>1. \A q \in Paths : run.plan[q] <= ws[q] BY <1>1 DEF TextsAreOld
    <3> QED BY <2>2, <2>3, <3>1
  <2>6. \A c \in db.overlay["chunk"] : c.text <= ws'[c.file]
    <3>1. \A c \in db.overlay["chunk"] : c.text <= ws[c.file] BY <1>1 DEF TextsAreOld
    <3> QED BY <2>2, <2>4, <3>1
  <2> QED BY <1>1, <2>1, <2>5, <2>6 DEF TextsAreOld, ChunksAreOnce, ChunksComeFirst
<1>5. ASSUME NEW j \in Jobs, StartRun(j) PROVE (TextsAreOld /\ ChunksAreOnce /\ ChunksComeFirst)'
  <2>1. ChunksAreOnce' BY <1>1, <1>5 DEF StartRun, ChunksAreOnce
  <2> QED BY <1>5, <2>1, TextsStart
<1>6. CASE CommitBatch BY <1>6, BatchChunks, TextsAfterBatch
<1>7. ASSUME ws' = ws, db'.overlay["chunk"] = db.overlay["chunk"], run'.todo = run.todo,
             run'.plan = run.plan, run'.vectors \subseteq run.vectors
      PROVE  (TextsAreOld /\ ChunksAreOnce /\ ChunksComeFirst)'
  BY <1>1, <1>7 DEF TextsAreOld, ChunksAreOnce, ChunksComeFirst
<1>8. CASE AppendSegment \/ AppendToManifest \/ RejectRows \/ Flush \/ DeleteSegment \/ EndCompaction
  <2> DEFINE Same == ws' = ws /\ db' = db
             Goes == run'.todo = run.todo /\ run'.plan = run.plan /\ run'.vectors \subseteq run.vectors
  <2>1. AppendSegment => Same /\ Goes BY <1>2 DEF AppendSegment, TypedRun
  <2>2. AppendToManifest => Same /\ Goes BY <1>2 DEF AppendToManifest, TypedRun
  <2>3. RejectRows => Same /\ Goes BY <1>2 DEF RejectRows, NextVector, TypedRun
  <2>4. Flush => Same /\ Goes
    <3>1. Flush => Same BY DEF Flush
    <3>2. Flush => run' = [run EXCEPT !.pc = "compact"] \/ run' = [run EXCEPT !.pc = "save"] BY DEF Flush
    <3> QED BY <1>2, <3>1, <3>2 DEF TypedRun
  <2>5. DeleteSegment => Same /\ Goes BY DEF DeleteSegment
  <2>6. EndCompaction => Same /\ Goes BY <1>2 DEF EndCompaction, TypedRun
  <2>7. Same /\ Goes BY <1>8, <2>1, <2>2, <2>3, <2>4, <2>5, <2>6
  <2> QED BY <1>7, <2>7
<1>9. CASE CommitRefs
  <2>1. ws' = ws /\ run'.todo = run.todo /\ run'.plan = run.plan /\ run'.vectors \subseteq run.vectors
    BY <1>2, <1>9 DEF CommitRefs, NextVector, TypedRun
  <2>2. db'.overlay["chunk"] = db.overlay["chunk"] BY <1>9, UpsertedRefs
  <2> QED BY <1>7, <2>1, <2>2
<1>10. CASE SaveState \/ Crash
  <2>1. run' = IdleRun /\ ws' = ws /\ db' = db BY <1>10 DEF SaveState, Crash
  <2>2. run'.todo = {} /\ run'.vectors = {} /\ \A p \in Paths : run'.plan[p] = 0
    BY <2>1 DEF IdleRun, NothingPlanned, Missing
  <2>3. \A p \in Paths : 0 <= ws[p] BY <1>3
  <2> QED BY <1>1, <2>1, <2>2, <2>3 DEF TextsAreOld, ChunksAreOnce, ChunksComeFirst
<1>11. CASE UNCHANGED vars BY <1>7, <1>11 DEF vars
<1> QED BY <1>4, <1>5, <1>6, <1>8, <1>9, <1>10, <1>11 DEF Next, RunStep

-----------------------------------------------------------------------------
(* The vectors of the references that were committed.                      *)

\* No step on the files takes away what they hold of a row.
LEMMA FilesKeepRows ==
  ASSUME StoreInv, VectorsInv, AppendSegment \/ AppendToManifest \/ Flush \/ DeleteSegment \/ EndCompaction,
         NEW k, NEW h, Settled(k, h)
  PROVE  Settled(k, h)'
<1> USE DEF Writing
<1>1. TypedRun /\ TypedFiles(disk) /\ run.job \in Nat
  BY DEF StoreInv, VectorsInv, TypedDisk, TypedPhase
<1>2. CASE AppendSegment
  <2> DEFINE name == NextSegment(disk, run.job)
  <2>1. PICK d \in run.vectors :
          /\ disk' = WriteSegment(disk, name, VectorRows(d))
          /\ run' = [run EXCEPT !.pc = "manifest", !.segment = name, !.doc = d]
    BY <1>2 DEF AppendSegment
  <2>2. run'.pc = "manifest" /\ run'.segment = name /\ run.pc = "vectors"
    BY <1>1, <1>2, <2>1 DEF TypedRun, AppendSegment
  <2>3. name \in Names \ DOMAIN disk.segments BY <1>1, NewSegment
  <2> HIDE DEF name
  <2>4. RemoveSegment(disk', name) = disk BY <1>1, <2>1, <2>3, WrittenIs
  <2>5. Loads(disk, k, h) BY <2>2 DEF Settled
  <2>6. Loads(RemoveSegment(disk', run'.segment), k, h) BY <2>2, <2>4, <2>5
  <2>7. Loads(RemoveSegment(disk, run.segment), k, h)' BY <2>6 DEF Loads
  <2> QED BY <2>2, <2>7 DEF Settled
<1>3. CASE AppendToManifest
  <2>1. disk' = ListSegment(disk, run.segment) /\ run' = [run EXCEPT !.pc = "refs", !.dirty = TRUE] /\ run.pc = "manifest"
    BY <1>3 DEF AppendToManifest
  <2>2. run'.pc = "refs" /\ run'.segment = run.segment BY <1>1, <2>1 DEF TypedRun
  <2>3. run.segment \in Names /\ run.segment \notin Listed(disk)
    BY <1>1, <2>1 DEF VectorsInv, PendingSegment, TypedFiles
  <2>4. Loads(RemoveSegment(disk, run.segment), k, h) BY <2>1 DEF Settled
  <2>5. Loads(RemoveSegment(disk', run.segment), k, h) BY <1>1, <2>1, <2>3, <2>4, ListingKeepsOrder
  <2>6. Loads(RemoveSegment(disk, run.segment), k, h)' BY <2>2, <2>5 DEF Loads
  <2> QED BY <2>2, <2>6 DEF Settled
<1>4. CASE Flush
  <2>1. run.pc = "vectors" /\ Loads(disk, k, h) BY <1>4 DEF Flush, Settled
  <2>2. CASE disk' = disk /\ run' = [run EXCEPT !.pc = "save"]
    <3>1. run'.pc = "save" BY <1>1, <2>2 DEF TypedRun
    <3>2. Loads(disk, k, h)' BY <2>1, <2>2 DEF Loads
    <3> QED BY <3>1, <3>2 DEF Settled
  <2>3. CASE disk' = WriteCompacted(disk) /\ run' = [run EXCEPT !.pc = "compact"]
    <3>1. run'.pc = "compact" BY <1>1, <2>3 DEF TypedRun
    <3> DEFINE L == LoadRows(disk)
    <3>2. disk' = [disk EXCEPT !.rows = L] BY <2>3 DEF WriteCompacted
    <3>3. k \in DOMAIN L /\ L[k] = h BY <2>1 DEF Loads
    <3> HIDE DEF L
    <3>4. disk'.rows = L BY <1>1, <3>2 DEF TypedFiles
    <3> QED BY <3>1, <3>3, <3>4 DEF Settled
  <2> QED BY <1>4, <2>2, <2>3 DEF Flush
<1>5. CASE DeleteSegment
  <2>1. PICK n \in DOMAIN disk.segments : disk' = RemoveSegment(disk, n) BY <1>5 DEF DeleteSegment
  <2>2. disk'.rows = disk.rows BY <1>1, <2>1, RemovedIs
  <2>3. run.pc = "compact" /\ run' = run BY <1>5 DEF DeleteSegment
  <2> QED BY <2>2, <2>3 DEF Settled
<1>6. CASE EndCompaction
  <2>1. disk' = ClearManifest(disk) /\ run' = [run EXCEPT !.pc = "save"] /\ run.pc = "compact" /\ disk.segments = <<>>
    BY <1>6 DEF EndCompaction
  <2>2. disk' = [rows |-> disk.rows, segments |-> disk.segments, listed |-> <<>>]
    BY <1>1, <2>1 DEF ClearManifest, TypedFiles
  <2>3. disk'.rows = disk.rows /\ disk'.segments = <<>> BY <2>1, <2>2
  <2>4. k \in DOMAIN disk'.rows /\ disk'.rows[k] = h BY <2>1, <2>3 DEF Settled
  <2>5. SegmentsWith(disk', k) = {} BY <2>3 DEF SegmentsWith
  <2>6. Loads(disk', k, h) BY <2>4, <2>5, LoadsIs
  <2>7. Loads(disk, k, h)' BY <2>6 DEF Loads
  <2>8. run'.pc = "save" BY <1>1, <2>1 DEF TypedRun
  <2> QED BY <2>7, <2>8 DEF Settled
<1> QED BY <1>2, <1>3, <1>4, <1>5, <1>6

\* Nor does the segment that was being written, once it counts: the rows it
\* has are of the chunks as they are.
LEMMA SegmentAgrees ==
  ASSUME StoreInv, VectorsInv, Writing, NEW r \in db.overlay["vector_ref"],
         NEW c \in db.overlay["chunk"], c.id = r.object, c.text = r.hash, Settled(r.id, r.hash)
  PROVE  Loads(disk, r.id, r.hash)
<1> DEFINE n == run.segment
           d == run.doc
<1>1. n \in DOMAIN disk.segments /\ disk.segments[n] = VectorRows(d) /\ TypedFiles(disk)
  BY DEF VectorsInv, PendingSegment, TypedDisk
<1>2. d \in Paths /\ d \in Docs /\ d \in run.vectors /\ run.plan[d] # Missing
  BY DEF StoreInv, TypedRun, Paths
<1>3. ChunkRows(d, run.plan[d]) \subseteq db.overlay["chunk"]
  <2>1. run.todo = {} BY DEF VectorsInv, TypedPhase, Writing
  <2> QED BY <1>2, <2>1 DEF VectorsInv, ChunksComeFirst
<1> HIDE DEF n
<1>4. ASSUME r.id \in DOMAIN disk.segments[n] PROVE disk.segments[n][r.id] = r.hash
  <2>1. DOMAIN disk.segments[n] = Ids(RefRows(d, run.plan[d])) /\ disk.segments[n][r.id] = run.plan[d]
    BY <1>1, <1>4 DEF VectorRows
  <2>2. PICK x \in ChunkRows(d, run.plan[d]) : r.id = <<"ref", x.id>>
    BY <1>2, <1>4, <2>1 DEF RefRows, Ids
  <2>3. r.id = <<"ref", r.object>>
    <3>1. r \in AllRows("vector_ref") BY StoredRow DEF StoreInv, Tables
    <3> QED BY <3>1, KnownRef
  <2>4. x.id = c.id BY <2>2, <2>3
  <2>5. x = c BY <1>3, <2>4 DEF VectorsInv, ChunksAreOnce
  <2>6. x.text = run.plan[d] BY <1>2, ChunkRowsAre DEF IsChunk, Row
  <2> QED BY <2>1, <2>5, <2>6
<1>5. Loads(RemoveSegment(disk, n), r.id, r.hash) BY DEF Settled, n
<1> QED BY <1>1, <1>4, <1>5, LoadsWith

LEMMA RefsAfterBatch ==
  ASSUME StoreInv, VectorsInv, NEW batch, BatchIs(batch)
  PROVE  RefsAreSettled'
<1>1. /\ \A c \in Fresh(batch) : /\ c \in db'.overlay["chunk"] /\ c.file \in batch /\ c.id[1] = c.file
                                 /\ run.plan[c.file] # Missing /\ c.text = run.plan[c.file]
                                 /\ c \in ChunkRows(c.file, run.plan[c.file])
      /\ \A c \in db.overlay["chunk"] : c \in db'.overlay["chunk"] \/ c.id \in Ids(Fresh(batch))
  BY BatchRows
<1> SUFFICES ASSUME NEW r \in db.overlay["vector_ref"]
             PROVE  \E c \in db'.overlay["chunk"] :
                      c.id = r.object /\ r.hash <= c.text /\ (c.text = r.hash => Settled(r.id, r.hash)')
  BY DEF BatchIs, RefsAreSettled
<1>2. PICK c \in db.overlay["chunk"] :
        c.id = r.object /\ r.hash <= c.text /\ (c.text = r.hash => Settled(r.id, r.hash))
  BY DEF VectorsInv, RefsAreSettled
<1>3. Settled(r.id, r.hash) => Settled(r.id, r.hash)'
  BY DEF BatchIs, Settled, Writing, Loads
<1>4. CASE c \in db'.overlay["chunk"] BY <1>2, <1>3, <1>4
<1>5. CASE c.id \in Ids(Fresh(batch))
  <2>1. PICK x \in Fresh(batch) : x.id = c.id BY <1>5 DEF Ids
  <2>2. x \in db'.overlay["chunk"] /\ x.id[1] = x.file /\ x.file \in batch /\ x.text = run.plan[x.file]
        /\ run.plan[x.file] # Missing
    BY <1>1, <2>1
  <2>3. c \in AllRows("chunk") /\ r \in AllRows("vector_ref") BY StoredRow DEF StoreInv, Tables
  <2>4. c.file = c.id[1] /\ c.text \in Nat BY <2>3, KnownObject, Bound
  <2>5. c.file \in run.todo /\ run.plan[c.file] = x.text BY <2>1, <2>2, <2>4 DEF BatchIs
  <2>6. c.text <= x.text BY <2>2, <2>5 DEF VectorsInv, TextsAreOld
  <2>7. r.hash \in Nat
    <3>1. PICK d \in Docs, v \in Revisions : \E y \in ChunkRows(d, v) :
            r = [id |-> <<"ref", y.id>>, object |-> y.id, hash |-> v]
      BY <2>3, KnownRef
    <3>2. r.hash = v BY <3>1
    <3> QED BY <3>2, Bound
  <2>8. x.text \in Nat
    <3>1. x.file \in Paths BY <2>2 DEF BatchIs, StoreInv, TypedRun
    <3> QED BY <2>2, <3>1, Bound DEF StoreInv, TypedRun, Missing
  <2>9. r.hash <= x.text /\ (x.text = r.hash => c.text = r.hash) BY <1>2, <2>4, <2>6, <2>7, <2>8
  <2> QED BY <1>2, <1>3, <2>1, <2>2, <2>9
<1> QED BY <1>1, <1>4, <1>5

LEMMA RefsAfterVector ==
  ASSUME StoreInv, VectorsInv, CommitRefs \/ RejectRows
  PROVE  RefsAreSettled'
<1> DEFINE new == RefRows(run.doc, run.plan[run.doc])
<1>1. /\ run.pc = "refs" /\ run'.pc = "vectors" /\ disk' = disk
      /\ run.doc \in Docs /\ run.doc \in Paths /\ run.doc \in run.vectors
  BY DEF CommitRefs, RejectRows, NextVector, StoreInv, TypedRun, Writing, Paths
<1>2. \A k, h : Loads(disk, k, h) => Settled(k, h)' BY <1>1 DEF Settled, Writing, Loads
<1>3. ASSUME NEW r \in db.overlay["vector_ref"]
      PROVE  \E c \in db.overlay["chunk"] :
               c.id = r.object /\ r.hash <= c.text /\ (c.text = r.hash => Settled(r.id, r.hash)')
  <2>1. PICK c \in db.overlay["chunk"] :
          c.id = r.object /\ r.hash <= c.text /\ (c.text = r.hash => Settled(r.id, r.hash))
    BY DEF VectorsInv, RefsAreSettled
  <2>2. c.text = r.hash => Loads(disk, r.id, r.hash) BY <1>1, <2>1, SegmentAgrees DEF Writing
  <2> QED BY <1>2, <2>1, <2>2
<1>4. ASSUME CommitRefs, NEW r \in new
      PROVE  \E c \in db.overlay["chunk"] :
               c.id = r.object /\ r.hash <= c.text /\ (c.text = r.hash => Settled(r.id, r.hash)')
  <2>1. PICK c \in ChunkRows(run.doc, run.plan[run.doc]) : r = [id |-> <<"ref", c.id>>, object |-> c.id, hash |-> c.text]
    BY <1>1 DEF RefRows
  <2>2. run.todo = {} BY <1>1 DEF VectorsInv, TypedPhase
  <2>3. c \in db.overlay["chunk"] BY <1>1, <2>1, <2>2 DEF VectorsInv, ChunksComeFirst
  <2>4. c.text = run.plan[run.doc] /\ c.text \in Nat
    <3>1. c.text = run.plan[run.doc] BY <1>1, <2>1, ChunkRowsAre DEF IsChunk, Row
    <3> QED BY <1>1, <3>1, Bound DEF StoreInv, TypedRun, Missing
  <2>5. r.id \in DOMAIN VectorRows(run.doc) /\ VectorRows(run.doc)[r.id] = run.plan[run.doc]
    BY <1>4 DEF VectorRows, Ids
  <2>6. Loads(disk, r.id, r.hash)
    BY <1>4, <2>1, <2>4, <2>5 DEF CommitRefs, RowsWritten, Loads
  <2>7. c.id = r.object /\ r.hash = c.text BY <2>1
  <2>8. r.hash <= c.text BY <2>4, <2>7
  <2> QED BY <1>2, <2>3, <2>6, <2>7, <2>8
<1> HIDE DEF new
<1>5. CASE CommitRefs
  <2>1. db'.overlay["chunk"] = db.overlay["chunk"] /\ db'.overlay["vector_ref"] = UpsertRows(db.overlay["vector_ref"], new)
    BY <1>5, UpsertedRefs DEF new
  <2>2. db'.overlay["vector_ref"] \subseteq db.overlay["vector_ref"] \cup new BY <2>1 DEF UpsertRows
  <2>3. \A r \in db'.overlay["vector_ref"] : \E c \in db'.overlay["chunk"] :
          c.id = r.object /\ r.hash <= c.text /\ (c.text = r.hash => Settled(r.id, r.hash)')
    BY <1>3, <1>4, <1>5, <2>1, <2>2
  <2> QED BY <2>3 DEF RefsAreSettled
<1>6. CASE RejectRows
  <2>1. db' = db BY <1>6 DEF RejectRows
  <2> QED BY <1>3, <2>1 DEF RefsAreSettled
<1> QED BY <1>5, <1>6

LEMMA RefsStay ==
  ASSUME StoreInv, VectorsInv, [Next]_vars, "torn_compaction" \notin Faults
  PROVE  RefsAreSettled'
<1>1. ASSUME db'.overlay["chunk"] = db.overlay["chunk"], db'.overlay["vector_ref"] = db.overlay["vector_ref"],
             \A r \in db.overlay["vector_ref"] : \A c \in db.overlay["chunk"] :
               c.id = r.object /\ c.text = r.hash /\ Settled(r.id, r.hash) => Settled(r.id, r.hash)'
      PROVE  RefsAreSettled'
  BY <1>1 DEF VectorsInv, RefsAreSettled
<1>2. ASSUME db' = db, \A k, h : Settled(k, h) => Settled(k, h)' PROVE RefsAreSettled'
  BY <1>1, <1>2
<1>3. CASE AppendSegment \/ AppendToManifest \/ Flush \/ DeleteSegment \/ EndCompaction
  <2>1. db' = db BY <1>3 DEF AppendSegment, AppendToManifest, Flush, DeleteSegment, EndCompaction
  <2>2. \A k, h : Settled(k, h) => Settled(k, h)' BY <1>3, FilesKeepRows
  <2> QED BY <1>2, <2>1, <2>2
<1>4. CASE CommitBatch BY <1>4, BatchChunks, RefsAfterBatch
<1>5. CASE CommitRefs \/ RejectRows BY <1>5, RefsAfterVector
<1>6. CASE Crash \/ SaveState
  <2>1. db' = db /\ disk' = disk /\ run'.pc = "idle" /\ run.pc # "compact"
    BY <1>6 DEF Crash, SaveState, IdleRun
  <2>2. \A k, h : Loads(disk, k, h) => Settled(k, h)' BY <2>1 DEF Settled, Writing, Loads
  <2>3. \A r \in db.overlay["vector_ref"] : \A c \in db.overlay["chunk"] :
          c.id = r.object /\ c.text = r.hash /\ Settled(r.id, r.hash) => Loads(disk, r.id, r.hash)
    <3>1. CASE Writing BY <3>1, SegmentAgrees
    <3>2. CASE ~Writing BY <2>1, <3>2 DEF Settled
    <3> QED BY <3>1, <3>2
  <2> QED BY <1>1, <2>1, <2>2, <2>3
<1>7. ASSUME NEW j \in Jobs, StartRun(j) PROVE RefsAreSettled'
  <2>1. db' = db /\ disk' = disk /\ run'.pc = "metadata" /\ run.pc = "idle" BY <1>7 DEF StartRun, IdleRun
  <2>2. \A k, h : Settled(k, h) => Settled(k, h)' BY <2>1 DEF Settled, Writing, Loads
  <2> QED BY <1>2, <2>1, <2>2
<1>8. ASSUME db' = db, disk' = disk, run' = run PROVE RefsAreSettled'
  <2>1. \A k, h : Settled(k, h) => Settled(k, h)' BY <1>8 DEF Settled, Writing, Loads
  <2> QED BY <1>2, <1>8, <2>1
<1>9. ASSUME NEW p \in Edited, Edit(p) PROVE RefsAreSettled' BY <1>8, <1>9 DEF Edit
<1>10. CASE UNCHANGED vars BY <1>8, <1>10 DEF vars
<1> QED BY <1>3, <1>4, <1>5, <1>6, <1>7, <1>9, <1>10 DEF Next, RunStep

LEMMA VectorsStart == ASSUME Init PROVE VectorsInv
<1>1. /\ db.overlay = NoRows /\ disk = EmptyDisk /\ run = IdleRun /\ ws = [p \in Paths |-> 1]
  BY DEF Init, EmptyDb
<1>2. /\ run.pc = "idle" /\ run.job = 0 /\ run.todo = {} /\ run.vectors = {}
      /\ \A p \in Paths : run.plan[p] = 0
  BY <1>1 DEF IdleRun, NothingPlanned, Missing
<1>3. disk.rows = <<>> /\ disk.segments = <<>> /\ disk.listed = <<>> /\ disk = [rows |-> <<>>, segments |-> <<>>, listed |-> <<>>]
  BY <1>1 DEF EmptyDisk
<1>4. TypedDisk
  <2>1. IsFiniteSet({}) BY FS_EmptySet
  <2>2. TypedFiles(disk) BY <1>3, <2>1 DEF TypedFiles
  <2> QED BY <1>3, <2>2 DEF TypedDisk, Listed
<1>5. db.overlay["chunk"] = {} /\ db.overlay["vector_ref"] = {} BY <1>1 DEF NoRows, Tables
<1>6. TypedPhase /\ PendingSegment BY <1>2 DEF TypedPhase, PendingSegment, Writing
<1>7. TextsAreOld /\ ChunksAreOnce /\ ChunksComeFirst /\ RefsAreSettled
  BY <1>1, <1>2, <1>5 DEF TextsAreOld, ChunksAreOnce, ChunksComeFirst, RefsAreSettled
<1> QED BY <1>4, <1>6, <1>7 DEF VectorsInv

-----------------------------------------------------------------------------
LEMMA MatchedIf ==
  ASSUME StoreInv, NEW r \in VectorRefs(db), NEW i \in LogicalObjects(db, "chunk"),
         i.id = r.object, i.row.text = r.hash, NEW rows, r.id \in DOMAIN rows, rows[r.id] = r.hash
  PROVE  [chunk |-> r.object, hash |-> r.hash] \in Matches(db, rows)
<1>1. r \in AllRows("vector_ref") BY StoredRow DEF VectorRefs, Shadowed, StoreInv, Tables
<1>2. r.id = <<"ref", r.object>> BY <1>1, KnownRef
<1>3. EmbeddedChunk(r.id) = r.object BY <1>2 DEF EmbeddedChunk
<1>4. i.id \in LiveIds(db, "chunk") BY ItemIsLive DEF StoreInv, Objects
<1>5. ~IsTombstoned(db, "chunk", r.object) BY <1>4, LiveRows DEF StoreInv, Objects, IsTombstoned
<1>6. ~IsReplaced(db, "chunk", r.object) BY <1>5, NotReplaced DEF StoreInv, Objects
<1>7. [chunk |-> EmbeddedChunk(r.id), hash |-> rows[r.id]] \in Matches(db, rows)
  BY <1>3, <1>5, <1>6 DEF Matches
<1> QED BY <1>3, <1>7

\* What the view shows of a chunk that the overlay has is what the overlay has.
LEMMA ShownFromOverlay ==
  ASSUME StoreInv, ChunksAreOnce, NEW i \in LogicalObjects(db, "chunk"), NEW c \in db.overlay["chunk"], c.id = i.id
  PROVE  i.row = c
<1>1. TypedStore /\ ReplacedIsHidden BY DEF StoreInv
<1>2. i.id \in LiveIds(db, "chunk") BY <1>1, ItemIsLive DEF Objects
<1>3. c \in Shadowed(db, "chunk") BY DEF Shadowed
<1>4. ~RowHidden(db, "chunk", c) BY <1>1, <1>2, <1>3, LiveRows DEF Objects
<1>5. ShowsOwnRow("chunk", i) BY <1>1, ItemsAre DEF Objects
<1>6. i.row \in db.overlay["chunk"] /\ i.row.id = i.id BY <1>5 DEF ShowsOwnRow, Ids
<1> QED BY <1>6 DEF ChunksAreOnce

LEMMA VectorsAreFound == StoreInv /\ VectorsInv => CommittedVectorsFound
<1> SUFFICES ASSUME StoreInv, VectorsInv, run.pc # "compact",
                    NEW i \in LogicalObjects(db, "chunk"), NEW r \in VectorRefs(db),
                    i.id = r.object, i.row.text = r.hash
             PROVE  [chunk |-> r.object, hash |-> r.hash] \in VectorHits(db, BaselineVectors, disk)
  BY DEF CommittedVectorsFound
<1>1. CASE r \in db.overlay["vector_ref"]
  <2>1. PICK c \in db.overlay["chunk"] : c.id = r.object /\ (c.text = r.hash => Settled(r.id, r.hash))
    BY <1>1 DEF VectorsInv, RefsAreSettled
  <2>2. i.row = c BY <2>1, ShownFromOverlay DEF VectorsInv
  <2>3. Loads(disk, r.id, r.hash)
    <3>1. CASE Writing BY <1>1, <2>1, <2>2, <3>1, SegmentAgrees
    <3>2. CASE ~Writing BY <2>1, <2>2, <3>2 DEF Settled
    <3> QED BY <3>1, <3>2
  <2>4. [chunk |-> r.object, hash |-> r.hash] \in Matches(db, LoadRows(disk))
    BY <2>3, MatchedIf DEF Loads
  <2> QED BY <2>4 DEF VectorHits
<1>2. CASE r \in db.baseline["vector_ref"]
  <2>1. r \in PublishedBaseline["vector_ref"] BY <1>2 DEF StoreInv, TypedStore
  <2>2. r.hash = 1
    <3>1. PICK p \in Baseline : r \in RefRows(p, 1) BY <2>1 DEF PublishedBaseline, Tables
    <3>2. PICK c \in ChunkRows(p, 1) : r = [id |-> <<"ref", c.id>>, object |-> c.id, hash |-> c.text]
      BY <3>1 DEF RefRows
    <3>3. c.text = 1 BY <3>2, ChunkRowsAre, StoreAssumption DEF IsChunk, Row
    <3> QED BY <3>2, <3>3
  <2>3. r.id \in DOMAIN BaselineVectors /\ BaselineVectors[r.id] = r.hash
    BY <2>1, <2>2 DEF BaselineVectors, Ids
  <2>4. [chunk |-> r.object, hash |-> r.hash] \in Matches(db, BaselineVectors)
    BY <2>3, MatchedIf
  <2> QED BY <2>4 DEF VectorHits
<1> QED BY <1>1, <1>2 DEF VectorRefs, Shadowed

LEMMA VectorsAreSound ==
  ASSUME "readd" \notin Edits, "torn_compaction" \notin Faults
  PROVE  Spec => []VectorsInv
<1>1. Init => VectorsInv BY VectorsStart
<1>2. StoreInv /\ VectorsInv /\ [Next]_vars => VectorsInv'
  <2> SUFFICES ASSUME StoreInv, VectorsInv, [Next]_vars PROVE VectorsInv' OBVIOUS
  <2>1. (TypedDisk /\ TypedPhase /\ PendingSegment)' BY DiskStays
  <2>2. (TextsAreOld /\ ChunksAreOnce /\ ChunksComeFirst)' BY TextsStay
  <2>3. RefsAreSettled' BY RefsStay
  <2> QED BY <2>1, <2>2, <2>3 DEF VectorsInv
<1> QED BY <1>1, <1>2, StoreIsSound, PTL DEF Spec

\* While no file returns to a text it had, and no run dies in the middle of a
\* compaction, a reference to the vector of a chunk's text that was committed
\* is one search finds: upsert_vectors commits it once the rows can be read
\* back, and no later segment, compaction or batch takes them away.
THEOREM CommittedVectorsAreFound ==
  ASSUME "readd" \notin Edits, "torn_compaction" \notin Faults
  PROVE  Spec => []CommittedVectorsFound
<1>1. Spec => []VectorsInv BY VectorsAreSound
<1> QED BY <1>1, StoreIsSound, VectorsAreFound, PTL

(***************************************************************************)
(* What readers see of each path.                                          *)
(***************************************************************************)
Parts == Tables \ {"vector_ref"}

\* What is made of a file alone, and what was ever made of it.
Content(p, v) == Bundle(p, v, {})
AnyContent(p, t) == UNION {Content(p, v)[t] : v \in Revisions}

\* Nothing that content v or a later one of p is made of is hidden or replaced.
IsFree(t, id) == <<t, id>> \notin db.tombstone /\ (t = "relation" => <<t, id>> \notin DOMAIN db.replacement)
FreeFrom(p, v) == \A w \in Revisions : v <= w => \A t \in Parts : \A r \in Content(p, w)[t] : IsFree(t, r.id)

\* The store has content v of p, and what else it has of p is hidden.
Holds(p, v) ==
  /\ \A t \in Parts : Content(p, v)[t] \subseteq Shadowed(db, t)
  /\ \A t \in Parts : \A r \in Shadowed(db, t) \cap AnyContent(p, t) :
       r \in Content(p, v)[t] \/ <<t, r.id>> \in db.tombstone
  /\ FreeFrom(p, v)

Lacks(p) == (\A t \in Parts : Shadowed(db, t) \cap AnyContent(p, t) = {}) /\ FreeFrom(p, 1)

Dropped(p) == <<"file", p>> \in db.tombstone /\ ws[p] = Gone /\ run.plan[p] = Missing

PathIs(p, v) ==
  \/ v = Missing /\ (Lacks(p) \/ Dropped(p))
  \/ /\ v \in Revisions /\ Holds(p, v) /\ v <= ws[p]
     /\ p \in run.todo /\ run.plan[p] # Missing => v <= run.plan[p]

PlanIsOfWorkspace ==
  \A p \in Paths : run.plan[p] <= ws[p] /\ (p \in run.todo /\ run.plan[p] = Missing => ws[p] = Gone)

PathsInv ==
  PlanIsOfWorkspace /\ (\A p \in Paths : \E v \in Hashes : PathIs(p, v)) /\ shown = ShownIn(db)

\* A symbol that has left a line does not come back to it.
LinesDoNotReturn ==
  \A u, v, w \in Revisions : u <= v /\ v <= w /\ Line[u] = Line[w] /\ Line[u] # 0 => Line[v] = Line[u]

-----------------------------------------------------------------------------
(* Contents.                                                               *)

Kinds(p) == /\ p \in Sources => p \notin Makefiles /\ p \notin Docs
            /\ p \in Makefiles => p \notin Docs

LEMMA KindsDiffer == \A p : Kinds(p)
BY StoreAssumption DEF Kinds, CodePaths

LEMMA ContentIs ==
  ASSUME NEW p, NEW v
  PROVE  /\ Content(p, v)["file"] = FileRows(p, v) /\ Content(p, v)["chunk"] = ChunkRows(p, v)
         /\ Content(p, v)["entity"] = EntityRows(p, v) /\ Content(p, v)["relation"] = Defines(p, v)
         /\ Content(p, v)["evidence"] = EvidenceRows(p, v)
<1>1. RelationRows(p, v, {}) = Defines(p, v) BY DEF RelationRows
<1> QED BY <1>1 DEF Content, Bundle

\* The symbol of a content, if there is one.
Symbol(v) == {Line[v]} \ {0}

ChunkIds(p, v) ==
  IF p \in Sources THEN {<<p, "header">>} \cup {<<p, "symbol", l>> : l \in Symbol(v)}
  ELSE IF p \in Docs THEN {<<p, "section", v>>, <<p, "item">>} ELSE {}

EntityIds(p, v) ==
  IF p \in Sources THEN {<<p, "File">>} \cup {<<p, "Symbol", l>> : l \in Symbol(v)}
  ELSE IF p \in Makefiles THEN {<<p, "File">>, <<p, "Module">>} ELSE {<<p, "Document">>, <<p, "API">>}

LEMMA IdsAre ==
  ASSUME NEW p, NEW v
  PROVE  /\ Ids(Content(p, v)["file"]) = {p}
         /\ Ids(Content(p, v)["chunk"]) = ChunkIds(p, v)
         /\ Ids(Content(p, v)["entity"]) = EntityIds(p, v)
<1>1. Kinds(p) BY KindsDiffer
<1>2. Ids(FileRows(p, v)) = {p} BY DEF FileRows, Ids
<1>3. Ids(ChunkRows(p, v)) = ChunkIds(p, v)
  <2>1. CASE p \in Sources
    <3>1. ChunkRows(p, v) = SourceChunkRows(p, v) BY <1>1, <2>1 DEF ChunkRows, Kinds
    <3>2. Ids(SourceChunkRows(p, v)) =
            Ids({Row(p, "header", <<p, "header">>, v)}) \cup
            Ids({Row(p, "symbol", <<p, "symbol", l>>, v) : l \in Symbol(v)})
      BY DEF SourceChunkRows, Ids, Symbol
    <3>3. Ids({Row(p, "header", <<p, "header">>, v)}) = {<<p, "header">>} BY DEF Ids, Row
    <3>4. Ids({Row(p, "symbol", <<p, "symbol", l>>, v) : l \in Symbol(v)}) = {<<p, "symbol", l>> : l \in Symbol(v)}
      <4>1. \A l : Row(p, "symbol", <<p, "symbol", l>>, v).id = <<p, "symbol", l>> BY DEF Row
      <4> QED BY <4>1 DEF Ids
    <3> QED BY <2>1, <3>1, <3>2, <3>3, <3>4 DEF ChunkIds
  <2>2. CASE p \in Docs
    BY <1>1, <2>2 DEF ChunkRows, DocChunkRows, Ids, Row, ChunkIds, Kinds
  <2>3. CASE p \notin Sources /\ p \notin Docs
    BY <2>3 DEF ChunkRows, Ids, ChunkIds
  <2> QED BY <2>1, <2>2, <2>3
<1>4. Ids(EntityRows(p, v)) = EntityIds(p, v)
  <2>1. CASE p \in Sources
    <3>1. EntityRows(p, v) = SourceEntityRows(p, v) BY <1>1, <2>1 DEF EntityRows, Kinds
    <3>2. Ids(SourceEntityRows(p, v)) =
            Ids({Row(p, "File", <<p, "File">>, v)}) \cup
            Ids({Row(p, "symbol", <<p, "Symbol", l>>, v) : l \in Symbol(v)})
      BY DEF SourceEntityRows, Ids, Symbol
    <3>3. Ids({Row(p, "File", <<p, "File">>, v)}) = {<<p, "File">>} BY DEF Ids, Row
    <3>4. Ids({Row(p, "symbol", <<p, "Symbol", l>>, v) : l \in Symbol(v)}) = {<<p, "Symbol", l>> : l \in Symbol(v)}
      <4>1. \A l : Row(p, "symbol", <<p, "Symbol", l>>, v).id = <<p, "Symbol", l>> BY DEF Row
      <4> QED BY <4>1 DEF Ids
    <3> QED BY <2>1, <3>1, <3>2, <3>3, <3>4 DEF EntityIds
  <2>2. CASE p \in Makefiles
    BY <1>1, <2>2 DEF EntityRows, ModuleRows, Ids, Row, EntityIds, Kinds
  <2>3. CASE p \notin Sources /\ p \notin Makefiles
    BY <2>3 DEF EntityRows, DocEntityRows, Ids, Row, EntityIds
  <2> QED BY <2>1, <2>2, <2>3
<1> QED BY <1>2, <1>3, <1>4, ContentIs

\* What defines, and what proves, each for itself.
LEMMA DefinesAre ==
  ASSUME NEW p, NEW v, NEW r
  PROVE  r \in Defines(p, v) <=>
           \/ p \in Sources /\ \E l \in Symbol(v) : r = Relation("defines", <<p, "File">>, <<p, "Symbol", l>>)
           \/ p \in Makefiles /\ r = Relation("defines", <<p, "File">>, <<p, "Module">>)
<1>1. Kinds(p) BY KindsDiffer
<1>2. CASE p \in Sources BY <1>1, <1>2 DEF Defines, Symbol, Kinds
<1>3. CASE p \in Makefiles BY <1>1, <1>3 DEF Defines, Kinds
<1>4. CASE p \notin Sources /\ p \notin Makefiles BY <1>4 DEF Defines
<1> QED BY <1>2, <1>3, <1>4

LEMMA EvidenceIs ==
  ASSUME NEW p, NEW v, NEW r
  PROVE  r \in EvidenceRows(p, v) <=>
           \/ p \in Sources /\ r = Evidence(p, <<p, "File">>, <<p, "header">>)
           \/ p \in Sources /\ \E l \in Symbol(v) : r = Evidence(p, <<p, "Symbol", l>>, <<p, "symbol", l>>)
           \/ p \in Makefiles /\ r = Evidence(p, <<p, "Module">>, NoChunk)
           \/ p \notin Sources /\ p \notin Makefiles
              /\ r \in {Evidence(p, <<p, "Document">>, <<p, "section", v>>), Evidence(p, <<p, "API">>, <<p, "item">>)}
<1>1. Kinds(p) BY KindsDiffer
<1>2. CASE p \in Sources BY <1>1, <1>2 DEF EvidenceRows, SourceEvidence, Symbol, Kinds
<1>3. CASE p \in Makefiles BY <1>1, <1>3 DEF EvidenceRows, NoChunk, Kinds
<1>4. CASE p \notin Sources /\ p \notin Makefiles BY <1>4 DEF EvidenceRows, DocEvidence
<1> QED BY <1>2, <1>3, <1>4

\* Whose id it is.
Owner(t, id) == IF t = "file" THEN id ELSE IF t \in Objects THEN id[1] ELSE id[2][1]

LEMMA OwnerIs ==
  ASSUME NEW p \in Paths, NEW v, NEW t \in Parts, NEW r \in Content(p, v)[t]
  PROVE  Owner(t, r.id) = p /\ (t = "relation" => r.type = "defines" /\ r.id[1] = "defines")
<1>1. CASE t = "file" BY <1>1, ContentIs DEF FileRows, Owner
<1>2. CASE t = "chunk" BY <1>2, ContentIs, ChunkRowsAre DEF IsChunk, Owner, Objects
<1>3. CASE t = "entity" BY <1>3, ContentIs, EntityRowsAre DEF IsEntity, Owner, Objects
<1>4. CASE t = "relation" BY <1>4, ContentIs, DefinesAre DEF Relation, Owner, Objects
<1>5. CASE t = "evidence" BY <1>5, ContentIs, EvidenceIs DEF Evidence, Owner, Objects
<1> QED BY <1>1, <1>2, <1>3, <1>4, <1>5 DEF Parts, Tables

LEMMA ContentIsKnown ==
  ASSUME NEW p \in Paths, NEW t \in Parts
  PROVE  AnyContent(p, t) \subseteq AllRows(t)
BY StoredRows DEF AnyContent, Content, Parts

\* The rows of a bundle are those of its content, and membership.
LEMMA BundleIs ==
  ASSUME NEW p \in Paths, NEW v, NEW C, NEW t \in Parts, NEW r
  PROVE  /\ r \in Content(p, v)[t] => r \in Bundle(p, v, C)[t]
         /\ r \in Bundle(p, v, C)[t] =>
              r \in Content(p, v)[t] \/ (t = "relation" /\ r.type # "defines" /\ r.id[1] # "defines")
<1>1. CASE t = "relation"
  <2>1. Content(p, v)[t] = Defines(p, v) /\ Bundle(p, v, C)[t] = RelationRows(p, v, C)
    BY <1>1, ContentIs DEF Bundle
  <2>2. \A m : r \in Membership(m, C) => r.type # "defines" /\ r.id[1] # "defines"
    BY DEF Membership, Relation
  <2> QED BY <1>1, <2>1, <2>2 DEF RelationRows
<1>2. CASE t # "relation" BY <1>2, ContentIs DEF Bundle, Parts, Tables
<1> QED BY <1>1, <1>2

LEMMA WhatIsOwned ==
  ASSUME NEW p \in Paths, NEW t \in Parts, NEW r \in AllRows(t), Owner(t, r.id) = p,
         t = "relation" => r.type = "defines"
  PROVE  r \in AnyContent(p, t)
<1>1. PICK q \in Paths, v \in Revisions : r \in Bundle(q, v, Paths)[t] BY StoredIn DEF Parts
<1>2. r \in Content(q, v)[t] BY <1>1, BundleIs
<1>3. q = p BY <1>2, OwnerIs
<1> QED BY <1>2, <1>3 DEF AnyContent

LEMMA BundleOwn ==
  ASSUME NEW p \in Paths, NEW q \in Paths, NEW v, NEW C, NEW t \in Parts,
         NEW r \in Bundle(q, v, C)[t], r.id \in Ids(AnyContent(p, t))
  PROVE  q = p /\ r \in Content(p, v)[t]
<1>1. PICK w \in Revisions : \E x \in Content(p, w)[t] : x.id = r.id BY DEF AnyContent, Ids
<1>2. Owner(t, r.id) = p /\ (t = "relation" => r.id[1] = "defines") BY <1>1, OwnerIs
<1>3. r \in Content(q, v)[t] BY <1>2, BundleIs
<1> QED BY <1>2, <1>3, OwnerIs

LEMMA EvidenceParts ==
  ASSUME NEW p, NEW o, NEW c
  PROVE  /\ Evidence(p, o, c).object = o /\ Evidence(p, o, c).chunk = c /\ Evidence(p, o, c).file = p
         /\ Evidence(p, o, c).about = "entity" /\ Evidence(p, o, c).id = <<"evidence", o, c>>
BY DEF Evidence

\* What evidence of a file names, and when it is of a content.
LEMMA EvidenceNames ==
  ASSUME NEW p \in Paths, NEW v, NEW e \in Content(p, v)["evidence"]
  PROVE  /\ e = Evidence(p, e.object, e.chunk)
         /\ e.object \in Ids(Content(p, v)["entity"])
         /\ e.chunk = NoChunk \/ e.chunk \in Ids(Content(p, v)["chunk"])
<1>1. Kinds(p) BY KindsDiffer
<1>2. p \in Sources \/ p \in Makefiles \/ p \in Docs BY DEF Paths, CodePaths
<1>3. e \in EvidenceRows(p, v) BY ContentIs
<1>4. CASE p \in Sources
  <2>1. e = Evidence(p, <<p, "File">>, <<p, "header">>)
        \/ \E l \in Symbol(v) : e = Evidence(p, <<p, "Symbol", l>>, <<p, "symbol", l>>)
    BY <1>1, <1>3, <1>4, EvidenceIs DEF Kinds
  <2>2. ASSUME e = Evidence(p, <<p, "File">>, <<p, "header">>)
        PROVE  /\ e = Evidence(p, e.object, e.chunk) /\ e.object = <<p, "File">> /\ e.chunk = <<p, "header">>
    BY <2>2, EvidenceParts
  <2>3. ASSUME NEW l \in Symbol(v), e = Evidence(p, <<p, "Symbol", l>>, <<p, "symbol", l>>)
        PROVE  /\ e = Evidence(p, e.object, e.chunk) /\ e.object = <<p, "Symbol", l>> /\ e.chunk = <<p, "symbol", l>>
    BY <2>3, EvidenceParts
  <2>4. <<p, "File">> \in EntityIds(p, v) /\ <<p, "header">> \in ChunkIds(p, v)
        /\ \A l \in Symbol(v) : <<p, "Symbol", l>> \in EntityIds(p, v) /\ <<p, "symbol", l>> \in ChunkIds(p, v)
    BY <1>4 DEF EntityIds, ChunkIds
  <2>5. /\ e = Evidence(p, e.object, e.chunk) /\ e.object \in EntityIds(p, v) /\ e.chunk \in ChunkIds(p, v)
    BY <2>1, <2>2, <2>3, <2>4
  <2> QED BY <2>5, IdsAre
<1>5. CASE p \in Makefiles
  <2>1. e = Evidence(p, <<p, "Module">>, NoChunk) BY <1>1, <1>3, <1>5, EvidenceIs DEF Kinds
  <2>2. e.object = <<p, "Module">> /\ e.chunk = NoChunk /\ e = Evidence(p, e.object, e.chunk)
    BY <2>1, EvidenceParts
  <2> QED BY <1>1, <1>5, <2>2, IdsAre DEF EntityIds, Kinds
<1>6. CASE p \in Docs
  <2>1. e \in {Evidence(p, <<p, "Document">>, <<p, "section", v>>), Evidence(p, <<p, "API">>, <<p, "item">>)}
    BY <1>1, <1>3, <1>6, EvidenceIs DEF Kinds
  <2>2. /\ e = Evidence(p, e.object, e.chunk)
        /\ \/ e.object = <<p, "Document">> /\ e.chunk = <<p, "section", v>>
           \/ e.object = <<p, "API">> /\ e.chunk = <<p, "item">>
    BY <2>1, EvidenceParts
  <2>3. /\ e.object \in EntityIds(p, v) /\ e.chunk \in ChunkIds(p, v)
    BY <1>1, <1>6, <2>2 DEF EntityIds, ChunkIds, Kinds
  <2> QED BY <2>2, <2>3, IdsAre
<1> QED BY <1>2, <1>4, <1>5, <1>6

LEMMA EvidenceFollows ==
  ASSUME NEW p \in Paths, NEW v, NEW w, NEW e \in Content(p, v)["evidence"],
         e.chunk = NoChunk \/ e.chunk \in Ids(Content(p, w)["chunk"])
  PROVE  e \in Content(p, w)["evidence"]
<1>1. Kinds(p) BY KindsDiffer
<1>2. p \in Sources \/ p \in Makefiles \/ p \in Docs BY DEF Paths, CodePaths
<1>3. e \in EvidenceRows(p, v) /\ Content(p, w)["evidence"] = EvidenceRows(p, w) BY ContentIs
<1>4. CASE p \in Sources
  <2>1. CASE e = Evidence(p, <<p, "File">>, <<p, "header">>) BY <1>3, <1>4, <2>1, EvidenceIs
  <2>2. ASSUME NEW l \in Symbol(v), e = Evidence(p, <<p, "Symbol", l>>, <<p, "symbol", l>>)
        PROVE  e \in EvidenceRows(p, w)
    <3>1. e.chunk = <<p, "symbol", l>> /\ e.chunk # NoChunk BY <2>2 DEF Evidence, NoChunk
    <3>2. <<p, "symbol", l>> \in ChunkIds(p, w) BY <3>1, IdsAre
    <3>3. l \in Symbol(w) BY <1>4, <3>2 DEF ChunkIds
    <3> QED BY <1>4, <2>2, <3>3, EvidenceIs
  <2> QED BY <1>1, <1>3, <1>4, <2>1, <2>2, EvidenceIs DEF Kinds
<1>5. CASE p \in Makefiles
  <2>1. e = Evidence(p, <<p, "Module">>, NoChunk) BY <1>1, <1>3, <1>5, EvidenceIs DEF Kinds
  <2> QED BY <1>3, <1>5, <2>1, EvidenceIs
<1>6. CASE p \in Docs
  <2>1. CASE e = Evidence(p, <<p, "Document">>, <<p, "section", v>>)
    <3>1. e.chunk = <<p, "section", v>> /\ e.chunk # NoChunk BY <2>1 DEF Evidence, NoChunk
    <3>2. <<p, "section", v>> \in ChunkIds(p, w) BY <3>1, IdsAre
    <3>3. v = w BY <1>1, <1>6, <3>2 DEF ChunkIds, Kinds
    <3> QED BY <1>3, <3>3
  <2>2. CASE e = Evidence(p, <<p, "API">>, <<p, "item">>)
    <3>1. p \notin Sources /\ p \notin Makefiles BY <1>1, <1>6 DEF Kinds
    <3>2. e \in {Evidence(p, <<p, "Document">>, <<p, "section", w>>), Evidence(p, <<p, "API">>, <<p, "item">>)}
      BY <2>2
    <3> QED BY <1>3, <3>1, <3>2, EvidenceIs
  <2> QED BY <1>1, <1>3, <1>6, <2>1, <2>2, EvidenceIs DEF Kinds
<1> QED BY <1>2, <1>3, <1>4, <1>5, <1>6

\* What is left out of a content is left out of all that follow.
LEMMA NoReturn ==
  ASSUME LinesDoNotReturn, NEW p \in Paths, NEW u \in Revisions, NEW v \in Revisions, NEW w \in Revisions,
         u <= v, v <= w, NEW t \in Parts,
         NEW id \in Ids(Content(p, u)[t]) \cap Ids(Content(p, w)[t])
  PROVE  id \in Ids(Content(p, v)[t])
<1>1. \A l : l \in Symbol(u) /\ l \in Symbol(w) => l \in Symbol(v) BY DEF LinesDoNotReturn, Symbol
<1>2. u \in Nat /\ v \in Nat /\ w \in Nat BY Bound
<1>3. CASE t = "file" BY <1>3, IdsAre
<1>4. CASE t = "chunk"
  <2>1. id \in ChunkIds(p, u) /\ id \in ChunkIds(p, w) BY <1>4, IdsAre
  <2>2. id \in ChunkIds(p, v) BY <1>1, <1>2, <2>1 DEF ChunkIds
  <2> QED BY <1>4, <2>2, IdsAre
<1>5. CASE t = "entity"
  <2>1. id \in EntityIds(p, u) /\ id \in EntityIds(p, w) BY <1>5, IdsAre
  <2>2. id \in EntityIds(p, v) BY <1>1, <2>1 DEF EntityIds
  <2> QED BY <1>5, <2>2, IdsAre
<1>6. CASE t = "relation"
  <2>1. PICK a \in Defines(p, u), b \in Defines(p, w) : a.id = id /\ b.id = id BY <1>6, ContentIs DEF Ids
  <2>2. a \in Defines(p, v)
    <3>1. CASE p \in Makefiles
      <4>1. a = Relation("defines", <<p, "File">>, <<p, "Module">>) BY <3>1, <2>1, DefinesAre, KindsDiffer DEF Kinds
      <4> QED BY <3>1, <4>1, DefinesAre
    <3>2. CASE p \notin Makefiles
      <4>1. PICK l \in Symbol(u) : a = Relation("defines", <<p, "File">>, <<p, "Symbol", l>>)
        BY <2>1, <3>2, DefinesAre
      <4>a. PICK m \in Symbol(w) : b = Relation("defines", <<p, "File">>, <<p, "Symbol", m>>)
        BY <2>1, <3>2, DefinesAre
      <4>2. l = m BY <2>1, <4>1, <4>a DEF Relation
      <4>3. l \in Symbol(v) BY <1>1, <4>1, <4>2
      <4> QED BY <2>1, <3>2, <4>1, <4>3, DefinesAre
    <3> QED BY <3>1, <3>2
  <2> QED BY <1>6, <2>1, <2>2, ContentIs DEF Ids
<1>7. CASE t = "evidence"
  <2>1. PICK a \in Content(p, u)[t], b \in Content(p, w)[t] : a.id = id /\ b.id = id BY DEF Ids
  <2>2. a = Evidence(p, a.object, a.chunk) /\ b = Evidence(p, b.object, b.chunk) BY <1>7, <2>1, EvidenceNames
  <2>3. a.chunk = b.chunk
    <3>1. a.id = <<"evidence", a.object, a.chunk>> /\ b.id = <<"evidence", b.object, b.chunk>>
      BY <2>2 DEF Evidence
    <3> QED BY <2>1, <3>1
  <2>4. a.chunk = NoChunk \/ a.chunk \in ChunkIds(p, u) \cap ChunkIds(p, w)
    BY <1>7, <2>1, <2>3, EvidenceNames, IdsAre
  <2>5. a.chunk = NoChunk \/ a.chunk \in ChunkIds(p, v) BY <1>1, <1>2, <2>4 DEF ChunkIds
  <2>6. a \in Content(p, v)[t] BY <1>7, <2>1, <2>5, EvidenceFollows, IdsAre
  <2> QED BY <2>1, <2>6 DEF Ids
<1> QED BY <1>3, <1>4, <1>5, <1>6, <1>7 DEF Parts, Tables

-----------------------------------------------------------------------------
(* Reading a path of which the store has one content.                      *)

LEMMA ShadowedIs ==
  ASSUME TypedStore, NEW t \in {"relation", "evidence"}
  PROVE  Shadowed(db, t) = db.overlay[t] \cup db.baseline[t]
<1>1. db.overlay[t] \subseteq AllRows(t) /\ db.baseline[t] \subseteq AllRows(t) BY StoredRow DEF Tables
<1>2. \A a, b \in AllRows(t) : a.id = b.id => a = b BY IdsTell
<1> QED BY <1>1, <1>2 DEF Shadowed, Ids

\* What is stored of a path, and not hidden, is of its content.
LEMMA HeldIs ==
  ASSUME TypedStore, NEW p \in Paths, NEW v \in Revisions, Holds(p, v), NEW t \in Parts, NEW r \in Shadowed(db, t),
         Owner(t, r.id) = p, t = "relation" => r.type = "defines", <<t, r.id>> \notin db.tombstone
  PROVE  r \in Content(p, v)[t]
<1>1. r \in AllRows(t) BY StoredRow DEF Shadowed, Parts
<1>2. r \in AnyContent(p, t) BY <1>1, WhatIsOwned
<1> QED BY <1>2 DEF Holds

LEMMA ContentIsFree ==
  ASSUME NEW p \in Paths, NEW v \in Revisions, FreeFrom(p, v), NEW t \in Parts, NEW r \in Content(p, v)[t]
  PROVE  IsFree(t, r.id)
<1>1. v <= v BY Bound
<1> QED BY <1>1 DEF FreeFrom

LEMMA FileIsFree ==
  ASSUME NEW p \in Paths, NEW v \in Revisions, FreeFrom(p, v)
  PROVE  <<"file", p>> \notin db.tombstone
<1>1. [id |-> p, text |-> v] \in Content(p, v)["file"] BY ContentIs DEF FileRows
<1> QED BY <1>1, ContentIsFree DEF IsFree, Parts, Tables

LEMMA ObjectsHeld ==
  ASSUME TypedStore, ReplacedIsHidden, NEW p \in Paths, NEW v \in Revisions, Holds(p, v), NEW t \in Objects
  PROVE  {i.row : i \in {x \in LogicalObjects(db, t) : x.row.file = p}} = Content(p, v)[t]
<1>0. t \in Parts BY DEF Objects, Parts, Tables
<1>1. ASSUME NEW i \in LogicalObjects(db, t), i.row.file = p PROVE i.row \in Content(p, v)[t]
  <2>1. i.row \in Shadowed(db, t) /\ ~RowHidden(db, t, i.row) BY ItemsAre DEF ShowsOwnRow
  <2>2. i.row \in AllRows(t) BY <2>1, StoredRow DEF Shadowed, Objects, Tables
  <2>3. i.row.id[1] = p BY <1>1, <2>2, KnownObject DEF Objects
  <2>4. Owner(t, i.row.id) = p BY <2>3 DEF Owner, Objects
  <2> QED BY <1>0, <2>1, <2>4, HeldIs DEF RowHidden, IsTombstoned, Objects
<1>2. ASSUME NEW r \in Content(p, v)[t]
      PROVE  \E i \in LogicalObjects(db, t) : i.row = r /\ r.file = p
  <2>1. r \in Shadowed(db, t) BY <1>0 DEF Holds
  <2>2. r \in AllRows(t) /\ r.id[1] = p
    BY <1>0, ContentIsKnown, OwnerIs DEF AnyContent, Owner, Objects
  <2>3. r.file = p BY <2>2, KnownObject DEF Objects
  <2>4. <<t, r.id>> \notin db.tombstone /\ <<"file", p>> \notin db.tombstone
    BY <1>0, ContentIsFree, FileIsFree DEF Holds, IsFree
  <2>5. ~RowHidden(db, t, r) BY <2>3, <2>4 DEF RowHidden, IsTombstoned
  <2> QED BY <2>1, <2>3, <2>5, LiveIsShown
<1> QED BY <1>1, <1>2

LEMMA EntityIsLive ==
  ASSUME TypedStore, ReplacedIsHidden, NEW p \in Paths, NEW v \in Revisions, Holds(p, v),
         NEW id \in Ids(Content(p, v)["entity"])
  PROVE  id \in LiveIds(db, "entity") /\ Resolve(db, "entity", id) = id /\ <<"entity", id>> \notin db.tombstone
<1>1. PICK i \in LogicalObjects(db, "entity") : i.row.id = id
  BY ObjectsHeld DEF Objects, Ids
<1>2. id \in LiveIds(db, "entity")
  BY <1>1, ItemsAre, ItemIsLive DEF ShowsOwnRow, Objects
<1>3. <<"entity", id>> \notin db.tombstone BY <1>2, LiveRows DEF Objects
<1> QED BY <1>2, <1>3, NotReplaced DEF IsTombstoned, Objects



\* A relation that may be shown is.
LEMMA RelationIsShown ==
  ASSUME TypedStore, NEW r \in db.overlay["relation"] \cup db.baseline["relation"], RelationShown(db, r),
         {Endpoints(db, r).src, Endpoints(db, r).dst} \subseteq LiveIds(db, "entity")
  PROVE  \E i \in LogicalRelations(db) :
           i.row = [id |-> r.id, type |-> r.type, src |-> Endpoints(db, r).src, dst |-> Endpoints(db, r).dst]
<1> DEFINE live(x) == /\ RelationShown(db, x)
                      /\ {Endpoints(db, x).src, Endpoints(db, x).dst} \subseteq LiveIds(db, "entity")
           resolved(x) == [x EXCEPT !.src = Endpoints(db, x).src, !.dst = Endpoints(db, x).dst]
           above == {x \in db.overlay["relation"] : live(x)}
           below == {x \in db.baseline["relation"] : live(x) /\ x.id \notin Ids(above)}
<1>1. db.overlay["relation"] \subseteq AllRows("relation") /\ db.baseline["relation"] \subseteq AllRows("relation")
  BY StoredRow DEF Tables
<1>2. LogicalRelations(db) = {Item(x.id, resolved(x), "overlay") : x \in above} \cup
                             {Item(x.id, resolved(x), "baseline") : x \in below}
  BY DEF LogicalRelations
<1>3. r = Relation(r.type, r.src, r.dst) BY <1>1, KnownRelation
<1>4. resolved(r) = [id |-> r.id, type |-> r.type, src |-> Endpoints(db, r).src, dst |-> Endpoints(db, r).dst]
  <2>1. PICK x : x = resolved(r) OBVIOUS
  <2>2. x = [id |-> r.id, type |-> r.type, src |-> Endpoints(db, r).src, dst |-> Endpoints(db, r).dst]
    BY <1>3, <2>1 DEF Relation
  <2> HIDE DEF resolved
  <2> QED BY <2>1, <2>2
<1>5. live(r) OBVIOUS
<1> HIDE DEF live, resolved
<1>6. r \in above \/ r \in below
  <2>1. CASE r.id \in Ids(above)
    <3>1. PICK x \in above : x.id = r.id BY <2>1 DEF Ids
    <3>2. x = r BY <1>1, <3>1, IdsTell
    <3> QED BY <3>1, <3>2
  <2>2. CASE r.id \notin Ids(above) BY <1>5, <2>2
  <2> QED BY <2>1, <2>2
<1>7. PICK source : Item(r.id, resolved(r), source) \in LogicalRelations(db) BY <1>2, <1>6
<1> QED BY <1>4, <1>7 DEF Item

LEMMA DefinesNames ==
  ASSUME NEW p \in Paths, NEW v, NEW r \in Content(p, v)["relation"]
  PROVE  /\ r = Relation("defines", r.src, r.dst) /\ r.src[1] = p
         /\ r.src \in Ids(Content(p, v)["entity"]) /\ r.dst \in Ids(Content(p, v)["entity"])
<1>1. Kinds(p) BY KindsDiffer
<1>2. r \in Defines(p, v) BY ContentIs
<1>3. ASSUME NEW a, NEW b, r = Relation("defines", a, b)
      PROVE  r = Relation("defines", r.src, r.dst) /\ r.src = a /\ r.dst = b
  BY <1>3 DEF Relation
<1>4. CASE p \in Sources
  <2>1. PICK l \in Symbol(v) : r = Relation("defines", <<p, "File">>, <<p, "Symbol", l>>)
    BY <1>1, <1>2, <1>4, DefinesAre DEF Kinds
  <2>2. r.src = <<p, "File">> /\ r.dst = <<p, "Symbol", l>> /\ r = Relation("defines", r.src, r.dst)
    BY <1>3, <2>1
  <2>3. r.src \in EntityIds(p, v) /\ r.dst \in EntityIds(p, v) BY <1>4, <2>1, <2>2 DEF EntityIds
  <2> QED BY <2>2, <2>3, IdsAre
<1>5. CASE p \in Makefiles
  <2>1. r = Relation("defines", <<p, "File">>, <<p, "Module">>) BY <1>1, <1>2, <1>5, DefinesAre DEF Kinds
  <2>2. r.src = <<p, "File">> /\ r.dst = <<p, "Module">> /\ r = Relation("defines", r.src, r.dst)
    BY <1>3, <2>1
  <2>3. r.src \in EntityIds(p, v) /\ r.dst \in EntityIds(p, v) BY <1>1, <1>5, <2>2 DEF EntityIds, Kinds
  <2> QED BY <2>2, <2>3, IdsAre
<1> QED BY <1>2, <1>4, <1>5, DefinesAre

LEMMA DefinesHeld ==
  ASSUME TypedStore, ReplacedIsHidden, NEW p \in Paths, NEW v \in Revisions, Holds(p, v)
  PROVE  {i.row : i \in {x \in LogicalRelations(db) : x.row.type = "defines" /\ x.row.src[1] = p}}
           = Content(p, v)["relation"]
<1>0. "relation" \in Parts BY DEF Parts, Tables
<1>1. ASSUME NEW r \in Content(p, v)["relation"]
      PROVE  /\ Endpoints(db, r).src = r.src /\ Endpoints(db, r).dst = r.dst
             /\ r.src \in LiveIds(db, "entity") /\ r.dst \in LiveIds(db, "entity")
             /\ r = [id |-> r.id, type |-> r.type, src |-> r.src, dst |-> r.dst]
             /\ r.type = "defines" /\ r.src[1] = p
  <2>1. r = Relation("defines", r.src, r.dst) /\ r.src[1] = p
        /\ r.src \in Ids(Content(p, v)["entity"]) /\ r.dst \in Ids(Content(p, v)["entity"])
    BY DefinesNames
  <2>2. /\ r.src \in LiveIds(db, "entity") /\ Resolve(db, "entity", r.src) = r.src
        /\ r.dst \in LiveIds(db, "entity") /\ Resolve(db, "entity", r.dst) = r.dst
    BY <2>1, EntityIsLive
  <2> QED BY <2>1, <2>2 DEF Endpoints, Relation
<1>2. ASSUME NEW i \in LogicalRelations(db), i.row.type = "defines", i.row.src[1] = p
      PROVE  i.row \in Content(p, v)["relation"]
  <2>1. PICK r \in AllRows("relation") :
          /\ r \in db.overlay["relation"] \/ r \in db.baseline["relation"]
          /\ ShowsRelation(i, r)
    BY RelationsRead
  <2>2. i.row = [id |-> r.id, type |-> r.type, src |-> Endpoints(db, r).src, dst |-> Endpoints(db, r).dst]
        /\ RelationShown(db, r)
    BY <2>1 DEF ShowsRelation
  <2>3. r.type = "defines" /\ i.row.src = Resolve(db, "entity", r.src) BY <1>2, <2>2 DEF Endpoints
  <2>4. r.src[1] = p BY <1>2, <2>3, SuccessorIsLike DEF Objects
  <2>5. r = Relation(r.type, r.src, r.dst) BY KnownRelation
  <2>6. r.id[2][1] = p BY <2>4, <2>5 DEF Relation
  <2>7. r \in Shadowed(db, "relation") BY <2>1, ShadowedIs
  <2>8. <<"relation", r.id>> \notin db.tombstone BY <2>2 DEF RelationShown, IsTombstoned
  <2>9. Owner("relation", r.id) = p BY <2>6 DEF Owner, Objects
  <2>10. r \in Content(p, v)["relation"] BY <1>0, <2>3, <2>7, <2>8, <2>9, HeldIs
  <2>11. i.row = r BY <1>1, <2>2, <2>10
  <2> QED BY <2>10, <2>11
<1>3. ASSUME NEW r \in Content(p, v)["relation"]
      PROVE  \E i \in LogicalRelations(db) : i.row = r
  <2>1. r \in db.overlay["relation"] \cup db.baseline["relation"] BY <1>0, ShadowedIs DEF Holds
  <2>2. <<"relation", r.id>> \notin db.tombstone /\ <<"relation", r.id>> \notin DOMAIN db.replacement
    BY <1>0, ContentIsFree DEF Holds, IsFree
  <2>3. RelationShown(db, r) BY <2>2 DEF RelationShown, IsTombstoned, IsReplaced, Resolve
  <2>4. {Endpoints(db, r).src, Endpoints(db, r).dst} \subseteq LiveIds(db, "entity") BY <1>1
  <2>5. PICK i \in LogicalRelations(db) :
           i.row = [id |-> r.id, type |-> r.type, src |-> Endpoints(db, r).src, dst |-> Endpoints(db, r).dst]
    BY <2>1, <2>3, <2>4, RelationIsShown
  <2> QED BY <1>1, <2>5
<1> QED BY <1>1, <1>2, <1>3

LEMMA EvidenceHeld ==
  ASSUME TypedStore, ReplacedIsHidden, NEW p \in Paths, NEW v \in Revisions, Holds(p, v)
  PROVE  {i.row : i \in {x \in LogicalEvidence(db) : x.row.file = p}} = Content(p, v)["evidence"]
<1>0. {"evidence", "chunk", "entity"} \subseteq Parts BY DEF Parts, Tables
<1>1. ASSUME NEW i \in LogicalEvidence(db), i.row.file = p PROVE i.row \in Content(p, v)["evidence"]
  <2>1. /\ i.row \in AllRows("evidence") /\ ~EvidenceHidden(db, i.row)
        /\ i.row \in db.overlay["evidence"] \cup db.baseline["evidence"]
    BY EvidenceIsLive
  <2>2. i.row \in Shadowed(db, "evidence") BY <2>1, ShadowedIs
  <2>3. i.row = Evidence(i.row.file, i.row.object, i.row.chunk) /\ i.row.object[1] = p
    BY <1>1, <2>1, KnownEvidence
  <2>4. i.row.id[2][1] = p BY <2>3, EvidenceParts
  <2>5. Owner("evidence", i.row.id) = p BY <2>4 DEF Owner, Objects
  <2>6. <<"evidence", i.row.id>> \notin db.tombstone BY <2>1 DEF EvidenceHidden, IsTombstoned
  <2> QED BY <1>0, <2>2, <2>5, <2>6, HeldIs
<1>2. ASSUME NEW r \in Content(p, v)["evidence"]
      PROVE  r.file = p /\ \E i \in LogicalEvidence(db) : i.row = r
  <2>1. /\ r = Evidence(p, r.object, r.chunk) /\ r.object \in Ids(Content(p, v)["entity"])
        /\ r.chunk = NoChunk \/ r.chunk \in Ids(Content(p, v)["chunk"])
    BY EvidenceNames
  <2>2. r.file = p /\ r.about = "entity" BY <2>1, EvidenceParts
  <2>3. r \in db.overlay["evidence"] \cup db.baseline["evidence"] BY <1>0, ShadowedIs DEF Holds
  <2>4. <<"evidence", r.id>> \notin db.tombstone /\ <<"file", p>> \notin db.tombstone
    BY <1>0, ContentIsFree, FileIsFree DEF Holds, IsFree
  <2>5. r.chunk = NoChunk \/ <<"chunk", r.chunk>> \notin db.tombstone
    BY <1>0, <2>1, ContentIsFree DEF Holds, IsFree, Ids
  <2>6. <<"entity", r.object>> \notin db.tombstone BY <2>1, EntityIsLive
  <2>7. ~EvidenceHidden(db, r) BY <2>2, <2>4, <2>5, <2>6 DEF EvidenceHidden, IsTombstoned
  <2> QED BY <2>2, <2>3, <2>7, EvidenceIsShown
<1> QED BY <1>1, <1>2

-----------------------------------------------------------------------------
(* What readers see of a path.                                             *)

Parted(chunks, entities, defines, evidence) ==
  [chunk |-> chunks, entity |-> entities, defines |-> defines, evidence |-> evidence]

LEMMA ViewIs ==
  ASSUME NEW p \in Paths
  PROVE  View(db)[p] = Parted(
           {i.row : i \in {x \in LogicalObjects(db, "chunk") : x.row.file = p}},
           {i.row : i \in {x \in LogicalObjects(db, "entity") : x.row.file = p}},
           {i.row : i \in {x \in LogicalRelations(db) : x.row.type = "defines" /\ x.row.src[1] = p}},
           {i.row : i \in {x \in LogicalEvidence(db) : x.row.file = p}})
BY DEF View, Parted

LEMMA RenderingIs ==
  ASSUME NEW p \in Paths
  PROVE  /\ Rendering[p][Missing] = Parted({}, {}, {}, {})
         /\ \A v \in Revisions :
              Rendering[p][v] = Parted(Content(p, v)["chunk"], Content(p, v)["entity"],
                                       Content(p, v)["relation"], Content(p, v)["evidence"])
<1>1. Missing \in Hashes /\ \A v \in Revisions : v \in Hashes /\ v # Missing
  BY Bound DEF Revisions, Missing
<1> QED BY <1>1, ContentIs DEF Rendering, Parted

LEMMA RenderingsDiffer ==
  ASSUME NEW p \in Paths, NEW v \in Hashes, NEW w \in Hashes, Rendering[p][v] = Rendering[p][w]
  PROVE  v = w
<1>a. \A a, b, c, d : Parted(a, b, c, d).entity = b BY DEF Parted
<1>1. \A u \in Revisions : Rendering[p][u].entity = Content(p, u)["entity"]
  <2> TAKE u \in Revisions
  <2>1. Rendering[p][u] = Parted(Content(p, u)["chunk"], Content(p, u)["entity"],
                                 Content(p, u)["relation"], Content(p, u)["evidence"])
    BY RenderingIs
  <2> QED BY <1>a, <2>1
<1>2. Rendering[p][Missing].entity = {}
  <2>1. Rendering[p][Missing] = Parted({}, {}, {}, {}) BY RenderingIs
  <2> QED BY <1>a, <2>1
<1>3. \A u \in Revisions : (\A e \in Content(p, u)["entity"] : e.text = u) /\ Content(p, u)["entity"] # {}
  <2> TAKE u \in Revisions
  <2>1. \A e \in Content(p, u)["entity"] : e.text = u BY ContentIs, EntityRowsAre DEF IsEntity
  <2>2. Ids(Content(p, u)["entity"]) # {}
    <3>1. EntityIds(p, u) # {}
      <4>1. <<p, "File">> \in EntityIds(p, u) \/ <<p, "Document">> \in EntityIds(p, u) BY DEF EntityIds
      <4> QED BY <4>1
    <3> QED BY <3>1, IdsAre
  <2> QED BY <2>1, <2>2 DEF Ids
<1>4. v \in Revisions \/ v = Missing BY Bound
<1>5. w \in Revisions \/ w = Missing BY Bound
<1>6. CASE v = Missing /\ w \in Revisions BY <1>1, <1>2, <1>3, <1>6
<1>7. CASE w = Missing /\ v \in Revisions BY <1>1, <1>2, <1>3, <1>7
<1>8. CASE v \in Revisions /\ w \in Revisions
  <2>1. PICK e \in Content(p, v)["entity"] : TRUE BY <1>3, <1>8
  <2>2. e \in Content(p, w)["entity"] BY <1>1, <1>8, <2>1
  <2> QED BY <1>3, <1>8, <2>1, <2>2
<1> QED BY <1>4, <1>5, <1>6, <1>7, <1>8

LEMMA HeldIsShown ==
  ASSUME TypedStore, ReplacedIsHidden, NEW p \in Paths, NEW v \in Revisions, Holds(p, v)
  PROVE  View(db)[p] = Rendering[p][v]
<1>1. {i.row : i \in {x \in LogicalObjects(db, "chunk") : x.row.file = p}} = Content(p, v)["chunk"]
  BY ObjectsHeld DEF Objects
<1>2. {i.row : i \in {x \in LogicalObjects(db, "entity") : x.row.file = p}} = Content(p, v)["entity"]
  BY ObjectsHeld DEF Objects
<1>3. {i.row : i \in {x \in LogicalRelations(db) : x.row.type = "defines" /\ x.row.src[1] = p}} = Content(p, v)["relation"]
  BY DefinesHeld
<1>4. {i.row : i \in {x \in LogicalEvidence(db) : x.row.file = p}} = Content(p, v)["evidence"]
  BY EvidenceHeld
<1> QED BY <1>1, <1>2, <1>3, <1>4, ViewIs, RenderingIs

\* A path of which nothing is stored, or whose file is hidden, is not seen.
LEMMA NothingIsShown ==
  ASSUME TypedStore, ReplacedIsHidden, NEW p \in Paths,
         (\A t \in Parts : Shadowed(db, t) \cap AnyContent(p, t) = {}) \/ <<"file", p>> \in db.tombstone
  PROVE  View(db)[p] = Rendering[p][Missing]
<1>0. Objects \subseteq Parts /\ "relation" \in Parts /\ "evidence" \in Parts BY DEF Objects, Parts, Tables
<1>1. ASSUME NEW t \in Objects, NEW i \in LogicalObjects(db, t), i.row.file = p PROVE FALSE
  <2>1. i.row \in Shadowed(db, t) /\ ~RowHidden(db, t, i.row) BY ItemsAre DEF ShowsOwnRow
  <2>2. i.row \in AllRows(t) BY <2>1, StoredRow DEF Shadowed, Objects, Tables
  <2>3. i.row.id[1] = p BY <1>1, <2>2, KnownObject DEF Objects
  <2>4. Owner(t, i.row.id) = p /\ t # "relation" BY <2>3 DEF Owner, Objects
  <2>5. i.row \in AnyContent(p, t) BY <1>0, <2>2, <2>4, WhatIsOwned
  <2>6. <<"file", p>> \notin db.tombstone BY <1>1, <2>1 DEF RowHidden, IsTombstoned
  <2> QED BY <1>0, <2>1, <2>5, <2>6
<1>2. ASSUME NEW i \in LogicalRelations(db), i.row.type = "defines", i.row.src[1] = p PROVE FALSE
  <2>1. PICK r \in AllRows("relation") :
          /\ r \in db.overlay["relation"] \/ r \in db.baseline["relation"]
          /\ ShowsRelation(i, r)
    BY RelationsRead
  <2>2. i.row = [id |-> r.id, type |-> r.type, src |-> Endpoints(db, r).src, dst |-> Endpoints(db, r).dst]
        /\ Endpoints(db, r).src \in LiveIds(db, "entity")
    BY <2>1 DEF ShowsRelation
  <2>3. r.type = "defines" /\ i.row.src = Resolve(db, "entity", r.src) BY <1>2, <2>2 DEF Endpoints
  <2>4. r.src[1] = p BY <1>2, <2>3, SuccessorIsLike DEF Objects
  <2>5. r = Relation(r.type, r.src, r.dst) BY KnownRelation
  <2>6. r.id[2][1] = p BY <2>4, <2>5 DEF Relation
  <2>7. r \in Shadowed(db, "relation") BY <2>1, ShadowedIs
  <2>8. Owner("relation", r.id) = p BY <2>6 DEF Owner, Objects
  <2>9. r \in AnyContent(p, "relation") BY <1>0, <2>3, <2>8, WhatIsOwned
  <2>10. i.row.src \in LiveIds(db, "entity") BY <2>2
  <2>11. <<"file", p>> \notin db.tombstone BY <1>2, <2>10, LiveRows DEF Objects
  <2> QED BY <1>0, <2>7, <2>9, <2>11
<1>3. ASSUME NEW i \in LogicalEvidence(db), i.row.file = p PROVE FALSE
  <2>1. /\ i.row \in AllRows("evidence") /\ ~EvidenceHidden(db, i.row)
        /\ i.row \in db.overlay["evidence"] \cup db.baseline["evidence"]
    BY EvidenceIsLive
  <2>2. i.row \in Shadowed(db, "evidence") BY <2>1, ShadowedIs
  <2>3. i.row = Evidence(i.row.file, i.row.object, i.row.chunk) /\ i.row.object[1] = p
    BY <1>3, <2>1, KnownEvidence
  <2>4. i.row.id[2][1] = p BY <2>3, EvidenceParts
  <2>5. Owner("evidence", i.row.id) = p BY <2>4 DEF Owner, Objects
  <2>6. i.row \in AnyContent(p, "evidence") BY <1>0, <2>1, <2>5, WhatIsOwned
  <2>7. <<"file", p>> \notin db.tombstone BY <1>3, <2>1 DEF EvidenceHidden, IsTombstoned
  <2> QED BY <1>0, <2>2, <2>6, <2>7
<1>4. {i.row : i \in {x \in LogicalObjects(db, "chunk") : x.row.file = p}} = {}
  BY <1>1 DEF Objects
<1>5. {i.row : i \in {x \in LogicalObjects(db, "entity") : x.row.file = p}} = {}
  BY <1>1 DEF Objects
<1>6. {i.row : i \in {x \in LogicalRelations(db) : x.row.type = "defines" /\ x.row.src[1] = p}} = {}
  BY <1>2
<1>7. {i.row : i \in {x \in LogicalEvidence(db) : x.row.file = p}} = {}
  BY <1>3
<1> QED BY <1>4, <1>5, <1>6, <1>7, ViewIs, RenderingIs

LEMMA ShownIs ==
  ASSUME StoreInv, NEW p \in Paths, NEW v \in Hashes, PathIs(p, v)
  PROVE  ShownIn(db)[p] = v
<1>1. View(db)[p] = Rendering[p][v]
  <2>1. CASE v = Missing /\ (Lacks(p) \/ Dropped(p))
    BY <2>1, NothingIsShown DEF StoreInv, Lacks, Dropped
  <2>2. CASE v \in Revisions /\ Holds(p, v) BY <2>2, HeldIsShown DEF StoreInv
  <2> QED BY <2>1, <2>2 DEF PathIs
<1>2. \A w \in Hashes : View(db)[p] = Rendering[p][w] => w = v BY <1>1, RenderingsDiffer
<1>3. ShownIn(db)[p] = CHOOSE w \in Hashes : View(db)[p] = Rendering[p][w]
  BY <1>1 DEF ShownIn
<1> HIDE DEF PathIs
<1> QED BY <1>1, <1>2, <1>3

-----------------------------------------------------------------------------
(* What an item of a batch writes of a path.                               *)

LEMMA OwnIdIs ==
  ASSUME NEW p \in Paths, NEW t \in Parts, NEW id \in Ids(AnyContent(p, t))
  PROVE  Owner(t, id) = p /\ (t = "relation" => id[1] = "defines")
<1>1. PICK v \in Revisions : \E r \in Content(p, v)[t] : r.id = id BY DEF AnyContent, Ids
<1> QED BY <1>1, OwnerIs

LEMMA OwnRowIs ==
  ASSUME NEW p \in Paths, NEW t \in Parts, NEW r \in AllRows(t), r.id \in Ids(AnyContent(p, t))
  PROVE  r \in AnyContent(p, t)
<1>1. Owner(t, r.id) = p /\ (t = "relation" => r.id[1] = "defines") BY OwnIdIs
<1>2. t = "relation" => r.type = "defines" BY <1>1, KnownRelation DEF Relation
<1> QED BY <1>1, <1>2, WhatIsOwned

LEMMA OwnRelationIs ==
  ASSUME NEW p \in Paths, NEW r \in AnyContent(p, "relation")
  PROVE  r.type = "defines" /\ r.src[1] = p /\ r.dst[1] = p
<1>1. PICK v \in Revisions : r \in Content(p, v)["relation"] BY DEF AnyContent
<1>2. r.src[1] = p /\ r.dst \in Ids(Content(p, v)["entity"]) /\ r = Relation("defines", r.src, r.dst)
  BY <1>1, DefinesNames
<1>3. r.dst[1] = p BY <1>2, ContentIs, EntityRowsAre DEF IsEntity, Ids
<1> QED BY <1>2, <1>3 DEF Relation

\* A relation that is read back for one path is not of another.
LEMMA OldRelationsAre ==
  ASSUME TypedStore, ReplacedIsHidden, NEW p \in Paths, NEW q \in Paths, NEW x \in LiveBundle(db, q).relation,
         x.id \in Ids(AnyContent(p, "relation"))
  PROVE  /\ q = p /\ x.type = "defines"
         /\ \E r \in Shadowed(db, "relation") \cap AnyContent(p, "relation") :
              r.id = x.id /\ <<"relation", r.id>> \notin db.tombstone
<1>0. "relation" \in Parts BY DEF Parts, Tables
<1>1. PICK i \in LogicalRelations(db) :
        i.row = x /\ (x.src \in Ids(LiveBundle(db, q).entity) \/ x.dst \in Ids(LiveBundle(db, q).entity))
  BY DEF LiveBundle
<1>2. PICK r \in AllRows("relation") :
        /\ r \in db.overlay["relation"] \/ r \in db.baseline["relation"]
        /\ ShowsRelation(i, r)
  BY RelationsRead
<1>3. x = [id |-> r.id, type |-> r.type, src |-> Endpoints(db, r).src, dst |-> Endpoints(db, r).dst]
      /\ RelationShown(db, r)
  BY <1>1, <1>2 DEF ShowsRelation
<1>4. x.id = r.id /\ x.type = r.type /\ x.src = Resolve(db, "entity", r.src) /\ x.dst = Resolve(db, "entity", r.dst)
  BY <1>3 DEF Endpoints
<1>5. r \in AnyContent(p, "relation") BY <1>0, <1>4, OwnRowIs
<1>6. x.type = "defines" /\ x.src[1] = p /\ x.dst[1] = p
  <2>1. r.type = "defines" /\ r.src[1] = p /\ r.dst[1] = p BY <1>5, OwnRelationIs
  <2>2. \A id : Resolve(db, "entity", id)[1] = id[1] BY SuccessorIsLike DEF Objects
  <2> QED BY <1>4, <2>1, <2>2
<1>7. \A id \in Ids(LiveBundle(db, q).entity) : id[1] = q
  <2>1. \A e \in LiveBundle(db, q)["entity"] : e.id[1] = q BY LiveRowsOf DEF Objects
  <2> QED BY <2>1 DEF Ids
<1>8. q = p BY <1>1, <1>6, <1>7
<1>9. r \in Shadowed(db, "relation") BY <1>2, ShadowedIs
<1>10. <<"relation", r.id>> \notin db.tombstone BY <1>3 DEF RelationShown, IsTombstoned
<1> QED BY <1>4, <1>5, <1>6, <1>8, <1>9, <1>10

LEMMA FileIsHidden ==
  ASSUME TypedStore, NEW p \in Paths, KnowsFile(db, p)
  PROVE  <<"file", p>> \in TombstoneFile(db, p)
<1> DEFINE below(u) == RowsOfFile(db.baseline, u, p)
           both(u) == below(u) \cup RowsOfFile(db.overlay, u, p)
           rows == [u \in Tables |->
             CASE u = "file" -> {r \in db.baseline[u] \cup db.overlay[u] : r.id = p}
               [] u = "relation" -> RelationsTouching(db.baseline, Ids(below("entity"))) \cup
                                    RelationsTouching(db.overlay, Ids(both("entity")))
               [] u = "vector_ref" -> RefsTo(db.baseline, Ids(below("chunk"))) \cup
                                      RefsTo(db.overlay, Ids(both("chunk")))
               [] OTHER -> both(u)]
<1>1. TombstoneFile(db, p) = UNION {{<<u, r.id>> : r \in rows[u]} : u \in Tables} BY DEF TombstoneFile
<1>2. rows["file"] = {r \in db.baseline["file"] \cup db.overlay["file"] : r.id = p}
  <2> HIDE DEF both, below
  <2> QED BY DEF Tables
<1>3. PICK r \in Shadowed(db, "file") : r.id = p BY DEF KnowsFile, Ids
<1>4. r \in rows["file"] BY <1>2, <1>3 DEF Shadowed
<1> HIDE DEF rows
<1> QED BY <1>1, <1>3, <1>4 DEF Tables

\* Hiding a file hides what is stored of it alone.
LEMMA FileMarksAreOwn ==
  ASSUME TypedStore, NEW p \in Paths, NEW q \in Paths, NEW t \in Parts, NEW id \in Ids(AnyContent(p, t)),
         <<t, id>> \in TombstoneFile(db, q)
  PROVE  q = p
<1> DEFINE below(u) == RowsOfFile(db.baseline, u, q)
           both(u) == below(u) \cup RowsOfFile(db.overlay, u, q)
           rows == [u \in Tables |->
             CASE u = "file" -> {r \in db.baseline[u] \cup db.overlay[u] : r.id = q}
               [] u = "relation" -> RelationsTouching(db.baseline, Ids(below("entity"))) \cup
                                    RelationsTouching(db.overlay, Ids(both("entity")))
               [] u = "vector_ref" -> RefsTo(db.baseline, Ids(below("chunk"))) \cup
                                      RefsTo(db.overlay, Ids(both("chunk")))
               [] OTHER -> both(u)]
<1>1. TombstoneFile(db, q) = UNION {{<<u, r.id>> : r \in rows[u]} : u \in Tables} BY DEF TombstoneFile
<1>2. /\ rows["file"] = {r \in db.baseline["file"] \cup db.overlay["file"] : r.id = q}
      /\ rows["chunk"] = both("chunk") /\ rows["entity"] = both("entity") /\ rows["evidence"] = both("evidence")
      /\ rows["relation"] = RelationsTouching(db.baseline, Ids(below("entity"))) \cup
                            RelationsTouching(db.overlay, Ids(both("entity")))
  <2> HIDE DEF both, below
  <2> QED BY DEF Tables
<1>3. \A u : both(u) = {r \in db.baseline[u] \cup db.overlay[u] : r.file = q} /\ below(u) \subseteq both(u)
  BY DEF RowsOfFile
<1> HIDE DEF rows, both, below
<1>4. PICK r \in rows[t] : r.id = id
  <2>1. PICK u \in Tables : \E r \in rows[u] : <<t, id>> = <<u, r.id>> BY <1>1
  <2> QED BY <2>1
<1>5. Owner(t, id) = p BY OwnIdIs
<1>6. CASE t = "file" BY <1>2, <1>4, <1>5, <1>6 DEF Owner
<1>7. CASE t \in Objects
  <2>1. r \in db.baseline[t] \cup db.overlay[t] /\ r.file = q BY <1>2, <1>3, <1>4, <1>7 DEF Objects
  <2>2. r \in AllRows(t) BY <1>7, <2>1, StoredRow DEF Objects, Tables
  <2>3. r.id[1] = q BY <1>7, <2>1, <2>2, KnownObject DEF Objects
  <2>4. Owner(t, id) = id[1] BY <1>7 DEF Owner, Objects
  <2> QED BY <1>4, <1>5, <2>3, <2>4
<1>8. CASE t = "evidence"
  <2>1. r \in AllRows(t) /\ r.file = q BY <1>2, <1>3, <1>4, <1>8, StoredRow DEF Tables
  <2>2. r.id = <<"evidence", r.object, r.chunk>> /\ r.object[1] = q
    BY <1>8, <2>1, KnownEvidence, EvidenceParts
  <2> QED BY <1>4, <1>5, <1>8, <2>2 DEF Owner, Objects
<1>9. CASE t = "relation"
  <2>1. r \in AllRows("relation") /\ (r.src \in Ids(both("entity")) \/ r.dst \in Ids(both("entity")))
    BY <1>2, <1>3, <1>4, <1>9, StoredRow DEF RelationsTouching, Ids, Tables
  <2>2. \A o \in Ids(both("entity")) : o[1] = q
    BY <1>3, StoredRow, KnownObject DEF Ids, Tables
  <2>3. r \in AnyContent(p, "relation") BY <1>4, <1>9, <2>1, OwnRowIs
  <2> QED BY <2>1, <2>2, <2>3, OwnRelationIs
<1> QED BY <1>6, <1>7, <1>8, <1>9 DEF Parts, Tables, Objects

LEMMA OldObjectsAre ==
  ASSUME TypedStore, ReplacedIsHidden, NEW q, NEW t \in Objects, NEW id \in Ids(LiveBundle(db, q)[t])
  PROVE  id[1] = q
BY LiveRowsOf DEF Ids

\* What replacing the rows of a file hides is of that file alone.
LEMMA ChangeMarksAre ==
  ASSUME TypedStore, ReplacedIsHidden, NEW p \in Paths, NEW q \in Paths, NEW t \in Parts, NEW new,
         NEW id \in Ids(AnyContent(p, t)), NEW w, w = MarkStale(db, LiveBundle(db, q), new), <<t, id>> \in w.tombstones
  PROVE  /\ q = p /\ t # "file"
         /\ t = "chunk" => id \in Retired(LiveBundle(db, p).chunk, new.chunk)
         /\ t = "entity" => id \in Retired(LiveBundle(db, p).entity, new.entity)
         /\ t = "relation" => id \in Retired(LiveBundle(db, p).relation, new.relation)
         /\ t = "evidence" => \E e \in AllRows("evidence") :
              e.id = id /\ e.chunk \in Retired(LiveBundle(db, p).chunk, new.chunk)
<1> DEFINE old == LiveBundle(db, q)
<1>1. w.tombstones = (UNION {TombstoneChunk(db, c) : c \in Retired(old.chunk, new.chunk)})
                     \cup {<<"entity", e>> : e \in Retired(old.entity, new.entity)}
                     \cup {<<"relation", r>> : r \in Retired(old.relation, new.relation)}
  BY MarksAre
<1>2. Owner(t, id) = p BY OwnIdIs
<1>3. \A c \in Retired(old.chunk, new.chunk) : c[1] = q
  BY OldObjectsAre DEF Retired, Objects
<1>4. \A e \in Retired(old.entity, new.entity) : e[1] = q
  BY OldObjectsAre DEF Retired, Objects
<1>5. CASE \E c \in Retired(old.chunk, new.chunk) : <<t, id>> \in TombstoneChunk(db, c)
  <2>1. PICK c \in Retired(old.chunk, new.chunk) : <<t, id>> \in TombstoneChunk(db, c) BY <1>5
  <2> HIDE DEF old
  <2>2. \/ t = "chunk" /\ id = c
        \/ t = "evidence" /\ \E e \in EvidenceOfChunk(db.baseline, c) \cup EvidenceOfChunk(db.overlay, c) : e.id = id
    <3>1. \/ <<t, id>> \in {<<"chunk", r.id>> : r \in {x \in UNION {s["chunk"] : s \in {db.baseline, db.overlay}} : x.id = c}}
          \/ <<t, id>> \in {<<"evidence", r.id>> : r \in UNION {EvidenceOfChunk(s, c) : s \in {db.baseline, db.overlay}}}
          \/ <<t, id>> \in {<<"vector_ref", r.id>> : r \in UNION {RefsTo(s, {c}) : s \in {db.baseline, db.overlay}}}
      BY <2>1 DEF TombstoneChunk
    <3> QED BY <3>1 DEF Parts
  <2>3. CASE t = "chunk" /\ id = c
    <3>1. q = p BY <1>2, <1>3, <2>1, <2>3 DEF Owner, Objects
    <3> QED BY <2>1, <2>3, <3>1 DEF old
  <2>4. CASE t = "evidence" /\ \E e \in EvidenceOfChunk(db.baseline, c) \cup EvidenceOfChunk(db.overlay, c) : e.id = id
    <3>1. PICK e \in EvidenceOfChunk(db.baseline, c) \cup EvidenceOfChunk(db.overlay, c) : e.id = id BY <2>4
    <3>2. e \in AllRows("evidence") BY <3>1, StoredRow DEF EvidenceOfChunk, Tables
    <3>3. /\ e = Evidence(e.file, e.object, e.chunk) /\ e.object[1] = e.file
          /\ e.chunk # NoChunk => e.chunk[1] = e.file
      BY <3>2, KnownEvidence
    <3>4. e.id = <<"evidence", e.object, e.chunk>> /\ e.about = "entity" BY <3>3, EvidenceParts
    <3>5. e.chunk = c BY <3>1, <3>4 DEF EvidenceOfChunk
    <3>6. c # NoChunk BY <2>1, RetiredIsHidden DEF old
    <3>7. e.object[1] = p BY <1>2, <2>4, <3>1, <3>4 DEF Owner, Objects
    <3>8. q = p BY <1>3, <2>1, <3>3, <3>5, <3>6, <3>7
    <3> QED BY <2>1, <2>4, <3>1, <3>2, <3>5, <3>8 DEF old
  <2> QED BY <2>2, <2>3, <2>4
<1>6. CASE t = "entity" /\ id \in Retired(old.entity, new.entity)
  BY <1>2, <1>4, <1>6 DEF Owner, Objects
<1>7. CASE t = "relation" /\ id \in Retired(old.relation, new.relation)
  <2>1. PICK x \in old.relation : x.id = id BY <1>7 DEF Retired, Ids
  <2>2. q = p BY <1>7, <2>1, OldRelationsAre
  <2> QED BY <1>7, <2>2
<1>8. \/ \E c \in Retired(old.chunk, new.chunk) : <<t, id>> \in TombstoneChunk(db, c)
      \/ t = "entity" /\ id \in Retired(old.entity, new.entity)
      \/ t = "relation" /\ id \in Retired(old.relation, new.relation)
  <2> HIDE DEF old
  <2> QED BY <1>1
<1> QED BY <1>5, <1>6, <1>7, <1>8

\* Rows and marks of an item.
LEMMA ItemIs ==
  ASSUME NEW q \in Paths, NEW i, i = ApplyItem(db, q), NEW C, C = CollectedWith(run.plan)
  PROVE  /\ run.plan[q] = Missing =>
              /\ i.rows = NoRows
              /\ i.tombstones = (IF KnowsFile(db, q) THEN TombstoneFile(db, q) ELSE {})
              /\ i.successors = [t \in Tables |-> {}]
         /\ run.plan[q] # Missing =>
              /\ \A t \in Parts : i.rows[t] = Bundle(q, run.plan[q], C)[t]
              /\ KnowsFile(db, q) =>
                   /\ i.tombstones = MarkStale(db, LiveBundle(db, q), Bundle(q, run.plan[q], C)).tombstones
                   /\ i.successors = MarkStale(db, LiveBundle(db, q), Bundle(q, run.plan[q], C)).successors
              /\ ~KnowsFile(db, q) => i.tombstones = {} /\ i.successors = [t \in Tables |-> {}]
<1>1. CASE run.plan[q] = Missing
  <2> DEFINE T == TombstoneFile(db, q)
  <2>1. i = IF KnowsFile(db, q) THEN [NoWrites EXCEPT !.tombstones = T] ELSE NoWrites
    BY <1>1 DEF ApplyItem, TombstonePath
  <2> HIDE DEF T
  <2>2. /\ i.rows = NoRows /\ i.tombstones = (IF KnowsFile(db, q) THEN T ELSE {})
        /\ i.successors = [t \in Tables |-> {}]
    BY <2>1 DEF NoWrites
  <2> QED BY <1>1, <2>2 DEF T
<1>2. CASE run.plan[q] # Missing
  <2> DEFINE new == Bundle(q, run.plan[q], C)
             m == MarkStale(db, LiveBundle(db, q), new)
             marks == IF KnowsFile(db, q) THEN m ELSE NoWrites
             rows == [t \in Tables |-> IF t \in DOMAIN new THEN new[t] ELSE {}]
  <2>1. i = [marks EXCEPT !.rows = rows] BY <1>2 DEF ApplyItem, ApplyBundle
  <2>2. marks = [rows |-> marks.rows, tombstones |-> marks.tombstones, successors |-> marks.successors]
    BY DEF MarkStale, NoWrites
  <2>3. i.rows = rows /\ i.tombstones = marks.tombstones /\ i.successors = marks.successors
    <3> HIDE DEF marks, rows
    <3> QED BY <2>1, <2>2
  <2>4. \A t \in Parts : rows[t] = new[t]
    <3>1. DOMAIN new = Parts BY DEF Bundle, Parts, Tables
    <3> HIDE DEF new
    <3> QED BY <3>1 DEF Parts
  <2>5. KnowsFile(db, q) => i.tombstones = m.tombstones /\ i.successors = m.successors BY <2>3
  <2>6. ~KnowsFile(db, q) => i.tombstones = {} /\ i.successors = [t \in Tables |-> {}]
    <3> HIDE DEF m
    <3> QED BY <2>3 DEF NoWrites
  <2> HIDE DEF m, rows
  <2> QED BY <1>2, <2>3, <2>4, <2>5, <2>6 DEF m
<1> QED BY <1>1, <1>2

\* An item writes nothing of another path.
LEMMA OthersAreLeft ==
  ASSUME TypedStore, ReplacedIsHidden, NEW p \in Paths, NEW q \in Paths, q # p, NEW i, i = ApplyItem(db, q),
         NEW t \in Parts, NEW id \in Ids(AnyContent(p, t))
  PROVE  /\ id \notin Ids(i.rows[t]) /\ <<t, id>> \notin i.tombstones
         /\ t = "relation" => \A s \in i.successors[t] : s[1] # id
<1> DEFINE C == CollectedWith(run.plan)
           new == Bundle(q, run.plan[q], C)
<1>1. CASE run.plan[q] = Missing
  <2>1. i.rows = NoRows /\ i.successors = [u \in Tables |-> {}]
        /\ i.tombstones = (IF KnowsFile(db, q) THEN TombstoneFile(db, q) ELSE {})
    BY <1>1, ItemIs
  <2>2. <<t, id>> \notin TombstoneFile(db, q) BY FileMarksAreOwn
  <2>3. t \in Tables BY DEF Parts
  <2> QED BY <2>1, <2>2, <2>3 DEF NoRows, Ids
<1>2. CASE run.plan[q] # Missing
  <2>1. i.rows[t] = new[t] BY <1>2, ItemIs
  <2>2. id \notin Ids(new[t])
    <3> SUFFICES ASSUME NEW r \in new[t], r.id = id PROVE FALSE BY DEF Ids
    <3> QED BY BundleOwn
  <2> HIDE DEF new
  <2>3. CASE KnowsFile(db, q)
    <3> DEFINE m == MarkStale(db, LiveBundle(db, q), new)
    <3>1. i.tombstones = m.tombstones /\ i.successors = m.successors BY <1>2, <2>3, ItemIs DEF new
    <3>2. <<t, id>> \notin m.tombstones BY ChangeMarksAre
    <3>3. \A s \in m.successors["relation"] : \E x \in LiveBundle(db, q).relation : s[1] = x.id BY MarksAre
    <3> HIDE DEF m
    <3>4. t = "relation" => \A s \in i.successors[t] : s[1] # id BY <3>1, <3>3, OldRelationsAre
    <3> QED BY <2>1, <2>2, <3>1, <3>2, <3>4
  <2>4. CASE ~KnowsFile(db, q)
    <3>1. i.tombstones = {} /\ i.successors = [u \in Tables |-> {}] BY <1>2, <2>4, ItemIs
    <3>2. t \in Tables BY DEF Parts
    <3> QED BY <2>1, <2>2, <3>1, <3>2
  <2> QED BY <2>3, <2>4
<1> QED BY <1>1, <1>2

-----------------------------------------------------------------------------
(* What an item of a batch writes of its own path.                         *)

LEMMA FileIsKnown ==
  ASSUME TypedStore, NEW p \in Paths
  PROVE  /\ \A v \in Revisions : Holds(p, v) => KnowsFile(db, p)
         /\ Lacks(p) => ~KnowsFile(db, p)
<1>0. "file" \in Parts BY DEF Parts, Tables
<1>1. ASSUME NEW v \in Revisions, Holds(p, v) PROVE KnowsFile(db, p)
  <2>1. [id |-> p, text |-> v] \in Content(p, v)["file"] BY ContentIs DEF FileRows
  <2>2. [id |-> p, text |-> v] \in Shadowed(db, "file") BY <1>0, <1>1, <2>1 DEF Holds
  <2>3. [id |-> p, text |-> v].id \in Ids(Shadowed(db, "file")) BY <2>2 DEF Ids
  <2> QED BY <2>3 DEF KnowsFile
<1>2. ASSUME Lacks(p), KnowsFile(db, p) PROVE FALSE
  <2>1. PICK r \in Shadowed(db, "file") : r.id = p BY <1>2 DEF KnowsFile, Ids
  <2>2. r \in AllRows("file") BY StoredRow DEF Shadowed, Tables
  <2>3. Owner("file", r.id) = p BY <2>1 DEF Owner
  <2>4. r \in AnyContent(p, "file") BY <1>0, <2>2, <2>3, WhatIsOwned
  <2> QED BY <1>0, <1>2, <2>1, <2>4 DEF Lacks
<1> QED BY <1>1, <1>2

\* What is read back of a path is its content.
LEMMA OldContentIs ==
  ASSUME TypedStore, ReplacedIsHidden, NEW p \in Paths, NEW v \in Revisions, Holds(p, v)
  PROVE  /\ LiveBundle(db, p).chunk = Content(p, v)["chunk"]
         /\ LiveBundle(db, p).entity = Content(p, v)["entity"]
         /\ Content(p, v)["relation"] \subseteq LiveBundle(db, p).relation
         /\ \A x \in LiveBundle(db, p).relation : x.id \in Ids(AnyContent(p, "relation")) =>
              x.type = "defines" /\ x.id \in Ids(Content(p, v)["relation"])
<1>0. "relation" \in Parts BY DEF Parts, Tables
<1>1. LiveBundle(db, p).chunk = {i.row : i \in {x \in LogicalObjects(db, "chunk") : x.row.file = p}}
      /\ LiveBundle(db, p).entity = {i.row : i \in {x \in LogicalObjects(db, "entity") : x.row.file = p}}
  BY DEF LiveBundle
<1>2. LiveBundle(db, p).chunk = Content(p, v)["chunk"] /\ LiveBundle(db, p).entity = Content(p, v)["entity"]
  BY <1>1, ObjectsHeld DEF Objects
<1>3. ASSUME NEW r \in Content(p, v)["relation"] PROVE r \in LiveBundle(db, p).relation
  <2>1. r.src \in Ids(LiveBundle(db, p).entity) BY <1>2, DefinesNames
  <2>2. PICK i \in LogicalRelations(db) : i.row = r BY DefinesHeld
  <2> QED BY <2>1, <2>2 DEF LiveBundle
<1>4. ASSUME NEW x \in LiveBundle(db, p).relation, x.id \in Ids(AnyContent(p, "relation"))
      PROVE  x.type = "defines" /\ x.id \in Ids(Content(p, v)["relation"])
  <2>1. PICK r \in Shadowed(db, "relation") \cap AnyContent(p, "relation") :
          r.id = x.id /\ <<"relation", r.id>> \notin db.tombstone
    BY <1>4, OldRelationsAre
  <2>2. r \in Content(p, v)["relation"] BY <1>0, <2>1 DEF Holds
  <2> QED BY <1>4, <2>1, <2>2, OldRelationsAre DEF Ids
<1> QED BY <1>2, <1>3, <1>4

\* A content defines at most one thing.
LEMMA OneDefined ==
  ASSUME NEW p \in Paths, NEW v, NEW a \in Content(p, v)["relation"], NEW b \in Content(p, v)["relation"]
  PROVE  a = b
<1>1. a \in Defines(p, v) /\ b \in Defines(p, v) BY ContentIs
<1>2. Kinds(p) BY KindsDiffer
<1>3. \A l, m \in Symbol(v) : l = m BY DEF Symbol
<1>4. CASE p \in Makefiles
  <2>1. \A r \in Defines(p, v) : r = Relation("defines", <<p, "File">>, <<p, "Module">>)
    BY <1>2, <1>4, DefinesAre DEF Kinds
  <2> QED BY <1>1, <2>1
<1>5. CASE p \notin Makefiles
  <2>1. PICK l \in Symbol(v) : a = Relation("defines", <<p, "File">>, <<p, "Symbol", l>>)
    BY <1>1, <1>5, DefinesAre
  <2>2. PICK m \in Symbol(v) : b = Relation("defines", <<p, "File">>, <<p, "Symbol", m>>)
    BY <1>1, <1>5, DefinesAre
  <2> QED BY <1>3, <2>1, <2>2
<1> QED BY <1>4, <1>5

\* A change hides and replaces nothing of the new content, nor of a later one.
LEMMA ChangeLeavesFree ==
  ASSUME TypedStore, ReplacedIsHidden, LinesDoNotReturn, NEW p \in Paths,
         NEW v \in Revisions, Holds(p, v), NEW w \in Revisions, v <= w, NEW u \in Revisions, w <= u,
         NEW C, NEW m, m = MarkStale(db, LiveBundle(db, p), Bundle(p, w, C)),
         NEW t \in Parts, NEW id \in Ids(Content(p, u)[t])
  PROVE  /\ <<t, id>> \notin m.tombstones
         /\ t = "relation" => \A s \in m.successors[t] : s[1] # id
<1> DEFINE old == LiveBundle(db, p)
           new == Bundle(p, w, C)
<1>0. "chunk" \in Parts /\ "entity" \in Parts /\ "relation" \in Parts BY DEF Parts, Tables
<1>1. id \in Ids(AnyContent(p, t)) BY DEF AnyContent, Ids
<1>2. new.chunk = Content(p, w)["chunk"] /\ new.entity = Content(p, w)["entity"]
      /\ Content(p, w)["relation"] \subseteq new.relation
  BY <1>0, BundleIs, ContentIs DEF Bundle
<1>3. /\ old.chunk = Content(p, v)["chunk"] /\ old.entity = Content(p, v)["entity"]
      /\ \A x \in old.relation : x.id \in Ids(AnyContent(p, "relation")) =>
           x.type = "defines" /\ x.id \in Ids(Content(p, v)["relation"])
  BY OldContentIs
<1>4. \A k \in Parts : \A x : x \in Ids(Content(p, v)[k]) /\ x \in Ids(Content(p, u)[k]) => x \in Ids(Content(p, w)[k])
  BY NoReturn
<1>5. ASSUME <<t, id>> \in m.tombstones PROVE FALSE
  <2>1. /\ t # "file"
        /\ t = "chunk" => id \in Retired(old.chunk, new.chunk)
        /\ t = "entity" => id \in Retired(old.entity, new.entity)
        /\ t = "relation" => id \in Retired(old.relation, new.relation)
        /\ t = "evidence" => \E e \in AllRows("evidence") : e.id = id /\ e.chunk \in Retired(old.chunk, new.chunk)
    BY <1>1, <1>5, ChangeMarksAre
  <2> HIDE DEF old, new
  <2>2. \A c \in Retired(old.chunk, new.chunk) :
          c \in Ids(Content(p, v)["chunk"]) /\ c \notin Ids(Content(p, w)["chunk"]) /\ c # NoChunk
    BY <1>2, <1>3, RetiredIsHidden DEF Retired, old
  <2>3. CASE t = "chunk" BY <1>0, <1>4, <2>1, <2>2, <2>3
  <2>4. CASE t = "entity" BY <1>0, <1>2, <1>3, <1>4, <2>1, <2>4 DEF Retired
  <2>5. CASE t = "relation"
    <3>1. id \in Ids(old.relation) /\ id \notin Ids(new.relation) BY <2>1, <2>5 DEF Retired
    <3>2. id \in Ids(Content(p, v)["relation"]) BY <1>1, <1>3, <2>5, <3>1 DEF Ids
    <3>3. id \in Ids(Content(p, w)["relation"]) BY <1>0, <1>4, <2>5, <3>2
    <3> QED BY <1>2, <3>1, <3>3 DEF Ids
  <2>6. CASE t = "evidence"
    <3>1. PICK e \in AllRows("evidence") : e.id = id /\ e.chunk \in Retired(old.chunk, new.chunk) BY <2>1, <2>6
    <3>2. PICK x \in Content(p, u)["evidence"] : x.id = id BY <2>6 DEF Ids
    <3>3. x \in AllRows("evidence") BY <2>6, <3>2, ContentIsKnown DEF AnyContent
    <3>4. x = e BY <3>1, <3>2, <3>3, IdsTell
    <3>5. e.chunk \in Ids(Content(p, u)["chunk"]) BY <2>2, <3>1, <3>2, <3>4, EvidenceNames
    <3> QED BY <1>0, <1>4, <2>2, <3>1, <3>5
  <2> QED BY <2>1, <2>3, <2>4, <2>5, <2>6 DEF Parts, Tables
<1>6. ASSUME t = "relation", NEW s \in m.successors[t], s[1] = id PROVE FALSE
  <2> HIDE DEF old, new
  <2>1. PICK a \in old.relation :
          s[1] = a.id /\ \E x \in new.relation : a.type = x.type /\ a.id # x.id
    BY <1>6, MarksAre DEF old, new
  <2>2. a.type = "defines" /\ a.id \in Ids(Content(p, v)["relation"]) BY <1>1, <1>3, <1>6, <2>1
  <2>3. PICK x \in new.relation : a.type = x.type /\ a.id # x.id BY <2>1
  <2>4. x \in Content(p, w)["relation"] BY <1>0, <2>2, <2>3, BundleIs DEF new
  <2>5. id \in Ids(Content(p, w)["relation"]) BY <1>0, <1>4, <1>6, <2>1, <2>2
  <2>6. PICK y \in Content(p, w)["relation"] : y.id = id BY <2>5 DEF Ids
  <2>7. x = y BY <2>4, OneDefined
  <2> QED BY <1>6, <2>1, <2>3, <2>6, <2>7
<1> QED BY <1>5, <1>6

\* What a change leaves out it hides.
LEMMA ChangeHidesTheRest ==
  ASSUME TypedStore, ReplacedIsHidden, NEW p \in Paths,
         NEW v \in Revisions, Holds(p, v), NEW w \in Revisions,
         NEW C, NEW m, m = MarkStale(db, LiveBundle(db, p), Bundle(p, w, C)),
         NEW t \in Parts, NEW r \in Content(p, v)[t], r.id \notin Ids(Content(p, w)[t])
  PROVE  <<t, r.id>> \in m.tombstones
<1> DEFINE old == LiveBundle(db, p)
           new == Bundle(p, w, C)
<1>0. "chunk" \in Parts /\ "relation" \in Parts BY DEF Parts, Tables
<1>1. new.chunk = Content(p, w)["chunk"] /\ new.entity = Content(p, w)["entity"]
  BY ContentIs DEF Bundle
<1>2. /\ old.chunk = Content(p, v)["chunk"] /\ old.entity = Content(p, v)["entity"]
      /\ Content(p, v)["relation"] \subseteq old.relation
  BY OldContentIs
<1>3. m.tombstones = (UNION {TombstoneChunk(db, c) : c \in Retired(old.chunk, new.chunk)})
                     \cup {<<"entity", e>> : e \in Retired(old.entity, new.entity)}
                     \cup {<<"relation", x>> : x \in Retired(old.relation, new.relation)}
  BY MarksAre
<1>4. r.id \in Ids(AnyContent(p, t)) BY DEF AnyContent, Ids
<1>a. \A c \in Retired(old.chunk, new.chunk) : <<"chunk", c>> \in TombstoneChunk(db, c)
  BY RetiredIsHidden
<1>b. t = "relation" => r.id \notin Ids(new.relation)
  <2> SUFFICES ASSUME t = "relation", NEW x \in new.relation, x.id = r.id PROVE FALSE BY DEF Ids
  <2>1. x \in Content(p, w)["relation"] BY <1>0, <1>4, BundleOwn
  <2> QED BY <2>1 DEF Ids
<1>c. r \in Shadowed(db, t) BY DEF Holds
<1>d. \A c \in Retired(old.chunk, new.chunk) : \A e \in EvidenceOfChunk(db.baseline, c) \cup EvidenceOfChunk(db.overlay, c) :
        <<"evidence", e.id>> \in TombstoneChunk(db, c)
  BY DEF TombstoneChunk
<1> HIDE DEF old, new
<1>5. CASE t = "file"
  <2>1. Ids(Content(p, v)["file"]) = Ids(Content(p, w)["file"]) BY IdsAre
  <2>2. r.id \in Ids(Content(p, v)["file"]) BY <1>5 DEF Ids
  <2> QED BY <1>5, <2>1, <2>2
<1>6. CASE t = "chunk"
  <2>1. r.id \in Retired(old.chunk, new.chunk) BY <1>1, <1>2, <1>6 DEF Retired, Ids
  <2> QED BY <1>3, <1>6, <1>a, <2>1
<1>7. CASE t = "entity"
  <2>1. r.id \in Retired(old.entity, new.entity) BY <1>1, <1>2, <1>7 DEF Retired, Ids
  <2> QED BY <1>3, <1>7, <2>1
<1>8. CASE t = "relation"
  <2>1. r.id \in Retired(old.relation, new.relation) BY <1>2, <1>8, <1>b DEF Retired, Ids
  <2> QED BY <1>3, <1>8, <2>1
<1>9. CASE t = "evidence"
  <2>1. r \notin Content(p, w)["evidence"] BY <1>9 DEF Ids
  <2>2. r.chunk # NoChunk /\ r.chunk \notin Ids(Content(p, w)["chunk"]) BY <1>9, <2>1, EvidenceFollows
  <2>3. r.chunk \in Ids(Content(p, v)["chunk"]) BY <1>9, <2>2, EvidenceNames
  <2>4. r.chunk \in Retired(old.chunk, new.chunk) BY <1>1, <1>2, <2>2, <2>3 DEF Retired
  <2>5. r \in EvidenceOfChunk(db.baseline, r.chunk) \cup EvidenceOfChunk(db.overlay, r.chunk)
    BY <1>9, <1>c DEF Shadowed, EvidenceOfChunk
  <2>6. <<"evidence", r.id>> \in TombstoneChunk(db, r.chunk) BY <1>d, <2>4, <2>5
  <2> QED BY <1>3, <1>9, <2>4, <2>6
<1> QED BY <1>5, <1>6, <1>7, <1>8, <1>9 DEF Parts, Tables

-----------------------------------------------------------------------------
(* A commit.                                                               *)

\* What a commit of a batch makes of what is stored of one path.
LEMMA CommitOwn ==
  ASSUME TypedStore, ReplacedIsHidden, NEW batch \in SUBSET Paths,
         CommittedFrom(db', {ApplyItem(db, q) : q \in batch}),
         NEW p \in Paths, NEW t \in Parts, NEW i, i = ApplyItem(db, p)
  PROVE  /\ \A r : r.id \in Ids(AnyContent(p, t)) =>
              (r \in Shadowed(db', t) <=> IF p \in batch /\ r.id \in Ids(i.rows[t])
                                          THEN r \in i.rows[t] ELSE r \in Shadowed(db, t))
         /\ \A id \in Ids(AnyContent(p, t)) :
              /\ <<t, id>> \in db'.tombstone <=> <<t, id>> \in db.tombstone \/ (p \in batch /\ <<t, id>> \in i.tombstones)
              /\ t = "relation" /\ <<t, id>> \in DOMAIN db'.replacement =>
                   \/ <<t, id>> \in DOMAIN db.replacement
                   \/ p \in batch /\ \E s \in i.successors[t] : s[1] = id
<1> DEFINE items == {ApplyItem(db, q) : q \in batch}
           R == UNION {x.rows[t] : x \in items}
<1>1. /\ db' = [baseline |-> db.baseline, overlay |-> db'.overlay,
                tombstone |-> db'.tombstone, replacement |-> db'.replacement]
      /\ db'.overlay = [u \in Tables |-> UpsertRows(db.overlay[u], UNION {x.rows[u] : x \in items})]
      /\ db'.tombstone = db.tombstone \cup UNION {x.tombstones : x \in items}
      /\ \A k \in DOMAIN db'.replacement :
           \/ k \in DOMAIN db.replacement /\ db'.replacement[k] = db.replacement[k]
           \/ \E u \in Tables : \E x \in items : \E s \in x.successors[u] :
                k = <<u, s[1]>> /\ db'.replacement[k] = s[2]
  BY DEF CommittedFrom
<1>2. db'.baseline = db.baseline BY <1>1
<1>3. t \in Tables BY DEF Parts
<1>4. db'.overlay[t] = {r \in db.overlay[t] : r.id \notin Ids(R)} \cup R BY <1>1, <1>3 DEF UpsertRows
<1>5. ASSUME NEW id \in Ids(AnyContent(p, t)), NEW x \in items
      PROVE  \/ x = i /\ p \in batch
             \/ /\ id \notin Ids(x.rows[t]) /\ <<t, id>> \notin x.tombstones
                /\ t = "relation" => \A s \in x.successors[t] : s[1] # id
  <2>1. PICK q \in batch : x = ApplyItem(db, q) OBVIOUS
  <2>2. CASE q = p BY <2>1, <2>2
  <2>3. CASE q # p
    <3> HIDE DEF items
    <3> QED BY <2>1, <2>3, OthersAreLeft
  <2> QED BY <2>2, <2>3
<1>6. p \in batch => i \in items OBVIOUS
<1>7. \A r : r \in R <=> \E x \in items : r \in x.rows[t] OBVIOUS
<1>8. \A x : x \in db'.tombstone <=> x \in db.tombstone \/ \E y \in items : x \in y.tombstones BY <1>1
<1> HIDE DEF items, R
<1>9. \A id \in Ids(AnyContent(p, t)) : id \in Ids(R) <=> p \in batch /\ id \in Ids(i.rows[t])
  <2>1. \A id : id \in Ids(R) <=> \E x \in items : id \in Ids(x.rows[t]) BY <1>7 DEF Ids
  <2> QED BY <1>5, <1>6, <2>1
<1>10. \A r : r.id \in Ids(AnyContent(p, t)) => (r \in R <=> p \in batch /\ r \in i.rows[t])
  <2> SUFFICES ASSUME NEW r, r.id \in Ids(AnyContent(p, t)) PROVE r \in R <=> p \in batch /\ r \in i.rows[t]
    OBVIOUS
  <2>1. \A x : r \in x.rows[t] => r.id \in Ids(x.rows[t]) BY DEF Ids
  <2> QED BY <1>5, <1>6, <1>7, <2>1
<1>11. \A id : id \in Ids(db'.overlay[t]) <=> id \in Ids(db.overlay[t]) \/ id \in Ids(R)
  BY <1>4 DEF Ids
<1>12. ASSUME NEW r, r.id \in Ids(AnyContent(p, t))
       PROVE  r \in Shadowed(db', t) <=> IF p \in batch /\ r.id \in Ids(i.rows[t])
                                         THEN r \in i.rows[t] ELSE r \in Shadowed(db, t)
  <2>1. r \in Shadowed(db', t) <=> r \in db'.overlay[t] \/ (r \in db.baseline[t] /\ r.id \notin Ids(db'.overlay[t]))
    BY <1>2 DEF Shadowed
  <2>2. r \in Shadowed(db, t) <=> r \in db.overlay[t] \/ (r \in db.baseline[t] /\ r.id \notin Ids(db.overlay[t]))
    BY DEF Shadowed
  <2>3. r \in db'.overlay[t] <=> r \in R \/ (r \in db.overlay[t] /\ r.id \notin Ids(R)) BY <1>4
  <2>4. r.id \in Ids(R) <=> p \in batch /\ r.id \in Ids(i.rows[t]) BY <1>9, <1>12
  <2>5. r \in R <=> p \in batch /\ r \in i.rows[t] BY <1>10, <1>12
  <2>6. r \in i.rows[t] => r.id \in Ids(i.rows[t]) BY DEF Ids
  <2>7. r.id \in Ids(db'.overlay[t]) <=> r.id \in Ids(db.overlay[t]) \/ r.id \in Ids(R) BY <1>11
  <2> QED BY <2>1, <2>2, <2>3, <2>4, <2>5, <2>6, <2>7
<1>13. ASSUME NEW id \in Ids(AnyContent(p, t))
       PROVE  /\ <<t, id>> \in db'.tombstone <=> <<t, id>> \in db.tombstone \/ (p \in batch /\ <<t, id>> \in i.tombstones)
              /\ t = "relation" /\ <<t, id>> \in DOMAIN db'.replacement =>
                   \/ <<t, id>> \in DOMAIN db.replacement
                   \/ p \in batch /\ \E s \in i.successors[t] : s[1] = id
  <2>1. <<t, id>> \in db'.tombstone <=> <<t, id>> \in db.tombstone \/ (p \in batch /\ <<t, id>> \in i.tombstones)
    BY <1>5, <1>6, <1>8
  <2>2. ASSUME t = "relation", <<t, id>> \in DOMAIN db'.replacement, <<t, id>> \notin DOMAIN db.replacement
        PROVE  p \in batch /\ \E s \in i.successors[t] : s[1] = id
    <3>1. PICK x \in items : \E s \in x.successors[t] : s[1] = id BY <1>1, <2>2
    <3> QED BY <1>5, <2>2, <3>1
  <2> QED BY <2>1, <2>2
<1> QED BY <1>12, <1>13

LEMMA TombstonesStay ==
  ASSUME NEW items, CommittedFrom(db', items)
  PROVE  db.tombstone \subseteq db'.tombstone
BY DEF CommittedFrom

LEMMA OwnIds ==
  ASSUME NEW p \in Paths, NEW t \in Parts
  PROVE  /\ \A v \in Revisions : \A r \in Content(p, v)[t] : r \in AnyContent(p, t) /\ r.id \in Ids(AnyContent(p, t))
         /\ \A r \in AnyContent(p, t) : r.id \in Ids(AnyContent(p, t))
BY DEF AnyContent, Ids

\* A path that is not in the batch stays as it is.
LEMMA BatchLeavesOthers ==
  ASSUME TypedStore, ReplacedIsHidden, NEW batch \in SUBSET Paths,
         CommittedFrom(db', {ApplyItem(db, q) : q \in batch}),
         NEW p \in Paths, p \notin batch, ws' = ws, run'.plan = run.plan, run'.todo \subseteq run.todo,
         NEW v \in Hashes, PathIs(p, v)
  PROVE  PathIs(p, v)'
<1>1. \A t \in Parts : \A r : r.id \in Ids(AnyContent(p, t)) => (r \in Shadowed(db', t) <=> r \in Shadowed(db, t))
  BY CommitOwn
<1>2. \A t \in Parts : \A id \in Ids(AnyContent(p, t)) :
        /\ <<t, id>> \in db'.tombstone <=> <<t, id>> \in db.tombstone
        /\ t = "relation" /\ <<t, id>> \in DOMAIN db'.replacement => <<t, id>> \in DOMAIN db.replacement
  BY CommitOwn
<1>3. ASSUME NEW u \in Revisions, FreeFrom(p, u) PROVE FreeFrom(p, u)'
  <2> SUFFICES ASSUME NEW w \in Revisions, u <= w, NEW t \in Parts, NEW r \in Content(p, w)[t]
               PROVE  <<t, r.id>> \notin db'.tombstone /\ (t = "relation" => <<t, r.id>> \notin DOMAIN db'.replacement)
    BY DEF FreeFrom, IsFree
  <2>1. <<t, r.id>> \notin db.tombstone /\ (t = "relation" => <<t, r.id>> \notin DOMAIN db.replacement)
    BY <1>3 DEF FreeFrom, IsFree
  <2>2. r.id \in Ids(AnyContent(p, t)) BY OwnIds
  <2> QED BY <1>2, <2>1, <2>2
<1>4. ASSUME v \in Revisions, Holds(p, v) PROVE Holds(p, v)'
  <2>1. \A t \in Parts : Content(p, v)[t] \subseteq Shadowed(db', t)
    <3> SUFFICES ASSUME NEW t \in Parts, NEW r \in Content(p, v)[t] PROVE r \in Shadowed(db', t) OBVIOUS
    <3>1. r \in Shadowed(db, t) /\ r.id \in Ids(AnyContent(p, t)) BY <1>4, OwnIds DEF Holds
    <3> QED BY <1>1, <3>1
  <2>2. \A t \in Parts : \A r \in Shadowed(db', t) \cap AnyContent(p, t) :
          r \in Content(p, v)[t] \/ <<t, r.id>> \in db'.tombstone
    <3> SUFFICES ASSUME NEW t \in Parts, NEW r \in Shadowed(db', t) \cap AnyContent(p, t), r \notin Content(p, v)[t]
                 PROVE  <<t, r.id>> \in db'.tombstone
      OBVIOUS
    <3>1. r.id \in Ids(AnyContent(p, t)) BY OwnIds
    <3>2. r \in Shadowed(db, t) BY <1>1, <3>1
    <3>3. <<t, r.id>> \in db.tombstone BY <1>4, <3>2 DEF Holds
    <3> QED BY <1>2, <3>1, <3>3
  <2>3. FreeFrom(p, v)' BY <1>3, <1>4 DEF Holds
  <2> QED BY <2>1, <2>2, <2>3 DEF Holds
<1>5. ASSUME Lacks(p) PROVE Lacks(p)'
  <2>1. \A t \in Parts : Shadowed(db', t) \cap AnyContent(p, t) = {}
    <3> SUFFICES ASSUME NEW t \in Parts, NEW r \in Shadowed(db', t) \cap AnyContent(p, t) PROVE FALSE OBVIOUS
    <3>1. r.id \in Ids(AnyContent(p, t)) BY OwnIds
    <3>2. r \in Shadowed(db, t) BY <1>1, <3>1
    <3> QED BY <1>5, <3>2 DEF Lacks
  <2>2. FreeFrom(p, 1)' BY <1>3, <1>5, Bound DEF Lacks
  <2> QED BY <2>1, <2>2 DEF Lacks
<1>6. Dropped(p) => Dropped(p)' BY TombstonesStay DEF Dropped
<1>7. CASE v = Missing /\ (Lacks(p) \/ Dropped(p)) BY <1>5, <1>6, <1>7 DEF PathIs
<1>8. CASE v \in Revisions /\ Holds(p, v) /\ v <= ws[p] /\ (p \in run.todo /\ run.plan[p] # Missing => v <= run.plan[p])
  <2>1. Holds(p, v)' /\ v <= ws'[p] /\ (p \in run'.todo /\ run'.plan[p] # Missing => v <= run'.plan[p])
    BY <1>4, <1>8
  <2> QED BY <1>8, <2>1 DEF PathIs
<1> QED BY <1>7, <1>8 DEF PathIs

\* A batch leaves each of its paths with the content that was planned.
LEMMA BatchWritesPlanned ==
  ASSUME StoreInv, PlanIsOfWorkspace, LinesDoNotReturn, NEW batch \in SUBSET run.todo,
         CommittedFrom(db', {ApplyItem(db, q) : q \in batch}),
         NEW p \in batch, ws' = ws, run'.plan = run.plan, p \notin run'.todo,
         NEW v \in Hashes, PathIs(p, v)
  PROVE  PathIs(p, run.plan[p])'
<1>a. batch \in SUBSET Paths BY DEF StoreInv, TypedRun
<1> DEFINE w == run.plan[p]
           C == CollectedWith(run.plan)
           new == Bundle(p, w, C)
           i == ApplyItem(db, p)
<1>1. TypedStore /\ ReplacedIsHidden /\ batch \in SUBSET Paths /\ p \in Paths /\ w \in Hashes
  BY DEF StoreInv, TypedRun
<1>2. \A t \in Parts : \A r : r.id \in Ids(AnyContent(p, t)) =>
        (r \in Shadowed(db', t) <=> IF r.id \in Ids(i.rows[t]) THEN r \in i.rows[t] ELSE r \in Shadowed(db, t))
  <2> TAKE t \in Parts
  <2>1. \A r : r.id \in Ids(AnyContent(p, t)) =>
              (r \in Shadowed(db', t) <=> IF p \in batch /\ r.id \in Ids(i.rows[t])
                                          THEN r \in i.rows[t] ELSE r \in Shadowed(db, t))
    BY <1>1, CommitOwn
  <2> HIDE DEF i
  <2> QED BY <2>1
<1>3. ASSUME NEW t \in Parts
      PROVE  \A id \in Ids(AnyContent(p, t)) :
        /\ <<t, id>> \in db'.tombstone <=> <<t, id>> \in db.tombstone \/ <<t, id>> \in i.tombstones
        /\ t = "relation" /\ <<t, id>> \in DOMAIN db'.replacement =>
             <<t, id>> \in DOMAIN db.replacement \/ \E s \in i.successors[t] : s[1] = id
  <2>1. \A id \in Ids(AnyContent(p, t)) :
              /\ <<t, id>> \in db'.tombstone <=> <<t, id>> \in db.tombstone \/ (p \in batch /\ <<t, id>> \in i.tombstones)
              /\ t = "relation" /\ <<t, id>> \in DOMAIN db'.replacement =>
                   \/ <<t, id>> \in DOMAIN db.replacement
                   \/ p \in batch /\ \E s \in i.successors[t] : s[1] = id
    BY <1>1, CommitOwn
  <2> HIDE DEF i
  <2> QED BY <2>1
<1>4. CASE w = Missing
  <2>1. /\ i.rows = NoRows /\ i.tombstones = (IF KnowsFile(db, p) THEN TombstoneFile(db, p) ELSE {})
        /\ i.successors = [t \in Tables |-> {}]
    BY <1>1, <1>4, ItemIs
  <2>2. ws[p] = Gone BY <1>1, <1>4 DEF PlanIsOfWorkspace
  <2>3. CASE <<"file", p>> \in db'.tombstone
    BY <1>1, <1>4, <2>2, <2>3 DEF PathIs, Dropped
  <2>4. CASE <<"file", p>> \notin db'.tombstone
    <3>1. ~Dropped(p) BY <2>4, TombstonesStay DEF Dropped
    <3>2. ~KnowsFile(db, p)
      <4> SUFFICES ASSUME KnowsFile(db, p) PROVE <<"file", p>> \in db'.tombstone BY <2>4
      <4>1. <<"file", p>> \in TombstoneFile(db, p) BY <1>1, FileIsHidden
      <4>2. i \in {ApplyItem(db, q) : q \in batch} OBVIOUS
      <4> HIDE DEF i
      <4> QED BY <2>1, <4>1, <4>2 DEF CommittedFrom
    <3>3. Lacks(p) BY <1>1, <3>1, <3>2, FileIsKnown DEF PathIs
    <3>4. \A t \in Parts : Ids(i.rows[t]) = {} BY <2>1 DEF NoRows, Ids, Parts
    <3>5. \A t \in Parts : Shadowed(db', t) \cap AnyContent(p, t) = {}
      <4> SUFFICES ASSUME NEW t \in Parts, NEW r \in Shadowed(db', t) \cap AnyContent(p, t) PROVE FALSE OBVIOUS
      <4> HIDE DEF i
      <4>1. r.id \in Ids(AnyContent(p, t)) BY <1>1, OwnIds
      <4>2. r \in Shadowed(db, t) BY <1>2, <3>4, <4>1
      <4> QED BY <3>3, <4>2 DEF Lacks
    <3>6. FreeFrom(p, 1)'
      <4> SUFFICES ASSUME NEW u \in Revisions, 1 <= u, NEW t \in Parts, NEW r \in Content(p, u)[t]
                   PROVE  <<t, r.id>> \notin db'.tombstone /\ (t = "relation" => <<t, r.id>> \notin DOMAIN db'.replacement)
        BY DEF FreeFrom, IsFree
      <4>1. <<t, r.id>> \notin db.tombstone /\ (t = "relation" => <<t, r.id>> \notin DOMAIN db.replacement)
        BY <3>3 DEF Lacks, FreeFrom, IsFree
      <4>2. r.id \in Ids(AnyContent(p, t)) BY <1>1, OwnIds
      <4>3. i.tombstones = {} /\ i.successors[t] = {} BY <2>1, <3>2 DEF Parts
      <4> HIDE DEF i
      <4> QED BY <1>3, <4>1, <4>2, <4>3
    <3> QED BY <1>4, <3>5, <3>6 DEF PathIs, Lacks
  <2> QED BY <2>3, <2>4
<1>5. CASE w # Missing
  <2>1. w \in Revisions /\ w <= ws[p] BY <1>1, <1>5, Bound DEF PlanIsOfWorkspace
  <2>2. /\ \A t \in Parts : i.rows[t] = new[t]
        /\ KnowsFile(db, p) =>
             /\ i.tombstones = MarkStale(db, LiveBundle(db, p), new).tombstones
             /\ i.successors = MarkStale(db, LiveBundle(db, p), new).successors
        /\ ~KnowsFile(db, p) => i.tombstones = {} /\ i.successors = [t \in Tables |-> {}]
    BY <1>1, <1>5, ItemIs
  <2>3. \A t \in Parts : \A r : r.id \in Ids(AnyContent(p, t)) => (r \in i.rows[t] <=> r \in Content(p, w)[t])
    BY <1>1, <2>2, BundleOwn, BundleIs
  <2>4. \A t \in Parts : \A id \in Ids(AnyContent(p, t)) : id \in Ids(i.rows[t]) <=> id \in Ids(Content(p, w)[t])
    BY <2>3 DEF Ids
  <2> HIDE DEF i
  <2> SUFFICES Holds(p, w)' BY <1>1, <2>1 DEF PathIs
  <2>5. \A t \in Parts : Content(p, w)[t] \subseteq Shadowed(db', t)
    <3> SUFFICES ASSUME NEW t \in Parts, NEW r \in Content(p, w)[t] PROVE r \in Shadowed(db', t) OBVIOUS
    <3>1. r.id \in Ids(AnyContent(p, t)) /\ r.id \in Ids(Content(p, w)[t]) BY <1>1, <2>1, OwnIds DEF Ids
    <3> QED BY <1>2, <2>3, <2>4, <3>1
  <2>6. ASSUME \A t \in Parts : \A r \in Shadowed(db, t) \cap AnyContent(p, t) :
                 r.id \in Ids(Content(p, w)[t]) \/ <<t, r.id>> \in db'.tombstone,
               \A u \in Revisions : w <= u => \A t \in Parts : \A r \in Content(p, u)[t] :
                 IsFree(t, r.id) /\ <<t, r.id>> \notin i.tombstones /\ (t = "relation" => \A s \in i.successors[t] : s[1] # r.id)
        PROVE  Holds(p, w)'
    <3>1. \A t \in Parts : \A r \in Shadowed(db', t) \cap AnyContent(p, t) :
            r \in Content(p, w)[t] \/ <<t, r.id>> \in db'.tombstone
      <4> SUFFICES ASSUME NEW t \in Parts, NEW r \in Shadowed(db', t) \cap AnyContent(p, t), r \notin Content(p, w)[t]
                   PROVE  <<t, r.id>> \in db'.tombstone
        OBVIOUS
      <4>1. r.id \in Ids(AnyContent(p, t)) BY <1>1, OwnIds
      <4>2. r.id \notin Ids(Content(p, w)[t]) /\ r \in Shadowed(db, t) BY <1>2, <2>3, <2>4, <4>1
      <4> QED BY <2>6, <4>2
    <3>2. FreeFrom(p, w)'
      <4> SUFFICES ASSUME NEW u \in Revisions, w <= u, NEW t \in Parts, NEW r \in Content(p, u)[t]
                   PROVE  <<t, r.id>> \notin db'.tombstone /\ (t = "relation" => <<t, r.id>> \notin DOMAIN db'.replacement)
        BY DEF FreeFrom, IsFree
      <4>1. r.id \in Ids(AnyContent(p, t)) BY <1>1, OwnIds
      <4> QED BY <1>3, <2>6, <4>1 DEF IsFree
    <3> QED BY <2>5, <3>1, <3>2 DEF Holds
  <2>7. CASE Lacks(p)
    <3>1. ~KnowsFile(db, p) BY <1>1, <2>7, FileIsKnown
    <3>2. i.tombstones = {} /\ \A t \in Parts : i.successors[t] = {} BY <2>2, <3>1 DEF Parts
    <3>3. \A u \in Revisions : \A t \in Parts : \A r \in Content(p, u)[t] : IsFree(t, r.id)
      <4>1. \A u \in Revisions : 1 <= u BY DEF Revisions
      <4> QED BY <2>7, <4>1 DEF Lacks, FreeFrom
    <3>4. \A t \in Parts : Shadowed(db, t) \cap AnyContent(p, t) = {} BY <2>7 DEF Lacks
    <3> QED BY <2>6, <3>2, <3>3, <3>4
  <2>8. ASSUME v \in Revisions, Holds(p, v), v <= w PROVE Holds(p, w)'
    <3>1. KnowsFile(db, p) BY <1>1, <2>8, FileIsKnown
    <3> DEFINE m == MarkStale(db, LiveBundle(db, p), new)
    <3>2. i.tombstones = m.tombstones /\ i.successors = m.successors BY <2>2, <3>1
    <3>3. \A u \in Revisions : w <= u => \A t \in Parts : \A id \in Ids(Content(p, u)[t]) :
            <<t, id>> \notin m.tombstones /\ (t = "relation" => \A s \in m.successors[t] : s[1] # id)
      BY <1>1, <2>1, <2>8, ChangeLeavesFree
    <3>4. \A t \in Parts : \A r \in Content(p, v)[t] : r.id \notin Ids(Content(p, w)[t]) => <<t, r.id>> \in m.tombstones
      BY <1>1, <2>1, <2>8, ChangeHidesTheRest
    <3> HIDE DEF m
    <3>5. \A t \in Parts : \A r \in Shadowed(db, t) \cap AnyContent(p, t) :
            r.id \in Ids(Content(p, w)[t]) \/ <<t, r.id>> \in db'.tombstone
      <4> SUFFICES ASSUME NEW t \in Parts, NEW r \in Shadowed(db, t) \cap AnyContent(p, t),
                          r.id \notin Ids(Content(p, w)[t])
                   PROVE  <<t, r.id>> \in db'.tombstone
        OBVIOUS
      <4>1. r.id \in Ids(AnyContent(p, t)) BY <1>1, OwnIds
      <4>2. r \in Content(p, v)[t] \/ <<t, r.id>> \in db.tombstone BY <2>8 DEF Holds
      <4> QED BY <1>3, <3>2, <3>4, <4>1, <4>2
    <3>6. \A u \in Revisions : w <= u => \A t \in Parts : \A r \in Content(p, u)[t] :
            IsFree(t, r.id) /\ <<t, r.id>> \notin i.tombstones /\ (t = "relation" => \A s \in i.successors[t] : s[1] # r.id)
      <4> SUFFICES ASSUME NEW u \in Revisions, w <= u, NEW t \in Parts, NEW r \in Content(p, u)[t]
                   PROVE  IsFree(t, r.id) /\ <<t, r.id>> \notin i.tombstones
                          /\ (t = "relation" => \A s \in i.successors[t] : s[1] # r.id)
        OBVIOUS
      <4>1. r.id \in Ids(Content(p, u)[t]) BY DEF Ids
      <4>2. v <= u BY <2>1, <2>8, Bound
      <4>3. IsFree(t, r.id) BY <2>8, <4>2 DEF Holds, FreeFrom
      <4> QED BY <3>2, <3>3, <4>1, <4>3
    <3> QED BY <2>6, <3>5, <3>6
  <2>9. ~Dropped(p) BY <1>5 DEF Dropped
  <2>10. p \in run.todo OBVIOUS
  <2> QED BY <1>5, <2>7, <2>8, <2>9, <2>10 DEF PathIs
<1> QED BY <1>4, <1>5

-----------------------------------------------------------------------------
(* The paths stay what they are, or become what was planned.               *)

\* A step that writes no row of a file leaves its content.
LEMMA HeldStays ==
  ASSUME NEW p \in Paths, \A t \in Parts : Shadowed(db', t) = Shadowed(db, t),
         db'.tombstone = db.tombstone, db'.replacement = db.replacement
  PROVE  /\ \A v \in Revisions : Holds(p, v) => Holds(p, v)'
         /\ Lacks(p) => Lacks(p)'
<1>1. \A v \in Revisions : FreeFrom(p, v) => FreeFrom(p, v)' BY DEF FreeFrom, IsFree
<1>2. ASSUME NEW v \in Revisions, Holds(p, v) PROVE Holds(p, v)'
  <2>1. \A t \in Parts : Content(p, v)[t] \subseteq Shadowed(db', t) BY <1>2 DEF Holds
  <2>2. \A t \in Parts : \A r \in Shadowed(db', t) \cap AnyContent(p, t) :
          r \in Content(p, v)[t] \/ <<t, r.id>> \in db'.tombstone
    BY <1>2 DEF Holds
  <2> QED BY <1>1, <1>2, <2>1, <2>2 DEF Holds
<1>3. ASSUME Lacks(p) PROVE Lacks(p)'
  <2>1. \A t \in Parts : Shadowed(db', t) \cap AnyContent(p, t) = {} BY <1>3 DEF Lacks
  <2> QED BY <1>1, <1>3, <2>1, Bound DEF Lacks
<1> QED BY <1>2, <1>3

\* So does one that writes nothing, unless the path goes or is planned anew.
LEMMA PathStays ==
  ASSUME NEW p \in Paths, db' = db, ws[p] <= ws'[p], ws[p] = Gone => ws'[p] = Gone,
         ws[p] = Gone => run'.plan[p] = Missing \/ run'.plan[p] = run.plan[p],
         NEW v \in Hashes, PathIs(p, v), ws[p] \in Nat, ws'[p] \in Nat,
         \/ run'.plan[p] = run.plan[p] /\ run'.todo = run.todo
         \/ v <= run'.plan[p] \/ run'.plan[p] = Missing
  PROVE  PathIs(p, v)'
<1>1. /\ \A u \in Revisions : Holds(p, u) => Holds(p, u)'
      /\ Lacks(p) => Lacks(p)'
  BY HeldStays
<1>2. CASE v = Missing /\ Lacks(p) BY <1>1, <1>2 DEF PathIs
<1>3. CASE v = Missing /\ Dropped(p) BY <1>3 DEF PathIs, Dropped
<1>4. CASE v \in Revisions /\ Holds(p, v) /\ v <= ws[p] /\ (p \in run.todo /\ run.plan[p] # Missing => v <= run.plan[p])
  <2>1. Holds(p, v)' BY <1>1, <1>4
  <2>2. v <= ws'[p] BY <1>4, Bound
  <2>3. p \in run'.todo /\ run'.plan[p] # Missing => v <= run'.plan[p] BY <1>4
  <2> QED BY <1>4, <2>1, <2>2, <2>3 DEF PathIs
<1> QED BY <1>2, <1>3, <1>4 DEF PathIs

\* A run never looks back: what it plans is at least what is there.
LEMMA QuietStep ==
  ASSUME StoreInv, PlanIsOfWorkspace, \A p \in Paths : \E v \in Hashes : PathIs(p, v), "readd" \notin Edits,
         [Next]_vars, ~CommitBatch, ~CommitRefs
  PROVE  /\ PlanIsOfWorkspace' /\ db' = db /\ shown' = shown
         /\ \A p \in Paths : \A v \in Hashes : PathIs(p, v) => PathIs(p, v)'
<1> DEFINE Goal == /\ PlanIsOfWorkspace' /\ db' = db /\ shown' = shown
                   /\ \A p \in Paths : \A v \in Hashes : PathIs(p, v) => PathIs(p, v)'
<1>1. /\ MaxRevision \in Nat \ {0} /\ Gone = MaxRevision + 1 /\ Missing = 0 /\ Hashes = 0..MaxRevision
      /\ ws \in [Paths -> 1..Gone] /\ run.plan \in [Paths -> Hashes] /\ StoreInv'
  BY StoreAssumption, StoreStays DEF Gone, Missing, Hashes, StoreInv, TypedRun
<1>2. ws' \in [Paths -> 1..Gone] /\ run'.plan \in [Paths -> Hashes] BY <1>1 DEF StoreInv, TypedRun, Hashes, Gone
<1>3. ASSUME NEW q \in Edited, Edit(q) PROVE Goal
  <2>1. run' = run /\ db' = db /\ shown' = shown /\ q \in Paths BY <1>3, StoreAssumption DEF Edit
  <2>2. \A p \in Paths : ws[p] <= ws'[p] /\ (ws[p] = Gone => ws'[p] = Gone)
    <3>1. CASE ws[q] < MaxRevision /\ ws' = [ws EXCEPT ![q] = @ + 1] BY <1>1, <2>1, <3>1
    <3>2. CASE ws' = [ws EXCEPT ![q] = Gone] BY <1>1, <2>1, <3>2
    <3> QED BY <1>3, <3>1, <3>2 DEF Edit
  <2>3. PlanIsOfWorkspace'
    <3> SUFFICES ASSUME NEW p \in Paths
                 PROVE  run'.plan[p] <= ws'[p] /\ (p \in run'.todo /\ run'.plan[p] = Missing => ws'[p] = Gone)
      BY DEF PlanIsOfWorkspace
    <3>1. run.plan[p] <= ws[p] /\ (p \in run.todo /\ run.plan[p] = Missing => ws[p] = Gone) BY DEF PlanIsOfWorkspace
    <3> QED BY <1>1, <1>2, <2>1, <2>2, <3>1
  <2>4. ASSUME NEW p \in Paths, NEW v \in Hashes, PathIs(p, v) PROVE PathIs(p, v)'
    <3>1. ws[p] \in Nat /\ ws'[p] \in Nat BY <1>1, <1>2
    <3> QED BY <2>1, <2>2, <2>4, <3>1, PathStays
  <2> QED BY <2>1, <2>3, <2>4
<1>4. ASSUME NEW j \in Jobs, StartRun(j) PROVE Goal
  <2>1. /\ run'.plan = Captured /\ run'.todo = Changed(Captured) \cup Deleted(Captured)
        /\ ws' = ws /\ db' = db /\ shown' = shown
    <3> HIDE DEF Captured
    <3> QED BY <1>4 DEF StartRun, IdleRun
  <2>2. \A p \in Paths : /\ ws[p] = Gone => run'.plan[p] = Missing
                         /\ ws[p] # Gone => run'.plan[p] = ws[p]
    BY <2>1 DEF Captured
  <2>3. PlanIsOfWorkspace'
    <3> SUFFICES ASSUME NEW p \in Paths
                 PROVE  run'.plan[p] <= ws'[p] /\ (run'.plan[p] = Missing => ws'[p] = Gone)
      BY DEF PlanIsOfWorkspace
    <3> QED BY <1>1, <2>1, <2>2
  <2>4. ASSUME NEW p \in Paths, NEW v \in Hashes, PathIs(p, v) PROVE PathIs(p, v)'
    <3>1. ws[p] \in Nat /\ ws'[p] \in Nat /\ ws[p] <= ws'[p] BY <1>1, <2>1
    <3>2. v <= run'.plan[p] \/ run'.plan[p] = Missing
      <4>1. v = Missing \/ v <= ws[p] BY <2>4 DEF PathIs
      <4> QED BY <1>1, <1>2, <2>2, <4>1
    <3> QED BY <2>1, <2>2, <2>4, <3>1, <3>2, PathStays
  <2> QED BY <2>1, <2>3, <2>4
<1>5. ASSUME run' = IdleRun, ws' = ws, db' = db, shown' = shown PROVE Goal
  <2>1. \A p \in Paths : run'.plan[p] = Missing BY <1>5 DEF IdleRun, NothingPlanned
  <2>2. run'.todo = {} BY <1>5 DEF IdleRun
  <2>3. PlanIsOfWorkspace' BY <1>1, <1>5, <2>1, <2>2 DEF PlanIsOfWorkspace
  <2>4. ASSUME NEW p \in Paths, NEW v \in Hashes, PathIs(p, v) PROVE PathIs(p, v)'
    <3>1. ws[p] \in Nat /\ ws'[p] \in Nat /\ ws[p] <= ws'[p] BY <1>1, <1>5
    <3> QED BY <1>5, <2>1, <2>4, <3>1, PathStays
  <2> QED BY <1>5, <2>3, <2>4
<1>6. ASSUME run'.plan = run.plan, run'.todo = run.todo, ws' = ws, db' = db, shown' = shown PROVE Goal
  <2>1. PlanIsOfWorkspace' BY <1>6 DEF PlanIsOfWorkspace
  <2>2. ASSUME NEW p \in Paths, NEW v \in Hashes, PathIs(p, v) PROVE PathIs(p, v)'
    <3>1. ws[p] \in Nat /\ ws'[p] \in Nat /\ ws[p] <= ws'[p] BY <1>1, <1>6
    <3> QED BY <1>6, <2>2, <3>1, PathStays
  <2> QED BY <1>6, <2>1, <2>2
<1>7. (\E q \in Edited : Edit(q)) \/ (\E j \in Jobs : StartRun(j))
      \/ (run' = IdleRun /\ ws' = ws /\ db' = db /\ shown' = shown)
      \/ (run'.plan = run.plan /\ run'.todo = run.todo /\ ws' = ws /\ db' = db /\ shown' = shown)
  <2>1. SaveState \/ Crash => run' = IdleRun /\ ws' = ws /\ db' = db /\ shown' = shown BY DEF SaveState, Crash
  <2>2. AppendSegment \/ AppendToManifest \/ RejectRows \/ Flush \/ DeleteSegment \/ EndCompaction \/ UNCHANGED vars
        => run'.plan = run.plan /\ run'.todo = run.todo /\ ws' = ws /\ db' = db /\ shown' = shown
    BY DEF AppendSegment, AppendToManifest, RejectRows, NextVector, Flush, DeleteSegment, EndCompaction, vars,
           StoreInv, TypedRun
  <2> QED BY <2>1, <2>2 DEF Next, RunStep
<1> HIDE DEF Goal
<1>8. Goal BY <1>3, <1>4, <1>5, <1>6, <1>7
<1> QED BY <1>8 DEF Goal

LEMMA BatchCommits ==
  ASSUME StoreInv, CommitBatch
  PROVE  /\ run.plan \in [Paths -> Hashes] /\ ws' = ws /\ run'.plan = run.plan
         /\ \E batch \in SUBSET run.todo :
              /\ batch \subseteq Paths /\ run'.todo = run.todo \ batch
              /\ CommittedFrom(db', {ApplyItem(db, q) : q \in batch})
<1>1. PICK batch \in SUBSET run.todo :
        /\ db' = Commit(db, {ApplyItem(db, p) : p \in batch})
        /\ run' = [run EXCEPT !.todo = @ \ batch, !.pc = IF run.todo = batch THEN "vectors" ELSE @]
  BY Zenon DEF CommitBatch
<1>2. run'.todo = run.todo \ batch /\ run'.plan = run.plan /\ ws' = ws BY <1>1 DEF CommitBatch, StoreInv, TypedRun
<1>3. batch \in SUBSET Paths /\ run.plan \in [Paths -> Hashes] BY DEF StoreInv, TypedRun
<1>4. CommittedFrom(db', {ApplyItem(db, q) : q \in batch})
  <2> DEFINE items == {ApplyItem(db, p) : p \in batch}
  <2> HIDE DEF items
  <2>1. db' = Commit(db, items) BY <1>1 DEF items
  <2>2. CommittedFrom(db', items) BY <2>1, CommittedDb DEF StoreInv
  <2> QED BY <2>2 DEF items
<1> QED BY <1>2, <1>3, <1>4

\* A batch makes of its paths what was planned, and leaves the others.
LEMMA BatchStep ==
  ASSUME StoreInv, PathsInv, LinesDoNotReturn, CommitBatch
  PROVE  /\ PathsInv' /\ run'.plan = run.plan
         /\ \A p \in Paths : \A v \in Hashes : PathIs(p, v) => PathIs(p, v)' \/ PathIs(p, run.plan[p])'
<1>1. PICK batch \in SUBSET run.todo :
        /\ batch \subseteq Paths /\ run'.todo = run.todo \ batch
        /\ CommittedFrom(db', {ApplyItem(db, q) : q \in batch})
  BY BatchCommits
<1>2. /\ run.plan \in [Paths -> Hashes] /\ ws' = ws /\ run'.plan = run.plan
      /\ shown' = ShownIn(db)'
  BY BatchCommits DEF CommitBatch
<1>3. ASSUME NEW p \in Paths, NEW v \in Hashes, PathIs(p, v) PROVE PathIs(p, v)' \/ PathIs(p, run.plan[p])'
  <2>1. CASE p \in batch
    <3>1. PathIs(p, run.plan[p])' BY <1>1, <1>2, <1>3, <2>1, BatchWritesPlanned DEF PathsInv
    <3> QED BY <3>1
  <2>2. CASE p \notin batch
    <3>1. run'.todo \subseteq run.todo /\ TypedStore /\ ReplacedIsHidden BY <1>1 DEF StoreInv
    <3>2. PathIs(p, v)' BY <1>1, <1>2, <1>3, <2>2, <3>1, BatchLeavesOthers
    <3> QED BY <3>2
  <2> QED BY <2>1, <2>2
<1>4. PlanIsOfWorkspace' BY <1>1, <1>2 DEF PathsInv, PlanIsOfWorkspace
<1>5. \A p \in Paths : \E v \in Hashes : PathIs(p, v)'
  <2> SUFFICES ASSUME NEW p \in Paths PROVE \E v \in Hashes : PathIs(p, v)' OBVIOUS
  <2>1. PICK v \in Hashes : PathIs(p, v) BY DEF PathsInv
  <2>2. run'.plan[p] \in Hashes BY <1>2
  <2>3. PathIs(p, v)' \/ PathIs(p, run.plan[p])' BY <1>3, <2>1
  <2> QED BY <2>2, <2>3
<1> QED BY <1>2, <1>3, <1>4, <1>5 DEF PathsInv

\* References are of documents' vectors, and of nothing readers see here.
LEMMA RefsLeaveParts ==
  ASSUME StoreInv, CommitRefs
  PROVE  /\ db'.tombstone = db.tombstone /\ db'.replacement = db.replacement
         /\ \A t \in Parts : Shadowed(db', t) = Shadowed(db, t)
<1> DEFINE new == RefRows(run.doc, run.plan[run.doc])
           O == [db.overlay EXCEPT !["vector_ref"] = UpsertRows(@, new)]
<1>1. db = [baseline |-> db.baseline, overlay |-> db.overlay, tombstone |-> db.tombstone, replacement |-> db.replacement]
      /\ db.overlay = [t \in Tables |-> db.overlay[t]]
  BY DEF StoreInv, TypedStore
<1>2. db' = [db EXCEPT !.overlay["vector_ref"] = UpsertRows(@, new)] BY DEF CommitRefs, Upsert
<1> HIDE DEF new
<1>3. db' = [baseline |-> db.baseline, overlay |-> O, tombstone |-> db.tombstone, replacement |-> db.replacement]
  BY <1>1, <1>2
<1>4. db'.baseline = db.baseline /\ db'.overlay = O /\ db'.tombstone = db.tombstone /\ db'.replacement = db.replacement
  <2> HIDE DEF O
  <2> QED BY <1>3
<1>5. \A t \in Parts : O[t] = db.overlay[t]
  <2>1. DOMAIN db.overlay = Tables BY <1>1
  <2> QED BY <2>1 DEF Parts
<1> HIDE DEF O
<1> QED BY <1>4, <1>5 DEF Shadowed

LEMMA RefsStep ==
  ASSUME StoreInv, PathsInv, CommitRefs
  PROVE  /\ PathsInv' /\ run'.plan = run.plan
         /\ \A p \in Paths : \A v \in Hashes : PathIs(p, v) => PathIs(p, v)'
<1>1. /\ db'.tombstone = db.tombstone /\ db'.replacement = db.replacement
      /\ \A t \in Parts : Shadowed(db', t) = Shadowed(db, t)
  BY RefsLeaveParts
<1>2. run'.todo = run.todo /\ run'.plan = run.plan /\ ws' = ws /\ shown' = ShownIn(db)'
  BY DEF CommitRefs, NextVector, StoreInv, TypedRun
<1>3. ASSUME NEW p \in Paths, NEW v \in Hashes, PathIs(p, v) PROVE PathIs(p, v)'
  <2>1. /\ \A u \in Revisions : Holds(p, u) => Holds(p, u)'
        /\ Lacks(p) => Lacks(p)'
    BY <1>1, HeldStays
  <2>2. Dropped(p) => Dropped(p)' BY <1>1, <1>2 DEF Dropped
  <2>3. CASE v = Missing /\ (Lacks(p) \/ Dropped(p)) BY <2>1, <2>2, <2>3 DEF PathIs
  <2>4. CASE v \in Revisions /\ Holds(p, v) /\ v <= ws[p] /\ (p \in run.todo /\ run.plan[p] # Missing => v <= run.plan[p])
    <3>1. Holds(p, v)' /\ v <= ws'[p] /\ (p \in run'.todo /\ run'.plan[p] # Missing => v <= run'.plan[p])
      BY <1>2, <2>1, <2>4
    <3> QED BY <2>4, <3>1 DEF PathIs
  <2> QED BY <1>3, <2>3, <2>4 DEF PathIs
<1>4. PlanIsOfWorkspace' BY <1>2 DEF PathsInv, PlanIsOfWorkspace
<1> QED BY <1>2, <1>3, <1>4 DEF PathsInv

\* The baseline has the first revision of its paths.
LEMMA PathsStart == ASSUME Init PROVE PathsInv
<1>1. db = [baseline |-> PublishedBaseline, overlay |-> NoRows, tombstone |-> {}, replacement |-> <<>>]
  BY DEF Init, EmptyDb
<1>2. Baseline \subseteq Paths BY StoreAssumption
<1>3. \A t \in Parts : Shadowed(db, t) = UNION {Bundle(q, 1, Baseline)[t] : q \in Baseline}
  <2>1. \A t \in Parts : db.overlay[t] = {} /\ db.baseline[t] = UNION {Bundle(q, 1, Baseline)[t] : q \in Baseline}
    BY <1>1 DEF NoRows, PublishedBaseline, Parts
  <2> QED BY <2>1 DEF Shadowed, Ids
<1>4. \A p \in Paths : FreeFrom(p, 1) BY <1>1 DEF FreeFrom, IsFree
<1>5. ASSUME NEW p \in Paths, NEW t \in Parts, NEW r \in Shadowed(db, t) \cap AnyContent(p, t)
      PROVE  p \in Baseline /\ r \in Content(p, 1)[t]
  <2>1. PICK q \in Baseline : r \in Bundle(q, 1, Baseline)[t] BY <1>3
  <2>2. r.id \in Ids(AnyContent(p, t)) BY DEF Ids
  <2> QED BY <1>2, <2>1, <2>2, BundleOwn
<1>6. ASSUME NEW p \in Baseline PROVE Holds(p, 1)
  <2>1. \A t \in Parts : \A r \in Content(p, 1)[t] : r \in Bundle(p, 1, Baseline)[t] BY <1>2, BundleIs
  <2>2. \A t \in Parts : Content(p, 1)[t] \subseteq Shadowed(db, t) BY <1>3, <2>1
  <2> QED BY <1>2, <1>4, <1>5, <2>2 DEF Holds
<1>7. ASSUME NEW p \in Paths, p \notin Baseline PROVE Lacks(p) BY <1>4, <1>5, <1>7 DEF Lacks
<1>8. ws = [p \in Paths |-> 1] /\ run.todo = {} /\ run.plan = NothingPlanned BY DEF Init, IdleRun
<1>9. PlanIsOfWorkspace BY <1>8 DEF PlanIsOfWorkspace, NothingPlanned, Missing
<1>10. ASSUME NEW p \in Paths PROVE \E v \in Hashes : PathIs(p, v)
  <2>1. CASE p \in Baseline
    <3>1. PathIs(p, 1) BY <1>6, <1>8, <2>1, Bound DEF PathIs
    <3> QED BY <3>1, Bound
  <2>2. CASE p \notin Baseline
    <3>1. PathIs(p, Missing) BY <1>7, <2>2 DEF PathIs
    <3> QED BY <3>1, Bound
  <2> QED BY <2>1, <2>2
<1> QED BY <1>9, <1>10 DEF PathsInv, Init

-----------------------------------------------------------------------------
(* The refinement.                                                         *)

LEMMA PathsStay ==
  ASSUME StoreInv, PathsInv, LinesDoNotReturn, "readd" \notin Edits, [Next]_vars
  PROVE  PathsInv'
<1>1. CASE CommitBatch BY <1>1, BatchStep
<1>2. CASE CommitRefs BY <1>2, RefsStep
<1>3. CASE ~CommitBatch /\ ~CommitRefs
  <2>1. /\ PlanIsOfWorkspace' /\ db' = db /\ shown' = shown
        /\ \A p \in Paths : \A v \in Hashes : PathIs(p, v) => PathIs(p, v)'
    BY <1>3, QuietStep DEF PathsInv
  <2>2. shown' = ShownIn(db)' BY <2>1 DEF PathsInv
  <2> QED BY <2>1, <2>2 DEF PathsInv
<1> QED BY <1>1, <1>2, <1>3

\* What readers see of a path is its content.
PathsAreShown ==
  shown \in [Paths -> Hashes] /\ \A p \in Paths : \A v \in Hashes : PathIs(p, v) => shown[p] = v

LEMMA WhatIsShown == StoreInv /\ PathsInv => PathsAreShown
<1> SUFFICES ASSUME StoreInv, PathsInv PROVE PathsAreShown OBVIOUS
<1>1. shown = ShownIn(db) BY DEF PathsInv
<1>2. \A p \in Paths : \A v \in Hashes : PathIs(p, v) => shown[p] = v BY <1>1, ShownIs
<1>3. \A p \in Paths : shown[p] \in Hashes BY <1>2 DEF PathsInv
<1>4. shown = [p \in Paths |-> shown[p]] BY <1>1 DEF ShownIn
<1> QED BY <1>2, <1>3, <1>4 DEF PathsAreShown

\* A step of the store is a step of the map.
LEMMA CommitIsWhole ==
  ASSUME StoreInv, PathsInv, PathsAreShown', LinesDoNotReturn, "readd" \notin Edits, [Next]_vars,
         StoreInv', PathsAreShown
  PROVE  [Overlay!Next]_<<run.plan, shown>>
<1>1. run'.plan \in [Paths -> Hashes] BY DEF StoreInv, TypedRun
<1>2. DOMAIN shown' = Paths BY DEF PathsAreShown
<1>3. CASE CommitBatch
  <2>1. run'.plan = run.plan BY <1>3, BatchStep
  <2>2. ASSUME NEW p \in Paths PROVE shown'[p] \in {shown[p], run.plan[p]}
    <3>1. PICK v \in Hashes : PathIs(p, v) BY DEF PathsInv
    <3>2. PathIs(p, v)' \/ PathIs(p, run.plan[p])' BY <1>3, <3>1, BatchStep
    <3>3. run'.plan[p] \in Hashes BY DEF StoreInv, TypedRun
    <3>4. shown[p] = v BY <3>1 DEF PathsAreShown
    <3>5. shown'[p] = v \/ shown'[p] = run'.plan[p] BY <3>2, <3>3 DEF PathsAreShown
    <3> QED BY <2>1, <3>4, <3>5
  <2>3. Overlay!Commit BY <1>2, <2>1, <2>2 DEF Overlay!Commit
  <2> QED BY <2>3 DEF Overlay!Next
<1>4. CASE CommitRefs
  <2>1. run'.plan = run.plan BY <1>4, RefsStep
  <2>2. ASSUME NEW p \in Paths PROVE shown'[p] \in {shown[p], run.plan[p]}
    <3>1. PICK v \in Hashes : PathIs(p, v) BY DEF PathsInv
    <3>2. PathIs(p, v)' BY <1>4, <3>1, RefsStep
    <3> QED BY <3>1, <3>2 DEF PathsAreShown
  <2>3. Overlay!Commit BY <1>2, <2>1, <2>2 DEF Overlay!Commit
  <2> QED BY <2>3 DEF Overlay!Next
<1>5. CASE ~CommitBatch /\ ~CommitRefs
  <2>1. shown' = shown BY <1>5, QuietStep DEF PathsInv
  <2> QED BY <1>1, <2>1 DEF Overlay!Next, Overlay!Plan
<1> QED BY <1>3, <1>4, <1>5

LEMMA PathsAreSound ==
  ASSUME "readd" \notin Edits, LinesDoNotReturn
  PROVE  Spec => []PathsInv
<1>1. Init => StoreInv /\ PathsInv BY StoreStarts, PathsStart
<1>2. StoreInv /\ PathsInv /\ [Next]_vars => PathsInv' BY StoreStays, PathsStay
<1> QED BY <1>1, <1>2, StoreIsSound, PTL DEF Spec

\* Whatever runs, crashes and edits did, readers see of each path nothing or
\* exactly one content that a run planned for it, and a commit changes the
\* files of its batch as a whole and no other (_diff_and_mark_stale,
\* _tombstone_deleted_path, _commit_incremental_metadata_batches).  Deleted
\* files stay deleted and a symbol that left a line does not come back to it:
\* a tombstone hides what is written again under the same id.
THEOREM CommitsAreWhole ==
  ASSUME "readd" \notin Edits, LinesDoNotReturn
  PROVE  Spec => RefinesOverlayMap
<1>1. Init => StoreInv /\ PathsInv BY StoreStarts, PathsStart
<1>2. StoreInv /\ PathsInv => PathsAreShown BY WhatIsShown
<1>3. Init => Overlay!Init
  <2>1. Init => run.plan \in [Paths -> Hashes] BY StoreStarts DEF StoreInv, TypedRun
  <2> QED BY <1>1, <1>2, <2>1 DEF Overlay!Init, PathsAreShown
<1>4. /\ StoreInv /\ PathsInv /\ PathsAreShown /\ [Next]_vars
      /\ StoreInv' /\ PathsAreShown'
      => [Overlay!Next]_<<run.plan, shown>>
  BY CommitIsWhole
<1>5. Overlay!Spec <=> Overlay!Init /\ [][Overlay!Next]_<<run.plan, shown>>
  BY DEF Overlay!Spec, Overlay!vars
<1> HIDE DEF Init, PathsAreShown
<1>6. RefinesOverlayMap <=> Overlay!Spec BY DEF RefinesOverlayMap
<1>7. Spec => [](StoreInv /\ PathsInv) BY StoreIsSound, PathsAreSound, PTL
<1>8. Spec => []PathsAreShown BY <1>2, <1>7, PTL
<1>9. Spec => [][Overlay!Next]_<<run.plan, shown>> BY <1>4, <1>7, <1>8, PTL DEF Spec
<1>10. Spec => Overlay!Init BY <1>3, PTL DEF Spec
<1> QED BY <1>5, <1>6, <1>9, <1>10, PTL

(***************************************************************************)
(* What validation finds.                                                  *)
(***************************************************************************)
TombstonesArePairs == \A x \in db.tombstone : x = <<x[1], x[2]>>

\* No replaced objects stand for one another in a circle.
NoLoops ==
  \A s \in SUBSET DOMAIN db.replacement : {<<k[1], db.replacement[k]>> : k \in s} = s => s = {}

\* The files of a relation's endpoints.
Ends(r) == {r.src[1], r.dst[1]}

\* A relation is hidden with the file of either endpoint.
RelationsGoWithFiles ==
  \A r \in Shadowed(db, "relation") : \A q \in Ends(r) :
    <<"file", q>> \in db.tombstone => <<"relation", r.id>> \in db.tombstone

IndexedIsOld ==
  /\ indexed \in [Paths -> Hashes]
  /\ \A p \in Paths : indexed[p] <= ws[p] /\ (run.plan[p] # Missing => indexed[p] <= run.plan[p])

\* The reference to a document's item is at least as new as what is indexed,
\* and as what the run plans once it is done with the document.
RefsKeepUp ==
  \A d \in Docs : \A r \in Shadowed(db, "vector_ref") : r.object = <<d, "item">> =>
    /\ indexed[d] <= r.hash
    /\ run.pc # "idle" /\ ~run.failed /\ d \notin run.vectors => run.plan[d] <= r.hash

\* No vector is newer than the chunk it was made of.
OldIn(base, rows) ==
  \A k \in DOMAIN rows : rows[k] \in Revisions /\ \E c \in base.overlay["chunk"] : c.id = k[2] /\ rows[k] <= c.text

PayloadIsOld ==
  OldIn(db, disk.rows) /\ \A n \in DOMAIN disk.segments : OldIn(db, disk.segments[n])

Phases == run.pc \in {"compact", "save"} => run.vectors = {}

-----------------------------------------------------------------------------
LEMMA NothingLeaks ==
  ASSUME StoreInv, TombstonesArePairs
  PROVE  TombstoneLeaks(db) = {}
<1> DEFINE visible(t) ==
             CASE t \in {"chunk", "entity"} -> Ids(LogicalObjects(db, t)) \cup
                    Ids(UNION {SearchFts(db, t, r.text) : r \in db.overlay[t] \cup db.baseline[t]})
               [] t = "relation" -> Ids(LogicalRelations(db))
               [] t = "evidence" -> Ids(LogicalEvidence(db))
               [] t = "vector_ref" -> Ids(VectorRefs(db))
               [] OTHER -> {}
<1>0. TypedStore /\ ReplacedIsHidden BY DEF StoreInv
<1>1. ASSUME NEW t \in Objects, NEW id \in visible(t) PROVE <<t, id>> \notin db.tombstone
  <2>1. id \in Ids(LogicalObjects(db, t)) \/ \E r \in db.overlay[t] \cup db.baseline[t] : id \in Ids(SearchFts(db, t, r.text))
    BY <1>1 DEF Objects, Ids
  <2>2. id \in Ids(LogicalObjects(db, t)) => id \in LiveIds(db, t) BY <1>0, ItemIsLive DEF Ids
  <2>3. \A v : id \in Ids(SearchFts(db, t, v)) => id \in LiveIds(db, t) BY <1>0, HitsAreShown DEF Ids
  <2> QED BY <1>0, <2>1, <2>2, <2>3, LiveRows
<1>2. ASSUME NEW id \in visible("relation") PROVE <<"relation", id>> \notin db.tombstone
  <2>1. PICK i \in LogicalRelations(db) : i.id = id BY <1>2 DEF Ids
  <2>2. PICK r : RelationShown(db, r) /\ \E x, source : i = Item(r.id, x, source) BY <2>1 DEF LogicalRelations
  <2>3. i.id = r.id BY <2>2 DEF Item
  <2> QED BY <2>1, <2>2, <2>3 DEF RelationShown, IsTombstoned
<1>3. ASSUME NEW id \in visible("evidence") PROVE <<"evidence", id>> \notin db.tombstone
  <2>1. PICK i \in LogicalEvidence(db) : i.id = id BY <1>3 DEF Ids
  <2> QED BY <1>0, <2>1, EvidenceIsLive DEF EvidenceHidden, IsTombstoned
<1>4. ASSUME NEW id \in visible("vector_ref") PROVE <<"vector_ref", id>> \notin db.tombstone
  BY <1>4 DEF Ids, VectorRefs, IsTombstoned
<1>5. visible("file") = {} OBVIOUS
<1>6. TombstoneLeaks(db) = UNION {{<<"tombstone_leak", t, id>> :
        id \in {o[2] : o \in {x \in db.tombstone : x[1] = t}} \cap visible(t)} : t \in Tables}
  BY DEF TombstoneLeaks
<1> HIDE DEF visible
<1>7. \A t \in Tables : \A id \in visible(t) : <<t, id>> \notin db.tombstone
  BY <1>1, <1>2, <1>3, <1>4, <1>5 DEF Tables, Objects
<1>8. \A t \in Tables : \A x \in db.tombstone : x[1] = t => x[2] \notin visible(t)
  BY <1>7 DEF TombstonesArePairs
<1> QED BY <1>6, <1>8

LEMMA NothingLoops == NoLoops => ReplacementLoops(db) = {}
<1> SUFFICES ASSUME NoLoops, NEW s \in SUBSET DOMAIN db.replacement,
                    {<<k[1], db.replacement[k]>> : k \in s} = s
             PROVE  s = {}
  BY DEF ReplacementLoops
<1> QED BY DEF NoLoops

-----------------------------------------------------------------------------
\* What the view shows of a path makes it one the store has a content of.
LEMMA ShownIsHeld ==
  ASSUME StoreInv, PathsInv, NEW p \in Paths,
         \/ \E i \in LogicalObjects(db, "chunk") : i.row.file = p
         \/ \E i \in LogicalEvidence(db) : i.row.file = p
  PROVE  \E v \in Revisions : Holds(p, v) /\ shown[p] = v
<1>1. PICK v \in Hashes : PathIs(p, v) BY DEF PathsInv
<1>2. shown[p] = v BY <1>1, WhatIsShown DEF PathsAreShown
<1>3. ASSUME v = Missing, Lacks(p) \/ Dropped(p) PROVE FALSE
  <2>1. View(db)[p] = Parted({}, {}, {}, {})
    BY <1>3, NothingIsShown, RenderingIs DEF StoreInv, Lacks, Dropped
  <2>2. View(db)[p].chunk = {} /\ View(db)[p].evidence = {} BY <2>1 DEF Parted
  <2>3. \A a, b, c, d : Parted(a, b, c, d).chunk = a /\ Parted(a, b, c, d).evidence = d BY DEF Parted
  <2> DEFINE chunks == {i.row : i \in {x \in LogicalObjects(db, "chunk") : x.row.file = p}}
             evidence == {i.row : i \in {x \in LogicalEvidence(db) : x.row.file = p}}
  <2>a. PICK b, c : View(db)[p] = Parted(chunks, b, c, evidence) BY ViewIs
  <2>b. \A i \in LogicalObjects(db, "chunk") : i.row.file = p => i.row \in chunks OBVIOUS
  <2>c. \A i \in LogicalEvidence(db) : i.row.file = p => i.row \in evidence OBVIOUS
  <2> HIDE DEF chunks, evidence
  <2>4. chunks = {} /\ evidence = {} BY <2>2, <2>3, <2>a
  <2> QED BY <2>b, <2>c, <2>4
<1> QED BY <1>1, <1>2, <1>3 DEF PathIs

LEMMA NothingDangles ==
  ASSUME StoreInv, PathsInv
  PROVE  DanglingEvidence(db) = {}
<1>0. TypedStore /\ ReplacedIsHidden /\ "file" \in Parts BY DEF StoreInv, Parts, Tables
<1> SUFFICES ASSUME NEW x \in LogicalEvidence(db)
             PROVE  /\ x.row.file \in Ids(Shadowed(db, "file"))
                    /\ x.row.chunk = NoChunk \/ x.row.chunk \in Ids(LogicalObjects(db, "chunk"))
                    /\ x.row.object \in Ids(LogicalObjects(db, "entity"))
  BY DEF DanglingEvidence
<1>1. x.row.file \in Paths BY <1>0, EvidenceIsLive, KnownEvidence
<1> DEFINE p == x.row.file
<1>2. PICK v \in Revisions : Holds(p, v) BY <1>1, ShownIsHeld
<1>3. x.row \in Content(p, v)["evidence"] BY <1>0, <1>1, <1>2, EvidenceHeld
<1>4. /\ x.row.object \in Ids(Content(p, v)["entity"])
      /\ x.row.chunk = NoChunk \/ x.row.chunk \in Ids(Content(p, v)["chunk"])
  BY <1>1, <1>3, EvidenceNames
<1>5. \A t \in Objects : Ids(Content(p, v)[t]) \subseteq Ids(LogicalObjects(db, t))
  <2> SUFFICES ASSUME NEW t \in Objects, NEW r \in Content(p, v)[t] PROVE r.id \in Ids(LogicalObjects(db, t))
    BY DEF Ids
  <2>1. PICK i \in LogicalObjects(db, t) : i.row = r BY <1>0, <1>1, <1>2, ObjectsHeld
  <2>2. i.id = r.id BY <1>0, <2>1, ItemsAre DEF ShowsOwnRow
  <2> QED BY <2>1, <2>2 DEF Ids
<1>6. p \in Ids(Shadowed(db, "file"))
  <2>1. Content(p, v)["file"] \subseteq Shadowed(db, "file") BY <1>0, <1>2 DEF Holds
  <2>2. p \in Ids(Content(p, v)["file"]) BY IdsAre
  <2> QED BY <2>1, <2>2 DEF Ids
<1> QED BY <1>4, <1>5, <1>6 DEF Objects

-----------------------------------------------------------------------------
\* A relation is of the content of one path, or of a module and one of its files.
IsMembership(r) ==
  \E m \in Makefiles, s \in Sources :
    \/ r.src = <<m, "Module">> /\ r.dst = <<s, "File">>
    \/ r.src = <<s, "File">> /\ r.dst = <<m, "Module">>

LEMMA RelationKinds ==
  ASSUME NEW r \in AllRows("relation")
  PROVE  (\E p \in Paths : r \in AnyContent(p, "relation")) \/ IsMembership(r)
<1>1. PICK p \in Paths, v \in Revisions : r \in Bundle(p, v, Paths)["relation"] BY StoredIn DEF Tables
<1>2. r \in RelationRows(p, v, Paths) BY <1>1 DEF Bundle
<1>3. CASE r \in Defines(p, v) BY <1>3, ContentIs DEF AnyContent
<1>4. ASSUME NEW m \in Makefiles, r \in Membership(m, Paths) PROVE IsMembership(r)
  <2>1. PICK s \in Sources : r \in {Relation("contains", <<m, "Module">>, <<s, "File">>),
                                    Relation("belongs_to_module", <<s, "File">>, <<m, "Module">>)}
    BY <1>4 DEF Membership
  <2> QED BY <2>1 DEF Relation, IsMembership
<1> QED BY <1>2, <1>3, <1>4 DEF RelationRows

\* The baseline's files are known.
LEMMA BaselineIsKnown ==
  ASSUME TypedStore, NEW p \in Baseline
  PROVE  KnowsFile(db, p)
<1>1. \E r \in PublishedBaseline["file"] : r.id = p
  <2>1. [id |-> p, text |-> 1] \in Bundle(p, 1, Baseline)["file"] BY DEF Bundle, FileRows
  <2>2. PublishedBaseline["file"] = UNION {b["file"] : b \in {Bundle(q, 1, Baseline) : q \in Baseline}}
    BY DEF PublishedBaseline, Tables
  <2>3. [id |-> p, text |-> 1] \in PublishedBaseline["file"] BY <2>1, <2>2
  <2>4. [id |-> p, text |-> 1].id = p OBVIOUS
  <2> QED BY <2>3, <2>4
<1>2. db.baseline = PublishedBaseline BY DEF TypedStore
<1> QED BY <1>1, <1>2 DEF KnowsFile, Shadowed, Ids

LEMMA EndIsLive ==
  ASSUME StoreInv, PathsInv, NEW q \in Baseline, <<"file", q>> \notin db.tombstone, NEW id,
         \A v \in Revisions : id \in Ids(Content(q, v)["entity"])
  PROVE  id \in LiveIds(db, "entity") /\ Resolve(db, "entity", id) = id
<1>0. TypedStore /\ ReplacedIsHidden /\ q \in Paths BY StoreAssumption DEF StoreInv
<1>1. ~Lacks(q) /\ ~Dropped(q) BY <1>0, BaselineIsKnown, FileIsKnown DEF Dropped
<1>2. PICK v \in Revisions : Holds(q, v) BY <1>0, <1>1 DEF PathsInv, PathIs
<1> QED BY <1>0, <1>2, EntityIsLive

LEMMA NoOrphans ==
  ASSUME StoreInv, PathsInv, RelationsGoWithFiles, CodePaths \subseteq Baseline
  PROVE  OrphanRelations(db) = {}
<1>0. TypedStore /\ ReplacedIsHidden BY DEF StoreInv
<1> SUFFICES ASSUME NEW r \in Shadowed(db, "relation"), RelationShown(db, r)
             PROVE  /\ r.src \in LiveIds(db, "entity") /\ Resolve(db, "entity", r.src) = r.src
                    /\ r.dst \in LiveIds(db, "entity") /\ Resolve(db, "entity", r.dst) = r.dst
  BY DEF OrphanRelations, Endpoints
<1>1. r \in AllRows("relation") BY <1>0, StoredRow DEF Shadowed, Tables
<1>2. \A q \in Ends(r) : <<"file", q>> \notin db.tombstone
  BY DEF RelationsGoWithFiles, RelationShown, IsTombstoned
<1>3. ASSUME NEW p \in Paths, r \in AnyContent(p, "relation")
      PROVE  \E v \in Revisions : Holds(p, v) /\ r \in Content(p, v)["relation"]
  <2>0. "relation" \in Parts BY DEF Parts, Tables
  <2>1. r.src[1] = p BY <1>3, OwnRelationIs
  <2>2. ~Lacks(p) /\ ~Dropped(p) BY <1>2, <1>3, <2>0, <2>1 DEF Lacks, Dropped, Ends
  <2>3. PICK v \in Revisions : Holds(p, v) BY <2>2 DEF PathsInv, PathIs
  <2>4. <<"relation", r.id>> \notin db.tombstone BY DEF RelationShown, IsTombstoned
  <2> QED BY <1>3, <2>0, <2>3, <2>4 DEF Holds
<1>4. CASE \E p \in Paths : r \in AnyContent(p, "relation")
  <2>1. PICK p \in Paths, v \in Revisions : Holds(p, v) /\ r \in Content(p, v)["relation"] BY <1>3, <1>4
  <2>2. r.src \in Ids(Content(p, v)["entity"]) /\ r.dst \in Ids(Content(p, v)["entity"]) BY <2>1, DefinesNames
  <2> QED BY <1>0, <2>1, <2>2, EntityIsLive
<1>5. CASE IsMembership(r)
  <2>1. PICK m \in Makefiles, s \in Sources : \/ r.src = <<m, "Module">> /\ r.dst = <<s, "File">>
                                              \/ r.src = <<s, "File">> /\ r.dst = <<m, "Module">>
    BY <1>5 DEF IsMembership
  <2>2. m \in Baseline /\ s \in Baseline /\ s \notin Makefiles /\ m \notin Sources
    <3>1. m \in CodePaths /\ s \in CodePaths BY DEF CodePaths
    <3> QED BY <3>1, KindsDiffer DEF Kinds
  <2>3. <<"file", m>> \notin db.tombstone /\ <<"file", s>> \notin db.tombstone BY <1>2, <2>1 DEF Ends
  <2>4. \A v \in Revisions : <<m, "Module">> \in EntityIds(m, v) /\ <<s, "File">> \in EntityIds(s, v)
    BY <2>2 DEF EntityIds
  <2>5. \A v \in Revisions : <<m, "Module">> \in Ids(Content(m, v)["entity"]) /\ <<s, "File">> \in Ids(Content(s, v)["entity"])
    BY <2>4, IdsAre
  <2> QED BY <2>1, <2>2, <2>3, <2>5, EndIsLive
<1> QED BY <1>1, <1>4, <1>5, RelationKinds

-----------------------------------------------------------------------------
\* What is loaded is as old as what the files hold.
LEMMA LoadsAreOld ==
  ASSUME TypedFiles(disk), PayloadIsOld
  PROVE  OldIn(db, LoadRows(disk))
<1> SUFFICES ASSUME NEW k \in DOMAIN LoadRows(disk)
             PROVE  LoadRows(disk)[k] \in Revisions /\ \E c \in db.overlay["chunk"] : c.id = k[2] /\ LoadRows(disk)[k] <= c.text
  BY DEF OldIn
<1>1. PICK h : h = LoadRows(disk)[k] OBVIOUS
<1>2. Loads(disk, k, h) BY <1>1 DEF Loads
<1>3. CASE SegmentsWith(disk, k) = {}
  <2>1. k \in DOMAIN disk.rows /\ disk.rows[k] = h BY <1>2, <1>3, LoadsIs
  <2> QED BY <1>1, <2>1 DEF PayloadIsOld, OldIn
<1>4. CASE SegmentsWith(disk, k) # {}
  <2> DEFINE n == Latest(disk, SegmentsWith(disk, k))
  <2>1. disk.segments[n][k] = h BY <1>2, <1>4, LoadsIs
  <2>2. n \in SegmentsWith(disk, k)
    <3>1. SegmentsWith(disk, k) \subseteq DOMAIN disk.segments BY DEF SegmentsWith
    <3>2. IsFiniteSet(SegmentsWith(disk, k)) /\ SegmentsWith(disk, k) \subseteq Names
      BY <3>1, FS_Subset DEF TypedFiles
    <3>3. disk.listed \in Seq(Names) BY DEF TypedFiles
    <3> QED BY <1>4, <3>2, <3>3, LatestIs DEF IsLatest
  <2>3. n \in DOMAIN disk.segments /\ k \in DOMAIN disk.segments[n] BY <2>2 DEF SegmentsWith
  <2> QED BY <1>1, <2>1, <2>3 DEF PayloadIsOld, OldIn
<1> QED BY <1>3, <1>4

\* A reference that counts is to the text that the view shows, once that is
\* what is indexed.
LEMMA RefsAreCurrent ==
  ASSUME StoreInv, PathsInv, RefsKeepUp, shown = indexed, NEW r \in VectorRefs(db)
  PROVE  \E i \in LogicalObjects(db, "chunk") :
           i.id = r.object /\ i.row.text \in Revisions /\ i.row.text <= r.hash /\ r.hash \in Revisions
<1>0. TypedStore /\ ReplacedIsHidden BY DEF StoreInv
<1>1. r \in Shadowed(db, "vector_ref") /\ r.object \in LiveIds(db, "chunk") BY DEF VectorRefs
<1>2. r \in AllRows("vector_ref") BY <1>0, <1>1, StoredRow DEF Shadowed, Tables
<1>3. PICK d \in Docs, w \in Revisions : \E c \in ChunkRows(d, w) : r = [id |-> <<"ref", c.id>>, object |-> c.id, hash |-> w]
  BY <1>2, KnownRef
<1>4. PICK c \in ChunkRows(d, w) : r.object = c.id /\ r.hash = w BY <1>3
<1>5. d \in Paths /\ d \notin Sources BY StoreAssumption DEF Paths, CodePaths
<1>6. IsChunk(d, w, c) BY <1>4, <1>5, ChunkRowsAre
<1>7. PICK i \in LogicalObjects(db, "chunk") : i.id = r.object BY <1>0, <1>1, LiveHasItem DEF Objects, Ids
<1>8. i.row.id = r.object /\ i.row \in AllRows("chunk")
  BY <1>0, <1>7, ItemsAre, StoredRow DEF Objects, ShowsOwnRow, Shadowed, Tables
<1>9. i.row.file = d BY <1>4, <1>6, <1>8, KnownObject DEF IsChunk
<1>10. PICK v \in Revisions : Holds(d, v) /\ indexed[d] = v BY <1>5, <1>9, ShownIsHeld
<1>11. i.row \in Content(d, v)["chunk"] BY <1>0, <1>5, <1>9, <1>10, ObjectsHeld DEF Objects
<1>12. IsChunk(d, v, i.row) BY <1>5, <1>11, ContentIs, ChunkRowsAre
<1>13. i.row.text = v BY <1>12 DEF IsChunk, Row
<1>14. v <= w
  <2>1. CASE r.object = <<d, "item">> BY <1>1, <1>4, <1>10, <2>1 DEF RefsKeepUp
  <2>2. CASE r.object # <<d, "item">>
    <3>1. r.object = <<d, "section", w>> BY <1>4, <1>5, <1>6, <2>2 DEF IsChunk
    <3>2. r.object = <<d, "section", v>> BY <1>5, <1>8, <1>12, <2>2 DEF IsChunk
    <3>3. <<d, "section", w>> = <<d, "section", v>> BY <3>1, <3>2, Zenon
    <3>4. w = v BY <3>3, TriplesDiffer, Zenon
    <3> QED BY <3>4, Bound
  <2> QED BY <2>1, <2>2
<1> QED BY <1>4, <1>7, <1>13, <1>14

LEMMA PayloadsMatch ==
  ASSUME StoreInv, PathsInv, VectorsInv, RefsKeepUp, PayloadIsOld, run.pc = "idle", shown = indexed,
         NEW r \in VectorRefs(db), NEW payload, payload = Merge(BaselineVectors, LoadRows(disk))
  PROVE  r.id \in DOMAIN payload /\ payload[r.id] = r.hash
<1>0. TypedStore /\ ReplacedIsHidden /\ TypedFiles(disk) /\ ChunksAreOnce /\ RefsAreSettled
  BY DEF StoreInv, VectorsInv, TypedDisk
<1>1. PICK i \in LogicalObjects(db, "chunk") :
        i.id = r.object /\ i.row.text \in Revisions /\ i.row.text <= r.hash /\ r.hash \in Revisions
  BY RefsAreCurrent
<1>2. r \in Shadowed(db, "vector_ref") BY DEF VectorRefs
<1>3. CASE r \in db.overlay["vector_ref"]
  <2>1. PICK c \in db.overlay["chunk"] : c.id = r.object /\ r.hash <= c.text /\ (c.text = r.hash => Settled(r.id, r.hash))
    BY <1>0, <1>3 DEF RefsAreSettled
  <2>2. i.row = c BY <1>0, <1>1, <2>1, ShownFromOverlay
  <2>3. c.text = r.hash
    <3>1. c.text \in Nat /\ r.hash \in Nat /\ c.text <= r.hash BY <1>1, <2>2, Bound
    <3> QED BY <2>1, <3>1
  <2>4. Loads(disk, r.id, r.hash) BY <2>1, <2>3 DEF Settled, Writing
  <2> QED BY <2>4 DEF Loads, Merge
<1>4. CASE r \in db.baseline["vector_ref"]
  <2>1. r \in PublishedBaseline["vector_ref"] BY <1>0, <1>4 DEF TypedStore
  <2>2. r.id \in DOMAIN BaselineVectors /\ BaselineVectors[r.id] = 1 BY <2>1 DEF BaselineVectors, Ids
  <2>3. r.hash = 1
    <3>1. PICK p \in Baseline : r \in RefRows(p, 1) BY <2>1 DEF PublishedBaseline, Tables
    <3>2. PICK c \in ChunkRows(p, 1) : r.hash = c.text BY <3>1 DEF RefRows
    <3>3. IsChunk(p, 1, c) BY <3>2, StoreAssumption, ChunkRowsAre
    <3> QED BY <3>2, <3>3 DEF IsChunk, Row
  <2>4. CASE r.id \notin DOMAIN LoadRows(disk) BY <2>2, <2>3, <2>4 DEF Merge
  <2>5. CASE r.id \in DOMAIN LoadRows(disk)
    <3>1. PICK c \in db.overlay["chunk"] : c.id = r.id[2] /\ LoadRows(disk)[r.id] <= c.text
      BY <1>0, <2>5, LoadsAreOld DEF OldIn
    <3>2. LoadRows(disk)[r.id] \in Revisions BY <1>0, <2>5, LoadsAreOld DEF OldIn
    <3>3. r.id[2] = r.object
      <4>1. r \in AllRows("vector_ref") BY <1>0, <1>2, StoredRow DEF Shadowed, Tables
      <4> QED BY <4>1, KnownRef
    <3>4. i.row = c BY <1>0, <1>1, <3>1, <3>3, ShownFromOverlay
    <3>5. LoadRows(disk)[r.id] = 1 BY <1>1, <2>3, <3>1, <3>2, <3>4, Bound DEF Revisions
    <3> QED BY <2>3, <2>5, <3>5 DEF Merge
  <2> QED BY <2>4, <2>5
<1> QED BY <1>2, <1>3, <1>4 DEF Shadowed

RepairInv ==
  TombstonesArePairs /\ NoLoops /\ RelationsGoWithFiles /\ IndexedIsOld /\ RefsKeepUp /\ PayloadIsOld /\ Phases

LEMMA ValidationAgrees ==
  StoreInv /\ PathsInv /\ VectorsInv /\ RepairInv /\ CodePaths \subseteq Baseline => NothingToRepair
<1> SUFFICES ASSUME StoreInv, PathsInv, VectorsInv, RepairInv, CodePaths \subseteq Baseline, run.pc = "idle"
             PROVE  /\ ReportStatus(db, BaselineVectors, disk) # "blocked"
                    /\ shown = indexed => {f[1] : f \in Degrading(db, BaselineVectors, disk)} \subseteq {"vector_payload_orphan"}
  BY DEF NothingToRepair
<1>1. Blocking(db) = {} BY NothingLeaks, NothingLoops DEF RepairInv, Blocking
<1>2. ReportStatus(db, BaselineVectors, disk) # "blocked" BY <1>1 DEF ReportStatus
<1>3. ASSUME shown = indexed, NEW f \in Degrading(db, BaselineVectors, disk)
      PROVE  f[1] = "vector_payload_orphan"
  <2>1. f \in VectorFindings(db, BaselineVectors, disk)
    BY <1>3, NothingDangles, NoOrphans DEF Degrading, RepairInv
  <2> DEFINE payload == Merge(BaselineVectors, LoadRows(disk))
  <2>2. \A r \in VectorRefs(db) : r.id \in DOMAIN payload /\ payload[r.id] = r.hash
    BY <1>3, PayloadsMatch DEF RepairInv
  <2> HIDE DEF payload
  <2>3. VectorFindings(db, BaselineVectors, disk) =
          {<<"vector_ref_missing", "vector_ref", r.id>> : r \in {x \in VectorRefs(db) : x.id \notin DOMAIN payload}} \cup
          {<<"vector_ref_payload_mismatch", "vector_ref", r.id>> :
             r \in {x \in VectorRefs(db) : x.id \in DOMAIN payload /\ payload[x.id] # x.hash}} \cup
          {<<"vector_payload_orphan", "vector_ref", k>> : k \in DOMAIN payload \ Ids(VectorRefs(db))}
    BY DEF VectorFindings, payload
  <2>4. PICK k : f = <<"vector_payload_orphan", "vector_ref", k>> BY <2>1, <2>2, <2>3
  <2> QED BY <2>4
<1> QED BY <1>2, <1>3

-----------------------------------------------------------------------------
(* That it stays so.                                                       *)

LEMMA RepairStarts == ASSUME Init PROVE RepairInv
<1>1. /\ db = [baseline |-> PublishedBaseline, overlay |-> NoRows, tombstone |-> {}, replacement |-> <<>>]
      /\ disk = EmptyDisk /\ run = IdleRun /\ ws = [p \in Paths |-> 1]
      /\ indexed = [p \in Paths |-> IF p \in Baseline THEN 1 ELSE Missing]
  BY DEF Init, EmptyDb
<1>2. run.pc = "idle" /\ \A p \in Paths : run.plan[p] = Missing BY <1>1 DEF IdleRun, NothingPlanned
<1>3. TombstonesArePairs /\ RelationsGoWithFiles BY <1>1 DEF TombstonesArePairs, RelationsGoWithFiles
<1>4. NoLoops
  <2>1. DOMAIN db.replacement = {} BY <1>1
  <2> QED BY <2>1 DEF NoLoops
<1>5. IndexedIsOld /\ \A p \in Paths : indexed[p] <= 1
  <2>1. 1 \in Hashes /\ Missing \in Hashes BY Bound
  <2> QED BY <1>1, <1>2, <2>1 DEF IndexedIsOld, Missing
<1>6. RefsKeepUp
  <2>1. ASSUME NEW r \in Shadowed(db, "vector_ref") PROVE r.hash = 1
    <3>1. r \in PublishedBaseline["vector_ref"] BY <1>1 DEF Shadowed, NoRows, Tables
    <3>2. PICK p \in Baseline : r \in RefRows(p, 1) BY <3>1 DEF PublishedBaseline, Tables
    <3>3. PICK c \in ChunkRows(p, 1) : r.hash = c.text BY <3>2 DEF RefRows
    <3>4. IsChunk(p, 1, c) BY <3>3, StoreAssumption, ChunkRowsAre
    <3> QED BY <3>3, <3>4 DEF IsChunk, Row
  <2>2. \A d \in Docs : d \in Paths BY DEF Paths
  <2> QED BY <1>2, <1>5, <2>1, <2>2 DEF RefsKeepUp
<1>7. PayloadIsOld
  <2>1. disk.rows = <<>> /\ disk.segments = <<>> BY <1>1 DEF EmptyDisk
  <2>2. DOMAIN disk.rows = {} /\ DOMAIN disk.segments = {} BY <2>1
  <2> QED BY <2>2 DEF PayloadIsOld, OldIn
<1>8. Phases BY <1>2 DEF Phases
<1> QED BY <1>3, <1>4, <1>5, <1>6, <1>7, <1>8 DEF RepairInv

LEMMA PhasesStay == ASSUME StoreInv, Phases, [Next]_vars PROVE Phases'
<1> USE DEF Phases
<1>0. TypedRun BY DEF StoreInv
<1>1. ASSUME NEW p \in Edited, Edit(p) PROVE Phases' BY <1>1 DEF Edit
<1>2. ASSUME NEW j \in Jobs, StartRun(j) PROVE Phases' BY <1>2 DEF StartRun, IdleRun
<1>3. CASE CommitBatch BY <1>0, <1>3 DEF CommitBatch, TypedRun
<1>4. CASE AppendSegment BY <1>0, <1>4 DEF AppendSegment, TypedRun
<1>5. CASE AppendToManifest BY <1>0, <1>5 DEF AppendToManifest, TypedRun
<1>6. CASE CommitRefs BY <1>0, <1>6 DEF CommitRefs, NextVector, TypedRun
<1>7. CASE RejectRows BY <1>0, <1>7 DEF RejectRows, NextVector, TypedRun
<1>8. CASE Flush BY <1>0, <1>8 DEF Flush, TypedRun
<1>9. CASE DeleteSegment BY <1>9 DEF DeleteSegment
<1>10. CASE EndCompaction BY <1>0, <1>10 DEF EndCompaction, TypedRun
<1>11. CASE SaveState \/ Crash BY <1>11 DEF SaveState, Crash, IdleRun
<1>12. CASE UNCHANGED vars BY <1>12 DEF vars
<1> QED BY <1>1, <1>2, <1>3, <1>4, <1>5, <1>6, <1>7, <1>8, <1>9, <1>10, <1>11, <1>12 DEF Next, RunStep

\* What is indexed is never ahead of the workspace, nor of what is planned.
LEMMA IndexedStays ==
  ASSUME StoreInv, PathsInv, IndexedIsOld, "readd" \notin Edits, [Next]_vars
  PROVE  IndexedIsOld'
<1>1. /\ MaxRevision \in Nat \ {0} /\ Gone = MaxRevision + 1 /\ Missing = 0 /\ Hashes = 0..MaxRevision
      /\ ws \in [Paths -> 1..Gone] /\ run.plan \in [Paths -> Hashes] /\ TypedRun
  BY StoreAssumption DEF Gone, Missing, Hashes, StoreInv, TypedRun
<1>2. /\ indexed \in [Paths -> Hashes]
      /\ \A p \in Paths : indexed[p] <= ws[p] /\ (run.plan[p] # Missing => indexed[p] <= run.plan[p])
  BY DEF IndexedIsOld
<1>3. ASSUME NEW q \in Edited, Edit(q) PROVE IndexedIsOld'
  <2>1. run' = run /\ indexed' = indexed /\ q \in Paths BY <1>3, StoreAssumption DEF Edit
  <2>2. \A p \in Paths : ws[p] <= ws'[p]
    <3>1. CASE ws[q] < MaxRevision /\ ws' = [ws EXCEPT ![q] = @ + 1] BY <1>1, <2>1, <3>1
    <3>2. CASE ws' = [ws EXCEPT ![q] = Gone] BY <1>1, <2>1, <3>2
    <3> QED BY <1>3, <3>1, <3>2 DEF Edit
  <2>3. ws' \in [Paths -> 1..Gone] BY <1>1, RunStays DEF TypedRun, Gone
  <2> QED BY <1>1, <1>2, <2>1, <2>2, <2>3 DEF IndexedIsOld
<1>4. ASSUME NEW j \in Jobs, StartRun(j) PROVE IndexedIsOld'
  <2>1. run'.plan = Captured /\ ws' = ws /\ indexed' = indexed
    <3> HIDE DEF Captured
    <3> QED BY <1>4 DEF StartRun, IdleRun
  <2>2. \A p \in Paths : run'.plan[p] = Missing \/ run'.plan[p] = ws[p] BY <2>1 DEF Captured
  <2> QED BY <1>2, <2>1, <2>2 DEF IndexedIsOld
<1>5. CASE SaveState
  <2>1. run' = IdleRun /\ ws' = ws /\ indexed' \in {indexed, run.plan} BY <1>5 DEF SaveState
  <2>2. \A p \in Paths : run'.plan[p] = Missing BY <2>1 DEF IdleRun, NothingPlanned
  <2>3. \A p \in Paths : run.plan[p] <= ws[p] BY DEF PathsInv, PlanIsOfWorkspace
  <2> QED BY <1>1, <1>2, <2>1, <2>2, <2>3 DEF IndexedIsOld
<1>6. CASE Crash
  <2>1. run' = IdleRun /\ ws' = ws /\ indexed' = indexed BY <1>6 DEF Crash
  <2>2. \A p \in Paths : run'.plan[p] = Missing BY <2>1 DEF IdleRun, NothingPlanned
  <2> QED BY <1>2, <2>1, <2>2 DEF IndexedIsOld
<1>7. ASSUME run'.plan = run.plan, ws' = ws, indexed' = indexed PROVE IndexedIsOld'
  BY <1>2, <1>7 DEF IndexedIsOld
<1>8. CommitBatch \/ AppendSegment \/ AppendToManifest \/ CommitRefs \/ RejectRows \/ Flush \/ DeleteSegment
      \/ EndCompaction \/ UNCHANGED vars => run'.plan = run.plan /\ ws' = ws /\ indexed' = indexed
  BY <1>1 DEF CommitBatch, AppendSegment, AppendToManifest, CommitRefs, RejectRows, NextVector, Flush,
              DeleteSegment, EndCompaction, vars, TypedRun
<1> QED BY <1>3, <1>4, <1>5, <1>6, <1>7, <1>8 DEF Next, RunStep

\* The steps that leave the rows of the store leave the references behind what
\* was indexed only while their run is not done with them.
LEMMA RefsKeepUpQuietly ==
  ASSUME StoreInv, RefsKeepUp, IndexedIsOld, Phases, db' = db, [Next]_vars, ~CommitBatch, ~CommitRefs
  PROVE  RefsKeepUp'
<1>1. TypedRun /\ Missing = 0 /\ \A d \in Docs : d \in Paths BY DEF StoreInv, Missing, Paths
<1>2. \A r \in Shadowed(db, "vector_ref") : r.hash \in Nat
  <2> SUFFICES ASSUME NEW r \in Shadowed(db, "vector_ref") PROVE r.hash \in Nat OBVIOUS
  <2>1. r \in AllRows("vector_ref") BY StoredRow DEF StoreInv, Shadowed, Tables
  <2>2. PICK v \in Revisions : r.hash = v BY <2>1, KnownRef
  <2> QED BY <2>2, Bound
<1>3. ASSUME indexed' = indexed,
             \/ run'.pc = "idle" \/ run'.failed
             \/ \A d \in Docs : d \notin run'.vectors => run'.plan[d] \in {Missing, indexed[d]}
             \/ run.pc # "idle" /\ ~run.failed /\ run'.vectors = run.vectors /\ run'.plan = run.plan
      PROVE  RefsKeepUp'
  <2>1. indexed \in [Paths -> Hashes] BY DEF IndexedIsOld
  <2>2. \A d \in Docs : indexed[d] \in Nat BY <1>1, <2>1 DEF Hashes
  <2> SUFFICES ASSUME NEW d \in Docs, NEW r \in Shadowed(db, "vector_ref"), r.object = <<d, "item">>
               PROVE  /\ indexed'[d] <= r.hash
                      /\ run'.pc # "idle" /\ ~run'.failed /\ d \notin run'.vectors => run'.plan[d] <= r.hash
    BY DEF RefsKeepUp
  <2>3. indexed[d] <= r.hash /\ (run.pc # "idle" /\ ~run.failed /\ d \notin run.vectors => run.plan[d] <= r.hash)
    BY DEF RefsKeepUp
  <2> QED BY <1>1, <1>2, <1>3, <2>2, <2>3
<1>4. ASSUME NEW p \in Edited, Edit(p) PROVE RefsKeepUp' BY <1>4 DEF Edit, RefsKeepUp
<1>5. ASSUME NEW j \in Jobs, StartRun(j) PROVE RefsKeepUp'
  <2>1. run'.plan = Captured /\ run'.vectors = Changed(Captured) \cap Docs /\ indexed' = indexed
    <3> HIDE DEF Captured
    <3> QED BY <1>5 DEF StartRun, IdleRun
  <2>2. \A d \in Docs : d \notin run'.vectors => run'.plan[d] \in {Missing, indexed[d]}
    <3> HIDE DEF Captured
    <3> QED BY <1>1, <2>1 DEF Changed
  <2> QED BY <1>3, <2>1, <2>2
<1>6. CASE SaveState
  <2>1. run'.pc = "idle" /\ run.pc = "save" /\ indexed' = IF run.failed THEN indexed ELSE run.plan
    BY <1>6 DEF SaveState, IdleRun
  <2>2. CASE run.failed BY <1>3, <2>1, <2>2
  <2>3. CASE ~run.failed
    <3>1. run.vectors = {} BY <2>1 DEF Phases
    <3> QED BY <2>1, <2>3, <3>1 DEF RefsKeepUp
  <2> QED BY <2>2, <2>3
<1>7. CASE Crash BY <1>3, <1>7 DEF Crash, IdleRun
<1>8. CASE RejectRows BY <1>1, <1>3, <1>8 DEF RejectRows, NextVector, TypedRun
<1>9. CASE AppendSegment \/ AppendToManifest \/ Flush \/ DeleteSegment \/ EndCompaction
  <2>1. /\ indexed' = indexed /\ run.pc # "idle" /\ run'.vectors = run.vectors /\ run'.plan = run.plan
        /\ run'.failed = run.failed
    BY <1>1, <1>9 DEF AppendSegment, AppendToManifest, Flush, DeleteSegment, EndCompaction, TypedRun
  <2> QED BY <1>3, <2>1
<1>10. CASE UNCHANGED vars BY <1>10 DEF vars, RefsKeepUp
<1> QED BY <1>4, <1>5, <1>6, <1>7, <1>8, <1>9, <1>10 DEF Next, RunStep

LEMMA RefsKeepUpAfterBatch ==
  ASSUME StoreInv, StoreInv', RefsKeepUp, CommitBatch
  PROVE  RefsKeepUp'
<1>1. PICK batch : BatchIs(batch) BY BatchChunks
<1>2. run'.failed = run.failed /\ indexed' = indexed BY DEF CommitBatch, StoreInv, TypedRun
<1>3. Shadowed(db', "vector_ref") = Shadowed(db, "vector_ref")
  <2>1. db'.baseline = db.baseline BY DEF StoreInv, TypedStore
  <2> QED BY <1>1, <2>1 DEF BatchIs, Shadowed
<1>4. run'.plan = run.plan /\ run'.vectors = run.vectors /\ run.pc # "idle" BY <1>1 DEF BatchIs
<1> QED BY <1>2, <1>3, <1>4 DEF RefsKeepUp

LEMMA RefsKeepUpAfterVector ==
  ASSUME StoreInv, StoreInv', IndexedIsOld, RefsKeepUp, CommitRefs
  PROVE  RefsKeepUp'
<1> DEFINE new == RefRows(run.doc, run.plan[run.doc])
<1>1. /\ run.pc = "refs" /\ run.doc \in run.vectors /\ run.doc \in Docs /\ run.plan[run.doc] # Missing
      /\ run'.vectors = run.vectors \ {run.doc} /\ run'.plan = run.plan /\ indexed' = indexed
  BY DEF CommitRefs, NextVector, StoreInv, TypedRun, Writing
<1>a. run.failed => run'.failed
  <2>1. run' = [run EXCEPT !.pc = "vectors", !.vectors = @ \ {run.doc}, !.segment = NoSegment,
                           !.doc = "none", !.failed = @ \/ FALSE]
    BY DEF CommitRefs, NextVector
  <2>2. run'.failed = (run.failed \/ FALSE) BY <2>1 DEF StoreInv, TypedRun
  <2> QED BY <2>2
<1>2. run.doc \in Paths /\ run.plan \in [Paths -> Hashes] BY <1>1 DEF Paths, StoreInv, TypedRun
<1>3. db'.overlay["vector_ref"] = UpsertRows(db.overlay["vector_ref"], new) /\ db'.baseline = db.baseline
  BY UpsertedRefs DEF StoreInv, TypedStore
<1>4. ASSUME NEW r \in new PROVE r.hash = run.plan[run.doc] /\ r.object[1] = run.doc
  <2>1. PICK c \in ChunkRows(run.doc, run.plan[run.doc]) : r = [id |-> <<"ref", c.id>>, object |-> c.id, hash |-> c.text]
    BY DEF RefRows
  <2>2. IsChunk(run.doc, run.plan[run.doc], c) BY <1>2, <2>1, ChunkRowsAre
  <2>3. c.text = run.plan[run.doc] /\ c.id[1] = run.doc BY <2>2 DEF IsChunk, Row
  <2> QED BY <2>1, <2>3
<1>5. <<"ref", <<run.doc, "item">>>> \in Ids(new)
  <2>1. Row(run.doc, "item", <<run.doc, "item">>, run.plan[run.doc]) \in ChunkRows(run.doc, run.plan[run.doc])
    <3>1. run.doc \notin Sources BY <1>1, StoreAssumption DEF CodePaths
    <3> QED BY <1>1, <3>1 DEF ChunkRows, DocChunkRows
  <2>2. PICK c \in ChunkRows(run.doc, run.plan[run.doc]) : c.id = <<run.doc, "item">> BY <2>1 DEF Row
  <2>3. [id |-> <<"ref", c.id>>, object |-> c.id, hash |-> c.text] \in new BY <1>1 DEF RefRows
  <2>4. [id |-> <<"ref", c.id>>, object |-> c.id, hash |-> c.text].id = <<"ref", c.id>> OBVIOUS
  <2> HIDE DEF new
  <2>5. <<"ref", c.id>> \in Ids(new) BY <2>3, <2>4 DEF Ids
  <2> QED BY <2>2, <2>5
<1> HIDE DEF new
<1>6. ASSUME NEW r \in Shadowed(db', "vector_ref") PROVE r \in new \/ (r \in Shadowed(db, "vector_ref") /\ r.id \notin Ids(new))
  <2>1. Ids(db'.overlay["vector_ref"]) = Ids(db.overlay["vector_ref"]) \cup Ids(new) BY <1>3 DEF UpsertRows, Ids
  <2> QED BY <1>3, <2>1 DEF Shadowed, UpsertRows
<1> SUFFICES ASSUME NEW d \in Docs, NEW r \in Shadowed(db', "vector_ref"), r.object = <<d, "item">>
             PROVE  indexed[d] <= r.hash /\ (~run.failed /\ d \notin run'.vectors => run.plan[d] <= r.hash)
  BY <1>1, <1>a DEF RefsKeepUp
<1>7. CASE r \in new
  <2>1. d = run.doc /\ r.hash = run.plan[d] BY <1>4, <1>7
  <2>2. indexed[d] <= run.plan[d] BY <1>1, <1>2, <2>1 DEF IndexedIsOld
  <2>3. run.plan[d] \in Nat BY <1>2, <2>1 DEF Hashes
  <2> QED BY <2>1, <2>2, <2>3
<1>8. CASE r \in Shadowed(db, "vector_ref") /\ r.id \notin Ids(new)
  <2>1. d # run.doc
    <3>1. r \in AllRows("vector_ref") BY <1>8, StoredRow DEF StoreInv, Shadowed, Tables
    <3>2. r.id = <<"ref", r.object>> BY <3>1, KnownRef
    <3> QED BY <1>5, <1>8, <3>2
  <2> QED BY <1>1, <1>8, <2>1 DEF RefsKeepUp
<1> QED BY <1>6, <1>7, <1>8

\* The chunks of the overlay are replaced by newer ones only.
LEMMA ChunksGrow ==
  ASSUME StoreInv, VectorsInv, CommitBatch
  PROVE  \A c \in db.overlay["chunk"] : \E n \in db'.overlay["chunk"] : n.id = c.id /\ c.text <= n.text
<1> SUFFICES ASSUME NEW c \in db.overlay["chunk"]
             PROVE  \E n \in db'.overlay["chunk"] : n.id = c.id /\ c.text <= n.text
  OBVIOUS
<1>1. PICK batch : BatchIs(batch) BY BatchChunks
<1>2. c.file = c.id[1] /\ c.text \in Nat BY KnownObject, StoredRow, Bound DEF StoreInv, Tables
<1>3. CASE c \in db'.overlay["chunk"] BY <1>2, <1>3
<1>4. CASE c.id \in Ids(Fresh(batch))
  <2>1. PICK n \in Fresh(batch) : n.id = c.id BY <1>4 DEF Ids
  <2>2. /\ n \in db'.overlay["chunk"] /\ n.file \in batch /\ n.id[1] = n.file
        /\ run.plan[n.file] # Missing /\ n.text = run.plan[n.file]
    BY <1>1, <2>1, BatchRows
  <2>3. c.file \in run.todo /\ n.file = c.file BY <1>1, <1>2, <2>1, <2>2 DEF BatchIs
  <2>4. c.text <= run.plan[c.file] BY <2>2, <2>3 DEF VectorsInv, TextsAreOld
  <2> QED BY <2>1, <2>2, <2>3, <2>4
<1> QED BY <1>1, <1>3, <1>4, BatchRows

LEMMA PayloadStays ==
  ASSUME StoreInv, VectorsInv, PayloadIsOld, [Next]_vars
  PROVE  PayloadIsOld'
<1>0. TypedRun /\ TypedFiles(disk) BY DEF StoreInv, VectorsInv, TypedDisk
<1>1. \A rows : OldIn(db, rows) => OldIn(db', rows)
  <2>1. CASE CommitBatch
    <3> SUFFICES ASSUME NEW rows, OldIn(db, rows), NEW k \in DOMAIN rows
                 PROVE  rows[k] \in Revisions /\ \E n \in db'.overlay["chunk"] : n.id = k[2] /\ rows[k] <= n.text
      BY DEF OldIn
    <3>1. PICK c \in db.overlay["chunk"] : c.id = k[2] /\ rows[k] <= c.text BY DEF OldIn
    <3>2. PICK n \in db'.overlay["chunk"] : n.id = c.id /\ c.text <= n.text BY <2>1, ChunksGrow
    <3>3. StoreInv' BY StoreStays
    <3>4. c.text \in Nat BY KnownObject, StoredRow, Bound DEF StoreInv, Tables
    <3>5. n.text \in Nat
      <4>1. n \in AllRows("chunk") BY <3>3 DEF StoreInv, TypedStore, Tables
      <4> QED BY <4>1, KnownObject, Bound
    <3>6. rows[k] \in Revisions /\ rows[k] \in Nat BY Bound DEF OldIn
    <3>7. rows[k] <= n.text BY <3>1, <3>2, <3>4, <3>5, <3>6
    <3> QED BY <3>1, <3>2, <3>6, <3>7
  <2>2. CASE CommitRefs
    <3>1. db'.overlay["chunk"] = db.overlay["chunk"] BY <2>2, UpsertedRefs
    <3> QED BY <3>1 DEF OldIn
  <2>3. CASE db' = db BY <2>3
  <2> QED BY <2>1, <2>2, <2>3 DEF Next, RunStep, Edit, StartRun, AppendSegment, AppendToManifest, RejectRows, Flush,
                                  DeleteSegment, EndCompaction, SaveState, Crash, vars
<1>2. ASSUME NEW on, OldIn(db, on.rows), \A n \in DOMAIN on.segments : OldIn(db, on.segments[n]), disk' = on
      PROVE  PayloadIsOld'
  BY <1>1, <1>2 DEF PayloadIsOld
<1>3. CASE disk' = disk BY <1>2, <1>3 DEF PayloadIsOld
<1>4. CASE AppendSegment
  <2> DEFINE name == NextSegment(disk, run.job)
  <2>1. PICK d \in run.vectors : disk' = WriteSegment(disk, name, VectorRows(d)) BY <1>4 DEF AppendSegment
  <2>2. name \in Names \ DOMAIN disk.segments BY <1>0, NewSegment DEF VectorsInv, TypedPhase
  <2> HIDE DEF name
  <2>3. /\ TypedFiles(disk') /\ DOMAIN disk'.segments = DOMAIN disk.segments \cup {name}
        /\ disk'.segments[name] = VectorRows(d) /\ RemoveSegment(disk', name) = disk
    BY <1>0, <2>1, <2>2, WrittenIs
  <2>4. disk'.rows = disk.rows /\ \A m \in DOMAIN disk.segments : disk'.segments[m] = disk.segments[m]
    BY <2>3, RemovedIs
  <2>5. OldIn(db, VectorRows(d))
    <3>1. d \in Paths /\ run.plan[d] \in Revisions
      <4>1. d \in Paths /\ run.plan[d] # Missing /\ run.plan[d] \in Hashes BY <1>0 DEF TypedRun, Paths
      <4> QED BY <4>1, Bound
    <3>2. ChunkRows(d, run.plan[d]) \subseteq db.overlay["chunk"]
      <4>1. run.todo = {} BY <1>4 DEF AppendSegment, VectorsInv, TypedPhase
      <4> QED BY <4>1 DEF VectorsInv, ChunksComeFirst
    <3> SUFFICES ASSUME NEW k \in Ids(RefRows(d, run.plan[d]))
                 PROVE  /\ run.plan[d] \in Revisions
                        /\ \E c \in db.overlay["chunk"] : c.id = k[2] /\ run.plan[d] <= c.text
      BY DEF OldIn, VectorRows
    <3>3. PICK c \in ChunkRows(d, run.plan[d]) : k = <<"ref", c.id>> BY DEF RefRows, Ids
    <3>4. c.text = run.plan[d] BY <3>1, <3>3, ChunkRowsAre DEF IsChunk, Row
    <3>a. run.plan[d] \in Nat BY <3>1, Bound
    <3>5. run.plan[d] <= c.text BY <3>4, <3>a
    <3> QED BY <3>1, <3>2, <3>3, <3>5
  <2> QED BY <1>2, <2>3, <2>4, <2>5 DEF PayloadIsOld
<1>5. CASE Flush
  <2>1. CASE disk' = WriteCompacted(disk)
    <3>1. OldIn(db, LoadRows(disk)) BY <1>0, LoadsAreOld
    <3> DEFINE L == LoadRows(disk)
    <3>2. disk' = [disk EXCEPT !.rows = L] BY <2>1 DEF WriteCompacted
    <3> HIDE DEF L
    <3>3. disk'.rows = L /\ disk'.segments = disk.segments BY <1>0, <3>2 DEF TypedFiles
    <3> QED BY <1>2, <3>1, <3>3 DEF PayloadIsOld, L
  <2> QED BY <1>3, <1>5, <2>1 DEF Flush
<1>6. CASE DeleteSegment
  <2>1. PICK n \in DOMAIN disk.segments : disk' = RemoveSegment(disk, n) BY <1>6 DEF DeleteSegment
  <2>2. /\ disk'.rows = disk.rows /\ DOMAIN disk'.segments = DOMAIN disk.segments \ {n}
        /\ \A m \in DOMAIN disk'.segments : disk'.segments[m] = disk.segments[m]
    BY <1>0, <2>1, RemovedIs
  <2> QED BY <1>2, <2>2 DEF PayloadIsOld
<1>7. CASE AppendToManifest
  <2>1. disk' = [disk EXCEPT !.listed = Append(@, run.segment)] BY <1>7 DEF AppendToManifest, ListSegment
  <2>2. disk'.rows = disk.rows /\ disk'.segments = disk.segments BY <1>0, <2>1 DEF TypedFiles
  <2> QED BY <1>2, <2>2 DEF PayloadIsOld
<1>8. CASE EndCompaction
  <2>1. disk' = [disk EXCEPT !.listed = <<>>] BY <1>8 DEF EndCompaction, ClearManifest
  <2>2. disk'.rows = disk.rows /\ disk'.segments = disk.segments BY <1>0, <2>1 DEF TypedFiles
  <2> QED BY <1>2, <2>2 DEF PayloadIsOld
<1> QED BY <1>3, <1>4, <1>5, <1>6, <1>7, <1>8 DEF Next, RunStep, Edit, StartRun, CommitBatch, CommitRefs, RejectRows,
                                                SaveState, Crash, vars

-----------------------------------------------------------------------------
\* What is hidden is new, or an item hides it.
LEMMA HiddenByItem ==
  ASSUME NEW batch, CommittedFrom(db', {ApplyItem(db, q) : q \in batch}), NEW x \in db'.tombstone, x \notin db.tombstone
  PROVE  \E q \in batch : x \in ApplyItem(db, q).tombstones
<1> DEFINE items == {ApplyItem(db, q) : q \in batch}
<1>1. x \in UNION {i.tombstones : i \in items} BY DEF CommittedFrom
<1> QED BY <1>1

LEMMA MarksArePairs ==
  ASSUME NEW q \in Paths, NEW x \in ApplyItem(db, q).tombstones
  PROVE  x = <<x[1], x[2]>>
<1> DEFINE C == CollectedWith(run.plan)
           new == Bundle(q, run.plan[q], C)
           old == LiveBundle(db, q)
<1>1. \/ x \in TombstoneFile(db, q) \/ x \in MarkStale(db, old, new).tombstones
  BY ItemIs
<1>2. CASE x \in TombstoneFile(db, q)
  <2>1. PICK t, id : x = <<t, id>> BY <1>2 DEF TombstoneFile
  <2> QED BY <2>1
<1>3. CASE x \in MarkStale(db, old, new).tombstones
  <2> HIDE DEF old, new
  <2>1. x \in (UNION {TombstoneChunk(db, c) : c \in Retired(old.chunk, new.chunk)})
              \cup {<<"entity", e>> : e \in Retired(old.entity, new.entity)}
              \cup {<<"relation", r>> : r \in Retired(old.relation, new.relation)}
    BY <1>3, MarksAre
  <2>2. \A c : \A y \in TombstoneChunk(db, c) : \E t, id : y = <<t, id>> BY DEF TombstoneChunk
  <2>3. PICK t, id : x = <<t, id>> BY <2>1, <2>2
  <2> QED BY <2>3
<1> QED BY <1>1, <1>2, <1>3

LEMMA PairsStay ==
  ASSUME StoreInv, TombstonesArePairs, CommitBatch
  PROVE  TombstonesArePairs'
<1>1. PICK batch \in SUBSET run.todo : batch \subseteq Paths /\ CommittedFrom(db', {ApplyItem(db, q) : q \in batch})
  BY BatchCommits
<1>2. ASSUME NEW x \in db'.tombstone PROVE x = <<x[1], x[2]>>
  <2>1. CASE x \in db.tombstone BY <2>1 DEF TombstonesArePairs
  <2>2. CASE x \notin db.tombstone
    <3>1. PICK q \in batch : x \in ApplyItem(db, q).tombstones BY <1>1, <2>2, HiddenByItem
    <3> QED BY <1>1, <3>1, MarksArePairs
  <2> QED BY <2>1, <2>2
<1> QED BY <1>2 DEF TombstonesArePairs

-----------------------------------------------------------------------------
\* The endpoints of a relation are a code file, or what the makefile defines.
LEMMA EndsAre ==
  ASSUME NEW r \in AllRows("relation"), NEW q \in Ends(r)
  PROVE  /\ q \in CodePaths
         /\ \E e \in {r.src, r.dst} : e = <<q, "File">> \/ (q \in Makefiles /\ e = <<q, "Module">>)
<1>1. CASE \E p \in Paths : r \in AnyContent(p, "relation")
  <2>1. PICK p \in Paths, v \in Revisions : r \in Content(p, v)["relation"] BY <1>1 DEF AnyContent
  <2>2. r \in Defines(p, v) BY <2>1, ContentIs
  <2>3. /\ p \in CodePaths /\ r.src = <<p, "File">>
        /\ (\E l : r.dst = <<p, "Symbol", l>>) \/ r.dst = <<p, "Module">>
    BY <2>2, DefinesAre DEF Relation, CodePaths
  <2>4. q = p BY <2>3 DEF Ends
  <2> QED BY <2>3, <2>4
<1>2. CASE IsMembership(r)
  <2>1. PICK m \in Makefiles, s \in Sources : \/ r.src = <<m, "Module">> /\ r.dst = <<s, "File">>
                                              \/ r.src = <<s, "File">> /\ r.dst = <<m, "Module">>
    BY <1>2 DEF IsMembership
  <2>2. q = m \/ q = s BY <2>1 DEF Ends
  <2> QED BY <2>1, <2>2 DEF CodePaths
<1> QED BY <1>1, <1>2, RelationKinds

\* A code file is hidden together with the relations it is an endpoint of.
LEMMA FileMarksRelations ==
  ASSUME TypedStore, CodePaths \subseteq Baseline, NEW r \in db.overlay["relation"] \cup db.baseline["relation"],
         NEW q \in Ends(r)
  PROVE  <<"relation", r.id>> \in TombstoneFile(db, q)
<1> DEFINE below(u) == RowsOfFile(db.baseline, u, q)
           both(u) == below(u) \cup RowsOfFile(db.overlay, u, q)
           rows == [u \in Tables |->
             CASE u = "file" -> {x \in db.baseline[u] \cup db.overlay[u] : x.id = q}
               [] u = "relation" -> RelationsTouching(db.baseline, Ids(below("entity"))) \cup
                                    RelationsTouching(db.overlay, Ids(both("entity")))
               [] u = "vector_ref" -> RefsTo(db.baseline, Ids(below("chunk"))) \cup
                                      RefsTo(db.overlay, Ids(both("chunk")))
               [] OTHER -> both(u)]
<1>1. TombstoneFile(db, q) = UNION {{<<u, x.id>> : x \in rows[u]} : u \in Tables} BY DEF TombstoneFile
<1>2. r \in AllRows("relation") BY StoredRow DEF Tables
<1>3. PICK e \in {r.src, r.dst} : e = <<q, "File">> \/ (q \in Makefiles /\ e = <<q, "Module">>) BY <1>2, EndsAre
<1>4. q \in Baseline /\ q \in CodePaths BY <1>2, EndsAre
<1>5. \E x \in EntityRows(q, 1) : x.id = e /\ x.file = q
  <2>1. CASE q \in Sources
    <3>1. q \notin Makefiles BY <2>1, KindsDiffer DEF Kinds
    <3>2. Row(q, "File", <<q, "File">>, 1) \in EntityRows(q, 1) BY <2>1, <3>1 DEF EntityRows, SourceEntityRows
    <3> QED BY <1>3, <3>1, <3>2 DEF Row
  <2>2. CASE q \in Makefiles
    <3>1. q \notin Sources BY <2>2, KindsDiffer DEF Kinds
    <3>2. Row(q, "File", <<q, "File">>, 1) \in EntityRows(q, 1) /\ Row(q, "Module", <<q, "Module">>, 1) \in EntityRows(q, 1)
      BY <2>2, <3>1 DEF EntityRows, ModuleRows
    <3> QED BY <1>3, <3>2 DEF Row
  <2> QED BY <1>4, <2>1, <2>2 DEF CodePaths
<1>6. PICK x \in EntityRows(q, 1) : x.id = e /\ x.file = q BY <1>5
<1>7. x \in db.baseline["entity"]
  <2>1. x \in Bundle(q, 1, Baseline)["entity"] BY <1>6 DEF Bundle
  <2>2. PublishedBaseline["entity"] = UNION {b["entity"] : b \in {Bundle(p, 1, Baseline) : p \in Baseline}}
    BY DEF PublishedBaseline, Tables
  <2>3. x \in PublishedBaseline["entity"] BY <1>4, <2>1, <2>2
  <2> QED BY <2>3 DEF TypedStore
<1>8. e \in Ids(below("entity")) BY <1>6, <1>7 DEF RowsOfFile, Ids
<1>9. e \in Ids(both("entity")) BY <1>8 DEF Ids
<1> HIDE DEF both, below
<1>10. rows["relation"] = RelationsTouching(db.baseline, Ids(below("entity"))) \cup
                          RelationsTouching(db.overlay, Ids(both("entity")))
  BY DEF Tables
<1>11. r \in rows["relation"] BY <1>3, <1>8, <1>9, <1>10 DEF RelationsTouching
<1> HIDE DEF rows
<1> QED BY <1>1, <1>11 DEF Tables

\* No file is hidden that a run plans.
PlannedAreNotHidden == \A p \in Paths : run.plan[p] # Missing => <<"file", p>> \notin db.tombstone

LEMMA PlannedAreFree == PathsInv => PlannedAreNotHidden
<1> SUFFICES ASSUME PathsInv, NEW p \in Paths, run.plan[p] # Missing PROVE <<"file", p>> \notin db.tombstone
  BY DEF PlannedAreNotHidden
<1>1. Lacks(p) \/ \E v \in Revisions : Holds(p, v) BY DEF PathsInv, PathIs, Dropped
<1>2. \E v \in Revisions : FreeFrom(p, v) BY <1>1, Bound DEF Lacks, Holds
<1> QED BY <1>2, FileIsFree

\* The endpoints of a relation that is written are planned.
LEMMA WrittenEndsArePlanned ==
  ASSUME NEW q \in Paths, run.plan[q] # Missing, NEW r \in Bundle(q, run.plan[q], CollectedWith(run.plan))["relation"],
         NEW e \in Ends(r)
  PROVE  e \in Paths /\ run.plan[e] # Missing
<1> DEFINE C == CollectedWith(run.plan)
<1>1. \A p \in C : p \in Paths /\ run.plan[p] # Missing BY DEF CollectedWith, Changed, Paths, CodePaths
<1> HIDE DEF C
<1>2. r \in RelationRows(q, run.plan[q], C) BY DEF Bundle, C
<1>3. CASE r \in Defines(q, run.plan[q])
  <2>1. r.src[1] = q /\ r.dst[1] = q BY <1>3, DefinesAre DEF Relation
  <2> QED BY <2>1 DEF Ends
<1>4. ASSUME NEW m \in Makefiles \cap C, r \in Membership(m, C) PROVE e \in C
  <2>1. PICK s \in Sources \cap C : r \in {Relation("contains", <<m, "Module">>, <<s, "File">>),
                                          Relation("belongs_to_module", <<s, "File">>, <<m, "Module">>)}
    BY <1>4 DEF Membership
  <2>2. e = m \/ e = s BY <2>1 DEF Relation, Ends
  <2> QED BY <2>2
<1> QED BY <1>1, <1>2, <1>3, <1>4 DEF RelationRows

LEMMA RelationsAfterBatch ==
  ASSUME StoreInv, PlannedAreNotHidden', RelationsGoWithFiles, CodePaths \subseteq Baseline, CommitBatch
  PROVE  RelationsGoWithFiles'
<1> DEFINE C == CollectedWith(run.plan)
<1>0. TypedStore /\ ReplacedIsHidden BY DEF StoreInv
<1>1. PICK batch \in SUBSET run.todo : batch \subseteq Paths /\ CommittedFrom(db', {ApplyItem(db, q) : q \in batch})
  BY BatchCommits
<1>2. run'.plan = run.plan BY BatchCommits
<1>3. db.tombstone \subseteq db'.tombstone BY <1>1, TombstonesStay
<1>4. ASSUME NEW r \in db.overlay["relation"] \cup db.baseline["relation"], NEW q \in Ends(r),
             <<"file", q>> \in db'.tombstone
      PROVE  <<"relation", r.id>> \in db'.tombstone
  <2>1. r \in AllRows("relation") BY <1>0, StoredRow DEF Tables
  <2>2. q \in Paths BY <2>1, EndsAre DEF Paths
  <2>3. CASE <<"file", q>> \in db.tombstone
    <3>1. r \in Shadowed(db, "relation") BY <1>0, ShadowedIs
    <3> QED BY <1>3, <2>3, <3>1 DEF RelationsGoWithFiles
  <2>4. CASE <<"file", q>> \notin db.tombstone
    <3>1. PICK p \in batch : <<"file", q>> \in ApplyItem(db, p).tombstones BY <1>1, <1>4, <2>4, HiddenByItem
    <3>2. "file" \in Parts /\ q \in Ids(AnyContent(q, "file"))
      <4>1. q \in Ids(Content(q, 1)["file"]) BY IdsAre
      <4> QED BY <4>1, Bound DEF Parts, Tables, AnyContent, Ids
    <3>3. p = q BY <1>0, <1>1, <2>2, <3>1, <3>2, OthersAreLeft
    <3>4. run.plan[q] = Missing BY <1>2, <1>4, <2>2 DEF PlannedAreNotHidden
    <3>5. ApplyItem(db, q).tombstones = IF KnowsFile(db, q) THEN TombstoneFile(db, q) ELSE {} BY <2>2, <3>4, ItemIs
    <3>6. ApplyItem(db, q).tombstones = TombstoneFile(db, q) BY <3>1, <3>3, <3>5
    <3>7. <<"relation", r.id>> \in TombstoneFile(db, q) BY <1>0, FileMarksRelations
    <3>8. <<"relation", r.id>> \in UNION {i.tombstones : i \in {ApplyItem(db, x) : x \in batch}} BY <3>1, <3>3, <3>6, <3>7
    <3> QED BY <1>1, <3>8 DEF CommittedFrom
  <2> QED BY <2>3, <2>4
<1>5. ASSUME NEW p \in batch, NEW r \in ApplyItem(db, p).rows["relation"], NEW q \in Ends(r)
      PROVE  <<"file", q>> \notin db'.tombstone
  <2>1. p \in Paths /\ "relation" \in Parts BY <1>1 DEF Parts, Tables
  <2>2. run.plan[p] # Missing
    <3>1. run.plan[p] = Missing => ApplyItem(db, p).rows = NoRows BY <2>1, ItemIs
    <3>2. NoRows["relation"] = {} BY DEF NoRows, Tables
    <3> QED BY <1>5, <3>1, <3>2
  <2>3. r \in Bundle(p, run.plan[p], C)["relation"] BY <2>1, <2>2, ItemIs
  <2>4. q \in Paths /\ run.plan[q] # Missing BY <2>1, <2>2, <2>3, WrittenEndsArePlanned
  <2> QED BY <1>2, <2>4 DEF PlannedAreNotHidden
<1>6. ASSUME NEW r \in Shadowed(db', "relation")
      PROVE  \/ r \in db.overlay["relation"] \cup db.baseline["relation"]
             \/ \E p \in batch : r \in ApplyItem(db, p).rows["relation"]
  <2> DEFINE items == {ApplyItem(db, q) : q \in batch}
  <2>1. r \in db'.overlay["relation"] \cup db'.baseline["relation"] BY DEF Shadowed
  <2>2. db'.overlay["relation"] = UpsertRows(db.overlay["relation"], UNION {i.rows["relation"] : i \in items})
        /\ db'.baseline = db.baseline
    <3> HIDE DEF items
    <3>1. CommittedFrom(db', items) BY <1>1 DEF items
    <3> QED BY <3>1 DEF CommittedFrom, Tables
  <2>3. r \in db.overlay["relation"] \cup db.baseline["relation"] \/ \E i \in items : r \in i.rows["relation"]
    <3> HIDE DEF items
    <3> QED BY <2>1, <2>2 DEF UpsertRows
  <2> QED BY <2>3
<1> QED BY <1>4, <1>5, <1>6 DEF RelationsGoWithFiles

-----------------------------------------------------------------------------
\* What replaces a relation is of the content of the file: a membership has no
\* successor, for neither the module nor the file's entity is ever replaced.
LEMMA RelationMoves ==
  ASSUME TypedStore, ReplacedIsHidden, NEW q \in Paths, NEW v \in Revisions, NEW C \in SUBSET Paths,
         NEW old, old = LiveBundle(db, q), NEW new, new = Bundle(q, v, C),
         NEW x \in RelationSuccessors(old.relation, new.relation, Successors(old.entity, new.entity))
  PROVE  x[2] \in Ids(Content(q, v)["relation"])
<1> DEFINE moved == Successors(old.entity, new.entity)
           now(id) == IF \E m \in moved : m[1] = id THEN (CHOOSE m \in moved : m[1] = id)[2] ELSE id
<1>1. PICK o \in old.relation, n \in new.relation :
        /\ x = <<o.id, n.id>> /\ o.type = n.type /\ o.id # n.id
        /\ now(o.src) = n.src /\ now(o.dst) = n.dst
  <2> HIDE DEF moved
  <2> QED BY DEF RelationSuccessors, moved
<1>2. n \in AllRows("relation")
  <2>1. Bundle(q, v, C)["relation"] \subseteq AllRows("relation") BY StoredRows DEF Tables
  <2> QED BY <2>1
<1>3. CASE n \in Content(q, v)["relation"] BY <1>1, <1>3 DEF Ids
<1>4. CASE n \notin Content(q, v)["relation"]
  <2>1. n.type # "defines"
    <3>1. n \in Bundle(q, v, C)["relation"] /\ "relation" \in Parts BY DEF Parts, Tables
    <3> QED BY <1>4, <3>1, BundleIs
  <2>2. PICK i \in LogicalRelations(db) : o = i.row BY <1>1 DEF LiveBundle
  <2>3. PICK r \in AllRows("relation") : ShowsRelation(i, r) BY RelationsRead
  <2>4. o = [id |-> r.id, type |-> r.type, src |-> Resolve(db, "entity", r.src), dst |-> Resolve(db, "entity", r.dst)]
    BY <2>2, <2>3 DEF ShowsRelation, Endpoints
  <2>5. IsMembership(r)
    <3>1. r.type = n.type BY <1>1, <2>4
    <3>2. \A p \in Paths : r \notin AnyContent(p, "relation") BY <2>1, <3>1, OwnRelationIs
    <3> QED BY <3>2, RelationKinds
  <2>6. r.src[2] \in {"Module", "File"} /\ r.dst[2] \in {"Module", "File"} BY <2>5 DEF IsMembership
  <2>7. \A id : id[2] \in {"Module", "File"} => ~IsReplaced(db, "entity", id)
    BY SuccessorIsLike DEF Objects
  <2>8. o.src = r.src /\ o.dst = r.dst BY <2>4, <2>6, <2>7 DEF IsReplaced
  <2>9. \A id : id[2] \in {"Module", "File"} => now(id) = id
    <3>1. \A m \in moved : m[1][2] \in {"section", "symbol", "Symbol"}
      <4>1. new.entity = EntityRows(q, v) BY DEF Bundle
      <4> QED BY <4>1, EntitySuccessors
    <3> HIDE DEF moved
    <3> QED BY <3>1
  <2> HIDE DEF now
  <2>10. n.src = r.src /\ n.dst = r.dst BY <1>1, <2>6, <2>8, <2>9
  <2>11. n = r BY <1>1, <1>2, <2>4, <2>10, KnownRelation
  <2> QED BY <1>1, <2>4, <2>11
<1> QED BY <1>3, <1>4

\* What a batch writes it neither hides nor replaces.
LEMMA WrittenIsFree ==
  ASSUME StoreInv, PathsInv, LinesDoNotReturn, NEW batch \in SUBSET run.todo, batch \subseteq Paths,
         CommittedFrom(db', {ApplyItem(db, q) : q \in batch}), run'.todo = run.todo \ batch,
         run'.plan = run.plan, ws' = ws, run.plan \in [Paths -> Hashes],
         NEW q \in batch, run.plan[q] # Missing, NEW t \in Parts, NEW id \in Ids(Content(q, run.plan[q])[t])
  PROVE  <<t, id>> \notin db'.tombstone /\ (t = "relation" => <<t, id>> \notin DOMAIN db'.replacement)
<1>1. PICK v \in Hashes : PathIs(q, v) BY DEF PathsInv
<1>2. PathIs(q, run.plan[q])' BY <1>1, BatchWritesPlanned DEF PathsInv
<1>3. PICK r \in Content(q, run.plan[q])[t] : r.id = id BY DEF Ids
<1>4. run.plan[q] \in Revisions /\ run.plan[q] <= run.plan[q]
  <2>1. run.plan[q] \in Revisions BY Bound
  <2>2. run.plan[q] \in Nat BY <2>1, Bound
  <2> QED BY <2>1, <2>2
<1>5. FreeFrom(q, run.plan[q])' BY <1>2, <1>4 DEF PathIs, Holds
<1>6. IsFree(t, id)' BY <1>3, <1>4, <1>5 DEF FreeFrom
<1> QED BY <1>6 DEF IsFree

\* Nothing stands for a new successor.
LEMMA SuccessorsAreFree ==
  ASSUME StoreInv, StoreInv', PathsInv, LinesDoNotReturn, NEW batch \in SUBSET run.todo, batch \subseteq Paths,
         CommittedFrom(db', {ApplyItem(db, q) : q \in batch}), run'.todo = run.todo \ batch,
         run'.plan = run.plan, ws' = ws, run.plan \in [Paths -> Hashes],
         NEW q \in batch, NEW t \in Tables, NEW x \in ApplyItem(db, q).successors[t]
  PROVE  <<t, x[2]>> \notin DOMAIN db'.replacement
<1> DEFINE C == CollectedWith(run.plan)
           old == LiveBundle(db, q)
           new == Bundle(q, run.plan[q], C)
           m == MarkStale(db, old, new)
<1>0. TypedStore /\ ReplacedIsHidden /\ ReplacedIsHidden' BY DEF StoreInv
<1>1. run.plan[q] # Missing /\ ApplyItem(db, q).successors = m.successors BY ItemIs
<1>2. run.plan[q] \in Revisions /\ C \in SUBSET Paths
  <2>1. CollectedWith(run.plan) \in SUBSET Paths BY DEF CollectedWith, Changed, Paths, CodePaths
  <2> QED BY <1>1, <2>1, Bound
<1>3. new.chunk = Content(q, run.plan[q])["chunk"] /\ new.entity = Content(q, run.plan[q])["entity"] BY DEF Bundle, Content
<1>4. t \in {"chunk", "entity", "relation"} /\ x[2] \in Ids(Content(q, run.plan[q])[t])
  <2> HIDE DEF C, old, new
  <2>1. /\ m.successors["chunk"] = Successors(old.chunk, new.chunk)
        /\ m.successors["entity"] = Successors(old.entity, new.entity)
        /\ m.successors["relation"] = RelationSuccessors(old.relation, new.relation, Successors(old.entity, new.entity))
        /\ \A u \in Tables \ {"chunk", "entity", "relation"} : m.successors[u] = {}
    BY MarksAre
  <2> HIDE DEF m
  <2>2. \A a, b : \A y \in Successors(a, b) : y[2] \in Ids(b) BY DEF Successors, Ids
  <2>3. CASE t = "chunk" BY <1>1, <1>3, <2>1, <2>2, <2>3
  <2>4. CASE t = "entity" BY <1>1, <1>3, <2>1, <2>2, <2>4
  <2>5. CASE t = "relation"
    <3>1. x \in RelationSuccessors(old.relation, new.relation, Successors(old.entity, new.entity))
      BY <1>1, <2>1, <2>5
    <3>2. old = LiveBundle(db, q) /\ new = Bundle(q, run.plan[q], C) BY DEF old, new
    <3> QED BY <1>0, <1>2, <2>5, <3>1, <3>2, RelationMoves
  <2> QED BY <1>1, <2>1, <2>3, <2>4, <2>5
<1>5. t \in Parts BY <1>4 DEF Parts, Tables
<1>6. <<t, x[2]>> \notin db'.tombstone /\ (t = "relation" => <<t, x[2]>> \notin DOMAIN db'.replacement)
  BY <1>1, <1>4, <1>5, WrittenIsFree
<1>7. t # "relation" => \A k \in DOMAIN db'.replacement : k[1] = t => k \in db'.tombstone
  BY <1>0, <1>4 DEF ReplacedIsHidden
<1> QED BY <1>6, <1>7

LEMMA LoopsStayAway ==
  ASSUME StoreInv, StoreInv', PathsInv, LinesDoNotReturn, NoLoops, CommitBatch
  PROVE  NoLoops'
<1>1. PICK batch \in SUBSET run.todo :
        /\ batch \subseteq Paths /\ run'.todo = run.todo \ batch
        /\ CommittedFrom(db', {ApplyItem(db, q) : q \in batch})
  BY BatchCommits
<1>2. run.plan \in [Paths -> Hashes] /\ ws' = ws /\ run'.plan = run.plan BY BatchCommits
<1> SUFFICES ASSUME NEW s \in SUBSET DOMAIN db'.replacement, {<<k[1], db'.replacement[k]>> : k \in s} = s
             PROVE  s = {}
  BY DEF NoLoops
<1>3. ASSUME NEW k \in s PROVE k \in DOMAIN db.replacement /\ db'.replacement[k] = db.replacement[k]
  <2> SUFFICES ASSUME ~(k \in DOMAIN db.replacement /\ db'.replacement[k] = db.replacement[k]) PROVE FALSE OBVIOUS
  <2> DEFINE items == {ApplyItem(db, q) : q \in batch}
  <2>1. PICK t \in Tables : \E i \in items : \E x \in i.successors[t] : k = <<t, x[1]>> /\ db'.replacement[k] = x[2]
    <3>1. CommittedFrom(db', items) BY <1>1
    <3> HIDE DEF items
    <3> QED BY <1>3, <3>1 DEF CommittedFrom
  <2>2. PICK q \in batch : \E x \in ApplyItem(db, q).successors[t] : k = <<t, x[1]>> /\ db'.replacement[k] = x[2]
    BY <2>1
  <2>3. PICK x \in ApplyItem(db, q).successors[t] : k = <<t, x[1]>> /\ db'.replacement[k] = x[2] BY <2>2
  <2>4. <<k[1], db'.replacement[k]>> \in s BY <1>3
  <2>5. <<t, x[2]>> \in DOMAIN db'.replacement BY <2>3, <2>4
  <2> QED BY <1>1, <1>2, <2>5, SuccessorsAreFree
<1>4. s \in SUBSET DOMAIN db.replacement BY <1>3
<1>5. {<<k[1], db.replacement[k]>> : k \in s} = s BY <1>3
<1> QED BY <1>4, <1>5 DEF NoLoops

LEMMA RepairStays ==
  ASSUME StoreInv, StoreInv', VectorsInv, PathsInv, PlannedAreNotHidden', RepairInv, [Next]_vars,
         "readd" \notin Edits, LinesDoNotReturn, CodePaths \subseteq Baseline
  PROVE  RepairInv'
<1>1. TombstonesArePairs /\ NoLoops /\ RelationsGoWithFiles /\ IndexedIsOld /\ RefsKeepUp /\ PayloadIsOld /\ Phases
  BY DEF RepairInv
<1>2. IndexedIsOld' /\ PayloadIsOld' /\ Phases' BY <1>1, IndexedStays, PayloadStays, PhasesStay
<1>3. CASE CommitBatch
  <2>1. TombstonesArePairs' BY <1>1, <1>3, PairsStay
  <2>2. NoLoops' BY <1>1, <1>3, LoopsStayAway
  <2>3. RelationsGoWithFiles' BY <1>1, <1>3, RelationsAfterBatch
  <2>4. RefsKeepUp' BY <1>1, <1>3, RefsKeepUpAfterBatch
  <2> QED BY <1>2, <2>1, <2>2, <2>3, <2>4 DEF RepairInv
<1>4. CASE CommitRefs
  <2>1. /\ db'.tombstone = db.tombstone /\ db'.replacement = db.replacement
        /\ Shadowed(db', "relation") = Shadowed(db, "relation")
    BY <1>4, RefsLeaveParts DEF Parts, Tables
  <2>2. TombstonesArePairs' /\ NoLoops' /\ RelationsGoWithFiles'
    BY <1>1, <2>1 DEF TombstonesArePairs, NoLoops, RelationsGoWithFiles
  <2>3. RefsKeepUp' BY <1>1, <1>4, RefsKeepUpAfterVector
  <2> QED BY <1>2, <2>2, <2>3 DEF RepairInv
<1>5. CASE ~CommitBatch /\ ~CommitRefs
  <2>1. db' = db BY <1>5, QuietStep DEF PathsInv
  <2>2. TombstonesArePairs' /\ NoLoops' /\ RelationsGoWithFiles'
    BY <1>1, <2>1 DEF TombstonesArePairs, NoLoops, RelationsGoWithFiles
  <2>3. RefsKeepUp' BY <1>1, <1>5, <2>1, RefsKeepUpQuietly
  <2> QED BY <1>2, <2>2, <2>3 DEF RepairInv
<1> QED BY <1>3, <1>4, <1>5

\* While no file returns to a text it had, no run dies in the middle of a
\* compaction, and the baseline holds the code files, validation between runs
\* never says "blocked" of the store, and of one that shows what is indexed it
\* finds nothing but vectors whose chunks are gone: no tombstone leaks, no
\* replacements in a circle, no evidence, relation or reference that leads
\* nowhere, no vector of another text (validation.py).
THEOREM StoreNeedsNoRepair ==
  ASSUME "readd" \notin Edits, "torn_compaction" \notin Faults, LinesDoNotReturn, CodePaths \subseteq Baseline
  PROVE  Spec => []NothingToRepair
<1>1. Spec => []VectorsInv BY VectorsAreSound
<1>2. Spec => []PathsInv BY PathsAreSound
<1>3. Init => RepairInv BY RepairStarts
<1>4. PathsInv => PlannedAreNotHidden BY PlannedAreFree
<1>5. StoreInv /\ StoreInv' /\ VectorsInv /\ PathsInv /\ PlannedAreNotHidden' /\ RepairInv /\ [Next]_vars => RepairInv'
  BY RepairStays
<1>6. StoreInv /\ PathsInv /\ VectorsInv /\ RepairInv => NothingToRepair BY ValidationAgrees
<1> QED BY <1>1, <1>2, <1>3, <1>4, <1>5, <1>6, StoreIsSound, PTL DEF Spec
=============================================================================
