--------------------------- MODULE KnowledgeStore ---------------------------
(***************************************************************************)
(* What an incremental run writes: the rows of the overlay, batch by batch *)
(* (_apply_code_bundle, _apply_doc_bundle, _tombstone_deleted_path in      *)
(* indexing/pipeline.py), then the vectors of the documents, file by file  *)
(* (storage/lancedb_store.py); and what readers and the validator make of  *)
(* it at any moment.  The protocol around it, with checkpoints and resumed *)
(* runs, is module IncrementalIndex; here every run starts over.           *)
(***************************************************************************)
EXTENDS StoreValidation, Extraction

CONSTANTS
  Baseline,     \* paths the baseline holds, at revision 1
  Edited,       \* paths users edit
  Edits,        \* what they do: a subset of EditKinds
  Faults,       \* what goes wrong: a subset of FaultKinds
  Jobs,         \* job ids, numbers: file names sort by them
  MaxRevision,  \* bound: revisions of one path
  MaxBatch,     \* max_files_per_transaction
  CompactAt,    \* _COMPACTION_SEGMENT_THRESHOLD
  MaxSegments   \* bound: no crash once so many segment files are there

EditKinds == {"modify", "delete", "readd"}
FaultKinds == {"crash", "torn_compaction"}

ASSUME StoreAssumption ==
  /\ Sources \cap Makefiles = {} /\ CodePaths \cap Docs = {}
  /\ Baseline \subseteq Paths /\ Edited \subseteq Paths
  /\ Edits \subseteq EditKinds /\ Faults \subseteq FaultKinds
  /\ IsFiniteSet(Paths) /\ Jobs \subseteq Nat
  /\ MaxRevision \in Nat \ {0} /\ MaxBatch \in Nat \ {0} /\ CompactAt \in Nat \ {0}
  /\ MaxSegments \in Nat
  /\ Line \in [1..MaxRevision -> Nat]

VARIABLES
  ws,       \* ws[p]: the revision of p in the workspace
  indexed,  \* index_state.json
  db,       \* the metadata store
  disk,     \* the vectors of the overlay
  run,      \* the run in progress
  shown     \* what readers see of each path: a function of db

vars == <<ws, indexed, db, disk, run, shown>>

-----------------------------------------------------------------------------
Missing == 0
Gone == MaxRevision + 1      \* the revision of a deleted file
Hashes == 0..MaxRevision
Captured == [p \in Paths |-> IF ws[p] = Gone THEN Missing ELSE ws[p]]
NothingPlanned == [p \in Paths |-> Missing]

NoSegment == [job |-> 0, part |-> 0]
IdleRun == [pc |-> "idle", job |-> 0, plan |-> NothingPlanned, todo |-> {}, vectors |-> {},
            segment |-> NoSegment, doc |-> "none", dirty |-> FALSE, failed |-> FALSE]

Changed(plan) == {p \in Paths : plan[p] \notin {Missing, indexed[p]}}
Deleted(plan) == {p \in Paths : indexed[p] # Missing /\ plan[p] = Missing}

\* Makefiles are collected with whatever code changed.
CollectedWith(plan) ==
  LET code == Changed(plan) \cap CodePaths
  IN IF code = {} THEN {} ELSE code \cup {m \in Makefiles : plan[m] # Missing}

-----------------------------------------------------------------------------
\* What readers see of the paths, and the revisions whose rows these are.
View(base) ==
  LET chunks == LogicalObjects(base, "chunk")
      entities == LogicalObjects(base, "entity")
      relations == LogicalRelations(base)
      evidence == LogicalEvidence(base)
  IN [p \in Paths |->
       [chunk |-> {i.row : i \in {x \in chunks : x.row.file = p}},
        entity |-> {i.row : i \in {x \in entities : x.row.file = p}},
        defines |-> {i.row : i \in {x \in relations : x.row.type = "defines" /\ x.row.src[1] = p}},
        evidence |-> {i.row : i \in {x \in evidence : x.row.file = p}}]]

Rendering ==
  [p \in Paths |-> [v \in Hashes |->
    IF v = Missing THEN [chunk |-> {}, entity |-> {}, defines |-> {}, evidence |-> {}]
    ELSE [chunk |-> ChunkRows(p, v), entity |-> EntityRows(p, v),
          defines |-> Defines(p, v), evidence |-> EvidenceRows(p, v)]]]

Garbled == MaxRevision + 2

ShownIn(base) ==
  LET view == View(base)
  IN [p \in Paths |->
       IF \E v \in Hashes : view[p] = Rendering[p][v]
       THEN CHOOSE v \in Hashes : view[p] = Rendering[p][v] ELSE Garbled]

-----------------------------------------------------------------------------
(* What one item of a metadata batch writes.  What is live is read through *)
(* another connection, as of the last commit.                              *)

\* _load_live_bundle
LiveBundle(committed, p) ==
  LET rows(table) == {i.row : i \in {x \in LogicalObjects(committed, table) : x.row.file = p}}
      entities == Ids(rows("entity"))
  IN [chunk |-> rows("chunk"), entity |-> rows("entity"),
      relation |-> {i.row : i \in {x \in LogicalRelations(committed) :
                      x.row.src \in entities \/ x.row.dst \in entities}}]

KnowsFile(committed, p) == p \in Ids(Shadowed(committed, "file"))

\* The successor of an old row: the new row with its match key.
Successors(old, new) ==
  {<<pair[1].id, pair[2].id>> : pair \in {x \in old \X new :
     x[1].key = x[2].key /\ x[1].id # x[2].id}}

RelationSuccessors(old, new, moved) ==
  LET now(id) == IF \E m \in moved : m[1] = id THEN (CHOOSE m \in moved : m[1] = id)[2] ELSE id
  IN {<<pair[1].id, pair[2].id>> : pair \in {x \in old \X new :
        /\ x[1].type = x[2].type /\ x[1].id # x[2].id
        /\ now(x[1].src) = x[2].src /\ now(x[1].dst) = x[2].dst}}

Retired(old, new) == Ids(old) \ Ids(new)

\* Mutant: what disappeared is replaced but not tombstoned.
MarkReplacedOnly(committed, old, new) ==
  [NoWrites EXCEPT !.successors["chunk"] = Successors(old.chunk, new.chunk),
                   !.successors["entity"] = Successors(old.entity, new.entity)]

\* _diff_and_mark_stale
MarkStale(committed, old, new) ==
  LET moved == Successors(old.entity, new.entity)
  IN [NoWrites EXCEPT
        !.successors["chunk"] = Successors(old.chunk, new.chunk),
        !.successors["entity"] = moved,
        !.successors["relation"] = RelationSuccessors(old.relation, new.relation, moved),
        !.tombstones = (UNION {TombstoneChunk(committed, c) : c \in Retired(old.chunk, new.chunk)})
                       \cup {<<"entity", e>> : e \in Retired(old.entity, new.entity)}
                       \cup {<<"relation", r>> : r \in Retired(old.relation, new.relation)}]

ApplyBundle(committed, p, new) ==
  LET marks == IF KnowsFile(committed, p)
               THEN MarkStale(committed, LiveBundle(committed, p), new) ELSE NoWrites
  IN [marks EXCEPT !.rows = [t \in Tables |-> IF t \in DOMAIN new THEN new[t] ELSE {}]]

\* _tombstone_deleted_path
TombstonePath(committed, p) ==
  IF KnowsFile(committed, p)
  THEN [NoWrites EXCEPT !.tombstones = TombstoneFile(committed, p)] ELSE NoWrites

ApplyItem(committed, p) ==
  IF run.plan[p] = Missing THEN TombstonePath(committed, p)
  ELSE ApplyBundle(committed, p, Bundle(p, run.plan[p], CollectedWith(run.plan)))

-----------------------------------------------------------------------------
(* The workspace and the run.                                              *)

Edit(p) ==
  /\ \/ "modify" \in Edits /\ ws[p] < MaxRevision /\ ws' = [ws EXCEPT ![p] = @ + 1]
     \/ "delete" \in Edits /\ ws[p] \notin {Missing, Gone} /\ ws' = [ws EXCEPT ![p] = Gone]
     \/ "readd" \in Edits /\ ws[p] = Gone /\ ws' = [ws EXCEPT ![p] = 1]
  /\ UNCHANGED <<indexed, db, disk, run, shown>>

StartRun(j) ==
  /\ run.pc = "idle"
  /\ Changed(Captured) \cup Deleted(Captured) # {}
  /\ run' = [IdleRun EXCEPT !.pc = "metadata", !.job = j, !.plan = Captured,
               !.todo = Changed(Captured) \cup Deleted(Captured),
               !.vectors = Changed(Captured) \cap Docs]
  /\ UNCHANGED <<ws, indexed, db, disk, shown>>

\* One transaction.  Code before documents, in the order of the items.
CommitBatch ==
  /\ run.pc = "metadata"
  /\ \E batch \in SUBSET run.todo :
       /\ batch # {} /\ Cardinality(batch) <= MaxBatch
       /\ batch \subseteq CodePaths \/ run.todo \cap CodePaths = {}
       /\ db' = Commit(db, {ApplyItem(db, p) : p \in batch})
       /\ shown' = ShownIn(db')
       /\ run' = [run EXCEPT !.todo = @ \ batch,
                             !.pc = IF run.todo = batch THEN "vectors" ELSE @]
  /\ UNCHANGED <<ws, indexed, disk>>

VectorRows(d) ==
  [k \in Ids(RefRows(d, run.plan[d])) |-> run.plan[d]]

\* upsert_vectors: the segment file, the manifest, then the references once
\* the rows can be read back.
AppendSegment ==
  /\ run.pc = "vectors"
  /\ \E d \in run.vectors :
       LET name == NextSegment(disk, run.job)
       IN /\ disk' = WriteSegment(disk, name, VectorRows(d))
          /\ run' = [run EXCEPT !.pc = "manifest", !.segment = name, !.doc = d]
  /\ UNCHANGED <<ws, indexed, db, shown>>

AppendToManifest ==
  /\ run.pc = "manifest"
  /\ disk' = ListSegment(disk, run.segment)
  /\ run' = [run EXCEPT !.pc = "refs", !.dirty = TRUE]
  /\ UNCHANGED <<ws, indexed, db, shown>>

NextVector(failed) ==
  run' = [run EXCEPT !.pc = "vectors", !.vectors = @ \ {run.doc}, !.segment = NoSegment,
                     !.doc = "none", !.failed = @ \/ failed]

\* Mutant: the references are committed whether or not the rows are there.
CommitRefsBlindly ==
  /\ run.pc = "refs"
  /\ db' = Upsert(db, "vector_ref", RefRows(run.doc, run.plan[run.doc]))
  /\ NextVector(FALSE)
  /\ shown' = ShownIn(db')
  /\ UNCHANGED <<ws, indexed, disk>>

CommitRefs ==
  /\ run.pc = "refs"
  /\ RowsWritten(disk, VectorRows(run.doc))
  /\ db' = Upsert(db, "vector_ref", RefRows(run.doc, run.plan[run.doc]))
  /\ NextVector(FALSE)
  /\ shown' = ShownIn(db')
  /\ UNCHANGED <<ws, indexed, disk>>

\* Another segment overrides the rows: the item fails, and so does the run.
RejectRows ==
  /\ run.pc = "refs"
  /\ ~RowsWritten(disk, VectorRows(run.doc))
  /\ NextVector(TRUE)
  /\ UNCHANGED <<ws, indexed, db, disk, shown>>

\* flush: maybe_compact_collection
Flush ==
  /\ run.pc = "vectors" /\ run.vectors = {}
  /\ IF run.dirty /\ Cardinality(DOMAIN disk.segments) >= CompactAt
     THEN disk' = WriteCompacted(disk) /\ run' = [run EXCEPT !.pc = "compact"]
     ELSE disk' = disk /\ run' = [run EXCEPT !.pc = "save"]
  /\ UNCHANGED <<ws, indexed, db, shown>>

DeleteSegment ==
  /\ run.pc = "compact"
  /\ \E n \in DOMAIN disk.segments : disk' = RemoveSegment(disk, n)
  /\ UNCHANGED <<ws, indexed, db, run, shown>>

EndCompaction ==
  /\ run.pc = "compact" /\ disk.segments = <<>>
  /\ disk' = ClearManifest(disk)
  /\ run' = [run EXCEPT !.pc = "save"]
  /\ UNCHANGED <<ws, indexed, db, shown>>

\* Mutant: the state is saved although vectors were rejected.
SaveAnyway ==
  /\ run.pc = "save"
  /\ indexed' = run.plan
  /\ run' = IdleRun
  /\ UNCHANGED <<ws, db, disk, shown>>

SaveState ==
  /\ run.pc = "save"
  /\ indexed' = IF run.failed THEN indexed ELSE run.plan
  /\ run' = IdleRun
  /\ UNCHANGED <<ws, db, disk, shown>>

Crash ==
  /\ run.pc # "idle" /\ Cardinality(DOMAIN disk.segments) < MaxSegments
  /\ IF run.pc = "compact" THEN "torn_compaction" \in Faults ELSE "crash" \in Faults
  /\ run' = IdleRun
  /\ UNCHANGED <<ws, indexed, db, disk, shown>>

-----------------------------------------------------------------------------
\* A baseline of the queried snapshot: rows, references and payloads of the
\* paths of Baseline, and the state file that was saved with it.
PublishedBaseline ==
  LET bundles == {Bundle(p, 1, Baseline) : p \in Baseline}
  IN [t \in Tables |-> IF t = "vector_ref" THEN UNION {RefRows(p, 1) : p \in Baseline}
                       ELSE UNION {b[t] : b \in bundles}]

BaselineVectors == [k \in Ids(PublishedBaseline["vector_ref"]) |-> 1]

Init ==
  /\ ws = [p \in Paths |-> 1]
  /\ indexed = [p \in Paths |-> IF p \in Baseline THEN 1 ELSE Missing]
  /\ db = [EmptyDb EXCEPT !.baseline = PublishedBaseline]
  /\ disk = EmptyDisk
  /\ run = IdleRun
  /\ shown = ShownIn(db)

RunStep ==
  \/ CommitBatch \/ AppendSegment \/ AppendToManifest \/ CommitRefs \/ RejectRows
  \/ Flush \/ DeleteSegment \/ EndCompaction \/ SaveState

Next ==
  \/ \E p \in Edited : Edit(p)
  \/ \E j \in Jobs : StartRun(j)
  \/ RunStep
  \/ Crash

Spec == Init /\ [][Next]_vars

\* Users keep indexing, and the operating system lets a run in progress go on.
\* In a run a step of it is always possible: the second condition is weak
\* fairness of the steps that are not edits, without the cost of ENABLED.
FairSpec ==
  /\ Spec /\ WF_vars(\E j \in Jobs : StartRun(j))
  /\ []<>(run.pc = "idle") \/ []<><<run.pc # "idle" /\ UNCHANGED ws>>_vars

-----------------------------------------------------------------------------
\* The rows, tombstones and replacements of the two databases make up a map:
\* readers see of each file exactly what one index run planned for it, whole,
\* and a commit changes the files of its batch and no other
\* (sqlite_store.py logical_*, pipeline.py _diff_and_mark_stale).
Overlay == INSTANCE OverlayMap WITH
  Contents <- Hashes, planned <- run.plan
RefinesOverlayMap == Overlay!Spec

\* Full-text search and the logical view are two ways through the same rows,
\* each with rules of its own for what is hidden: no hit is an object the view
\* does not have, and every object is found by the text it has now.
FtsAgreesWithView ==
  \A t \in {"chunk", "entity"} :
    LET objects == LogicalObjects(db, t)
        hits == [v \in 1..MaxRevision |-> Ids(SearchFts(db, t, v))]
    IN /\ UNION {hits[v] : v \in DOMAIN hits} \subseteq Ids(objects)
       /\ \A i \in objects : i.id \in hits[i.row.text]

\* Once a reference to the vector of a chunk's text is committed, search finds
\* the vector: "Verify vector payload rows before committing metadata vector
\* refs." (lancedb_store.py:713).  While a compaction deletes segments, an old
\* one may still lie over the compacted rows.
CommittedVectorsFound ==
  LET live == {[chunk |-> i.id, hash |-> i.row.text] : i \in LogicalObjects(db, "chunk")}
      referred == {[chunk |-> r.object, hash |-> r.hash] : r \in VectorRefs(db)}
  IN run.pc # "compact" => live \cap referred \subseteq VectorHits(db, BaselineVectors, disk)

\* validate never says "blocked" of a store that only this program wrote: no
\* history of edits and crashes (which leave a run idle after any commit) makes
\* a tombstone leak or a replacement loop.  And when readers see what the state
\* file claims, all it may find are the vectors of chunks that are gone, which
\* nothing removes (validation.py:537).
NothingToRepair ==
  run.pc = "idle" =>
    LET found == {f[1] : f \in Degrading(db, BaselineVectors, disk)}
    IN /\ ReportStatus(db, BaselineVectors, disk) # "blocked"
       /\ shown = indexed => found \subseteq {"vector_payload_orphan"}

\* Between runs readers see of each path what the state file says is indexed:
\* "if the overlay has an object with the same id that no tombstone hides, use
\* the overlay's version" and "the hash of a file changes: rebuild the chunks,
\* entities and relations of this file" (doc/active_knowledge_server_architecture_design.md:3736, :1227).
IndexedIsShown == run.pc = "idle" => shown = indexed

\* Readers see the workspace, in text and in vectors.
InSync ==
  /\ shown = Captured
  /\ UNION {{[chunk |-> c.id, hash |-> c.text] : c \in View(db)[d].chunk} : d \in Docs}
       \subseteq VectorHits(db, BaselineVectors, disk)

\* When crashes end, and edits with them, going on indexing makes readers see
\* the workspace, through leftover segments and rejected vectors.
Converges == (<>[][~Crash]_vars) => <>[]InSync
=============================================================================
