-------------------------- MODULE StoreValidation ---------------------------
(***************************************************************************)
(* validate_storage_consistency, mode "full" (storage/validation.py): the  *)
(* checks that relate metadata, full-text index and vectors.  A finding is *)
(* <<code, table, id>>; schema versions, manifests and locks are left out. *)
(***************************************************************************)
EXTENDS VectorSearch

\* check_vector_refs; the overlay's payload stands for the baseline's.
VectorFindings(db, below, disk) ==
  LET payload == Merge(below, LoadRows(disk))
      refs == VectorRefs(db)
  IN {<<"vector_ref_missing", "vector_ref", r.id>> : r \in {x \in refs : x.id \notin DOMAIN payload}} \cup
     {<<"vector_ref_payload_mismatch", "vector_ref", r.id>> :
        r \in {x \in refs : x.id \in DOMAIN payload /\ payload[x.id] # x.hash}} \cup
     {<<"vector_payload_orphan", "vector_ref", k>> : k \in DOMAIN payload \ Ids(refs)}

\* check_evidence_targets
DanglingEvidence(db) ==
  LET files == Ids(Shadowed(db, "file"))
      chunks == Ids(LogicalObjects(db, "chunk"))
      entities == Ids(LogicalObjects(db, "entity"))
  IN {<<"dangling_evidence", "evidence", i.id>> : i \in {x \in LogicalEvidence(db) :
        \/ x.row.file \notin files
        \/ x.row.chunk # NoChunk /\ x.row.chunk \notin chunks
        \/ x.row.about = "entity" /\ x.row.object \notin entities}}

\* validate_relations: what is shown must lead to live entities.
OrphanRelations(db) ==
  LET entities == LiveIds(db, "entity")
  IN {<<"orphan_relation", "relation", r.id>> : r \in {x \in Shadowed(db, "relation") :
        /\ RelationShown(db, x)
        /\ ~({Endpoints(db, x).src, Endpoints(db, x).dst} \subseteq entities)}}

\* check_tombstone_leaks; full text is asked for the object by its id.
TombstoneLeaks(db) ==
  LET visible(t) ==
        CASE t \in {"chunk", "entity"} -> Ids(LogicalObjects(db, t)) \cup
               Ids(UNION {SearchFts(db, t, r.text) : r \in db.overlay[t] \cup db.baseline[t]})
          [] t = "relation" -> Ids(LogicalRelations(db))
          [] t = "evidence" -> Ids(LogicalEvidence(db))
          [] t = "vector_ref" -> Ids(VectorRefs(db))
          [] OTHER -> {}
  IN UNION {{<<"tombstone_leak", t, id>> :
               id \in {o[2] : o \in {x \in db.tombstone : x[1] = t}} \cap visible(t)} : t \in Tables}

\* check_replacement_loops: what a walk comes back to, from wherever it starts.
\* Loops are the sets whose members are replaced by one another.
ReplacementLoops(db) ==
  LET next == db.replacement
      loops == {s \in SUBSET DOMAIN next : {<<k[1], next[k]>> : k \in s} = s}
  IN {<<"replacement_loop", k[1], k[2]>> : k \in UNION loops}

Blocking(db) == TombstoneLeaks(db) \cup ReplacementLoops(db)

Degrading(db, below, disk) ==
  VectorFindings(db, below, disk) \cup DanglingEvidence(db) \cup OrphanRelations(db)

\* report_status
ReportStatus(db, below, disk) ==
  CASE Blocking(db) # {} -> "blocked"
    [] Degrading(db, below, disk) # {} -> "degraded"
    [] OTHER -> "ok"
=============================================================================
