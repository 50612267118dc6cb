---------------------------- MODULE VectorSearch ----------------------------
(***************************************************************************)
(* LanceDBVectorReader.search_vectors (storage/lancedb_store.py): payload  *)
(* rows of the baseline and of the overlay, each kept only if the metadata *)
(* store still stands behind it.  The reference of a chunk is              *)
(* <<"ref", chunk>>; distances and scopes are left out.                    *)
(***************************************************************************)
EXTENDS MetadataStore, VectorStore

EmbeddedChunk(ref) == ref[2]

\* _build_match: the reference and the chunk are live and both have the hash
\* of what was embedded.
Matches(db, rows) ==
  LET refs == VectorRefs(db)
      chunks == LogicalObjects(db, "chunk")
  IN {[chunk |-> EmbeddedChunk(k), hash |-> rows[k]] :
        k \in {x \in DOMAIN rows :
          /\ ~IsTombstoned(db, "chunk", EmbeddedChunk(x))
          /\ ~IsReplaced(db, "chunk", EmbeddedChunk(x))
          /\ \E r \in refs : r.id = x /\ r.object = EmbeddedChunk(x) /\ r.hash = rows[x]
          /\ \E i \in chunks : i.id = EmbeddedChunk(x) /\ i.row.text = rows[x]}}

VectorHits(db, below, disk) == Matches(db, below) \cup Matches(db, LoadRows(disk))
=============================================================================
