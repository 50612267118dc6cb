--------------------------- MODULE MetadataStore ----------------------------
(***************************************************************************)
(* The metadata store (storage/sqlite_store.py): a baseline and an overlay *)
(* database, tombstones and replacements, and the logical view that        *)
(* readers get of the two.  Operators over a value db; the modules that    *)
(* extend this one say when it changes.                                    *)
(*                                                                         *)
(* A row is a record with an id that is unique within its table.  Every    *)
(* row here is of the queried snapshot and of scope "all": matching scopes *)
(* is left out.                                                            *)
(***************************************************************************)
EXTENDS Naturals, FiniteSets

Tables == {"file", "chunk", "entity", "relation", "evidence", "vector_ref"}
NoRows == [t \in Tables |-> {}]

\* The chunk of evidence that has none.
NoChunk == <<>>

\* tombstone: pairs <<table, id>>; replacement: the newest successor of a pair.
EmptyDb ==
  [baseline |-> NoRows, overlay |-> NoRows, tombstone |-> {}, replacement |-> <<>>]

Ids(rows) == {r.id : r \in rows}

-----------------------------------------------------------------------------
(* Writing.  Every write of the pipeline goes to the overlay, inside the   *)
(* transaction of its batch: rows, tombstones and, for each table, pairs   *)
(* of an old id and the id of its successor.                               *)

NoWrites == [rows |-> NoRows, tombstones |-> {}, successors |-> [t \in Tables |-> {}]]

\* INSERT ... ON CONFLICT(id) DO UPDATE; the FTS row of a chunk or an entity
\* is deleted and inserted with it, so it is not kept apart.
UpsertRows(old, rows) == {r \in old : r.id \notin Ids(rows)} \cup rows

Upsert(db, table, rows) == [db EXCEPT !.overlay[table] = UpsertRows(@, rows)]

Tombstone(db, objects) == [db EXCEPT !.tombstone = @ \cup objects]

\* The newest successor of an object is the one that counts.
Replace(db, successors) ==
  LET Of(k) == {s \in successors[k[1]] : s[1] = k[2]}
  IN [db EXCEPT !.replacement =
        [k \in DOMAIN @ \cup UNION {{<<t, s[1]>> : s \in successors[t]} : t \in Tables} |->
           IF Of(k) = {} THEN @[k] ELSE (CHOOSE s \in Of(k) : TRUE)[2]]]

\* A transaction: the items write rows, tombstones and replacements of their own,
\* whatever their order.
Commit(db, items) ==
  LET all == [rows |-> [t \in Tables |-> UNION {i.rows[t] : i \in items}],
              tombstones |-> UNION {i.tombstones : i \in items},
              successors |-> [t \in Tables |-> UNION {i.successors[t] : i \in items}]]
      written == [db EXCEPT !.overlay = [t \in Tables |-> UpsertRows(@[t], all.rows[t])]]
  IN Tombstone(Replace(written, all.successors), all.tombstones)

-----------------------------------------------------------------------------
(* Reading one object.                                                     *)

\* A row of the overlay shadows the row of the baseline with the same id.
Shadowed(db, table) ==
  db.overlay[table] \cup
    {r \in db.baseline[table] : r.id \notin Ids(db.overlay[table])}

IsTombstoned(db, table, id) == <<table, id>> \in db.tombstone

\* Follows replacements until there is none or one leads back.
Resolve(db, table, id) ==
  IF <<table, id>> \notin DOMAIN db.replacement THEN id ELSE
  LET next == db.replacement
      step[k \in 0..Cardinality(DOMAIN next)] ==
        IF k = 0 THEN [at |-> id, seen |-> {id}]
        ELSE LET prev == step[k - 1]
                 key == <<table, prev.at>>
             IN IF key \in DOMAIN next /\ next[key] \notin prev.seen
                THEN [at |-> next[key], seen |-> prev.seen \cup {next[key]}]
                ELSE prev
  IN step[Cardinality(DOMAIN next)].at

IsReplaced(db, table, id) == Resolve(db, table, id) # id

\* Mutant: a tombstone of the file counts, one of the object does not.
HiddenWithFile(db, table, r) == IsTombstoned(db, "file", r.file)

\* A chunk or an entity is hidden with its file.
RowHidden(db, table, r) ==
  \/ IsTombstoned(db, table, r.id)
  \/ IsTombstoned(db, "file", r.file)

LiveIds(db, table) == Ids({r \in Shadowed(db, table) : ~RowHidden(db, table, r)})

LogicalObjectExists(db, table, id) == id \in LiveIds(db, table)

RelationExists(db, id) ==
  id \in Ids(Shadowed(db, "relation")) /\ ~IsTombstoned(db, "relation", id)

-----------------------------------------------------------------------------
(* The logical view.  An item is [id, row, source].                        *)

Item(id, row, source) == [id |-> id, row |-> row, source |-> source]

\* logical_chunks, logical_entities: what the overlay shows, then rows of the
\* baseline nothing in the overlay stands for, then replaced rows whose
\* successor exists, one for each successor.
LogicalObjects(db, table) ==
  LET shown == {r \in db.overlay[table] : ~RowHidden(db, table, r)}
      above == Ids(shown)
      live == LiveIds(db, table)
      below == {r \in db.baseline[table] : Resolve(db, table, r.id) \notin above}
      kept == {r \in below : ~IsReplaced(db, table, r.id) /\ ~RowHidden(db, table, r)}
      moved == {r \in below : IsReplaced(db, table, r.id) /\ Resolve(db, table, r.id) \in live}
      successors == {Resolve(db, table, r.id) : r \in moved} \ Ids(kept)
  IN {Item(r.id, r, "overlay") : r \in shown} \cup
     {Item(r.id, r, "baseline") : r \in kept} \cup
     {Item(id, CHOOSE r \in moved : Resolve(db, table, r.id) = id, "merged") : id \in successors}

\* A relation is shown while both of its endpoints, resolved, exist.
RelationShown(db, r) ==
  /\ ~IsTombstoned(db, "relation", r.id)
  /\ ~(IsReplaced(db, "relation", r.id) /\ RelationExists(db, Resolve(db, "relation", r.id)))

Endpoints(db, r) == [src |-> Resolve(db, "entity", r.src), dst |-> Resolve(db, "entity", r.dst)]

LogicalRelations(db) ==
  LET entities == LiveIds(db, "entity")
      live(r) == /\ RelationShown(db, r)
                 /\ {Endpoints(db, r).src, Endpoints(db, r).dst} \subseteq entities
      resolved(r) == [r EXCEPT !.src = Endpoints(db, r).src, !.dst = Endpoints(db, r).dst]
      above == {r \in db.overlay["relation"] : live(r)}
      below == {r \in db.baseline["relation"] : live(r) /\ r.id \notin Ids(above)}
  IN {Item(r.id, resolved(r), "overlay") : r \in above} \cup
     {Item(r.id, resolved(r), "baseline") : r \in below}

\* Evidence is hidden with its file, its chunk and the object it is about.
EvidenceHidden(db, r) ==
  \/ IsTombstoned(db, "evidence", r.id)
  \/ IsTombstoned(db, "file", r.file)
  \/ r.chunk # NoChunk /\ IsTombstoned(db, "chunk", r.chunk)
  \/ IsTombstoned(db, r.about, r.object)

LogicalEvidence(db) ==
  LET object(r) == Resolve(db, r.about, r.object)
      live(r) == /\ ~EvidenceHidden(db, r)
                 /\ IsReplaced(db, r.about, r.object) =>
                      r.about \in {"chunk", "entity"} /\ LogicalObjectExists(db, r.about, object(r))
      resolved(r) == [r EXCEPT !.object = object(r),
                               !.chunk = IF @ = r.object THEN object(r) ELSE @]
      above == {r \in db.overlay["evidence"] : live(r)}
      below == {r \in db.baseline["evidence"] : live(r) /\ r.id \notin Ids(above)}
  IN {Item(r.id, resolved(r), "overlay") : r \in above} \cup
     {Item(r.id, resolved(r), "baseline") : r \in below}

\* iter_vector_refs: a reference counts while the chunk it embeds exists.
VectorRefs(db) ==
  LET chunks == LiveIds(db, "chunk")
  IN {r \in Shadowed(db, "vector_ref") :
        ~IsTombstoned(db, "vector_ref", r.id) /\ r.object \in chunks}

-----------------------------------------------------------------------------
(* Full-text search.                                                       *)

\* Mutant: the object is looked up as it was written, not as it is now.
RawCandidates(db, table, r, source) == {Item(r.id, r, source)}

\* What the overlay holds of an object hides the row of the baseline.
OverlayLive(db, table, id) == id \in Ids(db.overlay[table]) /\ ~IsTombstoned(db, table, id)

\* _fts_candidate_from_raw: what a physical row that matches stands for.
Candidates(db, table, r, source) ==
  LET id == Resolve(db, table, r.id)
      shown == IF id # r.id THEN /\ LogicalObjectExists(db, table, id)
                                 /\ ~IsTombstoned(db, table, id)
               ELSE /\ ~IsTombstoned(db, table, id)
                    /\ source = "baseline" => ~OverlayLive(db, table, id)
  IN IF shown /\ ~IsTombstoned(db, "file", r.file)
     THEN {Item(id, r, IF id # r.id THEN "merged" ELSE source)} ELSE {}

\* The physical rows of one database that match, before the cut to top_k.
MatchingRows(rows, text) == {r \in rows : r.text = text}

\* search_fts for the text of a revision.
SearchFts(db, table, text) ==
  (UNION {Candidates(db, table, r, "overlay") : r \in MatchingRows(db.overlay[table], text)}) \cup
  (UNION {Candidates(db, table, r, "baseline") : r \in MatchingRows(db.baseline[table], text)})

-----------------------------------------------------------------------------
(* Cascades.  Each query runs per database, baseline first, with the ids   *)
(* found so far.  What is hidden is looked up in the committed rows, over  *)
(* connections of its own, also in the middle of a transaction.            *)

RowsOfFile(source, table, file) == {r \in source[table] : r.file = file}

RelationsTouching(source, entities) ==
  {r \in source["relation"] : r.src \in entities \/ r.dst \in entities}

RefsTo(source, chunks) == {r \in source["vector_ref"] : r.object \in chunks}

EvidenceOfChunk(source, chunk) ==
  {r \in source["evidence"] : r.chunk = chunk \/ (r.about = "chunk" /\ r.object = chunk)}

TombstoneFile(db, file) ==
  LET below(t) == RowsOfFile(db.baseline, t, file)
      both(t) == below(t) \cup RowsOfFile(db.overlay, t, file)
      rows == [t \in Tables |->
        CASE t = "file" -> {r \in db.baseline[t] \cup db.overlay[t] : r.id = file}
          [] t = "relation" -> RelationsTouching(db.baseline, Ids(below("entity"))) \cup
                               RelationsTouching(db.overlay, Ids(both("entity")))
          [] t = "vector_ref" -> RefsTo(db.baseline, Ids(below("chunk"))) \cup
                                 RefsTo(db.overlay, Ids(both("chunk")))
          [] OTHER -> both(t)]
  IN UNION {{<<t, r.id>> : r \in rows[t]} : t \in Tables}

TombstoneChunk(db, chunk) ==
  LET both == {db.baseline, db.overlay}
  IN {<<"chunk", r.id>> : r \in {x \in UNION {s["chunk"] : s \in both} : x.id = chunk}} \cup
     {<<"evidence", r.id>> : r \in UNION {EvidenceOfChunk(s, chunk) : s \in both}} \cup
     {<<"vector_ref", r.id>> : r \in UNION {RefsTo(s, {chunk}) : s \in both}}
=============================================================================
