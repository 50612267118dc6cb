---------------------------- MODULE VectorStore -----------------------------
(***************************************************************************)
(* One collection of a vector store (storage/lancedb_store.py): a file of  *)
(* compacted rows, segment files that are appended to it, and a manifest   *)
(* that lists the segments.  Operators over a value disk; each of the      *)
(* operators that change it writes or removes one file.                    *)
(*                                                                         *)
(* Rows map a vector_ref id to the content hash of what was embedded.      *)
(***************************************************************************)
EXTENDS Naturals, Sequences, FiniteSets, SequencesExt

EmptyDisk == [rows |-> <<>>, segments |-> <<>>, listed |-> <<>>]

Merge(old, new) ==
  [k \in DOMAIN old \cup DOMAIN new |-> IF k \in DOMAIN new THEN new[k] ELSE old[k]]

\* A segment file is named after its job and numbered within it; file names
\* sort by job, then by number.
SegmentBefore(m, n) == m.job < n.job \/ (m.job = n.job /\ m.part < n.part)

NextSegment(disk, job) ==
  [job |-> job, part |-> 1 + Max({0} \cup {n.part : n \in {x \in DOMAIN disk.segments : x.job = job}})]

Listed(disk) == {disk.listed[i] : i \in DOMAIN disk.listed}

ListedBefore(disk, m, n) ==
  \E j \in DOMAIN disk.listed :
    disk.listed[j] = n /\ \A i \in DOMAIN disk.listed : disk.listed[i] = m => i < j

\* The files the manifest lists come in its order, and then the others by name.
LoadedBefore(disk, m, n) ==
  \/ {m, n} \subseteq Listed(disk) /\ ListedBefore(disk, m, n)
  \/ m \in Listed(disk) /\ n \notin Listed(disk)
  \/ {m, n} \cap Listed(disk) = {} /\ SegmentBefore(m, n)

SegmentsWith(disk, k) == {n \in DOMAIN disk.segments : k \in DOMAIN disk.segments[n]}

Latest(disk, names) == CHOOSE n \in names : \A m \in names \ {n} : LoadedBefore(disk, m, n)

\* Later segments win.
LoadRows(disk) ==
  [k \in DOMAIN disk.rows \cup UNION {DOMAIN disk.segments[n] : n \in DOMAIN disk.segments} |->
     IF SegmentsWith(disk, k) = {} THEN disk.rows[k]
     ELSE disk.segments[Latest(disk, SegmentsWith(disk, k))][k]]

-----------------------------------------------------------------------------
\* append_collection_segment: the segment file, then the manifest.
WriteSegment(disk, name, rows) == [disk EXCEPT !.segments = Merge(@, [n \in {name} |-> rows])]

ListSegment(disk, name) == [disk EXCEPT !.listed = Append(@, name)]

\* validate_collection_rows_written
RowsWritten(disk, rows) ==
  \A k \in DOMAIN rows : k \in DOMAIN LoadRows(disk) /\ LoadRows(disk)[k] = rows[k]

\* write_collection_rows: the compacted file, the segment files one by one in
\* no order, the manifest.
WriteCompacted(disk) == [disk EXCEPT !.rows = LoadRows(disk)]

RemoveSegment(disk, name) ==
  [disk EXCEPT !.segments = [n \in DOMAIN @ \ {name} |-> @[n]]]

ClearManifest(disk) == [disk EXCEPT !.listed = <<>>]
=============================================================================
