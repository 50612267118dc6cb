------------------------------ MODULE Publish -------------------------------
(***************************************************************************)
(* How a full index goes live (cli.py run_full_index, storage/staging.py,  *)
(* storage/publish.py), beside incremental runs that write the live store, *)
(* query processes that read it through the publish pointer, and `clean`   *)
(* (storage/maintenance.py), which takes no lock.                          *)
(*                                                                         *)
(* A version is the full-index job that builds it: its job token names its *)
(* staging files and its published files.  The content of a store is told  *)
(* by one document, whose every (re)indexing is a generation of its own.   *)
(***************************************************************************)
EXTENDS Naturals, FiniteSets

CONSTANTS
  Versions,   \* full-index jobs
  Updaters,   \* incremental CLI runs
  Readers,    \* processes that query the index
  Keep,       \* clean --keep
  Faults,     \* a subset of FaultKinds
  Anchor,     \* the configured path, used while nothing is published
  None

FaultKinds == {"crash", "error", "cancel"}

ASSUME ConstantsAssumption ==
  /\ Keep \in Nat
  /\ Faults \subseteq FaultKinds
  /\ Anchor \notin Versions \cup Updaters
  /\ None \notin Versions \cup Updaters \cup {Anchor}
  /\ Versions \cap Updaters = {}

VARIABLES
  staging,    \* staging[v]: the staging files of full-index job v
  store,      \* store[p]: the files at the anchor path or of published version p
  newer,      \* <<v, w>>: files of version v were written after those of w
  pointer,    \* the publish manifest: a version, or Anchor when there is none
  lock,       \* owner of the index lock
  full,       \* full[v]: full-index process v and the status of its job
  update,     \* update[u]: incremental process u
  reader,     \* reader[r]: query process r
  cleaner     \* the process that runs clean

vars == <<staging, store, newer, pointer, lock, full, update, reader, cleaner>>

-----------------------------------------------------------------------------
(* Stores.                                                                 *)

Places == Versions \cup {Anchor}
Generations == Versions \cup Updaters \cup {Anchor}

\* Metadata database (with its tables, or none; a chunk row and a
\* vector_ref row) and vector directory (absent until a row is written).
Store == [db: BOOLEAN, chunk: Generations \cup {None}, ref: Generations \cup {None},
          row: Generations \cup {None}]

Empty == [db |-> FALSE, chunk |-> None, ref |-> None, row |-> None]
NoMetadata(s) == [s EXCEPT !.db = FALSE, !.chunk = None, !.ref = None]
WithMetadata(s, t) == [s EXCEPT !.db = t.db, !.chunk = t.chunk, !.ref = t.ref]
NoVectors(s) == [s EXCEPT !.row = None]

-----------------------------------------------------------------------------
(* Processes.                                                              *)

FullPc == {"idle", "scan", "chunks", "rows", "refs", "validate", "move_metadata",
           "move_vectors", "activate", "finish", "done", "dead"}
JobStatus == {"none", "running", "ready", "partial_ready", "failed", "cancelled"}
FullState == [pc: FullPc, status: JobStatus]
NoJob == [pc |-> "idle", status |-> "none"]

UpdatePc == {"idle", "open_vectors", "opened", "chunks", "rows", "refs", "done", "dead"}
UpdateState == [pc: UpdatePc, metadata: Places, vectors: Places]

ReaderPc == {"closed", "open_vectors", "open"}
ReaderState == [pc: ReaderPc, metadata: Places, vectors: Places]

Closed == [pc |-> "closed", metadata |-> Anchor, vectors |-> Anchor]

\* What clean deletes: the metadata or the vectors of a version, staged or
\* published.
Files == [where: {"staging", "store"}, part: {"metadata", "vectors"}, of: Versions]
CleanerState == [pc: {"idle", "retain", "delete"}, todo: SUBSET Files]

TypeOK ==
  /\ staging \in [Versions -> Store]
  /\ store \in [Places -> Store]
  /\ newer \subseteq Versions \X Versions
  /\ pointer \in Places
  /\ lock \in Versions \cup Updaters \cup {None}
  /\ full \in [Versions -> FullState]
  /\ update \in [Updaters -> UpdateState]
  /\ reader \in [Readers -> ReaderState]
  /\ cleaner \in CleanerState

Init ==
  /\ staging = [v \in Versions |-> Empty]
  /\ store = [p \in Places |->
       IF p = Anchor THEN [db |-> TRUE, chunk |-> Anchor, ref |-> Anchor, row |-> Anchor]
                     ELSE Empty]
  /\ newer = {}
  /\ pointer = Anchor
  /\ lock = None
  /\ full = [v \in Versions |-> NoJob]
  /\ update = [u \in Updaters |-> [pc |-> "idle", metadata |-> Anchor, vectors |-> Anchor]]
  /\ reader = [r \in Readers |-> Closed]
  /\ cleaner = [pc |-> "idle", todo |-> {}]

ReleaseLock(owner) == lock' = IF lock = owner THEN None ELSE lock

\* Files of version p, staged or published, were written; moving them keeps their mtime.
Touch(p) ==
  newer' = IF p = Anchor THEN newer
           ELSE {e \in newer : e[2] # p} \cup ({p} \X (Versions \ {p}))

-----------------------------------------------------------------------------
(* Full index.                                                             *)

FullAt(v, l) == full[v].pc = l
FullGoto(v, l) == full' = [full EXCEPT ![v].pc = l]

\* Mutant: the lock is not taken.
StartFullUnlocked(v) ==
  /\ full[v] = NoJob
  /\ full' = [full EXCEPT ![v] = [pc |-> "scan", status |-> "running"]]
  /\ UNCHANGED <<staging, store, newer, pointer, lock, update, reader, cleaner>>

\* prepare_nonresumable_index_job; the lock is held by another job: this one
\* raises and never gets to storage.
StartFull(v) ==
  /\ full[v] = NoJob
  /\ lock = None
  /\ lock' = v
  /\ full' = [full EXCEPT ![v] = [pc |-> "scan", status |-> "running"]]
  /\ UNCHANGED <<staging, store, newer, pointer, update, reader, cleaner>>

\* The staging database is created, then the workspace is scanned.
CreateStaging(v) ==
  /\ FullAt(v, "scan")
  /\ staging' = [staging EXCEPT ![v].db = TRUE]
  /\ Touch(v)
  /\ FullGoto(v, "chunks")
  /\ UNCHANGED <<store, pointer, lock, update, reader, cleaner>>

\* The indexers write chunk rows, vector rows, and vector_ref rows, in this
\* order.  A write to a metadata file that is gone fails: see FailFull.
StageChunks(v) ==
  /\ FullAt(v, "chunks")
  /\ staging[v].db
  /\ staging' = [staging EXCEPT ![v].chunk = v]
  /\ Touch(v)
  /\ FullGoto(v, "rows")
  /\ UNCHANGED <<store, pointer, lock, update, reader, cleaner>>

StageRows(v) ==
  /\ FullAt(v, "rows")
  /\ staging' = [staging EXCEPT ![v].row = v]
  /\ Touch(v)
  /\ FullGoto(v, "refs")
  /\ UNCHANGED <<store, pointer, lock, update, reader, cleaner>>

StageRefs(v) ==
  /\ FullAt(v, "refs")
  /\ staging[v].db
  /\ staging' = [staging EXCEPT ![v].ref = v]
  /\ Touch(v)
  /\ FullGoto(v, "validate")
  /\ UNCHANGED <<store, pointer, lock, update, reader, cleaner>>

\* validate_storage_consistency finds every vector_ref with its chunk and row.
Built(v) == [db |-> TRUE, chunk |-> v, ref |-> v, row |-> v]
StagedConsistent(v) == staging[v] = Built(v)

PassValidation(v) ==
  /\ FullAt(v, "validate")
  /\ StagedConsistent(v)
  /\ FullGoto(v, "move_metadata")
  /\ UNCHANGED <<staging, store, newer, pointer, lock, update, reader, cleaner>>

\* Publishing is skipped and the job ends partial_ready; a cancelled job stays
\* failed, for finalize_index_job cannot move it.
MissValidation(v) ==
  /\ FullAt(v, "validate")
  /\ full' = [full EXCEPT ![v].pc = "done",
                ![v].status = IF @ = "running" THEN "partial_ready" ELSE @]
  /\ ReleaseLock(v)
  /\ UNCHANGED <<staging, store, newer, pointer, update, reader, cleaner>>

\* Mutant: the staged metadata replace those of the live version in place.
MoveMetadataInPlace(v) ==
  /\ FullAt(v, "move_metadata")
  /\ staging[v].db
  /\ store' = [store EXCEPT ![pointer] = WithMetadata(@, staging[v])]
  /\ staging' = [staging EXCEPT ![v] = NoMetadata(@)]
  /\ FullGoto(v, "move_vectors")
  /\ UNCHANGED <<newer, pointer, lock, update, reader, cleaner>>

\* Mutant: metadata are published before the vectors are referenced.
MoveMetadataEarly(v) ==
  /\ FullAt(v, "refs")
  /\ staging[v].db
  /\ store' = [store EXCEPT ![v] = WithMetadata(@, staging[v])]
  /\ staging' = [staging EXCEPT ![v] = NoMetadata(@)]
  /\ FullGoto(v, "move_vectors")
  /\ UNCHANGED <<newer, pointer, lock, update, reader, cleaner>>

\* materialize_published_storage, first half: metadata.  If there is neither a
\* staged nor a published file it raises: see FailFull.
MoveMetadata(v) ==
  /\ FullAt(v, "move_metadata")
  /\ staging[v].db \/ store[v].db
  /\ IF staging[v].db
     THEN /\ store' = [store EXCEPT ![v] = WithMetadata(@, staging[v])]
          /\ staging' = [staging EXCEPT ![v] = NoMetadata(@)]
     ELSE UNCHANGED <<store, staging>>
  /\ FullGoto(v, "move_vectors")
  /\ UNCHANGED <<newer, pointer, lock, update, reader, cleaner>>

\* Second half: vectors.  Neither a staged nor a published directory is no error.
MoveVectors(v) ==
  /\ FullAt(v, "move_vectors")
  /\ IF staging[v].row # None
     THEN /\ store' = [store EXCEPT ![v].row = staging[v].row]
          /\ staging' = [staging EXCEPT ![v] = NoVectors(@)]
     ELSE UNCHANGED <<store, staging>>
  /\ FullGoto(v, "activate")
  /\ UNCHANGED <<newer, pointer, lock, update, reader, cleaner>>

\* activate_published_storage: the manifest is replaced atomically.
Activate(v) ==
  /\ FullAt(v, "activate")
  /\ pointer' = v
  /\ FullGoto(v, "finish")
  /\ UNCHANGED <<staging, store, newer, lock, update, reader, cleaner>>

\* finalize_index_job and release_lock; a cancelled job stays failed.
FinishFull(v) ==
  /\ FullAt(v, "finish")
  /\ full' = [full EXCEPT ![v].pc = "done",
                ![v].status = IF @ = "running" THEN "ready" ELSE @]
  /\ ReleaseLock(v)
  /\ UNCHANGED <<staging, store, newer, pointer, update, reader, cleaner>>

FullRunning(v) == full[v].pc \notin {"idle", "done", "dead"}

\* The metadata file this step needs is gone.
StagingGone(v) ==
  \/ full[v].pc \in {"chunks", "refs"} /\ ~staging[v].db
  \/ FullAt(v, "move_metadata") /\ ~staging[v].db /\ ~store[v].db

\* An exception or Ctrl-C: mark_index_job_failed, release_lock.  Whatever was
\* staged, moved or published stays.
FailFull(v) ==
  /\ FullRunning(v)
  /\ "error" \in Faults \/ StagingGone(v)
  /\ full' = [full EXCEPT ![v].pc = "done",
                ![v].status = IF @ = "running" THEN "failed" ELSE @]
  /\ ReleaseLock(v)
  /\ UNCHANGED <<staging, store, newer, pointer, update, reader, cleaner>>

\* The process is killed: its job stays running, its lock stays.
CrashFull(v) ==
  /\ "crash" \in Faults
  /\ FullRunning(v)
  /\ FullGoto(v, "dead")
  /\ UNCHANGED <<staging, store, newer, pointer, lock, update, reader, cleaner>>

\* ops_cancel_index of the MCP server: the job is failed and its lock released
\* while its process, which never looks, goes on.
CancelFull(v) ==
  /\ "cancel" \in Faults
  /\ full[v].status = "running"
  /\ full' = [full EXCEPT ![v].status = "cancelled"]
  /\ ReleaseLock(v)
  /\ UNCHANGED <<staging, store, newer, pointer, update, reader, cleaner>>

FullStep(v) ==
  \/ StartFull(v) \/ CreateStaging(v)
  \/ StageChunks(v) \/ StageRows(v) \/ StageRefs(v)
  \/ PassValidation(v) \/ MissValidation(v)
  \/ MoveMetadata(v) \/ MoveVectors(v) \/ Activate(v) \/ FinishFull(v)
  \/ FailFull(v) \/ CrashFull(v) \/ CancelFull(v)

-----------------------------------------------------------------------------
(* Incremental runs write the store the pointer named when the pipeline    *)
(* object was built, before the job takes the lock.                        *)

UpdateAt(u, l) == update[u].pc = l
UpdateGoto(u, l) == update' = [update EXCEPT ![u].pc = l]

UpdateWriting(u) == update[u].pc \in {"chunks", "rows", "refs"}
EndUpdate(u, l) == update' = [update EXCEPT ![u] = [pc |-> l, metadata |-> Anchor, vectors |-> Anchor]]

\* SQLiteStorageAdapter.from_config, then LanceDBVectorAdapter.from_config: each
\* reads the manifest.
OpenUpdateMetadata(u) ==
  /\ UpdateAt(u, "idle")
  /\ update' = [update EXCEPT ![u].pc = "open_vectors", ![u].metadata = pointer]
  /\ UNCHANGED <<staging, store, newer, pointer, lock, full, reader, cleaner>>

OpenUpdateVectors(u) ==
  /\ UpdateAt(u, "open_vectors")
  /\ update' = [update EXCEPT ![u].pc = "opened", ![u].vectors = pointer]
  /\ UNCHANGED <<staging, store, newer, pointer, lock, full, reader, cleaner>>

StartUpdate(u) ==
  /\ UpdateAt(u, "opened")
  /\ lock = None
  /\ lock' = u
  /\ UpdateGoto(u, "chunks")
  /\ UNCHANGED <<staging, store, newer, pointer, full, reader, cleaner>>

UpdateChunks(u) ==
  /\ UpdateAt(u, "chunks")
  /\ store[update[u].metadata].db
  /\ store' = [store EXCEPT ![update[u].metadata].chunk = u]
  /\ Touch(update[u].metadata)
  /\ UpdateGoto(u, "rows")
  /\ UNCHANGED <<staging, pointer, lock, full, reader, cleaner>>

\* append_collection_segment makes the directory when it is gone.
UpdateRows(u) ==
  /\ UpdateAt(u, "rows")
  /\ store' = [store EXCEPT ![update[u].vectors].row = u]
  /\ Touch(update[u].vectors)
  /\ UpdateGoto(u, "refs")
  /\ UNCHANGED <<staging, pointer, lock, full, reader, cleaner>>

UpdateRefs(u) ==
  /\ UpdateAt(u, "refs")
  /\ store[update[u].metadata].db
  /\ store' = [store EXCEPT ![update[u].metadata].ref = u]
  /\ Touch(update[u].metadata)
  /\ EndUpdate(u, "done")
  /\ ReleaseLock(u)
  /\ UNCHANGED <<staging, pointer, full, reader, cleaner>>

\* A lock held by another job, an exception, or a metadata file that is gone.
StopUpdate(u) ==
  /\ \/ UpdateAt(u, "opened") /\ lock # None
     \/ /\ UpdateWriting(u)
        /\ \/ "error" \in Faults
           \/ ~UpdateAt(u, "rows") /\ ~store[update[u].metadata].db
  /\ EndUpdate(u, "done")
  /\ ReleaseLock(u)
  /\ UNCHANGED <<staging, store, newer, pointer, full, reader, cleaner>>

CrashUpdate(u) ==
  /\ "crash" \in Faults
  /\ UpdateWriting(u)
  /\ EndUpdate(u, "dead")
  /\ UNCHANGED <<staging, store, newer, pointer, lock, full, reader, cleaner>>

UpdateStep(u) ==
  \/ OpenUpdateMetadata(u) \/ OpenUpdateVectors(u) \/ StartUpdate(u)
  \/ UpdateChunks(u) \/ UpdateRows(u) \/ UpdateRefs(u)
  \/ StopUpdate(u) \/ CrashUpdate(u)

\* The lock of a process that no longer renews it times out.
LockTimesOut ==
  /\ lock # None
  /\ \/ lock \in Versions /\ full[lock].pc = "dead"
     \/ lock \in Updaters /\ update[lock].pc = "dead"
  /\ lock' = None
  /\ UNCHANGED <<staging, store, newer, pointer, full, update, reader, cleaner>>

-----------------------------------------------------------------------------
(* Query processes: the MCP server opens the store once and keeps it.  (A    *)
(* restarted server is one that has not opened the store yet.)             *)

ReaderAt(r, l) == reader[r].pc = l
ReaderUnchanged == UNCHANGED <<staging, store, newer, pointer, lock, full, update, cleaner>>

OpenMetadata(r) ==
  /\ ReaderAt(r, "closed")
  /\ reader' = [reader EXCEPT ![r].pc = "open_vectors", ![r].metadata = pointer]
  /\ ReaderUnchanged

OpenVectors(r) ==
  /\ ReaderAt(r, "open_vectors")
  /\ reader' = [reader EXCEPT ![r].pc = "open", ![r].vectors = pointer]
  /\ ReaderUnchanged

ReaderStep(r) == OpenMetadata(r) \/ OpenVectors(r)

-----------------------------------------------------------------------------
(* clean --staging-jobs and clean --old-live-versions: what to delete is   *)
(* decided first and deleted file by file, while the others go on.         *)

CleanerUnchanged == UNCHANGED <<newer, pointer, lock, full, update, reader>>

\* clean_stale_staging_jobs: failed (which a cancelled job is) and partial_ready.
StaleStaging == {v \in Versions : full[v].status \in {"failed", "cancelled", "partial_ready"}}

ListStaging ==
  /\ cleaner.pc = "idle"
  /\ StaleStaging # {}
  /\ cleaner' = [pc |-> "delete",
                 todo |-> [where: {"staging"}, part: {"metadata", "vectors"}, of: StaleStaging]]
  /\ UNCHANGED <<staging, store>> /\ CleanerUnchanged

\* _published_version_candidates, with the files found.
PublishedFiles ==
  {f \in [where: {"store"}, part: {"metadata", "vectors"}, of: Versions] :
     IF f.part = "metadata" THEN store[f.of].db ELSE store[f.of].row # None}

\* The Keep candidates most recently written.
Newest ==
  LET candidates == {f.of : f \in PublishedFiles}
  IN  {v \in candidates : Cardinality({w \in candidates : <<w, v>> \in newer}) < Keep}

ListVersions ==
  /\ cleaner.pc = "idle"
  /\ PublishedFiles # {}
  /\ cleaner' = [pc |-> "retain", todo |-> {f \in PublishedFiles : f.of \notin Newest}]
  /\ UNCHANGED <<staging, store>> /\ CleanerUnchanged

\* Mutant: the active version is not spared.
RetainNewestOnly ==
  /\ cleaner.pc = "retain"
  /\ cleaner' = [cleaner EXCEPT !.pc = IF cleaner.todo = {} THEN "idle" ELSE "delete"]
  /\ UNCHANGED <<staging, store>> /\ CleanerUnchanged

\* current_publish_token is read after the listing.
RetainCurrent ==
  /\ cleaner.pc = "retain"
  /\ LET todo == {f \in cleaner.todo : f.of # pointer}
     IN  cleaner' = [pc |-> IF todo = {} THEN "idle" ELSE "delete", todo |-> todo]
  /\ UNCHANGED <<staging, store>> /\ CleanerUnchanged

WithoutFile(s, part) == IF part = "metadata" THEN NoMetadata(s) ELSE NoVectors(s)

\* Metadata goes before the vectors of the same version.
Delete(f) ==
  /\ cleaner.pc = "delete"
  /\ f \in cleaner.todo
  /\ f.part = "vectors" => [f EXCEPT !.part = "metadata"] \notin cleaner.todo
  /\ IF f.where = "staging"
     THEN staging' = [staging EXCEPT ![f.of] = WithoutFile(@, f.part)] /\ UNCHANGED store
     ELSE store' = [store EXCEPT ![f.of] = WithoutFile(@, f.part)] /\ UNCHANGED staging
  /\ cleaner' = [pc |-> IF cleaner.todo = {f} THEN "idle" ELSE "delete",
                 todo |-> cleaner.todo \ {f}]
  /\ CleanerUnchanged

CleanStep == ListStaging \/ ListVersions \/ RetainCurrent \/ \E f \in Files : Delete(f)

-----------------------------------------------------------------------------
Next ==
  \/ \E v \in Versions : FullStep(v)
  \/ \E u \in Updaters : UpdateStep(u)
  \/ \E r \in Readers : ReaderStep(r)
  \/ CleanStep
  \/ LockTimesOut

Spec == Init /\ [][Next]_vars

-----------------------------------------------------------------------------
(* Properties.                                                             *)

\* No full index was cancelled while it ran.  Cancelling frees the lock of a
\* process that goes on (mcp/tools.py cancel_index_job), after which two writers
\* and clean get in each other's way.
NoneCancelled == \A v \in Versions : full[v].status # "cancelled"

\* The version the pointer names is there with both halves and all its rows,
\* whatever crashed, failed or was cleaned up before (materialize_published_storage,
\* activate_published_storage, clean_old_published_versions).
LiveWhole ==
  pointer \in Versions /\ NoneCancelled =>
    /\ store[pointer].db
    /\ {store[pointer].chunk, store[pointer].ref, store[pointer].row}
         \subseteq {pointer} \cup Updaters

\* No query process ever opened a half-built index: metadata it reads are gone
\* (cleaned up) or complete.
ReaderSeesNoHalfBuild ==
  \A r \in Readers :
    LET p == reader[r].metadata
    IN  reader[r].pc # "closed" /\ store[p].db =>
          {store[p].chunk, store[p].ref} \subseteq {p} \cup Updaters

\* The live store is never replaced while another job writes, staged or in place: no
\* update goes to a store just replaced, and no build that did not see the last publication
\* undoes it (the job lock spans build and publication in run_full_index).
NoSwitchUnderWriter ==
  [][pointer' # pointer /\ NoneCancelled' =>
       /\ \A w \in Versions \ {pointer'} : ~FullRunning(w)
       /\ \A u \in Updaters : ~UpdateWriting(u)]_vars

\* Publishing is atomic for whoever opens the store: see LiveStore.
LS == INSTANCE LiveStore WITH
  live <- [chunk |-> store[pointer].chunk, ref |-> store[pointer].ref,
           row |-> store[pointer].row],
  disowned <- ~NoneCancelled
RefinesLiveStore == LS!Spec

\* A query process that has opened the store reads metadata and vectors of the same
\* version ("Atomically switch readers to the published metadata/vector artifacts",
\* storage/publish.py activate_published_storage).
ReadersSwitchAtomically ==
  \A r \in Readers : reader[r].pc = "open" => reader[r].metadata = reader[r].vectors
=============================================================================
