# A TLA+ model of active-knowledge-server

`active-knowledge-server` keeps a searchable knowledge base of a workspace: a
command line tool (`active-kb index ...`) extracts code and documents into SQLite
and LanceDB stores, and an MCP server answers queries from them. The code
sits in `src/active-knowledge-server/src/active_knowledge_server` (paths below
are relative to it). This directory models what makes *indexing* correct (the job
store and its lock, the processes that run index jobs, the protocol between
overlay, checkpoints and `index_state.json`, the rows and vectors a run writes, and
how a full build goes live), what makes *answers* correct (what a query finds and
cites while all of that moves, and how it is routed, ranked and put together), and
the algorithms and shared files in between.

Files:

| file | what |
|---|---|
| `WriteLease.tla` | abstract specification: what the overlay write lock promises |
| `IndexJobs.tla`, `IndexJobsProofs.tla` | job store, CLI processes, MCP index operations; theorems |
| `IncrementalIndex.tla`, `IncrementalIndexProofs.tla` | plan, checkpoints, batches, artifacts and state file of incremental indexing; theorems |
| `OverlayMap.tla` | abstract specification: what the overlay promises to readers |
| `MetadataStore.tla`, `VectorStore.tla`, `VectorSearch.tla`, `StoreValidation.tla` | the two stores, their logical view, their search, and `validate`, as operators |
| `Extraction.tla` | the rows a file becomes |
| `KnowledgeStore.tla` | incremental runs over these stores |
| `Retrieval.tla` | what queries find and cite while they run |
| `StoreProofs.tla` | theorems about `KnowledgeStore` and `Retrieval`, through `MetadataStore` and `VectorStore`; that it implements `OverlayMap` |
| `ApplyBatches.tla` | one phase: workers, batches, degradation, cancellation |
| `ProfileRelations.tla` | profile-conditioned relations from run to run |
| `LiveStore.tla` | abstract specification: what publishing promises to readers |
| `Publish.tla`, `PublishProofs.tla` | staging, validation, publication, the pointer, readers, `clean`; theorems |
| `PipelineProofs.tla` | theorems about `ApplyBatches` and `ProfileRelations` |
| `SchemaMigration.tla` | several processes bring one store to the latest schema |
| `EmbeddingCache.tla` | several processes share the embedding cache |
| `Observability.tla` | several processes share the persisted counters |
| `SharedFilesProofs.tla` | theorems about `SchemaMigration`, `EmbeddingCache` and `Observability` |
| `WorkspaceScan.tla` | the walks over workspace, documents and build outputs |
| `MakeConditions.tla`, `DocChunks.tla` | what makefiles, configurations and documents are taken to say |
| `QueryRouter.tla`, `ProfileSelection.tla`, `QueryAnswers.tla`, `QueryRanking.tla` | how a question is routed, which profile it is about, what is answered, in which order |
| `QueryProofs.tla` | theorems about `QueryRouter` and `QueryAnswers` |
| `MC*.tla` | model-checking modules: values of constants, symmetry; `MCParts` explores ten parts in one run |
| `DataFacts.tla` | lemmas about sequences, finite sets, sums and folds that the proofs share |
| `*.cfg` | one TLC run each; `PROJECT.json` lists them, the source map, mutants and hazards |

    tlc -config IndexJobs_fresh.cfg MCIndexJobs
    tlc -config Parts.cfg MCParts
    tlapm IndexJobsProofs.tla        # and every other *Proofs.tla

## Inventory

| component | state it keeps | operations | interacts with |
|---|---|---|---|
| job store (`indexing/jobs.py`) | tables `job`, `job_checkpoint`, `job_lock` in `jobs.sqlite` | create, transition, update metadata, find resumable, resume, retry, supersede, checkpoint; acquire, renew, release lock | called by the CLI, the pipeline and the MCP tools, from different processes |
| CLI index command (`cli.py`) | an `IndexJobContext` per process | prepare a job, run the pipeline or a full index, heartbeat, finalise, mark failed or interrupted, release | job store, pipeline, publish |
| MCP index operations (`mcp/tools.py`) | none of its own | `ops_start_index`, `ops_resume_index`, `ops_cancel_index` | job store |
| incremental pipeline (`indexing/pipeline.py`, `tasks.py`, `resume.py`) | `index_state.json` | capture, plan, collect, apply batches, rebuild profile relations, checkpoint, save state | job store, artifacts, metadata and vector stores, workspace files |
| collect artifacts (`indexing/artifacts.py`) | JSON files per job | save, load if signature, schema and paths fit | pipeline |
| metadata store (`storage/sqlite_store.py`) | baseline and overlay databases, tombstones, replacements, schema version | batched upserts in one transaction; logical view and full-text search for readers; migration | pipeline, query service |
| vector store (`storage/lancedb_store.py`) | collections of segment files, compacted files, manifests | append, verify, compact, merge on search | pipeline, query service |
| store validation (`storage/validation.py`) | none | findings over a store | `validate`, full index |
| published storage (`storage/publish.py`, `staging.py`) | versioned copies, a pointer manifest | materialise, activate, resolve | full index, readers, retention |
| retention (`storage/maintenance.py`) | none | delete old jobs, staging leftovers, old versions | the stores of everybody else |
| worker pools (`indexing/parallel.py`) | in-flight window | map in order | indexers |
| embedding cache (`indexing/embedding_cache.py`) | a file per text | look up, scan, embed, save | pipelines of several processes |
| connectors | none | the inventory of files | pipeline |
| extractors, parsers | none | text to records | pipeline |
| query service (`query/`), query tools (`mcp/tools.py`) | none | route, choose a profile, retrieve, fuse, rerank, package evidence, answer | stores, counters |
| observability (`observability/metrics.py`) | a JSON snapshot of counters | record a query, an index run, gauges; health | tools, CLI |
| configuration, models, security, resources, eval | none or append-only logs | | |

What is hard in it:

* *Concurrency without a server.* Several CLI processes and the MCP server share
  `jobs.sqlite`, the stores, the cache and the counters. Each database operation is one
  transaction, but preparing a job is eight of them, and files are shared without locks.
* *Crash at any point.* The metadata, the vectors, the checkpoints and `index_state.json` are
  four stores without a common transaction.
* *Failure in part.* A file, an item of a batch, a phase, a directory or a git
  probe may fail while the others go on.
* *Stale plans.* Files are edited while they are indexed, and a job may be resumed
  days later.
* *Long histories.* Nothing is ever removed from the overlay: old rows are hidden by
  tombstones and replacements, each kind of read with its own rule for what is hidden.
* *Heuristics that add up.* Scores of intents and candidates, texts of conditions and
  matches of headings are combined over many rules, where one more rule may undo another.

What makes the components correct: one writer of the overlay at a time; job
statuses that tell the truth and never leave a terminal state by accident; a
cancellation that stops the run; locks that are given back; checkpoints that are
true whenever they are honoured; a state file that never claims what the overlay
does not hold; convergence after the failures end; a view that is a map from files
to contents and changes batch by batch; search, evidence and vectors that agree
with the view; a live store that is whole and replaced atomically; shared files that
tell the truth to each process; algorithms that keep what their inputs say.

## Module IndexJobs

One step is one SQLite transaction, or one read, of one process; steps of
different processes interleave freely.

* `job[j]` is a row of table `job`: its status, the `execution_state`,
  `cancel_requested` and `plan_signature` entries of its metadata. `lock` is the row
  of `job_lock` for `index:overlay`, its expiry abstracted to `live`.
* `run[r]` is the control state of CLI process `r`. A process runs through
  `Invoke` (`resolve_index_resume_policy`); `ReadLock`, `SelectJob`
  (`find_resumable_index_job`) or `LoadJob`, `CheckLock` (`--resume JOB_ID`);
  `Supersede` (`--restart`) or `Retry`, `Resume`, `UpdateMetadata`; `Create`;
  `AcquireLock`; `StartAccepted` or `StartRefused`; `EnterRun`; then `Advance`, `CheckCancel`
  and `BeginTask` (two transactions: the look for a cancellation and the update), `Commit`
  (`_PipelineJobReporter` and the batches), `ReportRefused`, or `BeginPublish` (full index), with
  `Heartbeat` at any time; then `RunReturns`, `FinalizeStep`, `Conclude`, or `MarkFailed`;
  `ReleaseFirst`, `Release`.
* What a process has read and not read again is kept: `saw` is the status its
  `JobRecord` had, `blocked` is the lock as it was before the rows were read.
* `ops` is the request the MCP server is serving.
* An exception, or an interrupt (Ctrl-C, SIGTERM), may come at any step, and what follows depends on
  which clause of the code is around it: none before the lock is taken (`PreparationRaises`) and at the exits
  that keep the lock (`LockKept`: between `acquire_lock` and the next `try`, anywhere in the full preparation,
  which has none, and in the last release); the `except` around the start, which releases
  (`StartRaises`); the two of `_run_index_command` (`RunRaises`, `Interrupt`); `finally` alone around its `else` and
  its `except` clauses (`OutcomeLost`, `ReleaseFirstRaises`). `Crash` is SIGKILL, `LeaseExpires` a lease without heartbeat.
* `behind` is a history variable: whether a process left with the lock since it was last taken, by a
  crash or by an exit that keeps it, and which rows were left without an outcome.

Abstractions: several open lookups with the same answer are one; the "newest" of
several matching jobs is any of them; task-level metadata is dropped; a full
index has one batch, its publication. A run with no job id left in `Jobs` gives up.

`WriteLease` is the abstract lease: `Acquire`, `Begin`, `End`, `Release` over the set
of holders and the set of writers. The refinement maps `holders` to the processes
past `AcquireLock` whose job owns the lock, `writers` to those inside a batch.

## Module IncrementalIndex

Four pieces of state survive a process: `overlay` (per path, the revision
readers see), `vectors` (per document), `state` (`index_state.json`), `jobs` (row,
applied checkpoints, collect artifacts). `ws` is the workspace, which `Edit` changes at
any moment. A path's content is a revision number and its own hash; an absent
file has the hash `Missing`. `run` is the run in progress; one at a time, since
the lock is the subject of `IndexJobs`.

`Plan` captures hashes and diffs them against `state`; `ResumeJob`, `CreateJob`,
`RefuseResume` are the outcomes of the resume policies; a phase is `ReuseArtifact` or
`Collect` (files are read *now*), then `CommitBatch` (one transaction for up to
`MaxBatch` items), `FailItem` (a batch is split until the failing items are alone),
`RecordCheckpoint` (only after the last batch of the phase), `NextPhase` or `PhaseFails`
(an exception drops what the phase still had to do, checkpoints included). The
phases are code, docs metadata, docs vectors. `SaveState` and `Finish` end a run;
`Crash` ends it anywhere; `FullIndex` is `--full` in between.

Abstractions: profile-conditioned relations (module `ProfileRelations`), the workspace map
and schema upgrades are left out; the baseline below the overlay is empty; a batch
commits as a whole (one SQLite transaction; what is in it is module `KnowledgeStore`, item
by item it is module `ApplyBatches`).

## Modules MetadataStore, VectorStore, VectorSearch, StoreValidation, Extraction, KnowledgeStore

`MetadataStore` is the value `db`: rows of two databases per table, the tombstones and
the replacements of the overlay; its operators are the writer's (`Upsert`, `Tombstone`, `Replace`)
and the reader's, one per object type, because chunks, entities, relations, evidence and vector
references are each hidden by a rule of their own (`RowHidden`, `RelationShown`, `EvidenceHidden`,
`VectorRefs`, `Candidates`). `VectorStore` is the value `disk`: compacted rows, segment files,
the manifest that lists them; its operators write or remove one file. `Extraction` makes rows
of a file at a revision, with ids made of what the code makes them of: a symbol's id holds
its line, a chunk's its ordinal, so an edit replaces some objects and leaves others.

`KnowledgeStore` runs them: `Edit`; `StartRun` (capture, plan); `CommitBatch`
(`_diff_and_mark_stale` of every file, then its rows, in one transaction, deletions first); then per
document `AppendSegment`, `AppendToManifest`, `CommitRefs` or `RejectRows`; `Flush`, `DeleteSegment`,
`EndCompaction`; `SaveState`; `Crash`. `shown` is a function of `db`: what the view has of each path.
Membership relations lead from every source to the makefile's module, so that relations across
files are there.

`OverlayMap` is the abstract specification: `shown` maps each path to nothing or exactly one
content of the current plan, and a step changes the paths of one batch. It is what `IncrementalIndex` takes
for granted of its `overlay`.

Abstractions: every row is of the queried snapshot and of scope `all`; distances and scores
are left out; every run starts over (resumption is `IncrementalIndex`).

## Module Retrieval

The four retrievers, the fusion and the evidence packager as operators over the state of
`KnowledgeStore`, at any moment of a run. An answer is what is found before it is cut to
`top_k`; the evidence of it is what `bundle_for_query` and `bundle_for_entity` cite, each found
through the rows that the code goes through. `EvidenceCitesView` is what holds: for entities and
vectors. `AnswerCitesView`, for full text too, is what the design document promises and the code
does not keep (finding).

## Module ApplyBatches

`pool` is the collection: the workers, the bounded window of submitted tasks (`Submit`,
`Complete`); `phase` is the application: batches cut by number of files and of records, `OpenBatch`,
`WriteItem`, commit, or `RollBack` and `Degrade`: `OpenHalf` until the items that fail are alone; `CancelJob` at any moment.
Batches of metadata are cut
from the stream of results, those of vectors beforehand, as the code does.

## Module ProfileRelations

Runs over build profiles: `savedProfiles` is `index_state.json`, `relationRows` and `hiddenRows` are
the relations and their tombstones, `checkpoint` the input hash of the task `profile:relations`. A run
plans, commits the code it applied (guards come and go), then either is skipped by the checkpoint or
goes through the changed profiles, one commit per step; it may stop or fail anywhere, and be resumed.

Bounds that exclude what the code gets wrong: configurations only move on (`EditProfile`), and
`--source` is `all`. See the behaviours below for what happens otherwise.

## Modules SchemaMigration, EmbeddingCache, Observability

Processes that share a file. `SchemaMigration`: the plan is made before the write lock is taken, each
statement is a step, a process may die or fail anywhere, and one that created the file removes
it on failure. `EmbeddingCache` and `Observability`: inodes, names and open files are modelled one by one,
since all writers of an entry, or of the snapshot, use one temporary name: two writers may
write the same inode and one may rename what the other is writing. `overlapped` and `recorded` are history variables.

## Module WorkspaceScan

One directory per step, while files are created, changed and removed, directories become
unreadable and git probes fail (`MaxChanges`, `MaxTrouble`). A tree is a function from paths to
nodes; a git world says where repositories are and what each ignores. The three connectors
share `ScanInit` and differ in their steps.

## Modules MakeConditions, DocChunks, QueryRouter, ProfileSelection, QueryAnswers, QueryRanking

Algorithms without state of their own, explored over bounded inputs that are put together one
line, one word or one retriever at a time.

* `MakeConditions`: lines of a makefile become members with conditions, relations, and, against a
  configuration, a state per file; the reference is make itself: `Make(lines, values)` over
  every completion of the configuration.
* `DocChunks`: lines of Markdown or HTML become sections, items and evidence; the reference is which
  heading encloses a line.
* `QueryRouter`: a question is a set of terms, anchors and parameters; signals, conflict rules, scores
  in hundredths, the chosen intent, view, granularity and tools.
* `ProfileSelection`: candidates from seeds, `.config` files and defconfigs, merged and chosen.
* `QueryAnswers`: tool, route, profile and the content of the stores become an answer, or an error,
  whose contract (`models/responses.py`) is checked.
* `QueryRanking`: four lists become one by weighted reciprocal rank, then by the reranker, in millionths
  as the code rounds.

## Module Publish

A full index (`run_full_index`) builds a store of its own under staging names, validates
it, moves metadata and vectors to the names of a version and switches the publish
manifest. Everybody else finds the store through that manifest, `pointer`.

* A version is the job that builds it: job tokens are unique. `staging[v]` and `store[p]`
  are its files before and after the moves; `store[Anchor]` is the configured path, used
  while nothing is published. A store is told by one document: the generation of
  its chunk row, its `vector_ref` row and its vector, each written by a step of its own.
* `full[v]` runs `StartFull` (create the job, take the lock), `CreateStaging`, `StageChunks`,
  `StageRows`, `StageRefs`, `PassValidation` or `MissValidation`, `MoveMetadata`,
  `MoveVectors`, `Activate`, `FinishFull`; with `FailFull`, `CrashFull` and `CancelFull` (MCP) at any moment.
* `update[u]` is an incremental run: its pipeline resolves the metadata path, then the
  vector path, then the job takes the lock, then it writes where it resolved to.
* `reader[r]` is a query process: metadata path, then vector path, kept until it ends.
* `cleaner` is `clean`: `ListStaging`, or `ListVersions` and `RetainCurrent`, then `Delete`
  file by file. It takes no lock. `newer` orders versions by the time of their last write.

Abstractions: the baseline and the overlay have a pointer each, and they do not
interact, so there is one; the schema migration of a resolved path is no step (the path
exists); validation is modelled by what decides it here, that every row is there; the
rows of one build or run are one document's.

`LiveStore` is the abstract specification: the store a reader would open now is replaced
as a whole by a build (`Replace`), or changed part by part by incremental runs (`Update`).
The refinement maps `live` to the content of `store[pointer]`. Once a running full index is
cancelled nothing is promised (`Disown`): the code frees its lock while it goes on.

## Runs

| run | instance | shows |
|---|---|---|
| `jobs_fresh` | 3 jobs, 2 processes, policies `disabled` and `full`; interrupt, error, crash | `TypeOK`, `SingleWriter`, `WriterOwnsLock`, and `RefinesWriteLease` |
| `jobs_resume` | 2 jobs, 2 processes, `auto` and `full`; interrupt, error, lease expiry | `LockHasHolder`, `RunningHasRunner`, `ReadyIsFinal` |
| `jobs_cancel` | 2 jobs, 1 process, `job_id`, `restart` and `full`, all MCP operations, 2 batches; interrupt and error, fair | `CancelledNeverReady`, `NoApplyAfterCancel`, `RunEnds`, `LockReleased` |
| `jobs_shared_resume` | 2 jobs, 2 processes, `auto`, interrupt | violates `SingleWriter` (finding) |
| `incremental_live` | a code file and a document, 3 revisions (two contents and absent), one job id that keeps its checkpoints; crash and error, fair | `NoHiddenStaleness`, `CheckpointsHold`, `ReadyMeansIndexed`, `StateFollowsCommit`, `Converges` |
| `incremental_any_history` | one document, 3 revisions, all edits (reverts and vanishing too), a job id that is named again, all four policies, `--source code`, full indexes of the documents; crash and error | `StateFollowsCommit` |
| `publish_store` | 2 full indexes, 1 incremental run, 1 reader, `--keep 1`; crash, error, cancel | `LiveWhole`, `ReaderSeesNoHalfBuild`, `NoSwitchUnderWriter`, `RefinesLiveStore` |
| `publish_readers` | the same without faults | violates `ReadersSwitchAtomically` (finding) |
| `storage` | a source, a makefile and a document over a baseline, 3 revisions and deletion, 2 jobs, batches of 2, compaction at 2 segments; crash, fair | `FtsAgreesWithView`, `CommittedVectorsFound`, `EvidenceCitesView`, `NothingToRepair`, `RefinesOverlayMap`, `Converges` |
| `storage_readd` | the source deleted and added again | violates `IndexedIsShown` (finding) |
| `query_evidence` | the document edited once | violates `AnswerCitesView` (finding) |
| `parts` | see below | one or two properties per part: `PhaseAddsUp` and `NothingBegunAfterCancel`, `CacheTellsTruth`, `VersionTellsTables` and `MigrationCompletes`, `AnswersKeepContract`, `OwnTermsKeepIntent`, `StatesTellTheBuild`, `DocumentsAreCited`, `InventoryIsTrue`, `MetricsTellRuns`, `SavedProfilesAreShown`, `RankingFollowsRetrievers` |

Bounds of the jobs. Two processes are enough for every race between "find" and "lock",
since the lock is one row and every such race is between its owner and one
intruder; the theorems below remove the bound where they apply. Three jobs let
each of two processes fail once and start again. Two batches let a cancellation
fall before, between and after them. The policies are shared between the runs, since their product is too
large: `jobs_resume` has two processes with stale selections and every exit of incremental (`auto`) and
full runs, and `jobs_cancel` the policies that name a job or supersede others (`job_id`, `restart`), against the MCP
server. The theorems `ReadyStaysReady`, `LockIsHeld` and `RunningIsRun` hold for all policies at once.

Bounds of indexing. Three revisions are two contents and then absent, or a deletion in between: a file is edited
from one content to another, so that a stale checkpoint, artifact or diff can be told from a fresh one; a code file and a
document have the phases that differ, and a batch of two holds both an item that fails and one that does
not. `incremental_live` has one job id, named in every run, so that the checkpoints and artifacts of each attempt are
there in the next, which is the worst case for what is stale. The other policies, files that vanish, reverts, source filters and
full indexes in between are in `incremental_any_history`, with one document: its phases are enough for the order of the state file
against the commits, and two paths, with partial failures, are in `incremental_live`. In `storage` three revisions let an edit replace what an edit had replaced (a chain of replacements);
a baseline below shows that the overlay hides rows it does not hold; two segments reach the compaction
threshold, which is 8 in the code, and `MaxSegments` stops crashes from piling up segments for ever.

Bounds of publishing. Two full indexes are the version in use and the one that replaces it, with
`--keep 1` so that clean has something to delete; a third version, more runs and readers,
and any larger `--keep` are covered by the theorems.

Bounds of the parts. Five items of different sizes make batches that are full by number, full by size, and one
item that is too big alone; one, two or no items are poisoned. Three processes and one secret text
let two writers of a cache entry race with a third that reads. Two migrators suffer up to two deaths
or failures. A question that is answered holds one item beside the one its tool adds: which intent it gets matters less to
the answer than which warnings and candidates there are. A question that is only routed (`RouterItems`, 26 items) holds up to five, so that the
one before the last item has four: rivals reach one, ties go by name, and each conflict rule finds its premise and something to take back. A makefile
has up to four lines over two macros, a document four lines, which is enough for a heading, a nested one,
text and one more line to end either. A walk meets one change and one trouble: a second one meets
the same code in another directory. Two profiles, two versions and three runs let a run stop, be resumed and be followed
by one that relies on it. Three calls overlap in the counters. Three objects found by four retrievers give lists of every order;
two intents stand for the two sets of weights that differ most.

The files of `parts` share nothing, so exploring them in one run explores each as if alone: `subject` says
which one moves, and the others rest in one initial state.

Fairness. `FairSpec` of `IndexJobs` asks weak fairness of each process's next step
(the operating system schedules a process that is not dead) and of the MCP
server's next step; not of invocations, faults or heartbeats. `FairSpec` of
`IncrementalIndex` asks it of the steps of a run and of starting one: convergence
is a promise to users who go on running `index`. That of `KnowledgeStore` asks the same in another form: a run in
progress goes on, and since one of its steps is always possible this is weak fairness of them. `Converges` has the hypothesis that
crashes, failures and edits end. In `parts` a process that opens a store goes on
with its migration unless it dies (`MigrationCompletes`); deaths are bounded by `MaxFaults`. `Publish` states safety
only: nothing in it waits for anything but the lock, whose release `IndexJobs` covers.

Symmetry is used over job ids that no user names and over processes, which the
modules never tell apart, and only in runs without liveness properties. Deadlock is not checked where the
system may come to rest: when edits, versions or inputs are used up.

## Proofs

`IndexJobsProofs` proves, for any sets `Jobs`, `Runners`, `Signatures` and any `MaxBatches`,
from `ConstantsAssumption` alone:

* `TypeCorrect`: `Spec => []TypeOK`, for all policies, faults and MCP requests. `TypeOK` is
  not inductive: `Commit` counts a batch down, so the invariant `TypeInv` adds that a
  process inside `apply` has a batch left.
* `ReadyStaysReady`: `NamedJobs = {} => (Spec => ReadyIsFinal)`. Every write to a row either
  checks the status it finds in its own transaction or does not touch the status.
  The hypothesis is needed: `create_job` is an upsert, and `--job-id` may name a ready job.
* `OneWriter` and `ImplementsLease`, under `FreshRuns` (policies `disabled` and `full`, no named
  job, no MCP request, no lease expiry): `[](SingleWriter /\ WriterOwnsLock)` and
  `RefinesWriteLease`. The inductive invariant `FreshInv` says that the processes which
  have a job have distinct jobs with a row (`OwnJob`, `Distinct`), that the lock row is
  live whenever there is one (`LiveLock`), and that a process past `AcquireLock` that has not
  come to `release` owns it (`Held`). `Distinct` is what fails without `FreshRuns`:
  `jobs_shared_resume` is the counterexample.

`PublishProofs` proves, for any sets of full indexes, incremental runs and readers and any faults:

* `TypeCorrect`, and `NoHalfBuild`: `Spec => []ReaderSeesNoHalfBuild`. It rests on
  `MetadataComplete`: only `MoveMetadata` makes a metadata file appear in a place a pointer may
  name, and what it moves passed validation.
* `SwitchesAlone`: `Spec => NoSwitchUnderWriter`, from `WritersHoldLock`, which holds as long as no
  running full index was cancelled (`NoneCancelled`).
* `LiveIsWhole` and `PublishingIsAtomic`, for `Keep # 0`: `Spec => []LiveWhole` and `Spec =>
  RefinesLiveStore`. The inductive invariant `IInv` adds that what the pointer, or a place
  resolved by way of it, names is past its switch (`NamedAreSettled`), so that no writer
  reaches a version under way; that the files of that version are what its steps left
  (`BuildInPlace`); that it is the version written last (`BuildIsNewest`), so that `clean`, which
  keeps at least one, spares it although its listing does not know it is about to go
  live; and that clean's list names nothing that runs (`StaleAreDone`). With `--keep 0` the
  last two fail: a listing made between the moves and the switch deletes the version in use.

`IndexJobsProofs` goes on, for any number of jobs and processes. Each
hypothesis names what really breaks the property:

* `LockIsHeld`: `Spec => []LockHasHolder`, without any hypothesis: whoever shares, supersedes, retries or cancels
  a job, however leases expire and wherever an exception, an interrupt or a crash strikes, a lock without a holder
  is one that a process left with, by a crash, by `LockKept` or by a refused full start, since it was last
  taken (`behind.lock`). `LockHasHolder` is inductive beside `AllTypes`: two processes on one job both count
  as its holder. That these exits exist is described below, under behaviours; the theorem says there are no others, in
  particular none of the conflicts, lost races and double releases.
* `RunningIsRun`: `Spec => []RunningHasRunner`, without any hypothesis. A row that is running without a process was left by
  a crash, by an `else` or `except` clause that did not record the outcome, or by an interrupt between the commit of the start and the run
  (`behind.rows`), and stays in that set until it is started again. The invariant `SomebodyResponsible` adds who is
  about to take a row out of a running status: a process that fails or is interrupted on its way to `MarkFailed`.
* `CancelledStaysOver`: `CancellationScope => (Spec => []CancelledNeverReady)`. The scope is either one
  CLI process (and the MCP server beside it), or any number that never resume a job. With one process a
  cancelled job may still come back: it was found before the cancellation and is retried after it. Such a job
  is a `Zombie` that its process takes no further than the next `BeginTask`; this needs a batch to begin
  (`MaxBatches > 0`), since a run without one never looks for the cancellation. With two processes that share a job, one may be past
  that point, and the job ends as ready.
* `NothingAfterCancel`: `CancellationScope => (Spec => NoApplyAfterCancel)`, an action property about incremental runs (a
  full index never looks for a cancellation). `begin_task` looks for the mark, and a cancellation may come before its
  update, which reads only the status: it is refused because the cancellation made the job `failed` in the same transaction as the mark,
  unless somebody reopens the job in between. So `CancelInv` (which knows where zombies may be) is needed, with `OwnsJob`; and
  so is the scope: with two processes that share a job, r1 has looked, the job is cancelled, r2 retries it (it had selected it
  before), and the update of r1 is accepted.

`IncrementalIndexProofs`, for any paths, jobs, batch sizes and numbers of revisions:

* `StateIsCommitted`: `Spec => StateFollowsCommit`, without any hypothesis. `ProgressInv` follows a
  task through a run: what was applied is in the stores (`AppliedIsDone`), what is not to do any more was
  applied, skipped, or failed the run (`NothingLeftOut`), what was collected or taken from an artifact covers
  the phase (`Gathered`, `ArtifactsHold`).
* `StalenessShows`, `CheckpointsAreTrue`, `ReadyIsIndexed`: `PlainHistory => (Spec => []NoHiddenStaleness)`,
  `[]CheckpointsHold` and `ReadyMeansIndexed`. `PlainHistory` says that runs index all sources,
  that no content comes back and no file vanishes before a run has seen it, and that no full index
  intervenes; without each of these staleness really hides (see the behaviours below). The invariant
  `StoresAreRight` orders everything that is known of a path by its
  revision: nothing known is from the future (`NothingFromFuture`), the plan in progress is at least as recent as the
  state file and all checkpoints (`PlanIsRecent`), so whatever equals the workspace now was noted after
  the last edit, and was right then (`RecordedIsRight`, `SkippedIsRight`). Collecting reads files
  *later* than the plan: a phase may store more than was planned, and the next diff shows it.

`StoreProofs`, for any paths, texts, makefiles, jobs, bounds on runs and crashes and any kinds of edits and faults, from `StoreAssumption`
alone (finitely many paths, and a line or none for the symbol of each revision):

* `SearchShowsTheView`: `Spec => []FtsAgreesWithView`, and `CitedTextIsShown`: `Spec => []EvidenceCitesView`, without any
  hypothesis: they hold in the middle of a run, after any crash, and for histories that go back to an earlier text. Both rest on
  `StoreIsSound` (`Spec => []StoreInv`). The view follows replacements (`Resolve`), search does not: they agree because what is replaced is
  also tombstoned, under the same path (`ReplacedIsHidden`), so that whatever a chain leads to is hidden whenever its file is. A citation
  goes from a candidate to an entity to its evidence to a chunk, each hidden by a rule of its own: it arrives because a symbol's chunk, entity
  and evidence are stored together (`TwinsIn`) and are hidden in an order in which the cited text goes last (`TwinsHiddenIn`). Neither follows
  from the other, and both are about one transaction as a whole: `MarkStale` hides, replaces and reveals, then `Commit` writes.
* `CommittedVectorsAreFound`: `Spec => []CommittedVectorsFound` if no file returns to a text it had (`"readd" \notin Edits`) and no run dies
  inside a compaction (`"torn_compaction" \notin Faults`). Beside `StoreInv`, the invariant `VectorsInv` says what each writer leaves
  behind: texts and references only grow (`TextsAreOld`), the chunks of a document are there before its vectors (`ChunksComeFirst`), and
  a committed reference whose text is current is found whether or not the segment that is being written is looked at (`RefsAreSettled`), since
  that segment may be listed, or be rejected and never referred to. Compaction keeps this because the rows it writes are
  what the segments it removes hold, read in the order of the manifest (`Latest`). Both hypotheses are needed, by
  counterexamples of TLC with one document: when a run dies between two deletions of a compaction, an older segment
  that is left lies over the compacted rows; when a document returns to a text whose reference was committed in a run that did not save, the
  reference is current again and a newer segment has its id.
* `CommitsAreWhole`: `Spec => RefinesOverlayMap` if no deleted file is written again (`"readd" \notin Edits`) and no symbol comes back to
  a line it left (`LinesDoNotReturn`). The invariant `PathsInv` says of each path which content the store has of it (`PathIs`):
  all its rows are there, every other row that was ever made of the path is hidden (`Holds`), and *nothing that this or a later
  content is made of is hidden or replaced* (`FreeFrom`); or nothing is stored (`Lacks`), or its file row is hidden for good (`Dropped`).
  From that the view is computed, table by table (`ShownIs`: a path is shown with the content it has, and with one only, since contents differ
  by `RenderingsDiffer`). A batch keeps it: `LiveBundle` reads back just the live rows (`OldContentIs`), so `MarkStale` hides all that
  the new content leaves out (`ChangeHidesTheRest`), and nothing of what it or a later one has (`ChangeLeavesFree`), and no item
  touches another path's rows (`OthersAreLeft`). Both hypotheses are needed: TLC shows a path garbled, in a trace of eight states, when the lines
  of three revisions are 10, 20 and 10 (the chunk and the entity of the third come back under ids that are tombstoned), and run `storage_readd`
  does so for a file that returns.
* `StoreNeedsNoRepair`: `Spec => []NothingToRepair` under the hypotheses of the two theorems before it and one more: the code files are in the
  baseline (`CodePaths \subseteq Baseline`). This is about what paths say of each other, and `RepairInv` adds it to the invariants above.
  A relation is hidden with the file of either endpoint (`RelationsGoWithFiles`): deleting a file hides the relations that the view shows of it
  (`FileMarksRelations`), and a batch writes a relation only to files that the same run planned, none of which is ever hidden
  (`WrittenEndsArePlanned`, `PlannedAreNotHidden`). No replacements stand in a circle (`NoLoops`), because what an item makes a successor is
  replaced by nothing (`SuccessorsAreFree`). The references of a document are never behind what is indexed of it
  (`RefsKeepUp`) and no stored vector is ahead of its chunk (`PayloadIsOld`), so that a reference, the vector that is found for it and the chunk meet
  at one revision (`RefsAreCurrent`, `PayloadsMatch`). `ValidationAgrees` then takes the checks of `validation.py` one by one.
  TLC has counterexamples for three of the four hypotheses: lines 10, 20 and 10 make two symbols successors of each other, and `validate` says "blocked" of a store nobody
  touched; a file that returns does so too, and leaves relations without their endpoints; and a *new* code file that is
  collected by a run that is interrupted, and deleted before the next, is in no diff, so the membership relation that was committed with the
  other file leads to an endpoint that is not there. For a torn compaction TLC found none in 15 million states of one document;
  the proof excludes it because `VectorsInv` does.

The shared files, for any number of processes that overlap, die and remove each other's files at any step:

* `CacheIsTrue` (`SharedFilesProofs`): `CacheSpec => []CacheTellsTruth`. A file found under a name is torn or the
  whole entry of *some* text and configuration (`PayloadFacts`); the key inside it, not the
  name, decides, and it tells all that a resolution depends on (`KeyTellsResolution`).
* `VersionIsTrue` (`SharedFilesProofs`): `MigrationSpec => []VersionTellsTables`. A process may hold a plan made for
  a file that has been removed and created anew. The invariant `Began(origin)` says that a store which began
  without a file never has one of version 1.0.0, and one that began with 1.0.0 is never removed; so
  no step planned for one kind of file meets the other.
* `NoneCountedTwice` and `AloneIsRecorded` (`SharedFilesProofs`): the parts `CountsOnce` and `CallsReturn` of
  `MetricsTellRuns`. What a process has loaded and what can be read of any inode was made by calls that had
  begun (`SnapshotBy(Started, s)`), and a call that loads has not: this is why overlapping writers may lose a call
  but never count one twice. Without overlaps the temporary file of a call is there until it moves it (`Alone`).
* `SnapshotTellsRuns` (`SharedFilesProofs`): `MetricsSpec => []MetricsTellRuns`, the whole of it. `MetricsInv`, the
  invariant of the two theorems above, knows which inode each name and each process stands for; `TellInv` adds what is in them. Every snapshot
  anywhere, loaded, open or on disk, has the sums and healths of its own list of calls (`SumsHold`: true of an empty
  one, and kept by one more call, `SumsGrow`, `TellsMore`); without overlaps the live name and the temporary name are
  different inodes (`FilesApart`), no call is recorded twice (`RecordedOnce`), the live file lists exactly the recorded calls (`LiveTells`),
  and a status that was told is the health of what had been recorded when it was read (`ToldTruth`), which later calls do not
  change because it is compared with the prefix it saw.

`PipelineProofs`, for any items, workers, limits, profiles and guards:

* `OneBatchAfterCancel`: `PhaseSpec => []NothingBegunAfterCancel`. `LastBatch` says that
  after a cancellation at most the batch that was open is committed, and `HalvesAlone` that
  halves are tried only when no batch of the stream is open.
* `PhaseIsAccountedFor`: `PhaseSpec => []PhaseAddsUp`. The invariant `AccountsInv` lines up what was collected: the
  committed rows, then the open batch, the halves still to try and the items to come are one sequence in the order of
  the keys, from which only failed items are missing; nothing is in it twice. Cutting it (`BuildBatches`, or item by item
  as the stream comes), halving a batch and rolling one back only move the borders. That every batch is within the limits is a
  fact about the fold that cuts them (`Batched`), by induction over its prefixes.
* `RememberedIsShown`: `CodeIsRun => (ProfilesSpec => SavedProfilesAreShown)`. A run with `--source docs` saves
  the versions of profiles whose relations it did not rebuild, so `CodeIsRun` leaves it out. The
  invariant says what a checkpoint of `profile:relations` vouches for as long as its inputs are
  the current ones (`CheckpointIsTrue`), and what of each target is yet to be retired or written (`TargetsUnderWay`).

`QueryProofs`, for any vocabulary, any length of a question and any content of the stores. `RouterAssumption` says
that a parameter has a value the request model accepts and a compound term is one of the four of `Compound`;
`WorldsAssumption` that the retrievers' warnings are a list and that reading fails or does not.

* `AnswersAreKept`: `AnswersSpec => []AnswersKeepContract`. The invariant needs no more than that a question is a
  finite set of accepted items (`Asked`). Then its signals are finitely many with whole weights (`SignalsAreFew`), so
  that every score is a number (`ScoreIsNumber`) and one of the twelve comes before all others, by points and then by
  name (`BestIsFirst`); a decision that depends on the profile has asked for one (`RequestIsRouted`), and a profile that was found
  is one of the workspace (`ResolvedIsKnown`). Each warning is told once (`EachCodeOnce`), and each builder of an
  answer then keeps the contract (`SearchKeeps`, by cases): so the branch that turns a broken contract into
  an error is dead (`DeliveredIsKept`).
* `OwnTermsStay`: `RouterSpec => OwnTermsKeepIntent`, an action property. `Grows` says what one more item that speaks for
  one intent changes: no signal of another intent is added, none but that of a vague question is lost, and no rule's premise
  about another intent begins to hold; its own terms only take bonuses from others. So the others' points and bonuses do not grow (`OthersGainNothing`) and its own sum does not shrink
  (`OwnGains`; a question about a project takes back up to five points from a product, but never more than it gained).
  The delicate rule is the cap on "with evidence": it holds only while another intent gathers 45, and a routed
  intent has 50 *with* its bonus. That its signals alone reach 45 then (`StrongEnough`) is true because each bonus is
  earned by a term that weighs 45, or by two signals, or comes with ten points of the new item; and a term of
  35 with its bonus of ten is not routed unless another signal, of ten at least, stands beside it.

`DataFacts` holds what these proofs know of data: induction over numbers, finite
sets and the length of a sequence, each stated about a *set* (so that no operator is a parameter), the value of a fold one
element further, sums over lists and over sets, `FlattenSeq` of a longer list, the largest of finitely many numbers, and facts about ascending sequences.

Only model-checked, and why:

* Liveness (`RunEnds`, `LockReleased`, both `Converges`, `MigrationCompletes`): fairness is beyond the prover.
* What rests on `SelectSeq` or `SortSeq`, which the provers cannot open: `InventoryIsTrue` (the children of a
  directory), `DocumentsAreCited`, `RankingFollowsRetrievers` (sorted lists).
* `StatesTellTheBuild`: `MakeConditions` evaluates nested conditions with a `RECURSIVE` operator.
* Reuse of a content that comes back, full indexes in between and torn compactions: the theorems exclude
  them by hypotheses. `storage_readd` shows why for one of them; TLC's counterexamples for the others are described below.

## Behaviours met while modelling

Four disagreements between the code and its documents are runs (`findings` in
`PROJECT.json`). These and others seen with the same modules, most of them in traces that TLC prints when the
edit, fault or policy that leads to them is enabled:

Jobs and runs:

* Cancelling through MCP releases the lock of a run that is inside a batch; the
  next run may write beside it (`mcp/tools.py:259`): `SingleWriter` fails with two processes, the policy
  `disabled` and the request `cancel`.
* An interrupt between `acquire_lock` and the next `try` (`cli.py:1641`, `:1328`), or anywhere in the preparation of
  a full index, or an error there (`:1725`), leaves the lock for the 24h lease (`LockKept`, `behind.lock`), where
  `src/doc/active_knowledge_server_engineering_todo.md:1408` says that an interrupt leaves no lock. A release that
  fails does too (`:1378`).
* `finalize_index_job` is called in the `else` clause, and the marking of a failure in an `except` clause (`cli.py:1366`): an
  interrupt or a store error there releases the lock but leaves the row running, with no process, until a later
  run takes it up; `ops_start_index` refuses for as long.
* A full index never looks for a cancellation, and publishes after it (`cli.py:3312`);
  cancelled between lock and start it leaves the lock for the 24h lease (`cli.py:1725`).
* `resume_job` revives a job that was superseded after it had been selected (`indexing/jobs.py:341`).
* `--full` neither reads nor writes `index_state.json`: a file indexed by `--full` only and
  then deleted is in no diff, and `--full --source docs` drops code the state file still claims.
* `--restart --job-id ID` of an old job keeps its checkpoints (`create_job` is an upsert of the row only).

* A full index between an interrupted run and its resumption replaces the store that the checkpoints tell of: they are
  still honoured (`indexing/pipeline.py:2676`): `CheckpointsHold` fails with a crash and `FullSources = {"docs"}`.
* A reverted file: an interrupted run committed the new content, the next plan diffs against the last saved state
  and sees no change, so the overlay keeps the content that is gone (`indexing/pipeline.py:2564`): `Converges` fails with the edit `revert`, also when nothing is edited during a run. A run with
  `--source docs` records the hashes of changed code files although it indexed none (`:1949`).
* An attempt in which a code file fails still rebuilds the profile relations and the workspace map and
  checkpoints both; the retry applies the file but skips them, since their input hashes
  (`indexing/tasks.py:173`) say nothing of it.
* `IndexJobCancelled` raised inside a vector batch is caught as a failure of the batch; each half asks
  again, so nothing more is begun, but the items count as failed (`indexing/pipeline.py:2119`).

Publishing:

* A full index that was cancelled goes on without its lock and publishes; `clean --staging-jobs`
  takes its staging for that of a failed job, and may delete the staged vectors between the
  two moves, so that a version without vectors goes live (`storage/publish.py:231` does not
  mind). This is why `LiveWhole` and `NoSwitchUnderWriter` say `NoneCancelled`.
* An incremental run resolves its store before it takes the lock (`cli.py:1309`). If a full
  index goes live in between, what it writes is in a replaced version and lost, or
  its metadata are in one version and its vectors in the other.
* Staging of a job that was killed is never reclaimed: its row stays running, and `clean`
  looks at failed and partial jobs only (`storage/maintenance.py:263`); with `--old-jobs` in the same
  command the rows are gone before their staging is looked for.
* `validate` follows the pointer for metadata but not for vectors
  (`storage/validation.py:98`), so that after a publication it compares the published
  metadata with the vectors of the configured path. Staging validation is not affected.
* Incremental runs write under the snapshot `current`, a full index under the snapshot id of the workspace: what it
  publishes is invisible to queries that ask for `current`.

Stores:

* Tombstones and replacements are never deactivated and win over the row: what is deleted and comes back, a
  document that is edited and reverted, and a symbol that returns to an earlier line stay hidden (run `storage_readd`).
* Only the makefile is edited: unchanged sources are not collected again, their membership relations are
  tombstoned and stay hidden.
* A symbol that leaves a line and comes back to it is replaced by what replaced it: `validate` reports a replacement loop, "blocked".
* A new code file that only an interrupted run indexed, deleted before the next run, is in no diff: membership relations to it stay.
* Directory entities are in no incremental bundle: relations to them dangle.
* The full-text row of replaced text finds the object that replaced it and cites the old text (run `query_evidence`); rows
  of old texts count for the cut at `top_k * 4`, and may crowd out live ones (`storage/sqlite_store.py:1797`).
* Vectors of chunks that are gone are never removed; `validate` reports them as orphans, "degraded", after any edit of a document.
* A crash between a segment file and its manifest leaves a segment that is read last, so that newer rows are
  rejected until the next compaction; a crash between the deletions of a compaction lets an old segment cover
  the compacted rows: `CommittedVectorsFound` fails with the fault `torn_compaction`.
* A baseline whose first migration was killed is an empty file that needs `confirm_major`; a process that fails may
  remove the file another one has just created (`storage/sqlite_store.py:795`, `:871`).
* `clean --old-snapshots` deletes the rows of a snapshot whose files `index_state.json` still claims.

Profile relations:

* A guard edited without any change of a profile gets no relations; editing a source tombstones the relations of its guards, whose
  ids are stable: they stay hidden after the rebuild.
* A profile that returns to an earlier version, and a run with `--source docs` that saves new profile hashes,
  leave relations of another version. When the program's schema and some profile change at once, only the
  changed profiles are rebuilt.
* Two `.config` files of one board and app get one profile id and are ambiguous; naming that id is refused as invalid.
  The "latest" record of a profile is the one whose hash sorts last (`query/profile_query.py:693`).

Texts and walks:

* The branch after an `else if` gets `not (not (A) && B)`, and a file in both branches gets both conditions joined by
  `&&`: always disabled (`parsers/makefiles.py:436`). `CONFIG_X=` and `0` count as unset.
* Document titles "Foo", "Foo", "Foo 2" get one anchor twice; a heading without Latin letters is near every item; front
  matter that is a rule loses the text up to the next rule; HTML with omitted `</p>`, `</li>` or `</td>` loses text.
* Planning ignores the warnings of a walk: files of an unreadable directory are tombstoned as deleted. A
  git probe that fails lists ignored files.

Queries:

* `search` answers "partial ready" on a warning `index.partial_ready` with details (`query/service.py:628`). The retrievers of the
  server add no such details, the stub of `eval/stability.py` does; `QueryAnswers` has both kinds of warning.

* `code_trace` with its default parameters can never be routed to `call_trace`: both scores end at one, and the tie goes by name.
* Answers of low confidence carry no `next_queries`, which the design document asks for.
* Without embeddings the vector retriever returns full-text matches, which then count twice.
* Overlapping calls lose updates of the counters, and the second `replace` of the shared temporary file raises: the query is
  answered with an error although its answer was ready (`observability/metrics.py:70`, `mcp/tools.py:952`).

## Not modelled

Reasons by component are in `PROJECT.json` (`components`). In short:

* C extraction (tree-sitter, ctags, clang), Kconfig files, runtime patterns, call edges and the workspace map are text
  processing whose result no other part depends on beyond what `Extraction` has of it.
* Scopes: every row is of the queried snapshot and of all profiles. Distances and the scores within a retriever only order what is found.
* `clean --old-jobs`, `--old-snapshots` and the compaction of the metadata store are single transactions on rows nobody
  uses, or were read and are described above; `baseline publish` is an operation of maintainers on a store nobody writes.
* Authorization, redaction, configuration, resources, progress, evaluation and feedback keep no state that another
  component reads back, or decide about one request at a time.
* The two ways the retry of a failed attempt loses profile relations (above) relate `IncrementalIndex` and `ProfileRelations`, which are
  not composed: their product is beyond the bounds the properties need.

## Plan

1. `IndexJobs`, `WriteLease`: modelled; their safety properties are proved, in the scopes in which they hold. Next: the composition of
   two processes that share a job, up to where `CancelledNeverReady` fails.
2. `IncrementalIndex`: modelled; its safety properties are proved. Next: weaker hypotheses than `PlainHistory` path by path (a path that
   was never reverted is right although others were).
3. `Publish`, `LiveStore`: modelled and proved. Next: `baseline publish`, and a run for `validate` after a publication.
4. `KnowledgeStore` and below, `OverlayMap`: modelled; what search, citations and vectors show, the refinement of `OverlayMap` and what `validate` finds
   are proved. Next: scopes.
5. The parts: modelled; the ones that are state machines are proved. Next: the walk of `WorkspaceScan` without `SelectSeq`.
