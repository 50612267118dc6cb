-------------------------- MODULE IncrementalIndex --------------------------
(***************************************************************************)
(* Incremental indexing (IncrementalIndexPipeline in indexing/pipeline.py) *)
(* as a protocol between four pieces of state that survive a process: the  *)
(* overlay, the vector store, index_state.json and the jobs with their     *)
(* task checkpoints and collect artifacts; and the workspace, which users  *)
(* edit at any moment.                                                     *)
(*                                                                         *)
(* One run is in progress at a time: the lock of module IndexJobs is taken *)
(* for granted here.  A path's content is a revision number; the hash of   *)
(* an absent file is Missing.  The baseline below the overlay is empty.    *)
(***************************************************************************)
EXTENDS Naturals, FiniteSets

CONSTANTS
  CodePaths,    \* files of the workspace inventory
  DocPaths,     \* files of the source docs manifest
  Jobs,         \* job ids
  NamedJobs,    \* the ids among Jobs a user passes with --job-id
  Sources,      \* values of --source in use: a subset of SourceKinds
  Policies,     \* resume policies in use: a subset of PolicyKinds
  Edits,        \* what users do to files: a subset of EditKinds
  Faults,       \* what may go wrong: a subset of FaultKinds
  FullSources,  \* values of --source of the full local indexes in between
  MaxRevision,  \* bound: revisions of one path
  MaxBatch,     \* max_files_per_transaction
  NoJob

Paths == CodePaths \cup DocPaths
SourceKinds == {"all", "code", "docs"}
PolicyKinds == {"auto", "job_id", "restart", "disabled"}
EditKinds   == {"modify", "delete", "vanish", "revert"}
FaultKinds  == {"crash", "error"}

ASSUME ConstantsAssumption ==
  /\ CodePaths \cap DocPaths = {}
  /\ NamedJobs \subseteq Jobs
  /\ NoJob \notin Jobs
  /\ Sources \subseteq SourceKinds
  /\ Policies \subseteq PolicyKinds
  /\ Edits \subseteq EditKinds
  /\ Faults \subseteq FaultKinds
  /\ FullSources \subseteq SourceKinds
  /\ MaxRevision \in Nat /\ MaxRevision > 1
  /\ MaxBatch \in Nat \ {0}

VARIABLES
  ws,       \* ws[p]: the revision of p in the workspace
  state,    \* index_state.json: the hash of every path, Missing before any save
  overlay,  \* overlay[p]: the revision of p readers of the overlay see
  vectors,  \* vectors[d]: the revision of d whose vectors are in the delta store
  jobs,     \* jobs[j]: the row, task checkpoints and collect artifacts of j
  run       \* the run in progress

vars == <<ws, state, overlay, vectors, jobs, run>>

-----------------------------------------------------------------------------
Missing == 0
Gone == MaxRevision          \* the revision of a file deleted for good

Hash(v) == IF v = Gone THEN Missing ELSE v
Hashes == 0..(MaxRevision - 1)

\* What capture_state sees in the workspace.
Captured == [p \in Paths |-> Hash(ws[p])]

Scope(source) ==
  CASE source = "all" -> Paths
    [] source = "code" -> CodePaths
    [] source = "docs" -> DocPaths

NothingIndexed == [p \in Paths |-> Missing]
\* The plan signature: every manifest hash and the requested source, but not
\* index_state.json.
NoSignature == [files |-> NothingIndexed, source |-> "all"]

\* A job has a set of checkpoints [kind, path, input, sig] of its tasks and of collect
\* artifacts [part, sig, paths, content].
AbsentJob == [status |-> "absent", sig |-> NoSignature, done |-> {}, artifacts |-> {}]

IdleRun == [pc |-> "idle", phase |-> "code", policy |-> "disabled", named |-> NoJob,
            sig |-> NoSignature, prev |-> NothingIndexed, job |-> NoJob, skipped |-> {},
            content |-> NothingIndexed, got |-> {}, todo |-> {}, applied |-> {},
            failed |-> FALSE]

-----------------------------------------------------------------------------
(* The plan and its tasks.                                                 *)

\* _diff_maps against index_state.json, restricted to the requested source.
Changed(r) == {p \in Scope(r.sig.source) : r.sig.files[p] \notin {Missing, r.prev[p]}}
Deleted(r) == {p \in Scope(r.sig.source) : r.prev[p] # Missing /\ r.sig.files[p] = Missing}

Tasks(r) ==
  [kind: {"apply"}, path: Changed(r)] \cup [kind: {"delete"}, path: Deleted(r)]
    \cup [kind: {"vector"}, path: Changed(r) \cap DocPaths]

\* A deletion is keyed by the hash it deletes, everything else by the new hash.
InputHash(r, t) == IF t.kind = "delete" THEN r.prev[t.path] ELSE r.sig.files[t.path]

CheckpointOf(r, t) ==
  [kind |-> t.kind, path |-> t.path, input |-> InputHash(r, t), sig |-> r.sig]

\* _task_has_matching_applied_checkpoint
Skippable(r, row) == {t \in Tasks(r) : CheckpointOf(r, t) \in row.done}

TasksOf(r, phase) ==
  {t \in Tasks(r) \ r.skipped :
     CASE phase = "code"   -> t.path \in CodePaths
       [] phase = "doc"    -> t.path \in DocPaths /\ t.kind # "vector"
       [] phase = "vector" -> t.kind = "vector"}

-----------------------------------------------------------------------------
(* The workspace.                                                          *)

SetFile(p, v) == ws' = [ws EXCEPT ![p] = v]

\* "delete" removes a file index_state.json knows, "vanish" one it does not;
\* neither comes back.  "revert" puts an earlier content back.
Edit(p) ==
  /\ \/ /\ "modify" \in Edits /\ ws[p] + 1 < Gone
        /\ SetFile(p, ws[p] + 1)
     \/ /\ "delete" \in Edits /\ ws[p] \notin {Missing, Gone} /\ state[p] # Missing
        /\ SetFile(p, Gone)
     \/ /\ "vanish" \in Edits /\ ws[p] \notin {Missing, Gone} /\ state[p] = Missing
        /\ SetFile(p, Gone)
     \/ /\ "revert" \in Edits
        /\ \E v \in Hashes : v < ws[p] /\ SetFile(p, v)
  /\ UNCHANGED <<state, overlay, vectors, jobs, run>>

-----------------------------------------------------------------------------
(* plan and prepare_incremental_index_job.                                 *)

Plan(source, policy, named) ==
  /\ run.pc = "idle"
  /\ policy = "job_id" => named = NoJob
  /\ run' = [IdleRun EXCEPT !.pc = "prepare", !.policy = policy, !.named = named,
               !.sig = [files |-> Captured, source |-> source], !.prev = state]
  /\ UNCHANGED <<ws, state, overlay, vectors, jobs>>

Resumable == {j \in Jobs : jobs[j].status = "open" /\ jobs[j].sig = run.sig}

\* pipeline.run reads the checkpoints of its job once, at the start.
StartWith(j, row) ==
  run' = [run EXCEPT !.pc = "collect", !.job = j, !.skipped = Skippable(run, row)]

ResumeJob ==
  /\ run.pc = "prepare" /\ run.policy \in {"auto", "job_id"}
  /\ \E j \in Resumable : StartWith(j, jobs[j])
  /\ UNCHANGED <<ws, state, overlay, vectors, jobs>>

\* Nothing that is "ready" or "superseded" is ever resumed: its id may serve
\* again for a fresh uuid.  A named id keeps its checkpoints and artifacts.
FreshIds == {j \in Jobs \ NamedJobs : jobs[j].status # "open"}

CreateIn(rows) ==
  \/ \E j \in (IF run.named = NoJob THEN FreshIds ELSE {run.named}) :
       LET kept == IF j \in NamedJobs THEN rows[j] ELSE AbsentJob
           row == [kept EXCEPT !.status = "open", !.sig = run.sig]
       IN jobs' = [rows EXCEPT ![j] = row] /\ StartWith(j, row)
  \/ /\ run.named = NoJob /\ FreshIds = {}   \* bound: no id is left in Jobs
     /\ jobs' = rows /\ run' = IdleRun

CreateJob ==
  /\ run.pc = "prepare"
  /\ \/ run.policy = "disabled" /\ CreateIn(jobs)
     \/ run.policy = "auto" /\ Resumable = {} /\ CreateIn(jobs)
     \/ run.policy = "restart" /\ Resumable = {} /\ CreateIn(jobs)
     \/ /\ run.policy = "restart"
        /\ \E j \in Resumable : CreateIn([jobs EXCEPT ![j].status = "superseded"])
  /\ UNCHANGED <<ws, state, overlay, vectors>>

RefuseResume ==
  /\ run.pc = "prepare" /\ run.policy = "job_id" /\ Resumable = {}
  /\ run' = IdleRun
  /\ UNCHANGED <<ws, state, overlay, vectors, jobs>>

-----------------------------------------------------------------------------
(* pipeline.run: a code phase, then docs metadata, then docs vectors.      *)

\* What is still to be collected for a part.
CollectPaths(part) ==
  {p \in Changed(run) :
     IF part = "code" THEN p \in CodePaths /\ [kind |-> "apply", path |-> p] \notin run.skipped
     ELSE p \in DocPaths /\ \E k \in {"apply", "vector"} : [kind |-> k, path |-> p] \notin run.skipped}

\* The artifacts IndexCollectArtifactStore.load accepts.
UsableArtifacts(part) ==
  {a \in jobs[run.job].artifacts :
     a.part = part /\ a.sig = run.sig /\ CollectPaths(part) \subseteq a.paths}

\* The items of a phase: deletions, and what was collected.
Items(phase, got) == {t \in TasksOf(run, phase) : t.kind = "delete" \/ t.path \in got}

Pick(content, got, old) == [p \in Paths |-> IF p \in got THEN content[p] ELSE old[p]]

BeginApply(part, content, got, failed) ==
  run' = [run EXCEPT !.pc = "apply", !.content = Pick(content, got, @), !.got = got,
                     !.failed = @ \/ failed, !.todo = Items(part, got)]

ReuseArtifact ==
  /\ run.pc = "collect" /\ CollectPaths(run.phase) # {}
  /\ \E a \in UsableArtifacts(run.phase) : BeginApply(run.phase, a.content, a.paths, FALSE)
  /\ UNCHANGED <<ws, state, overlay, vectors, jobs>>

\* Files are read now, not when the plan was made.  One that is gone by now,
\* or cannot be parsed, is a collect failure; then no artifact is saved.
Collect ==
  LET paths == CollectPaths(run.phase)
  IN /\ run.pc = "collect"
     /\ paths = {} \/ UsableArtifacts(run.phase) = {}
     /\ \E bad \in SUBSET paths :
          /\ {p \in paths : Captured[p] = Missing} \subseteq bad
          /\ "error" \notin Faults => bad = {p \in paths : Captured[p] = Missing}
          /\ BeginApply(run.phase, Captured, paths \ bad, bad # {})
          /\ jobs' = IF paths = {} \/ bad # {} THEN jobs
                     ELSE [jobs EXCEPT ![run.job].artifacts =
                            {a \in @ : a.part # run.phase} \cup
                            {[part |-> run.phase, sig |-> run.sig, paths |-> paths,
                              content |-> Pick(Captured, paths, NothingIndexed)]}]
  /\ UNCHANGED <<ws, state, overlay, vectors>>

\* One transaction: a batch commits as a whole.
Apply(batch) ==
  /\ overlay' = [p \in Paths |->
       CASE [kind |-> "apply", path |-> p] \in batch -> run.content[p]
         [] [kind |-> "delete", path |-> p] \in batch -> Missing
         [] OTHER -> overlay[p]]
  /\ vectors' = [d \in DocPaths |->
       IF [kind |-> "vector", path |-> d] \in batch THEN run.content[d] ELSE vectors[d]]

CommitBatch ==
  /\ run.pc = "apply"
  /\ \E batch \in SUBSET run.todo :
       /\ batch # {} /\ Cardinality(batch) <= MaxBatch
       /\ Apply(batch)
       /\ run' = [run EXCEPT !.todo = @ \ batch, !.applied = @ \cup batch]
  /\ UNCHANGED <<ws, state, jobs>>

\* Mutant: an item that failed is checkpointed with the others.
FailAndRecordItem ==
  /\ "error" \in Faults /\ run.pc = "apply"
  /\ \E t \in run.todo :
       run' = [run EXCEPT !.todo = @ \ {t}, !.applied = @ \cup {t}, !.failed = TRUE]
  /\ UNCHANGED <<ws, state, overlay, vectors, jobs>>

\* A batch is split until the items that fail are alone.
FailItem ==
  /\ "error" \in Faults /\ run.pc = "apply"
  /\ \E t \in run.todo : run' = [run EXCEPT !.todo = @ \ {t}, !.failed = TRUE]
  /\ UNCHANGED <<ws, state, overlay, vectors, jobs>>

\* Mutant: a checkpoint is written before the batch committed.
RecordEarly ==
  /\ run.pc = "apply"
  /\ \E t \in run.applied \cup run.todo :
       /\ run' = [run EXCEPT !.applied = @ \ {t}]
       /\ jobs' = [jobs EXCEPT ![run.job].done = @ \cup {CheckpointOf(run, t)}]
  /\ UNCHANGED <<ws, state, overlay, vectors>>

\* Checkpoints are written only after the last batch of the phase committed.
RecordCheckpoint ==
  /\ run.pc = "apply" /\ run.todo = {}
  /\ \E t \in run.applied :
       /\ run' = [run EXCEPT !.applied = @ \ {t}]
       /\ jobs' = [jobs EXCEPT ![run.job].done =
            {c \in @ : c.kind # t.kind \/ c.path # t.path} \cup {CheckpointOf(run, t)}]
  /\ UNCHANGED <<ws, state, overlay, vectors>>

\* Leaving a phase: docs collect after the code phase, vectors reuse what the
\* docs collect produced.
Leave(r) ==
  run' = CASE r.phase = "code" -> [r EXCEPT !.pc = "collect", !.phase = "doc"]
           [] r.phase = "doc" -> [r EXCEPT !.phase = "vector", !.todo = Items("vector", r.got)]
           [] r.phase = "vector" -> [r EXCEPT !.pc = "save"]

NextPhase ==
  /\ run.pc = "apply" /\ run.todo = {} /\ run.applied = {}
  /\ Leave(run)
  /\ UNCHANGED <<ws, state, overlay, vectors, jobs>>

\* Mutant: the exception is swallowed, the run does not count as failed.
PhaseFailsSilently ==
  /\ "error" \in Faults /\ run.pc = "apply"
  /\ Leave([run EXCEPT !.todo = {}, !.applied = {},
              !.phase = IF @ = "doc" THEN "vector" ELSE @])
  /\ UNCHANGED <<ws, state, overlay, vectors, jobs>>

\* An exception of the store: what the phase still had to apply or to record
\* is dropped, and with the docs phase its vectors.
PhaseFails ==
  /\ "error" \in Faults /\ run.pc = "apply"
  /\ Leave([run EXCEPT !.todo = {}, !.applied = {}, !.failed = TRUE,
              !.phase = IF @ = "doc" THEN "vector" ELSE @])
  /\ UNCHANGED <<ws, state, overlay, vectors, jobs>>

\* Mutant: a partial run saves its state too.
SavePartial ==
  /\ run.pc = "save"
  /\ state' = run.sig.files
  /\ run' = [run EXCEPT !.pc = "finish"]
  /\ UNCHANGED <<ws, overlay, vectors, jobs>>

\* index_state.json becomes the captured state, the paths outside the
\* requested source included.
SaveState ==
  /\ run.pc = "save"
  /\ state' = IF run.failed THEN state ELSE run.sig.files
  /\ run' = [run EXCEPT !.pc = "finish"]
  /\ UNCHANGED <<ws, overlay, vectors, jobs>>

Finish ==
  /\ run.pc = "finish"
  /\ jobs' = IF run.failed THEN jobs ELSE [jobs EXCEPT ![run.job].status = "ready"]
  /\ run' = IdleRun
  /\ UNCHANGED <<ws, state, overlay, vectors>>

\* Ctrl-C, an error out of the pipeline, SIGKILL: the job stays resumable.
Crash ==
  /\ "crash" \in Faults /\ run.pc # "idle"
  /\ run' = IdleRun
  /\ UNCHANGED <<ws, state, overlay, vectors, jobs>>

-----------------------------------------------------------------------------
\* run_full_index builds a store from nothing and publishes it; it neither
\* reads nor writes index_state.json.
FullIndex(source) ==
  /\ run.pc = "idle"
  /\ overlay' = [p \in Paths |-> IF p \in Scope(source) THEN Captured[p] ELSE Missing]
  /\ vectors' = [d \in DocPaths |-> IF d \in Scope(source) THEN Captured[d] ELSE Missing]
  /\ UNCHANGED <<ws, state, jobs, run>>

-----------------------------------------------------------------------------
Init ==
  /\ ws = NothingIndexed
  /\ state = NothingIndexed
  /\ overlay = NothingIndexed
  /\ vectors = [d \in DocPaths |-> Missing]
  /\ jobs = [j \in Jobs |-> AbsentJob]
  /\ run = IdleRun

Invoke == \E s \in Sources, p \in Policies, n \in NamedJobs \cup {NoJob} : Plan(s, p, n)

RunStep ==
  \/ ResumeJob \/ CreateJob \/ RefuseResume
  \/ ReuseArtifact \/ Collect \/ CommitBatch \/ RecordCheckpoint \/ NextPhase
  \/ SaveState \/ Finish

Next ==
  \/ \E p \in Paths : Edit(p)
  \/ Invoke \/ RunStep
  \/ FailItem \/ PhaseFails \/ Crash
  \/ \E s \in FullSources : FullIndex(s)

Spec == Init /\ [][Next]_vars

\* Users keep invoking the indexer, and the operating system runs it.
FairSpec == Spec /\ WF_vars(Invoke) /\ WF_vars(RunStep)

-----------------------------------------------------------------------------
(* Properties.                                                             *)

\* What the next diff against index_state.json will not look at is right in
\* the overlay, and so are the vectors of a document.
NoHiddenStaleness ==
  \A p \in Paths : Captured[p] = state[p] =>
    /\ overlay[p] = state[p]
    /\ p \in DocPaths /\ state[p] # Missing => vectors[p] = state[p]

\* A checkpoint that a run planned now would honour tells the truth: what it
\* says is applied is in the store.
CheckpointsHold ==
  \A j \in Jobs : \A c \in jobs[j].done :
    c.sig.files = Captured /\ (c.kind = "delete" => c.input = state[c.path]) =>
      CASE c.kind = "apply"  -> overlay[c.path] = c.input
        [] c.kind = "delete" -> overlay[c.path] = Missing
        [] c.kind = "vector" -> vectors[c.path] = c.input

\* A job that ends ready has indexed every path of its source that was not
\* edited since the plan was made.
ReadyMeansIndexed ==
  [][\A j \in Jobs : jobs[j].status # "ready" /\ jobs[j].status' = "ready" =>
       \A p \in Scope(run.sig.source) :
         Captured[p] = run.sig.files[p] => overlay[p] = Captured[p]]_vars

Committed(t) ==
  CASE t.kind = "apply"  -> overlay[t.path] = run.content[t.path]
    [] t.kind = "delete" -> overlay[t.path] = Missing
    [] t.kind = "vector" -> vectors[t.path] = run.content[t.path]

\* Whatever users edit and whichever runs came before, index_state.json is
\* replaced only after every task the run did not skip is in the store.
StateFollowsCommit ==
  [][state' # state => \A t \in Tasks(run) \ run.skipped : Committed(t)]_vars

InSync ==
  \A p \in Paths : /\ overlay[p] = Captured[p]
                   /\ p \in DocPaths /\ Captured[p] # Missing => vectors[p] = Captured[p]

\* Once users stop editing and runs stop failing, repeated runs bring the
\* overlay and the vectors to the workspace.
Converges == <>[][ws' = ws /\ ~Crash /\ ~FailItem /\ ~PhaseFails]_vars => <>[]InSync
=============================================================================
