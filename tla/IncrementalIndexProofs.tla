----------------------- MODULE IncrementalIndexProofs -----------------------
(***************************************************************************)
(* Theorems about IncrementalIndex, for every set of paths and jobs, any   *)
(* batch size and any number of revisions.                                 *)
(***************************************************************************)
EXTENDS IncrementalIndex, TLAPS

-----------------------------------------------------------------------------
(* Types.                                                                  *)

Contents   == [Paths -> Hashes]
TaskSet    == [kind: {"apply", "delete", "vector"}, path: Paths]
Signatures == [files: Contents, source: SourceKinds]
Checkpoints ==
  [kind: {"apply", "delete", "vector"}, path: Paths, input: Hashes, sig: Signatures]
Artifacts ==
  [part: {"code", "doc"}, sig: Signatures, paths: SUBSET Paths, content: Contents]
JobRow ==
  [status: {"absent", "open", "ready", "superseded"}, sig: Signatures,
   done: SUBSET Checkpoints, artifacts: SUBSET Artifacts]
RunState ==
  [pc: {"idle", "prepare", "collect", "apply", "save", "finish"},
   phase: {"code", "doc", "vector"}, policy: PolicyKinds, named: NamedJobs \cup {NoJob},
   sig: Signatures, prev: Contents, job: Jobs \cup {NoJob}, skipped: SUBSET TaskSet,
   content: Contents, got: SUBSET Paths, todo: SUBSET TaskSet, applied: SUBSET TaskSet,
   failed: BOOLEAN]

StoreType == overlay \in Contents /\ vectors \in [DocPaths -> Hashes]
JobsType == jobs \in [Jobs -> JobRow]
RunType ==
  /\ run \in RunState
  /\ run.pc \notin {"idle", "prepare"} => run.job \in Jobs
  /\ run.pc = "collect" => run.phase \in {"code", "doc"}
  /\ run.pc \in {"idle", "prepare"} => run.phase = "code"

TypeInv ==
  /\ ws \in [Paths -> 0..MaxRevision] /\ state \in Contents
  /\ StoreType /\ JobsType /\ RunType

LEMMA CapturedFacts ==
  ASSUME ws \in [Paths -> 0..MaxRevision]
  PROVE  /\ Captured \in Contents
         /\ \A p \in Paths : Captured[p] = IF ws[p] = Gone THEN Missing ELSE ws[p]
BY ConstantsAssumption DEF ConstantsAssumption, Captured, Contents, Hash, Hashes, Gone, Missing

LEMMA NothingIndexedType == NothingIndexed \in Contents /\ NoSignature \in Signatures
BY ConstantsAssumption
   DEF ConstantsAssumption, NothingIndexed, NoSignature, Signatures, Contents, Hashes, Missing,
       SourceKinds

LEMMA IdleRunType == run' = IdleRun => RunType'
BY NothingIndexedType DEF IdleRun, RunType, RunState, PolicyKinds

\* The tasks of a plan: a path is applied or deleted, never both.
LEMMA TaskFacts ==
  ASSUME RunType
  PROVE  /\ Changed(run) \subseteq Paths /\ Deleted(run) \subseteq Paths
         /\ \A p \in Changed(run) : run.sig.files[p] # Missing
         /\ \A p \in Deleted(run) : run.sig.files[p] = Missing /\ run.prev[p] # Missing
         /\ Tasks(run) \subseteq TaskSet
         /\ \A t \in Tasks(run) :
              /\ t = [kind |-> t.kind, path |-> t.path]
              /\ t.path \in Paths /\ t.kind \in {"apply", "delete", "vector"}
              /\ IF t.kind = "delete" THEN t.path \in Deleted(run) ELSE t.path \in Changed(run)
              /\ t.kind = "vector" => t.path \in DocPaths
<1>1. Scope(run.sig.source) \subseteq Paths
  BY DEF RunType, RunState, Signatures, SourceKinds, Scope, Paths
<1>2. /\ Changed(run) \subseteq Paths /\ Deleted(run) \subseteq Paths
      /\ \A p \in Changed(run) : run.sig.files[p] # Missing
      /\ \A p \in Deleted(run) : run.sig.files[p] = Missing /\ run.prev[p] # Missing
  BY <1>1 DEF Changed, Deleted
<1>3. ASSUME NEW t \in Tasks(run)
      PROVE  /\ t \in TaskSet /\ t = [kind |-> t.kind, path |-> t.path]
             /\ t.path \in Paths /\ t.kind \in {"apply", "delete", "vector"}
             /\ IF t.kind = "delete" THEN t.path \in Deleted(run) ELSE t.path \in Changed(run)
             /\ t.kind = "vector" => t.path \in DocPaths
  BY <1>2, <1>3 DEF Tasks, TaskSet
<1> QED BY <1>2, <1>3

LEMMA CheckpointType ==
  ASSUME RunType, NEW t \in TaskSet
  PROVE  CheckpointOf(run, t) \in Checkpoints
BY DEF RunType, RunState, TaskSet, CheckpointOf, Checkpoints, InputHash, Signatures, Contents

\* A run that begins.
LEMMA StartType ==
  ASSUME RunType, run.pc = "prepare", NEW j \in Jobs, NEW row, StartWith(j, row)
  PROVE  RunType'
<1>1. Skippable(run, row) \subseteq TaskSet
  BY TaskFacts DEF Skippable
<1>2. Skippable(run, row) \in SUBSET TaskSet
  BY <1>1
<1> QED BY <1>2 DEF StartWith, RunType, RunState

LEMMA InitTypeInv == Init => TypeInv
<1> SUFFICES ASSUME Init PROVE TypeInv
  OBVIOUS
<1>1. ws \in [Paths -> 0..MaxRevision]
  BY ConstantsAssumption DEF ConstantsAssumption, Init, NothingIndexed, Missing
<1>2. StoreType /\ state \in Contents
  BY NothingIndexedType, ConstantsAssumption
     DEF ConstantsAssumption, Init, StoreType, Contents, Hashes, Missing
<1>3. JobsType
  BY NothingIndexedType DEF Init, JobsType, JobRow, AbsentJob
<1>4. RunType
  BY NothingIndexedType DEF Init, IdleRun, RunType, RunState, PolicyKinds
<1> QED BY <1>1, <1>2, <1>3, <1>4 DEF TypeInv

LEMMA PrepareType ==
  ASSUME TypeInv, ResumeJob \/ CreateJob \/ RefuseResume
  PROVE  JobsType' /\ RunType'
<1>m. RunType /\ JobsType /\ run.pc = "prepare"
  BY DEF TypeInv, ResumeJob, CreateJob, RefuseResume
<1>1. CASE ResumeJob
  <2>1. PICK j \in Resumable : StartWith(j, jobs[j])
    BY <1>1 DEF ResumeJob
  <2>2. j \in Jobs
    BY DEF Resumable
  <2> QED BY <1>m, <1>1, <2>1, <2>2, StartType DEF ResumeJob, JobsType
<1>2. ASSUME NEW rows \in [Jobs -> JobRow], CreateIn(rows)
      PROVE  JobsType' /\ RunType'
  <2>1. CASE run.named = NoJob /\ FreshIds = {} /\ jobs' = rows /\ run' = IdleRun
    BY <1>2, <2>1, IdleRunType DEF JobsType
  <2>2. ASSUME NEW j, j \in (IF run.named = NoJob THEN FreshIds ELSE {run.named}),
               NEW kept, kept = (IF j \in NamedJobs THEN rows[j] ELSE AbsentJob),
               NEW row, row = [kept EXCEPT !.status = "open", !.sig = run.sig],
               jobs' = [rows EXCEPT ![j] = row], StartWith(j, row)
        PROVE  JobsType' /\ RunType'
    <3>1. j \in Jobs
      BY <1>m, <2>2, ConstantsAssumption
         DEF ConstantsAssumption, FreshIds, RunType, RunState
    <3>2. kept \in JobRow
      BY <2>2, <3>1, NothingIndexedType DEF AbsentJob, JobRow
    <3>3. row \in JobRow
      BY <1>m, <2>2, <3>2 DEF JobRow, RunType, RunState
    <3> QED BY <1>m, <2>2, <3>1, <3>3, StartType DEF JobsType
  <2> QED BY <1>2, <2>1, <2>2 DEF CreateIn
<1>3. CASE CreateJob
  <2>1. CASE CreateIn(jobs)
    BY <1>m, <1>2, <2>1 DEF JobsType
  <2>2. ASSUME NEW j \in Resumable, CreateIn([jobs EXCEPT ![j].status = "superseded"])
        PROVE  JobsType' /\ RunType'
    <3>1. [jobs EXCEPT ![j].status = "superseded"] \in [Jobs -> JobRow]
      BY <1>m DEF JobsType, JobRow, Resumable
    <3> QED BY <1>2, <2>2, <3>1
  <2> QED BY <1>3, <2>1, <2>2 DEF CreateJob
<1>4. CASE RefuseResume
  BY <1>m, <1>4, IdleRunType DEF RefuseResume, JobsType
<1> QED BY <1>1, <1>3, <1>4

\* Collecting or reusing what was collected: the items to apply are tasks.
LEMMA BeginApplyType ==
  ASSUME RunType, run.pc = "collect", NEW got \in SUBSET Paths, NEW content \in Contents,
         NEW failed \in BOOLEAN, BeginApply(run.phase, content, got, failed)
  PROVE  RunType'
<1>1. Items(run.phase, got) \in SUBSET TaskSet
  BY TaskFacts DEF Items, TasksOf
<1>2. Pick(content, got, run.content) \in Contents
  BY DEF RunType, RunState, Pick, Contents
<1> QED BY <1>1, <1>2 DEF BeginApply, RunType, RunState

LEMMA CollectType ==
  ASSUME TypeInv, ReuseArtifact \/ Collect
  PROVE  JobsType' /\ RunType'
<1>m. RunType /\ JobsType /\ run.pc = "collect" /\ run.job \in Jobs
  BY DEF TypeInv, RunType, ReuseArtifact, Collect
<1>c. Captured \in Contents
  BY CapturedFacts DEF TypeInv
<1>1. CASE ReuseArtifact
  <2>1. PICK a \in UsableArtifacts(run.phase) : BeginApply(run.phase, a.content, a.paths, FALSE)
    BY <1>1 DEF ReuseArtifact
  <2>2. a \in Artifacts
    BY <1>m DEF UsableArtifacts, JobsType, JobRow
  <2> QED BY <1>m, <1>1, <2>1, <2>2, BeginApplyType DEF Artifacts, ReuseArtifact, JobsType
<1>2. CASE Collect
  <2> DEFINE paths == CollectPaths(run.phase)
             row == [part |-> run.phase, sig |-> run.sig, paths |-> paths,
                     content |-> Pick(Captured, paths, NothingIndexed)]
  <2>0. paths \subseteq Paths
    BY <1>m, TaskFacts DEF CollectPaths
  <2>1. PICK bad \in SUBSET paths :
          /\ BeginApply(run.phase, Captured, paths \ bad, bad # {})
          /\ jobs' = IF paths = {} \/ bad # {} THEN jobs
                     ELSE [jobs EXCEPT ![run.job].artifacts =
                            {a \in @ : a.part # run.phase} \cup {row}]
    BY <1>2 DEF Collect
  <2>2. RunType'
    BY <1>m, <1>c, <2>0, <2>1, BeginApplyType
  <2>3. row \in Artifacts
    BY <1>m, <1>c, <2>0, NothingIndexedType
       DEF Artifacts, RunType, RunState, Pick, Contents
  <2>4. JobsType'
    <3> HIDE DEF row, paths
    <3> QED BY <1>m, <2>1, <2>3 DEF JobsType, JobRow
  <2> QED BY <2>2, <2>4
<1> QED BY <1>1, <1>2

LEMMA ApplyType ==
  ASSUME TypeInv, CommitBatch \/ FailItem \/ RecordCheckpoint
  PROVE  StoreType' /\ JobsType' /\ RunType'
<1>m. RunType /\ JobsType /\ StoreType /\ run.pc = "apply" /\ run.job \in Jobs
  BY DEF TypeInv, RunType, CommitBatch, FailItem, RecordCheckpoint
<1>1. CASE CommitBatch
  <2>1. PICK batch \in SUBSET run.todo :
          Apply(batch) /\ run' = [run EXCEPT !.todo = @ \ batch, !.applied = @ \cup batch]
    BY <1>1 DEF CommitBatch
  <2>2. RunType'
    BY <1>m, <2>1 DEF RunType, RunState
  <2>3. Missing \in Hashes
    BY ConstantsAssumption DEF ConstantsAssumption, Missing, Hashes
  <2>4. DocPaths \subseteq Paths
    BY DEF Paths
  <2>5. StoreType'
    BY <1>m, <2>1, <2>3, <2>4 DEF Apply, StoreType, Contents, RunType, RunState
  <2> QED BY <1>m, <1>1, <2>2, <2>5 DEF CommitBatch, JobsType
<1>2. CASE FailItem
  BY <1>m, <1>2 DEF FailItem, RunType, RunState, StoreType, JobsType
<1>3. CASE RecordCheckpoint
  <2>1. PICK t \in run.applied :
          /\ run' = [run EXCEPT !.applied = @ \ {t}]
          /\ jobs' = [jobs EXCEPT ![run.job].done =
               {c \in @ : c.kind # t.kind \/ c.path # t.path} \cup {CheckpointOf(run, t)}]
    BY <1>3 DEF RecordCheckpoint
  <2>2. CheckpointOf(run, t) \in Checkpoints
    BY <1>m, CheckpointType DEF RunType, RunState
  <2>3. JobsType'
    BY <1>m, <2>1, <2>2 DEF JobsType, JobRow
  <2> QED BY <1>m, <1>3, <2>1, <2>3 DEF RecordCheckpoint, RunType, RunState, StoreType
<1> QED BY <1>1, <1>2, <1>3

LEMMA LeaveType ==
  ASSUME RunType, run.pc = "apply",
         \/ Leave(run)
         \/ Leave([run EXCEPT !.todo = {}, !.applied = {}, !.failed = TRUE,
                     !.phase = IF @ = "doc" THEN "vector" ELSE @])
  PROVE  RunType'
<1>1. Items("vector", run.got) \in SUBSET TaskSet
  BY TaskFacts DEF Items, TasksOf
<1>2. CASE Leave(run)
  BY <1>1, <1>2 DEF Leave, RunType, RunState
<1>3. ASSUME NEW r \in RunState, r.pc = "apply", r.job \in Jobs, Leave(r),
             Items("vector", r.got) \in SUBSET TaskSet
      PROVE  RunType'
  BY <1>3 DEF Leave, RunType, RunState
<1>4. [run EXCEPT !.todo = {}, !.applied = {}, !.failed = TRUE,
         !.phase = IF @ = "doc" THEN "vector" ELSE @] \in RunState
  BY DEF RunType, RunState
<1>5. ASSUME NEW r, r = [run EXCEPT !.todo = {}, !.applied = {}, !.failed = TRUE,
                           !.phase = IF @ = "doc" THEN "vector" ELSE @]
      PROVE  r.pc = "apply" /\ r.job \in Jobs /\ r.got = run.got
  BY <1>5 DEF RunType, RunState
<1> QED BY <1>1, <1>2, <1>3, <1>4, <1>5

LEMMA NextTypeInv == TypeInv /\ [Next]_vars => TypeInv'
<1> SUFFICES ASSUME TypeInv, [Next]_vars PROVE TypeInv'
  OBVIOUS
<1>1. CASE \E p \in Paths : Edit(p)
  BY <1>1, ConstantsAssumption
     DEF ConstantsAssumption, Edit, SetFile, Gone, Hashes, TypeInv, StoreType, JobsType, RunType
<1>2. CASE Invoke
  <2>1. PICK s \in Sources, p \in Policies, n \in NamedJobs \cup {NoJob} : Plan(s, p, n)
    BY <1>2 DEF Invoke
  <2>2. s \in SourceKinds /\ p \in PolicyKinds
    BY ConstantsAssumption DEF ConstantsAssumption
  <2>3. RunType'
    BY <2>1, <2>2, CapturedFacts, NothingIndexedType
       DEF Plan, IdleRun, TypeInv, RunType, RunState, Signatures
  <2> QED BY <2>1, <2>3 DEF Plan, TypeInv, StoreType, JobsType
<1>3. CASE ResumeJob \/ CreateJob \/ RefuseResume
  BY <1>3, PrepareType DEF ResumeJob, CreateJob, RefuseResume, TypeInv, StoreType
<1>4. CASE ReuseArtifact \/ Collect
  BY <1>4, CollectType DEF ReuseArtifact, Collect, TypeInv, StoreType
<1>5. CASE CommitBatch \/ FailItem \/ RecordCheckpoint
  BY <1>5, ApplyType DEF CommitBatch, FailItem, RecordCheckpoint, TypeInv
<1>6. CASE NextPhase \/ PhaseFails
  BY <1>6, LeaveType DEF NextPhase, PhaseFails, TypeInv, StoreType, JobsType
<1>7. CASE SaveState
  BY <1>7 DEF SaveState, TypeInv, StoreType, JobsType, RunType, RunState, Signatures
<1>8. CASE Finish
  <2>1. RunType'
    BY <1>8, IdleRunType DEF Finish
  <2> QED BY <1>8, <2>1 DEF Finish, TypeInv, StoreType, JobsType, JobRow
<1>9. CASE Crash
  BY <1>9, IdleRunType DEF Crash, TypeInv, StoreType, JobsType
<1>10. ASSUME NEW s \in FullSources, FullIndex(s)
       PROVE  TypeInv'
  <2>1. Captured \in Contents /\ Missing \in Hashes /\ DocPaths \subseteq Paths
    BY CapturedFacts, ConstantsAssumption
       DEF ConstantsAssumption, TypeInv, Missing, Hashes, Paths
  <2>2. StoreType'
    BY <1>10, <2>1 DEF FullIndex, StoreType, Contents
  <2> QED BY <1>10, <2>2 DEF FullIndex, TypeInv, JobsType, RunType
<1>11. CASE UNCHANGED vars
  BY <1>11 DEF vars, TypeInv, StoreType, JobsType, RunType
<1> QED
  BY <1>1, <1>2, <1>3, <1>4, <1>5, <1>6, <1>7, <1>8, <1>9, <1>10, <1>11 DEF Next, RunStep

-----------------------------------------------------------------------------
(* The progress of a run, whatever came before it.  While nothing has      *)
(* failed, a task the run did not skip is done, or still to come.          *)

Due == Tasks(run) \ run.skipped

\* The task is in the store, with the content this run has for it.
Done(t) == Committed(t) /\ (t.kind # "delete" => run.content[t.path] # Missing)

PhaseOf(t) ==
  IF t.path \in CodePaths THEN "code" ELSE IF t.kind = "vector" THEN "vector" ELSE "doc"
PathsOf(part) == IF part = "code" THEN CodePaths ELSE DocPaths

\* The run is past phase l.
Passed(l) ==
  \/ l = "code" /\ run.phase \in {"doc", "vector"}
  \/ l = "doc" /\ run.phase = "vector"

\* What the run has at hand in its phase.
Gathered ==
  /\ run.pc \in {"prepare", "collect"} => run.applied = {}
  /\ run.pc = "apply" =>
       /\ run.got \subseteq PathsOf(run.phase)
       /\ \A p \in run.got : run.content[p] # Missing
       /\ \A t \in run.todo :
            /\ t \in Due /\ PhaseOf(t) = run.phase
            /\ t.kind # "delete" => t.path \in run.got
       /\ ~run.failed /\ run.phase # "code" => CollectPaths("doc") \subseteq run.got

AppliedIsDone == run.pc = "apply" => \A t \in run.applied : t \in Due /\ Done(t)

NothingLeftOut ==
  ~run.failed =>
    \A t \in Due :
      /\ run.pc = "save" => Done(t)
      /\ run.pc \in {"collect", "apply"} /\ Passed(PhaseOf(t)) => Done(t)
      /\ run.pc = "apply" /\ PhaseOf(t) = run.phase => t \in run.todo \/ Done(t)

RunProgress == Gathered /\ AppliedIsDone /\ NothingLeftOut

ArtifactsHold ==
  \A j \in Jobs : \A a \in jobs[j].artifacts :
    a.paths \subseteq PathsOf(a.part) /\ \A p \in a.paths : a.content[p] # Missing

ProgressInv == TypeInv /\ RunProgress /\ ArtifactsHold

\* Preparing a job adds nothing to what jobs have recorded; what the run will
\* skip is recorded.
LEMMA PrepareEffect ==
  ASSUME TypeInv, ResumeJob \/ CreateJob \/ RefuseResume
  PROVE  /\ \A j \in Jobs : /\ jobs'[j].artifacts \subseteq jobs[j].artifacts
                            /\ jobs'[j].done \subseteq jobs[j].done
                            /\ jobs'[j].status \in {jobs[j].status, "open", "superseded"}
         /\ \/ run' = IdleRun
            \/ \E j \in Jobs, s \in SUBSET Tasks(run) :
                 /\ \A t \in s : CheckpointOf(run, t) \in jobs[j].done
                 /\ run' = [run EXCEPT !.pc = "collect", !.job = j, !.skipped = s]
<1>m. JobsType /\ RunType /\ run.pc = "prepare"
  BY DEF TypeInv, ResumeJob, CreateJob, RefuseResume
<1>s. ASSUME NEW j \in Jobs, NEW row, row.done \subseteq jobs[j].done, StartWith(j, row)
      PROVE  \E i \in Jobs, s \in SUBSET Tasks(run) :
               /\ \A t \in s : CheckpointOf(run, t) \in jobs[i].done
               /\ run' = [run EXCEPT !.pc = "collect", !.job = i, !.skipped = s]
  BY <1>s DEF StartWith, Skippable
<1>1. CASE ResumeJob
  <2>1. PICK j \in Resumable : StartWith(j, jobs[j])
    BY <1>1 DEF ResumeJob
  <2> QED BY <1>1, <1>s, <2>1 DEF ResumeJob, Resumable
<1>2. ASSUME NEW rows, rows \in [Jobs -> JobRow],
             \A j \in Jobs : /\ rows[j].artifacts = jobs[j].artifacts
                              /\ rows[j].done = jobs[j].done
                              /\ rows[j].status \in {jobs[j].status, "superseded"},
             CreateIn(rows)
      PROVE  /\ \A j \in Jobs : /\ jobs'[j].artifacts \subseteq jobs[j].artifacts
                                /\ jobs'[j].done \subseteq jobs[j].done
                                /\ jobs'[j].status \in {jobs[j].status, "open", "superseded"}
             /\ \/ run' = IdleRun
                \/ \E j \in Jobs, s \in SUBSET Tasks(run) :
                     /\ \A t \in s : CheckpointOf(run, t) \in jobs[j].done
                     /\ run' = [run EXCEPT !.pc = "collect", !.job = j, !.skipped = s]
  <2>1. CASE run.named = NoJob /\ FreshIds = {} /\ jobs' = rows /\ run' = IdleRun
    BY <1>2, <2>1
  <2>2. ASSUME NEW j, j \in (IF run.named = NoJob THEN FreshIds ELSE {run.named}),
               NEW kept, kept = (IF j \in NamedJobs THEN rows[j] ELSE AbsentJob),
               NEW row, row = [kept EXCEPT !.status = "open", !.sig = run.sig],
               jobs' = [rows EXCEPT ![j] = row], StartWith(j, row)
        PROVE  /\ \A i \in Jobs : /\ jobs'[i].artifacts \subseteq jobs[i].artifacts
                                  /\ jobs'[i].done \subseteq jobs[i].done
                                  /\ jobs'[i].status \in {jobs[i].status, "open", "superseded"}
               /\ \E i \in Jobs, s \in SUBSET Tasks(run) :
                    /\ \A t \in s : CheckpointOf(run, t) \in jobs[i].done
                    /\ run' = [run EXCEPT !.pc = "collect", !.job = i, !.skipped = s]
    <3>1. j \in Jobs
      BY <1>m, <2>2, ConstantsAssumption DEF ConstantsAssumption, FreshIds, RunType, RunState
    <3>2. kept \in JobRow /\ kept.done \subseteq jobs[j].done
                          /\ kept.artifacts \subseteq jobs[j].artifacts
      BY <1>2, <2>2, <3>1, NothingIndexedType DEF AbsentJob, JobRow
    <3>3. row.done = kept.done /\ row.artifacts = kept.artifacts /\ row.status = "open"
      BY <2>2, <3>2 DEF JobRow
    <3> QED BY <1>s, <1>2, <2>2, <3>1, <3>2, <3>3
  <2> QED BY <1>2, <2>1, <2>2 DEF CreateIn
<1>3. CASE CreateJob
  <2>1. CASE CreateIn(jobs)
    BY <1>m, <1>2, <2>1 DEF JobsType
  <2>2. ASSUME NEW j \in Resumable, CreateIn([jobs EXCEPT ![j].status = "superseded"])
        PROVE  /\ \A i \in Jobs : /\ jobs'[i].artifacts \subseteq jobs[i].artifacts
                                  /\ jobs'[i].done \subseteq jobs[i].done
                                  /\ jobs'[i].status \in {jobs[i].status, "open", "superseded"}
               /\ \/ run' = IdleRun
                  \/ \E i \in Jobs, s \in SUBSET Tasks(run) :
                       /\ \A t \in s : CheckpointOf(run, t) \in jobs[i].done
                       /\ run' = [run EXCEPT !.pc = "collect", !.job = i, !.skipped = s]
    <3> DEFINE rows == [jobs EXCEPT ![j].status = "superseded"]
    <3>1. rows \in [Jobs -> JobRow]
      BY <1>m DEF JobsType, JobRow, Resumable
    <3>2. \A i \in Jobs : /\ rows[i].artifacts = jobs[i].artifacts
                           /\ rows[i].done = jobs[i].done
                           /\ rows[i].status \in {jobs[i].status, "superseded"}
      BY <1>m DEF JobsType, JobRow
    <3>3. CreateIn(rows)
      BY <2>2
    <3> HIDE DEF rows
    <3> QED BY <1>2, <3>1, <3>2, <3>3
  <2> QED BY <1>3, <2>1, <2>2 DEF CreateJob
<1>4. CASE RefuseResume
  BY <1>m, <1>4 DEF RefuseResume
<1> QED BY <1>1, <1>3, <1>4

\* Between runs, and before and after their phases, there is nothing to say.
LEMMA IdleProgress ==
  ASSUME run'.pc \in {"idle", "finish"}
         \/ (run'.pc = "prepare" /\ run'.applied = {})
         \/ (run'.pc = "collect" /\ run'.applied = {} /\ run'.phase = "code")
  PROVE  RunProgress'
BY DEF RunProgress, Gathered, AppliedIsDone, NothingLeftOut, Passed

\* What a plan is made of.
LEMMA SamePlan ==
  ASSUME run'.sig = run.sig, run'.prev = run.prev, run'.skipped = run.skipped
  PROVE  /\ Due' = Due /\ Changed(run)' = Changed(run) /\ Deleted(run)' = Deleted(run)
         /\ Tasks(run)' = Tasks(run)
         /\ CollectPaths("doc")' = CollectPaths("doc")
BY DEF Due, Tasks, Changed, Deleted, Scope, CollectPaths

\* Every task belongs to one phase, and what its phase collects covers it.
LEMMA DueFacts ==
  ASSUME RunType
  PROVE  \A t \in Due :
           /\ PhaseOf(t) \in {"code", "doc", "vector"}
           /\ t.path \in PathsOf(PhaseOf(t))
           /\ t.kind # "delete" =>
                t.path \in CollectPaths(IF PhaseOf(t) = "code" THEN "code" ELSE "doc")
           /\ \A l \in {"code", "doc", "vector"} : t \in TasksOf(run, l) <=> PhaseOf(t) = l
<1> SUFFICES ASSUME NEW t \in Due
             PROVE  /\ PhaseOf(t) \in {"code", "doc", "vector"}
                    /\ t.path \in PathsOf(PhaseOf(t))
                    /\ t.kind # "delete" =>
                         t.path \in CollectPaths(IF PhaseOf(t) = "code" THEN "code" ELSE "doc")
                    /\ \A l \in {"code", "doc", "vector"} : t \in TasksOf(run, l) <=> PhaseOf(t) = l
  OBVIOUS
<1>1. /\ t \in Tasks(run) /\ t \notin run.skipped /\ t = [kind |-> t.kind, path |-> t.path]
      /\ t.path \in Paths /\ t.kind \in {"apply", "delete", "vector"}
      /\ t.kind # "delete" => t.path \in Changed(run)
      /\ t.kind = "vector" => t.path \in DocPaths
  BY TaskFacts DEF Due
<1>2. CodePaths \cap DocPaths = {} /\ Paths = CodePaths \cup DocPaths
  BY ConstantsAssumption DEF ConstantsAssumption, Paths
<1>3. PhaseOf(t) \in {"code", "doc", "vector"} /\ t.path \in PathsOf(PhaseOf(t))
  BY <1>1, <1>2 DEF PhaseOf, PathsOf
<1>4. \A l \in {"code", "doc", "vector"} : t \in TasksOf(run, l) <=> PhaseOf(t) = l
  BY <1>1, <1>2 DEF PhaseOf, TasksOf
<1>5. ASSUME t.kind # "delete"
      PROVE  t.path \in CollectPaths(IF PhaseOf(t) = "code" THEN "code" ELSE "doc")
  <2>1. CASE t.path \in CodePaths
    <3>1. t = [kind |-> "apply", path |-> t.path]
      BY <1>1, <1>2, <1>5, <2>1
    <3> QED BY <1>1, <1>5, <2>1, <3>1 DEF PhaseOf, CollectPaths
  <2>2. CASE t.path \notin CodePaths
    BY <1>1, <1>2, <1>5, <2>2 DEF PhaseOf, CollectPaths
  <2> QED BY <2>1, <2>2
<1> QED BY <1>3, <1>4, <1>5

LEMMA BeginApplyProgress ==
  ASSUME TypeInv, RunProgress, run.pc = "collect", NEW got, got \subseteq PathsOf(run.phase),
         NEW content \in Contents, \A p \in got : content[p] # Missing,
         NEW failed \in BOOLEAN, ~failed => CollectPaths(run.phase) \subseteq got,
         BeginApply(run.phase, content, got, failed), UNCHANGED <<overlay, vectors>>
  PROVE  RunProgress'
<1>m. RunType /\ run.phase \in {"code", "doc"} /\ run.applied = {}
  BY DEF TypeInv, RunType, RunProgress, Gathered
<1>p. PathsOf(run.phase) \subseteq Paths
  BY <1>m DEF PathsOf, Paths
<1>1. /\ run'.pc = "apply" /\ run'.phase = run.phase /\ run'.got = got
      /\ run'.todo = Items(run.phase, got) /\ run'.applied = {} /\ run'.skipped = run.skipped
      /\ run'.sig = run.sig /\ run'.prev = run.prev /\ run'.failed = (run.failed \/ failed)
      /\ run'.content = Pick(content, got, run.content)
  BY <1>m DEF BeginApply, RunType, RunState
<1>2. /\ Due' = Due /\ CollectPaths("doc")' = CollectPaths("doc")
  BY <1>1, SamePlan
<1>3. \A p \in Paths : run'.content[p] = IF p \in got THEN content[p] ELSE run.content[p]
  BY <1>1 DEF Pick
<1>4. \A t \in run'.todo : t \in Due /\ PhaseOf(t) = run.phase /\ (t.kind # "delete" => t.path \in got)
  BY <1>1, <1>m, DueFacts DEF Items, TasksOf, Due
<1>5. Gathered'
  <2>1. \A p \in got : run'.content[p] # Missing
    BY <1>3, <1>p
  <2>2. \A t : PhaseOf(t)' = PhaseOf(t)
    BY DEF PhaseOf
  <2>3. PathsOf(run.phase)' = PathsOf(run'.phase)
    BY DEF PathsOf
  <2>4. ~run'.failed /\ run'.phase # "code" => CollectPaths("doc") \subseteq got
    BY <1>1, <1>m
  <2>5. got \subseteq PathsOf(run'.phase)
    BY <1>1
  <2> QED BY <1>1, <1>2, <1>4, <2>1, <2>2, <2>3, <2>4, <2>5 DEF Gathered
<1>6. AppliedIsDone'
  BY <1>1 DEF AppliedIsDone
<1>7. NothingLeftOut'
  <2> SUFFICES ASSUME ~run'.failed, NEW t \in Due
               PROVE  /\ Passed(PhaseOf(t))' => Done(t)'
                      /\ PhaseOf(t) = run.phase => t \in run'.todo
    BY <1>1, <1>2 DEF NothingLeftOut, PhaseOf
  <2>1. ASSUME Passed(PhaseOf(t))'
        PROVE  Done(t)'
    <3>1. PhaseOf(t) = "code" /\ run.phase = "doc"
      BY <1>1, <1>m, <2>1 DEF Passed, PhaseOf
    <3>2. Done(t)
      BY <1>1, <1>m, <3>1 DEF RunProgress, NothingLeftOut, Passed
    <3>3. t.path \notin got /\ t.path \in Paths
      BY <3>1, <1>p, DueFacts, <1>m, ConstantsAssumption
         DEF ConstantsAssumption, PathsOf, Paths
    <3>4. run'.content[t.path] = run.content[t.path]
      BY <1>3, <3>3
    <3> QED BY <3>2, <3>4 DEF Done, Committed
  <2>2. ASSUME PhaseOf(t) = run.phase
        PROVE  t \in run'.todo
    <3>1. t \in TasksOf(run, run.phase)
      BY <1>m, <2>2, DueFacts
    <3>2. t.kind # "delete" => t.path \in got
      BY <1>1, <1>m, <2>2, DueFacts
    <3> QED BY <1>1, <3>1, <3>2 DEF Items
  <2> QED BY <2>1, <2>2
<1> QED BY <1>5, <1>6, <1>7 DEF RunProgress

LEMMA CollectProgress ==
  ASSUME ProgressInv, ReuseArtifact \/ Collect
  PROVE  RunProgress' /\ ArtifactsHold'
<1>m. /\ TypeInv /\ RunType /\ JobsType /\ run.pc = "collect" /\ run.job \in Jobs
      /\ run.phase \in {"code", "doc"} /\ RunProgress /\ ArtifactsHold
  BY DEF ProgressInv, TypeInv, RunType, ReuseArtifact, Collect
<1>c. Captured \in Contents
  BY CapturedFacts DEF TypeInv, ProgressInv
<1>1. CASE ReuseArtifact
  <2>1. PICK a \in UsableArtifacts(run.phase) : BeginApply(run.phase, a.content, a.paths, FALSE)
    BY <1>1 DEF ReuseArtifact
  <2>2. /\ a \in Artifacts /\ a.part = run.phase /\ CollectPaths(run.phase) \subseteq a.paths
        /\ a.paths \subseteq PathsOf(run.phase) /\ \A p \in a.paths : a.content[p] # Missing
    BY <1>m DEF UsableArtifacts, JobsType, JobRow, ArtifactsHold
  <2>3. a.content \in Contents
    BY <2>2 DEF Artifacts
  <2>4. RunProgress'
    BY <1>m, <1>1, <2>1, <2>2, <2>3, BeginApplyProgress DEF ReuseArtifact
  <2> QED BY <1>m, <1>1, <2>4 DEF ReuseArtifact, ArtifactsHold, PathsOf
<1>2. CASE Collect
  <2> DEFINE paths == CollectPaths(run.phase)
             row == [part |-> run.phase, sig |-> run.sig, paths |-> paths,
                     content |-> Pick(Captured, paths, NothingIndexed)]
  <2>0. paths \subseteq PathsOf(run.phase) /\ paths \subseteq Paths
    BY <1>m, TaskFacts DEF CollectPaths, PathsOf
  <2>1. PICK bad \in SUBSET paths :
          /\ {p \in paths : Captured[p] = Missing} \subseteq bad
          /\ BeginApply(run.phase, Captured, paths \ bad, bad # {})
          /\ jobs' = IF paths = {} \/ bad # {} THEN jobs
                     ELSE [jobs EXCEPT ![run.job].artifacts =
                            {a \in @ : a.part # run.phase} \cup {row}]
    BY <1>2 DEF Collect
  <2>2. RunProgress'
    <3>1. \A p \in paths \ bad : Captured[p] # Missing
      BY <2>1
    <3>2. UNCHANGED <<overlay, vectors>>
      BY <1>2 DEF Collect
    <3> HIDE DEF paths
    <3>3. (paths \ bad) \subseteq PathsOf(run.phase)
      BY <2>0
    <3>4. ~(bad # {}) => CollectPaths(run.phase) \subseteq (paths \ bad)
      BY DEF paths
    <3> QED BY <1>m, <1>c, <2>1, <3>1, <3>2, <3>3, <3>4, BeginApplyProgress
  <2>3. CASE jobs' = jobs
    BY <1>m, <2>2, <2>3 DEF ArtifactsHold, PathsOf
  <2>4. CASE jobs' # jobs
    <3>1. bad = {} /\ jobs' = [jobs EXCEPT ![run.job].artifacts =
                                 {a \in @ : a.part # run.phase} \cup {row}]
      BY <2>1, <2>4
    <3>2. /\ row.part = run.phase /\ row.paths = paths
          /\ \A p \in paths : row.content[p] = Captured[p]
      BY <2>0 DEF Pick
    <3>3. \A p \in row.paths : row.content[p] # Missing
      BY <2>1, <3>1, <3>2
    <3>4. row.paths \subseteq PathsOf(row.part)
      BY <2>0, <3>2
    <3>5. \A j \in Jobs : \A a \in jobs'[j].artifacts : a \in jobs[j].artifacts \/ a = row
      <4> HIDE DEF row
      <4> QED BY <1>m, <3>1 DEF JobsType, JobRow
    <3> HIDE DEF row
    <3>6. \A j \in Jobs : \A a \in jobs'[j].artifacts :
            a.paths \subseteq PathsOf(a.part) /\ \A p \in a.paths : a.content[p] # Missing
      BY <1>m, <3>3, <3>4, <3>5 DEF ArtifactsHold
    <3> QED BY <2>2, <3>6 DEF ArtifactsHold, PathsOf
  <2> QED BY <2>2, <2>3, <2>4
<1> QED BY <1>1, <1>2

\* A batch leaves what is done done, and what it is made of is done then.
LEMMA CommitDone ==
  ASSUME TypeInv, NEW batch \in SUBSET Tasks(run), Apply(batch), run'.content = run.content,
         NEW t \in Tasks(run), t.kind # "delete" => run.content[t.path] # Missing,
         t \in batch \/ Committed(t)
  PROVE  Done(t)'
<1>m. RunType /\ StoreType
  BY DEF TypeInv
<1>1. /\ t = [kind |-> t.kind, path |-> t.path] /\ t.path \in Paths
      /\ t.kind \in {"apply", "delete", "vector"}
      /\ t.kind = "vector" => t.path \in DocPaths
  BY <1>m, TaskFacts
<1>2. CASE t.kind = "apply"
  <2>1. [kind |-> "delete", path |-> t.path] \notin batch
    <3>1. t.path \in Changed(run)
      BY <1>m, <1>2, TaskFacts
    <3>2. [kind |-> "delete", path |-> t.path] \in Tasks(run) => t.path \in Deleted(run)
      BY <1>m, TaskFacts
    <3> QED BY <1>m, <3>1, <3>2, TaskFacts
  <2> QED BY <1>1, <1>2, <2>1 DEF Apply, Committed, Done
<1>3. CASE t.kind = "delete"
  <2>1. [kind |-> "apply", path |-> t.path] \notin batch
    <3>1. t.path \in Deleted(run)
      BY <1>m, <1>3, TaskFacts
    <3>2. [kind |-> "apply", path |-> t.path] \in Tasks(run) => t.path \in Changed(run)
      BY <1>m, TaskFacts
    <3> QED BY <1>m, <3>1, <3>2, TaskFacts
  <2> QED BY <1>1, <1>3, <2>1 DEF Apply, Committed, Done
<1>4. CASE t.kind = "vector"
  BY <1>1, <1>4 DEF Apply, Committed, Done
<1> QED BY <1>1, <1>2, <1>3, <1>4

LEMMA CommitProgress ==
  ASSUME ProgressInv, CommitBatch
  PROVE  RunProgress' /\ ArtifactsHold'
<1>m. TypeInv /\ RunType /\ run.pc = "apply" /\ RunProgress /\ ArtifactsHold
  BY DEF ProgressInv, TypeInv, CommitBatch
<1>1. PICK batch \in SUBSET run.todo :
        Apply(batch) /\ run' = [run EXCEPT !.todo = @ \ batch, !.applied = @ \cup batch]
  BY DEF CommitBatch
<1>2. /\ run'.pc = "apply" /\ run'.phase = run.phase /\ run'.got = run.got
      /\ run'.todo = run.todo \ batch /\ run'.applied = run.applied \cup batch
      /\ run'.skipped = run.skipped /\ run'.sig = run.sig /\ run'.prev = run.prev
      /\ run'.failed = run.failed /\ run'.content = run.content
  BY <1>m, <1>1 DEF RunType, RunState
<1>3. Due' = Due /\ CollectPaths("doc")' = CollectPaths("doc")
  BY <1>2, SamePlan
<1>4. \A t \in run.todo : t \in Due /\ (t.kind # "delete" => run.content[t.path] # Missing)
  BY <1>m DEF RunProgress, Gathered
<1>5. batch \in SUBSET Tasks(run)
  BY <1>4 DEF Due
<1>6. \A t \in Due : Done(t) \/ t \in batch => Done(t)'
  BY <1>m, <1>1, <1>2, <1>4, <1>5, CommitDone DEF Due, Done
<1>7. Gathered'
  BY <1>m, <1>2, <1>3 DEF RunProgress, Gathered, PhaseOf, PathsOf
<1>8. AppliedIsDone'
  <2>1. \A t \in run'.applied : t \in Due /\ Done(t)'
    BY <1>m, <1>2, <1>4, <1>6 DEF RunProgress, AppliedIsDone
  <2> QED BY <1>3, <2>1 DEF AppliedIsDone
<1>9. NothingLeftOut'
  <2>1. ASSUME ~run.failed, NEW t \in Due
        PROVE  /\ Passed(PhaseOf(t)) => Done(t)'
               /\ PhaseOf(t) = run.phase => t \in run'.todo \/ Done(t)'
    BY <1>m, <1>2, <1>6, <2>1 DEF RunProgress, NothingLeftOut
  <2> QED BY <1>2, <1>3, <2>1 DEF NothingLeftOut, Passed, PhaseOf
<1>10. ArtifactsHold'
  BY <1>m DEF CommitBatch, ArtifactsHold, PathsOf
<1> QED BY <1>7, <1>8, <1>9, <1>10 DEF RunProgress

LEMMA RecordProgress ==
  ASSUME ProgressInv, FailItem \/ RecordCheckpoint
  PROVE  RunProgress' /\ ArtifactsHold'
<1>m. TypeInv /\ RunType /\ JobsType /\ run.pc = "apply" /\ RunProgress /\ ArtifactsHold
  BY DEF ProgressInv, TypeInv, FailItem, RecordCheckpoint
<1>1. /\ run'.pc = "apply" /\ run'.phase = run.phase /\ run'.got = run.got
      /\ run'.todo \subseteq run.todo /\ run'.applied \subseteq run.applied
      /\ run'.skipped = run.skipped /\ run'.sig = run.sig /\ run'.prev = run.prev
      /\ run'.content = run.content
      /\ run'.failed \/ (run'.failed = run.failed /\ run'.todo = run.todo)
  BY <1>m DEF FailItem, RecordCheckpoint, RunType, RunState
<1>2. Due' = Due /\ CollectPaths("doc")' = CollectPaths("doc")
  BY <1>1, SamePlan
<1>3. \A t : Done(t)' <=> Done(t)
  BY <1>1 DEF Done, Committed, FailItem, RecordCheckpoint
<1>4. Gathered'
  BY <1>m, <1>1, <1>2 DEF RunProgress, Gathered, PhaseOf, PathsOf
<1>5. AppliedIsDone'
  BY <1>m, <1>1, <1>2, <1>3 DEF RunProgress, AppliedIsDone
<1>6. NothingLeftOut'
  BY <1>m, <1>1, <1>2, <1>3 DEF RunProgress, NothingLeftOut, Passed, PhaseOf
<1>7. ArtifactsHold'
  <2>1. CASE FailItem
    BY <1>m, <2>1 DEF FailItem, ArtifactsHold, PathsOf
  <2>2. CASE RecordCheckpoint
    <3>1. \A j \in Jobs : jobs'[j].artifacts = jobs[j].artifacts
      BY <1>m, <2>2 DEF RecordCheckpoint, JobsType, JobRow
    <3> QED BY <1>m, <3>1 DEF ArtifactsHold, PathsOf
  <2> QED BY <2>1, <2>2
<1> QED BY <1>4, <1>5, <1>6, <1>7 DEF RunProgress

\* At the end of a phase, all of its tasks are done.
LEMMA NextPhaseProgress ==
  ASSUME ProgressInv, NextPhase
  PROVE  RunProgress'
<1>m. /\ TypeInv /\ RunType /\ run.pc = "apply" /\ RunProgress
      /\ run.todo = {} /\ run.applied = {} /\ run.phase \in {"code", "doc", "vector"}
  BY DEF ProgressInv, TypeInv, NextPhase, RunType, RunState
<1>1. /\ run'.applied = {} /\ run'.got = run.got /\ run'.skipped = run.skipped
      /\ run'.sig = run.sig /\ run'.prev = run.prev
      /\ run'.failed = run.failed /\ run'.content = run.content
      /\ run.phase = "code" => run'.pc = "collect" /\ run'.phase = "doc"
      /\ run.phase = "doc" => run'.pc = "apply" /\ run'.phase = "vector"
                              /\ run'.todo = Items("vector", run.got)
      /\ run.phase = "vector" => run'.pc = "save" /\ run'.phase = "vector"
  BY <1>m DEF NextPhase, Leave, RunType, RunState
<1>2. Due' = Due /\ CollectPaths("doc")' = CollectPaths("doc")
  BY <1>1, SamePlan
<1>3. \A t : Done(t)' <=> Done(t)
  BY <1>1 DEF Done, Committed, NextPhase
<1>4. ASSUME ~run.failed, NEW t \in Due, PhaseOf(t) = run.phase \/ Passed(PhaseOf(t))
      PROVE  Done(t)
  BY <1>m, <1>4 DEF RunProgress, NothingLeftOut
<1>5. Gathered'
  <2>1. CASE run.phase = "doc"
    <3>1. \A t \in run'.todo : t \in Due /\ PhaseOf(t) = "vector" /\ (t.kind # "delete" => t.path \in run.got)
      BY <1>m, <1>1, <2>1, DueFacts DEF Items, TasksOf, Due
    <3>2. PathsOf("vector") = PathsOf("doc")
      BY DEF PathsOf
    <3>3. /\ run.got \subseteq PathsOf("doc")
          /\ \A p \in run.got : run.content[p] # Missing
          /\ ~run.failed => CollectPaths("doc") \subseteq run.got
      BY <1>m, <2>1 DEF RunProgress, Gathered
    <3> QED BY <1>1, <1>2, <2>1, <3>1, <3>2, <3>3 DEF Gathered, PhaseOf, PathsOf
  <2>2. CASE run.phase # "doc"
    BY <1>m, <1>1, <2>2 DEF Gathered
  <2> QED BY <2>1, <2>2
<1>6. AppliedIsDone'
  BY <1>1 DEF AppliedIsDone
<1>7. NothingLeftOut'
  <2> SUFFICES ASSUME ~run.failed, NEW t \in Due
               PROVE  /\ run'.pc = "save" => Done(t)
                      /\ Passed(PhaseOf(t))' => Done(t)
                      /\ run'.pc = "apply" /\ PhaseOf(t) = run'.phase => t \in run'.todo
    BY <1>1, <1>2, <1>3 DEF NothingLeftOut, PhaseOf
  <2>p. PhaseOf(t) \in {"code", "doc", "vector"}
    BY <1>m, DueFacts
  <2>1. run'.pc = "save" => Done(t)
    BY <1>m, <1>1, <1>4, <2>p DEF Passed
  <2>2. Passed(PhaseOf(t))' => Done(t)
    BY <1>m, <1>1, <1>4, <2>p DEF Passed, PhaseOf
  <2>3. run'.pc = "apply" /\ PhaseOf(t) = run'.phase => t \in run'.todo
    <3> SUFFICES ASSUME run.phase = "doc", PhaseOf(t) = "vector"
                 PROVE  t \in Items("vector", run.got)
      BY <1>m, <1>1
    <3>1. CollectPaths("doc") \subseteq run.got
      BY <1>m DEF RunProgress, Gathered
    <3>2. t \in TasksOf(run, "vector") /\ (t.kind # "delete" => t.path \in CollectPaths("doc"))
      BY <1>m, DueFacts
    <3> QED BY <3>1, <3>2 DEF Items
  <2> QED BY <2>1, <2>2, <2>3
<1> QED BY <1>5, <1>6, <1>7 DEF RunProgress

LEMMA NextProgressInv == ProgressInv /\ [Next]_vars => ProgressInv'
<1> SUFFICES ASSUME ProgressInv, [Next]_vars PROVE ProgressInv'
  OBVIOUS
<1>m. TypeInv /\ RunType /\ JobsType /\ RunProgress /\ ArtifactsHold
  BY DEF ProgressInv, TypeInv
<1>t. TypeInv'
  BY <1>m, NextTypeInv
<1>k. ASSUME \A j \in Jobs : jobs'[j].artifacts \subseteq jobs[j].artifacts
      PROVE  ArtifactsHold'
  BY <1>m, <1>k DEF ArtifactsHold, PathsOf
<1>i. run' = IdleRun => RunProgress'
  BY IdleProgress DEF IdleRun
<1>1. CASE (\E p \in Paths : Edit(p)) \/ UNCHANGED vars
  <2>1. UNCHANGED <<run, jobs, overlay, vectors>>
    BY <1>1 DEF Edit, vars
  <2>2. Due' = Due /\ CollectPaths("doc")' = CollectPaths("doc")
    BY <2>1, SamePlan
  <2>3. \A t : Done(t)' <=> Done(t)
    BY <2>1 DEF Done, Committed
  <2>4. Gathered'
    BY <1>m, <2>1, <2>2 DEF RunProgress, Gathered, PhaseOf, PathsOf
  <2>5. AppliedIsDone'
    BY <1>m, <2>1, <2>2, <2>3 DEF RunProgress, AppliedIsDone
  <2>6. NothingLeftOut'
    BY <1>m, <2>1, <2>2, <2>3 DEF RunProgress, NothingLeftOut, Passed, PhaseOf
  <2> QED BY <1>t, <1>k, <2>1, <2>4, <2>5, <2>6 DEF ProgressInv, RunProgress
<1>2. CASE Invoke
  <2>1. run'.pc = "prepare" /\ run'.applied = {}
    BY <1>2 DEF Invoke, Plan, IdleRun
  <2> QED BY <1>t, <1>k, <1>2, <2>1, IdleProgress DEF Invoke, Plan, ProgressInv
<1>3. CASE ResumeJob \/ CreateJob \/ RefuseResume
  <2>1. RunProgress'
    <3>1. ASSUME NEW j, NEW s, run' = [run EXCEPT !.pc = "collect", !.job = j, !.skipped = s]
          PROVE  RunProgress'
      <4>1. run.applied = {} /\ run.phase = "code"
        BY <1>m, <1>3 DEF RunProgress, Gathered, RunType, ResumeJob, CreateJob, RefuseResume
      <4>2. run'.pc = "collect" /\ run'.applied = {} /\ run'.phase = "code"
        BY <1>m, <3>1, <4>1 DEF RunType, RunState
      <4> QED BY <4>2, IdleProgress
    <3> QED BY <1>m, <1>i, <1>3, <3>1, PrepareEffect
  <2> QED BY <1>t, <1>m, <1>k, <1>3, <2>1, PrepareEffect DEF ProgressInv
<1>4. CASE ReuseArtifact \/ Collect
  BY <1>t, <1>4, CollectProgress DEF ProgressInv
<1>5. CASE CommitBatch
  BY <1>t, <1>5, CommitProgress DEF ProgressInv
<1>6. CASE FailItem \/ RecordCheckpoint
  BY <1>t, <1>6, RecordProgress DEF ProgressInv
<1>7. CASE NextPhase
  BY <1>t, <1>k, <1>7, NextPhaseProgress DEF ProgressInv, NextPhase
<1>8. CASE PhaseFails
  <2>1. run'.failed /\ run'.applied = {} /\ run'.pc \in {"collect", "save"}
    BY <1>m, <1>8 DEF PhaseFails, Leave, RunType, RunState
  <2>2. RunProgress'
    BY <2>1 DEF RunProgress, Gathered, AppliedIsDone, NothingLeftOut
  <2> QED BY <1>t, <1>k, <1>8, <2>2 DEF ProgressInv, PhaseFails
<1>9. CASE SaveState
  <2>1. run'.pc = "finish"
    BY <1>m, <1>9 DEF SaveState, RunType, RunState
  <2> QED BY <1>t, <1>k, <1>9, <2>1, IdleProgress DEF ProgressInv, SaveState
<1>10. CASE Finish
  <2>1. \A j \in Jobs : jobs'[j].artifacts = jobs[j].artifacts
    BY <1>m, <1>10 DEF Finish, JobsType, JobRow
  <2> QED BY <1>t, <1>i, <1>k, <1>10, <2>1 DEF ProgressInv, Finish
<1>11. CASE Crash
  BY <1>t, <1>i, <1>k, <1>11 DEF ProgressInv, Crash
<1>12. ASSUME NEW s \in FullSources, FullIndex(s)
       PROVE  ProgressInv'
  <2>1. run'.pc = "idle"
    BY <1>12 DEF FullIndex
  <2> QED BY <1>t, <1>k, <1>12, <2>1, IdleProgress DEF ProgressInv, FullIndex
<1> QED
  BY <1>1, <1>2, <1>3, <1>4, <1>5, <1>6, <1>7, <1>8, <1>9, <1>10, <1>11, <1>12
     DEF Next, RunStep

LEMMA InitProgressInv == Init => ProgressInv
BY InitTypeInv, IdleProgress
   DEF Init, ProgressInv, RunProgress, Gathered, AppliedIsDone, NothingLeftOut, ArtifactsHold,
       IdleRun, AbsentJob

\* Whatever users edit, whichever sources earlier runs were given, and however
\* runs resume, fail and crash: index_state.json is replaced only by a run all
\* of whose tasks are in the store, save those it skipped.
THEOREM StateIsCommitted == Spec => StateFollowsCommit
<1> DEFINE Follows == state' # state => \A t \in Due : Committed(t)
<1>1. ProgressInv /\ [Next]_vars => [Follows]_vars
  <2> SUFFICES ASSUME ProgressInv, Next, state' # state PROVE \A t \in Due : Committed(t)
    BY DEF vars
  <2>1. SaveState
    BY DEF Next, RunStep, Edit, Invoke, Plan, ResumeJob, CreateJob, RefuseResume, ReuseArtifact,
           Collect, CommitBatch, RecordCheckpoint, NextPhase, Finish, FailItem, PhaseFails,
           Crash, FullIndex
  <2> QED BY <2>1 DEF SaveState, ProgressInv, RunProgress, NothingLeftOut, Done
<1>2. [Follows]_vars <=> [state' # state => \A t \in Tasks(run) \ run.skipped : Committed(t)]_vars
  BY DEF Due
<1> QED
  BY <1>1, <1>2, InitProgressInv, NextProgressInv, PTL DEF Spec, StateFollowsCommit, Due

-----------------------------------------------------------------------------
(* What the stores hold, when every run indexes all sources, users edit    *)
(* and delete only files a run has indexed, and no full index intervenes.  *)
(* The contents of a path then never come back: what was noted about it    *)
(* and equals what it is now was noted after its last change.              *)

PlainHistory == Sources \subseteq {"all"} /\ Edits \subseteq {"modify", "delete"} /\ FullSources = {}

Busy == run.pc # "idle"

\* The path is as the plan saw it.
Fresh(p) == run.sig.files[p] = Captured[p]

\* Nothing that was noted about a path is newer than the path.
NothingFromFuture ==
  /\ \A p \in Paths : state[p] <= ws[p] /\ run.sig.files[p] <= ws[p]
  /\ \A p \in Paths : run.content[p] # Missing =>
                        /\ run.sig.files[p] <= run.content[p]
                        /\ run.content[p] <= ws[p]
  /\ \A j \in Jobs : \A a \in jobs[j].artifacts : \A p \in a.paths :
       a.sig.files[p] <= a.content[p] /\ a.content[p] <= ws[p]
  /\ \A j \in Jobs : \A c \in jobs[j].done : c.sig.files[c.path] <= ws[c.path]

\* The plan of the run in progress is newer than all that is known otherwise.
PlanIsRecent ==
  Busy =>
    /\ run.sig.source = "all"
    /\ \A p \in Deleted(run) : ws[p] = Gone
    /\ state = run.prev \/ (run.pc = "finish" /\ state = run.sig.files)
    /\ run.pc = "finish" /\ ~run.failed => state = run.sig.files
    /\ \A p \in Paths : state[p] = Captured[p] => Fresh(p)
    /\ \A j \in Jobs : \A c \in jobs[j].done :
         c.sig.files[c.path] = Captured[c.path] => Fresh(c.path)

\* The store has for the task what the plan saw.
Right(t) ==
  IF t.kind = "vector" THEN vectors[t.path] = run.sig.files[t.path]
  ELSE overlay[t.path] = run.sig.files[t.path]

InStores(t) == t \in TaskSet /\ (t.kind = "vector" => t.path \in DocPaths)

SkippedIsRight == Busy => \A t \in run.skipped : InStores(t) /\ (Fresh(t.path) => Right(t))

\* A checkpoint tells what the store has, for as long as the path stays.
Holds(c) ==
  IF c.kind = "vector" THEN vectors[c.path] = c.sig.files[c.path]
  ELSE overlay[c.path] = c.sig.files[c.path]

RecordedIsRight ==
  \A j \in Jobs : \A c \in jobs[j].done :
    /\ c.kind = "delete" => ws[c.path] = Gone /\ c.sig.files[c.path] = Missing
    /\ c.kind # "delete" => c.sig.files[c.path] # Missing /\ c.input = c.sig.files[c.path]
    /\ c.kind = "vector" => c.path \in DocPaths
    /\ c.sig.files[c.path] = Captured[c.path] => Holds(c)

StoresAreRight ==
  /\ NothingFromFuture /\ PlanIsRecent /\ SkippedIsRight /\ RecordedIsRight
  /\ NoHiddenStaleness

HistoryInv == ProgressInv /\ StoresAreRight

LEMMA RevisionFacts == Missing = 0 /\ Gone \in Nat /\ Hashes \subseteq Nat /\ Missing # Gone
BY ConstantsAssumption DEF ConstantsAssumption, Missing, Gone, Hashes

LEMMA RecordTypes ==
  ASSUME TypeInv
  PROVE  /\ \A q \in Paths : /\ ws[q] \in Nat /\ state[q] \in Nat /\ run.sig.files[q] \in Nat
                             /\ run.content[q] \in Nat /\ run.prev[q] \in Nat
         /\ \A j \in Jobs : \A c \in jobs[j].done :
              /\ c \in Checkpoints /\ c.path \in Paths
              /\ \A q \in Paths : c.sig.files[q] \in Nat
         /\ \A j \in Jobs : \A a \in jobs[j].artifacts :
              /\ a \in Artifacts /\ a.paths \subseteq Paths
              /\ \A q \in Paths : a.content[q] \in Nat /\ a.sig.files[q] \in Nat
<1>c. \A f \in Contents : \A q \in Paths : f[q] \in Nat
  BY RevisionFacts DEF Contents
<1>s. \A s \in Signatures : s.files \in Contents
  BY DEF Signatures
<1>1. /\ ws \in [Paths -> 0..MaxRevision] /\ state \in Contents /\ run.sig \in Signatures
      /\ run.content \in Contents /\ run.prev \in Contents
  BY DEF TypeInv, RunType, RunState
<1>2. \A q \in Paths : /\ ws[q] \in Nat /\ state[q] \in Nat /\ run.sig.files[q] \in Nat
                       /\ run.content[q] \in Nat /\ run.prev[q] \in Nat
  BY <1>c, <1>s, <1>1, ConstantsAssumption DEF ConstantsAssumption
<1>3. ASSUME NEW j \in Jobs, NEW c \in jobs[j].done
      PROVE  c \in Checkpoints /\ c.path \in Paths /\ \A q \in Paths : c.sig.files[q] \in Nat
  <2>1. c \in Checkpoints
    BY DEF TypeInv, JobsType, JobRow
  <2>2. c.path \in Paths /\ c.sig \in Signatures
    BY <2>1 DEF Checkpoints
  <2> QED BY <1>c, <1>s, <2>1, <2>2
<1>4. ASSUME NEW j \in Jobs, NEW a \in jobs[j].artifacts
      PROVE  /\ a \in Artifacts /\ a.paths \subseteq Paths
             /\ \A q \in Paths : a.content[q] \in Nat /\ a.sig.files[q] \in Nat
  <2>1. a \in Artifacts
    BY DEF TypeInv, JobsType, JobRow
  <2>2. a.paths \subseteq Paths /\ a.sig \in Signatures /\ a.content \in Contents
    BY <2>1 DEF Artifacts
  <2> QED BY <1>c, <1>s, <2>1, <2>2
<1> QED BY <1>2, <1>3, <1>4

\* A user's edit makes a revision nobody has noted.
LEMMA EditStores ==
  ASSUME PlainHistory, HistoryInv, NEW p \in Paths, Edit(p)
  PROVE  StoresAreRight'
<1>m. /\ TypeInv /\ RunType /\ JobsType /\ ws \in [Paths -> 0..MaxRevision] /\ state \in Contents
      /\ NothingFromFuture /\ PlanIsRecent /\ SkippedIsRight /\ RecordedIsRight
      /\ NoHiddenStaleness
  BY DEF HistoryInv, ProgressInv, StoresAreRight, TypeInv
<1>u. UNCHANGED <<state, overlay, vectors, jobs, run>>
  BY DEF Edit
<1>e. \/ ws[p] + 1 < Gone /\ ws' = [ws EXCEPT ![p] = ws[p] + 1]
      \/ /\ ws[p] \notin {Missing, Gone} /\ state[p] # Missing
         /\ ws' = [ws EXCEPT ![p] = Gone]
  BY DEF PlainHistory, Edit, SetFile
<1>t. TypeInv'
  BY <1>m, NextTypeInv DEF Next
<1>w. ws' \in [Paths -> 0..MaxRevision]
  BY <1>t DEF TypeInv
<1>1. /\ \A q \in Paths : ws[q] \in Nat /\ ws'[q] \in Nat /\ ws[q] <= ws'[q]
      /\ \A q \in Paths : q # p => ws'[q] = ws[q]
      /\ ws[p] # Gone
  BY <1>m, <1>e, <1>w, ConstantsAssumption DEF ConstantsAssumption, Gone
<1>2. /\ \A q \in Paths : q # p => Captured'[q] = Captured[q]
      /\ Captured'[p] = ws[p] + 1 \/ (Captured'[p] = Missing /\ state[p] # Missing)
  BY <1>m, <1>e, <1>1 DEF Captured, Hash
<1>3. \A q \in Paths : run.sig.files[q] \in Nat /\ state[q] \in Nat
  BY <1>m, RecordTypes
<1>4. state[p] # Captured'[p]
  BY <1>m, <1>1, <1>2, <1>3 DEF NothingFromFuture
<1>5. Busy => run.sig.files[p] # Captured'[p]
  <2> SUFFICES ASSUME Busy, run.sig.files[p] = Missing, state[p] # Missing PROVE FALSE
    BY <1>m, <1>1, <1>2, <1>3 DEF NothingFromFuture
  <2>1. state = run.prev /\ run.sig.source = "all"
    BY <1>m DEF PlanIsRecent
  <2>2. p \in Deleted(run)
    BY <2>1 DEF Deleted, Scope
  <2> QED BY <1>m, <1>1, <2>2 DEF PlanIsRecent
<1>6. \A j \in Jobs : \A c \in jobs[j].done : c.path \in Paths /\ c.sig.files[c.path] \in Nat
  BY <1>m, RecordTypes
<1>7. \A j \in Jobs : \A c \in jobs[j].done :
        c.sig.files[c.path] = Captured'[c.path] =>
          c.path # p /\ c.sig.files[c.path] = Captured[c.path]
  <2> SUFFICES ASSUME NEW j \in Jobs, NEW c \in jobs[j].done, c.path = p,
                      c.sig.files[p] = Captured'[p]
               PROVE  FALSE
    BY <1>2, <1>6
  <2>1. c.sig.files[p] <= ws[p]
    BY <1>m DEF NothingFromFuture
  <2>2. c.sig.files[p] = Missing
    BY <1>1, <1>2, <1>6, <2>1
  <2> QED BY <1>m, <1>1, <2>2 DEF RecordedIsRight
<1>8. NothingFromFuture'
  <2>1. \A x \in Nat, q \in Paths : x <= ws[q] => x <= ws'[q]
    BY <1>1
  <2>2. \A q \in Paths : state[q] <= ws'[q] /\ run.sig.files[q] <= ws'[q]
    BY <1>m, <1>3, <2>1 DEF NothingFromFuture
  <2>3. \A q \in Paths : run.content[q] # Missing =>
          run.sig.files[q] <= run.content[q] /\ run.content[q] <= ws'[q]
    BY <1>m, <2>1, RecordTypes DEF NothingFromFuture
  <2>4. \A j \in Jobs : \A a \in jobs[j].artifacts : \A q \in a.paths :
          a.sig.files[q] <= a.content[q] /\ a.content[q] <= ws'[q]
    BY <1>m, <2>1, RecordTypes DEF NothingFromFuture
  <2>5. \A j \in Jobs : \A c \in jobs[j].done : c.sig.files[c.path] <= ws'[c.path]
    BY <1>m, <1>6, <2>1 DEF NothingFromFuture
  <2> QED BY <1>u, <2>2, <2>3, <2>4, <2>5 DEF NothingFromFuture
<1>9. PlanIsRecent'
  <2>1. \A q \in Paths : ws[q] = Gone => ws'[q] = Gone
    BY <1>1
  <2>2. Deleted(run)' = Deleted(run) /\ Deleted(run) \subseteq Paths
    BY <1>m, <1>u, TaskFacts DEF Deleted
  <2>3. \A q \in Paths : state[q] = Captured'[q] => q # p /\ state[q] = Captured[q]
    BY <1>2, <1>4
  <2>4. ASSUME Busy
        PROVE  /\ \A q \in Paths : state[q] = Captured'[q] => run.sig.files[q] = Captured'[q]
               /\ \A j \in Jobs : \A c \in jobs[j].done :
                    c.sig.files[c.path] = Captured'[c.path] =>
                      run.sig.files[c.path] = Captured'[c.path]
    BY <1>m, <1>2, <1>6, <1>7, <2>3, <2>4 DEF PlanIsRecent, Fresh
  <2> QED BY <1>m, <1>u, <2>1, <2>2, <2>4 DEF PlanIsRecent, Busy, Fresh
<1>10. SkippedIsRight'
  <2>1. \A q \in Paths : Busy /\ run.sig.files[q] = Captured'[q] => Fresh(q)
    BY <1>2, <1>5 DEF Fresh
  <2> QED BY <1>m, <1>u, <2>1 DEF SkippedIsRight, Busy, InStores, TaskSet, Fresh, Right
<1>11. RecordedIsRight'
  <2>1. \A q \in Paths : ws[q] = Gone => ws'[q] = Gone
    BY <1>1
  <2> QED BY <1>m, <1>u, <1>6, <1>7, <2>1 DEF RecordedIsRight, Holds
<1>12. NoHiddenStaleness'
  BY <1>m, <1>u, <1>2, <1>4 DEF NoHiddenStaleness
<1> QED BY <1>8, <1>9, <1>10, <1>11, <1>12 DEF StoresAreRight

\* Steps that change neither the stores nor what was noted of the paths.
LEMMA QuietStores ==
  ASSUME HistoryInv, UNCHANGED <<ws, state, overlay, vectors>>,
         \A j \in Jobs : /\ jobs'[j].artifacts \subseteq jobs[j].artifacts
                         /\ jobs'[j].done \subseteq jobs[j].done,
         \/ run' = IdleRun
         \/ /\ run.pc \notin {"idle", "finish"} /\ run'.pc \notin {"idle", "finish"}
            /\ run'.sig = run.sig /\ run'.prev = run.prev /\ run'.content = run.content
            /\ \A t \in run'.skipped : InStores(t) /\ (Fresh(t.path) => Right(t))
  PROVE  StoresAreRight'
<1>m. /\ TypeInv /\ NothingFromFuture /\ PlanIsRecent /\ SkippedIsRight /\ RecordedIsRight
      /\ NoHiddenStaleness
  BY DEF HistoryInv, ProgressInv, StoresAreRight
<1>c. Captured' = Captured
  BY DEF Captured
<1>i. run' = IdleRun =>
        /\ run'.pc = "idle"
        /\ \A p \in Paths : run'.sig.files[p] = Missing /\ run'.content[p] = Missing
  BY DEF IdleRun, NoSignature, NothingIndexed
<1>1. NothingFromFuture'
  <2>1. \A p \in Paths : run'.sig.files[p] <= ws[p]
    BY <1>m, <1>i, RecordTypes, RevisionFacts DEF NothingFromFuture
  <2>2. \A p \in Paths : run'.content[p] # Missing =>
          run'.sig.files[p] <= run'.content[p] /\ run'.content[p] <= ws[p]
    BY <1>m, <1>i DEF NothingFromFuture
  <2> QED BY <1>m, <2>1, <2>2 DEF NothingFromFuture
<1>2. PlanIsRecent'
  <2>1. CASE run' = IdleRun
    BY <1>i, <2>1 DEF PlanIsRecent, Busy
  <2>2. CASE run' # IdleRun
    <3>1. Deleted(run)' = Deleted(run)
      BY <2>2 DEF Deleted, Scope
    <3>2. \A j \in Jobs : \A c \in jobs'[j].done :
            c.sig.files[c.path] = Captured[c.path] => Fresh(c.path)
      BY <1>m, <2>2 DEF PlanIsRecent, Busy
    <3> QED BY <1>m, <1>c, <2>2, <3>1, <3>2 DEF PlanIsRecent, Busy, Fresh
  <2> QED BY <2>1, <2>2
<1>3. SkippedIsRight'
  <2>1. CASE run' = IdleRun
    BY <1>i, <2>1 DEF SkippedIsRight, Busy
  <2>2. CASE run' # IdleRun
    BY <1>c, <2>2 DEF SkippedIsRight, InStores, TaskSet, Fresh, Right
  <2> QED BY <2>1, <2>2
<1>4. RecordedIsRight'
  BY <1>m, <1>c DEF RecordedIsRight, Holds
<1>5. NoHiddenStaleness'
  BY <1>m, <1>c DEF NoHiddenStaleness
<1> QED BY <1>1, <1>2, <1>3, <1>4, <1>5 DEF StoresAreRight

LEMMA SkippedStays ==
  ASSUME HistoryInv, Busy
  PROVE  \A t \in run.skipped : InStores(t) /\ (Fresh(t.path) => Right(t))
BY DEF HistoryInv, StoresAreRight, SkippedIsRight

\* What a job recorded may be skipped.
LEMMA PrepareStores ==
  ASSUME HistoryInv, ResumeJob \/ CreateJob \/ RefuseResume
  PROVE  StoresAreRight'
<1>m. TypeInv /\ RunType /\ run.pc = "prepare" /\ RecordedIsRight
  BY DEF HistoryInv, ProgressInv, StoresAreRight, TypeInv, ResumeJob, CreateJob, RefuseResume
<1>u. UNCHANGED <<ws, state, overlay, vectors>>
  BY DEF ResumeJob, CreateJob, RefuseResume
<1>1. ASSUME NEW j \in Jobs, NEW s \in SUBSET Tasks(run),
             \A t \in s : CheckpointOf(run, t) \in jobs[j].done,
             run' = [run EXCEPT !.pc = "collect", !.job = j, !.skipped = s]
      PROVE  /\ run'.pc = "collect"
             /\ run'.sig = run.sig /\ run'.prev = run.prev /\ run'.content = run.content
             /\ \A t \in run'.skipped : InStores(t) /\ (Fresh(t.path) => Right(t))
  <2>1. /\ run'.pc = "collect" /\ run'.skipped = s
        /\ run'.sig = run.sig /\ run'.prev = run.prev /\ run'.content = run.content
    BY <1>m, <1>1 DEF RunType, RunState
  <2>2. ASSUME NEW t \in s
        PROVE  InStores(t) /\ (Fresh(t.path) => Right(t))
    <3>1. t \in TaskSet /\ (t.kind = "vector" => t.path \in DocPaths)
      BY <1>m, TaskFacts
    <3> DEFINE c == CheckpointOf(run, t)
    <3>2. c \in jobs[j].done /\ c.kind = t.kind /\ c.path = t.path /\ c.sig = run.sig
      BY <1>1 DEF CheckpointOf
    <3> HIDE DEF c
    <3>3. Fresh(t.path) => Holds(c)
      BY <1>m, <3>2 DEF RecordedIsRight, Fresh
    <3> QED BY <3>1, <3>2, <3>3 DEF InStores, Holds, Right
  <2> QED BY <2>1, <2>2
<1>2. \/ run' = IdleRun
      \/ /\ run'.pc = "collect"
         /\ run'.sig = run.sig /\ run'.prev = run.prev /\ run'.content = run.content
         /\ \A t \in run'.skipped : InStores(t) /\ (Fresh(t.path) => Right(t))
  BY <1>m, <1>1, PrepareEffect
<1>3. \A j \in Jobs : /\ jobs'[j].artifacts \subseteq jobs[j].artifacts
                      /\ jobs'[j].done \subseteq jobs[j].done
  BY <1>m, PrepareEffect
<1> QED BY <1>m, <1>u, <1>2, <1>3, QuietStores

LEMMA PlanStores ==
  ASSUME PlainHistory, HistoryInv, Invoke
  PROVE  StoresAreRight'
<1>m. /\ TypeInv /\ RunType /\ JobsType /\ ws \in [Paths -> 0..MaxRevision]
      /\ NothingFromFuture /\ RecordedIsRight /\ NoHiddenStaleness
  BY DEF HistoryInv, ProgressInv, StoresAreRight, TypeInv
<1>u. UNCHANGED <<ws, state, overlay, vectors, jobs>>
  BY DEF Invoke, Plan
<1>1. PICK s \in Sources, p \in Policies, n \in NamedJobs \cup {NoJob} : Plan(s, p, n)
  BY DEF Invoke
<1>2. /\ run'.pc = "prepare" /\ run'.skipped = {} /\ run'.failed = FALSE
      /\ run'.sig = [files |-> Captured, source |-> "all"]
      /\ run'.prev = state /\ run'.content = NothingIndexed
  BY <1>1 DEF Plan, IdleRun, PlainHistory
<1>c. /\ Captured' = Captured /\ Captured \in Contents
      /\ \A q \in Paths : Captured[q] = IF ws[q] = Gone THEN Missing ELSE ws[q]
  BY <1>m, <1>u, CapturedFacts DEF Captured
<1>3. NothingFromFuture'
  <2>1. \A q \in Paths : run'.sig.files[q] <= ws[q] /\ run'.content[q] = Missing
    BY <1>m, <1>2, <1>c, RecordTypes, RevisionFacts DEF NothingIndexed
  <2> QED BY <1>m, <1>u, <2>1 DEF NothingFromFuture
<1>4. PlanIsRecent'
  <2>1. ASSUME NEW q \in Paths, state[q] # Missing, Captured[q] = Missing
        PROVE  ws[q] = Gone
    BY <1>m, <1>c, <2>1, RecordTypes, RevisionFacts DEF NothingFromFuture
  <2>2. \A q \in Deleted(run') : ws[q] = Gone
    BY <1>2, <2>1 DEF Deleted, Scope
  <2>3. \A q : Fresh(q)'
    BY <1>2, <1>c DEF Fresh
  <2>4. Deleted(run)' = Deleted(run')
    OBVIOUS
  <2> QED BY <1>u, <1>2, <2>2, <2>3, <2>4 DEF PlanIsRecent
<1>5. SkippedIsRight'
  BY <1>2 DEF SkippedIsRight
<1>6. RecordedIsRight' /\ NoHiddenStaleness'
  BY <1>m, <1>u, <1>c DEF RecordedIsRight, Holds, NoHiddenStaleness
<1> QED BY <1>3, <1>4, <1>5, <1>6 DEF StoresAreRight

\* What is collected is as new as the file, or as an artifact of the same plan.
LEMMA CollectStores ==
  ASSUME HistoryInv, ReuseArtifact \/ Collect
  PROVE  StoresAreRight'
<1>m. /\ TypeInv /\ RunType /\ JobsType /\ run.pc = "collect" /\ run.job \in Jobs
      /\ NothingFromFuture /\ PlanIsRecent /\ SkippedIsRight /\ RecordedIsRight
      /\ NoHiddenStaleness
  BY DEF HistoryInv, ProgressInv, StoresAreRight, TypeInv, RunType, ReuseArtifact, Collect
<1>u. UNCHANGED <<ws, state, overlay, vectors>>
  BY DEF ReuseArtifact, Collect
<1>c. /\ Captured' = Captured /\ Captured \in Contents
      /\ \A q \in Paths : Captured[q] = IF ws[q] = Gone THEN Missing ELSE ws[q]
  BY <1>m, <1>u, CapturedFacts DEF Captured, TypeInv
<1>b. ASSUME NEW got \in SUBSET Paths, NEW content \in Contents, NEW failed \in BOOLEAN,
             BeginApply(run.phase, content, got, failed),
             \A p \in got : run.sig.files[p] <= content[p] /\ content[p] <= ws[p],
             \A j \in Jobs : \A a \in jobs'[j].artifacts : \A p \in a.paths :
               a.sig.files[p] <= a.content[p] /\ a.content[p] <= ws[p],
             \A j \in Jobs : jobs'[j].done = jobs[j].done
      PROVE  StoresAreRight'
  <2>1. /\ run'.pc = "apply" /\ run'.skipped = run.skipped
        /\ run'.sig = run.sig /\ run'.prev = run.prev
        /\ run'.content = Pick(content, got, run.content)
    BY <1>m, <1>b DEF BeginApply, RunType, RunState
  <2>2. \A p \in Paths : run'.content[p] = IF p \in got THEN content[p] ELSE run.content[p]
    BY <2>1 DEF Pick
  <2>3. NothingFromFuture'
    <3>1. \A p \in Paths : run'.content[p] # Missing =>
            run.sig.files[p] <= run'.content[p] /\ run'.content[p] <= ws[p]
      BY <1>m, <1>b, <2>2 DEF NothingFromFuture
    <3> QED BY <1>m, <1>u, <1>b, <2>1, <3>1 DEF NothingFromFuture
  <2>4. PlanIsRecent'
    <3>1. Deleted(run)' = Deleted(run)
      BY <2>1, SamePlan
    <3> QED BY <1>m, <1>u, <1>c, <1>b, <2>1, <3>1 DEF PlanIsRecent, Busy, Fresh
  <2>5. SkippedIsRight'
    BY <1>m, <1>u, <1>c, <2>1 DEF SkippedIsRight, Busy, InStores, TaskSet, Fresh, Right
  <2>6. RecordedIsRight' /\ NoHiddenStaleness'
    BY <1>m, <1>u, <1>c, <1>b DEF RecordedIsRight, Holds, NoHiddenStaleness
  <2> QED BY <2>3, <2>4, <2>5, <2>6 DEF StoresAreRight
<1>1. CASE ReuseArtifact
  <2>1. PICK a \in UsableArtifacts(run.phase) : BeginApply(run.phase, a.content, a.paths, FALSE)
    BY <1>1 DEF ReuseArtifact
  <2>2. a \in jobs[run.job].artifacts /\ a.sig = run.sig
    BY DEF UsableArtifacts
  <2>3. a.content \in Contents /\ a.paths \in SUBSET Paths
    BY <1>m, <2>2, RecordTypes DEF Artifacts
  <2>4. \A p \in a.paths : run.sig.files[p] <= a.content[p] /\ a.content[p] <= ws[p]
    BY <1>m, <2>2 DEF NothingFromFuture
  <2>5. jobs' = jobs
    BY <1>1 DEF ReuseArtifact
  <2> QED BY <1>m, <1>b, <2>1, <2>3, <2>4, <2>5 DEF NothingFromFuture
<1>2. CASE Collect
  <2> DEFINE paths == CollectPaths(run.phase)
             row == [part |-> run.phase, sig |-> run.sig, paths |-> paths,
                     content |-> Pick(Captured, paths, NothingIndexed)]
  <2>0. paths \subseteq Paths
    BY <1>m, TaskFacts DEF CollectPaths
  <2>1. PICK bad \in SUBSET paths :
          /\ {p \in paths : Captured[p] = Missing} \subseteq bad
          /\ BeginApply(run.phase, Captured, paths \ bad, bad # {})
          /\ jobs' = IF paths = {} \/ bad # {} THEN jobs
                     ELSE [jobs EXCEPT ![run.job].artifacts =
                            {a \in @ : a.part # run.phase} \cup {row}]
    BY <1>2 DEF Collect
  <2>2. \A p \in paths \ bad : run.sig.files[p] <= Captured[p] /\ Captured[p] <= ws[p]
    <3>1. ASSUME NEW p \in paths \ bad
          PROVE  Captured[p] = ws[p] /\ run.sig.files[p] <= ws[p] /\ ws[p] \in Nat
      BY <1>m, <1>c, <2>0, <2>1, RecordTypes DEF NothingFromFuture
    <3> QED BY <3>1
  <2>3. /\ row.sig = run.sig /\ row.paths = paths
        /\ \A p \in paths : row.content[p] = Captured[p]
    BY <2>0 DEF Pick
  <2>4. \A j \in Jobs : \A a \in jobs'[j].artifacts :
          a \in jobs[j].artifacts \/ (a = row /\ bad = {})
    <3> HIDE DEF row, paths
    <3> QED BY <1>m, <2>1 DEF JobsType, JobRow
  <2>5. \A j \in Jobs : jobs'[j].done = jobs[j].done
    <3> HIDE DEF row, paths
    <3> QED BY <1>m, <2>1 DEF JobsType, JobRow
  <2>6. \A j \in Jobs : \A a \in jobs'[j].artifacts : \A p \in a.paths :
          a.sig.files[p] <= a.content[p] /\ a.content[p] <= ws[p]
    <3> HIDE DEF row, paths
    <3> QED BY <1>m, <2>2, <2>3, <2>4 DEF NothingFromFuture
  <2> HIDE DEF row, paths
  <2>7. (paths \ bad) \in SUBSET Paths /\ (bad # {}) \in BOOLEAN
    BY <2>0
  <2> QED BY <1>b, <1>c, <2>1, <2>2, <2>5, <2>6, <2>7
<1> QED BY <1>1, <1>2

\* A task that is done has put there what the plan saw, if that is still there.
LEMMA DoneIsRight ==
  ASSUME HistoryInv, NEW t \in Tasks(run), Done(t), Fresh(t.path)
  PROVE  Right(t)
<1>m. /\ TypeInv /\ RunType /\ ws \in [Paths -> 0..MaxRevision] /\ NothingFromFuture
  BY DEF HistoryInv, ProgressInv, StoresAreRight, TypeInv
<1>1. /\ t.path \in Paths /\ t.kind \in {"apply", "delete", "vector"}
      /\ IF t.kind = "delete" THEN run.sig.files[t.path] = Missing
         ELSE run.sig.files[t.path] # Missing
  BY <1>m, TaskFacts
<1>2. CASE t.kind = "delete"
  BY <1>1, <1>2 DEF Done, Committed, Right
<1>3. CASE t.kind # "delete"
  <2>1. ws[t.path] = run.sig.files[t.path]
    BY <1>m, <1>1, <1>3, CapturedFacts DEF Fresh
  <2>2. run.content[t.path] = run.sig.files[t.path]
    BY <1>m, <1>1, <1>3, <2>1, RecordTypes DEF NothingFromFuture, Done
  <2> QED BY <1>1, <1>3, <2>2 DEF Done, Committed, Right
<1> QED BY <1>2, <1>3

\* A batch writes what the plan saw to every path that is still as it was.
LEMMA CommitStores ==
  ASSUME HistoryInv, CommitBatch
  PROVE  StoresAreRight'
<1>m. /\ TypeInv /\ RunType /\ StoreType /\ ws \in [Paths -> 0..MaxRevision] /\ run.pc = "apply"
      /\ RunProgress /\ NothingFromFuture /\ PlanIsRecent /\ SkippedIsRight /\ RecordedIsRight
      /\ NoHiddenStaleness
  BY DEF HistoryInv, ProgressInv, StoresAreRight, TypeInv, CommitBatch
<1>u. UNCHANGED <<ws, state, jobs>>
  BY DEF CommitBatch
<1>c. Captured' = Captured
  BY <1>u DEF Captured
<1>1. PICK batch \in SUBSET run.todo :
        Apply(batch) /\ run' = [run EXCEPT !.todo = @ \ batch, !.applied = @ \cup batch]
  BY DEF CommitBatch
<1>2. /\ run'.pc = "apply" /\ run'.skipped = run.skipped
      /\ run'.sig = run.sig /\ run'.prev = run.prev /\ run'.content = run.content
  BY <1>m, <1>1 DEF RunType, RunState
<1>3. \A t \in batch : t \in Tasks(run) /\ (t.kind # "delete" => run.content[t.path] # Missing)
  BY <1>m, <1>1 DEF RunProgress, Gathered, Due
<1>4. ASSUME NEW p \in Paths, Fresh(p)
      PROVE  /\ overlay'[p] \in {overlay[p], run.sig.files[p]}
             /\ p \in DocPaths => vectors'[p] \in {vectors[p], run.sig.files[p]}
  <2>1. ASSUME NEW k \in {"apply", "vector"}, [kind |-> k, path |-> p] \in batch
        PROVE  run.content[p] = run.sig.files[p]
    <3>1. run.content[p] # Missing /\ run.sig.files[p] # Missing
      <4>1. [kind |-> k, path |-> p].kind # "delete" /\ [kind |-> k, path |-> p].path = p
        OBVIOUS
      <4> QED BY <1>m, <1>3, <2>1, <4>1, TaskFacts
    <3>2. ws[p] = run.sig.files[p]
      BY <1>m, <1>4, <3>1, CapturedFacts DEF Fresh
    <3> QED BY <1>m, <3>1, <3>2, RecordTypes DEF NothingFromFuture
  <2>2. [kind |-> "delete", path |-> p] \in batch => run.sig.files[p] = Missing
    <3>1. [kind |-> "delete", path |-> p].kind = "delete" /\ [kind |-> "delete", path |-> p].path = p
      OBVIOUS
    <3> QED BY <1>m, <1>3, <3>1, TaskFacts
  <2> QED BY <1>1, <2>1, <2>2 DEF Apply
<1>5. NothingFromFuture'
  BY <1>m, <1>u, <1>2 DEF NothingFromFuture
<1>6. PlanIsRecent'
  <2>1. Deleted(run)' = Deleted(run)
    BY <1>2, SamePlan
  <2> QED BY <1>m, <1>u, <1>c, <1>2, <2>1 DEF PlanIsRecent, Busy, Fresh
<1>7. SkippedIsRight'
  <2>1. ASSUME NEW t \in run.skipped, Fresh(t.path)
        PROVE  Right(t)'
    <3>1. InStores(t) /\ Right(t) /\ t.path \in Paths
      BY <1>m, <2>1 DEF SkippedIsRight, Busy, InStores, TaskSet
    <3> QED BY <1>2, <1>4, <2>1, <3>1 DEF Right, InStores
  <2> QED BY <1>m, <1>c, <1>2, <2>1 DEF SkippedIsRight, Busy, InStores, TaskSet, Fresh
<1>8. RecordedIsRight'
  <2>1. ASSUME NEW j \in Jobs, NEW c \in jobs[j].done, c.sig.files[c.path] = Captured[c.path]
        PROVE  Holds(c)'
    <3>1. Holds(c) /\ c.path \in Paths /\ (c.kind = "vector" => c.path \in DocPaths)
      BY <1>m, <2>1, RecordTypes DEF RecordedIsRight
    <3>2. Fresh(c.path) /\ run.sig.files[c.path] = c.sig.files[c.path]
      BY <1>m, <2>1 DEF PlanIsRecent, Busy, Fresh
    <3> QED BY <1>4, <3>1, <3>2 DEF Holds
  <2> QED BY <1>m, <1>u, <1>c, <2>1 DEF RecordedIsRight
<1>9. NoHiddenStaleness'
  <2>1. ASSUME NEW p \in Paths, Captured[p] = state[p]
        PROVE  /\ overlay'[p] = state[p]
               /\ p \in DocPaths /\ state[p] # Missing => vectors'[p] = state[p]
    <3>1. Fresh(p) /\ run.sig.files[p] = state[p]
      BY <1>m, <2>1 DEF PlanIsRecent, Busy, Fresh
    <3>2. overlay[p] = state[p] /\ (p \in DocPaths /\ state[p] # Missing => vectors[p] = state[p])
      BY <1>m, <2>1 DEF NoHiddenStaleness
    <3> QED BY <1>4, <3>1, <3>2
  <2> QED BY <1>u, <1>c, <2>1 DEF NoHiddenStaleness
<1> QED BY <1>5, <1>6, <1>7, <1>8, <1>9 DEF StoresAreRight

\* What a checkpoint says of the path, the store has.
LEMMA RecordStores ==
  ASSUME HistoryInv, RecordCheckpoint
  PROVE  StoresAreRight'
<1>m. /\ TypeInv /\ RunType /\ JobsType /\ run.pc = "apply" /\ run.job \in Jobs /\ Busy
      /\ RunProgress /\ NothingFromFuture /\ PlanIsRecent /\ SkippedIsRight /\ RecordedIsRight
      /\ NoHiddenStaleness
  BY DEF HistoryInv, ProgressInv, StoresAreRight, TypeInv, RunType, RecordCheckpoint, Busy
<1>u. UNCHANGED <<ws, state, overlay, vectors>>
  BY DEF RecordCheckpoint
<1>c. Captured' = Captured
  BY <1>u DEF Captured
<1>1. PICK t \in run.applied :
        /\ run' = [run EXCEPT !.applied = @ \ {t}]
        /\ jobs' = [jobs EXCEPT ![run.job].done =
             {c \in @ : c.kind # t.kind \/ c.path # t.path} \cup {CheckpointOf(run, t)}]
  BY DEF RecordCheckpoint
<1>2. /\ run'.pc = "apply" /\ run'.skipped = run.skipped
      /\ run'.sig = run.sig /\ run'.prev = run.prev /\ run'.content = run.content
  BY <1>m, <1>1 DEF RunType, RunState
<1>3. /\ t \in Tasks(run) /\ Done(t) /\ t.path \in Paths
      /\ t.kind \in {"apply", "delete", "vector"} /\ (t.kind = "vector" => t.path \in DocPaths)
      /\ IF t.kind = "delete" THEN t.path \in Deleted(run) ELSE t.path \in Changed(run)
  BY <1>m, TaskFacts DEF RunProgress, AppliedIsDone, Due
<1> DEFINE new == CheckpointOf(run, t)
<1>4. /\ new.kind = t.kind /\ new.path = t.path /\ new.sig = run.sig
      /\ t.kind # "delete" => new.input = run.sig.files[t.path]
  BY DEF CheckpointOf, InputHash
<1>5. \A j \in Jobs : /\ jobs'[j].artifacts = jobs[j].artifacts
                      /\ \A c \in jobs'[j].done : c \in jobs[j].done \/ c = new
  <2> HIDE DEF new
  <2>1. jobs' = [jobs EXCEPT ![run.job].done =
                   {c \in @ : c.kind # t.kind \/ c.path # t.path} \cup {new}]
    BY <1>1 DEF new
  <2> QED BY <1>m, <2>1 DEF JobsType, JobRow
<1>6. Fresh(t.path) => Right(t)
  BY <1>3, DoneIsRight
<1> HIDE DEF new
<1>7. NothingFromFuture'
  <2>1. new.sig.files[new.path] <= ws[new.path]
    BY <1>m, <1>3, <1>4 DEF NothingFromFuture
  <2> QED BY <1>m, <1>u, <1>2, <1>5, <2>1 DEF NothingFromFuture
<1>8. PlanIsRecent'
  <2>1. Deleted(run)' = Deleted(run)
    BY <1>2, SamePlan
  <2>2. new.sig.files[new.path] = Captured[new.path] => Fresh(new.path)
    BY <1>4 DEF Fresh
  <2>3. \A j \in Jobs : \A c \in jobs'[j].done :
          c.sig.files[c.path] = Captured[c.path] => Fresh(c.path)
    BY <1>m, <1>5, <2>2 DEF PlanIsRecent
  <2> QED BY <1>m, <1>u, <1>c, <1>2, <2>1, <2>3 DEF PlanIsRecent, Busy, Fresh
<1>9. SkippedIsRight'
  BY <1>m, <1>u, <1>c, <1>2 DEF SkippedIsRight, Busy, InStores, TaskSet, Fresh, Right
<1>10. RecordedIsRight'
  <2>1. /\ new.kind = "delete" => ws[new.path] = Gone /\ new.sig.files[new.path] = Missing
        /\ new.kind # "delete" =>
             new.sig.files[new.path] # Missing /\ new.input = new.sig.files[new.path]
        /\ new.kind = "vector" => new.path \in DocPaths
    BY <1>m, <1>3, <1>4, TaskFacts DEF PlanIsRecent
  <2>2. new.sig.files[new.path] = Captured[new.path] => Holds(new)
    BY <1>4, <1>6 DEF Fresh, Right, Holds
  <2>3. \A j \in Jobs : \A c \in jobs'[j].done :
          /\ c.kind = "delete" => ws[c.path] = Gone /\ c.sig.files[c.path] = Missing
          /\ c.kind # "delete" => c.sig.files[c.path] # Missing /\ c.input = c.sig.files[c.path]
          /\ c.kind = "vector" => c.path \in DocPaths
          /\ c.sig.files[c.path] = Captured[c.path] => Holds(c)
    BY <1>m, <1>5, <2>1, <2>2 DEF RecordedIsRight
  <2> QED BY <1>u, <1>c, <2>3 DEF RecordedIsRight, Holds
<1>11. NoHiddenStaleness'
  BY <1>m, <1>u, <1>c DEF NoHiddenStaleness
<1> QED BY <1>7, <1>8, <1>9, <1>10, <1>11 DEF StoresAreRight

\* A run that saves its state has every path it saw changed in the stores:
\* applied by itself, or skipped because an earlier run recorded it.
LEMMA SaveStores ==
  ASSUME HistoryInv, SaveState
  PROVE  StoresAreRight'
<1>m. /\ TypeInv /\ RunType /\ run.pc = "save" /\ Busy /\ run.sig \in Signatures
      /\ RunProgress /\ NothingFromFuture /\ PlanIsRecent /\ SkippedIsRight /\ RecordedIsRight
      /\ NoHiddenStaleness
  BY DEF HistoryInv, ProgressInv, StoresAreRight, TypeInv, RunType, RunState, SaveState, Busy
<1>u. /\ UNCHANGED <<ws, overlay, vectors, jobs>>
      /\ state' = IF run.failed THEN state ELSE run.sig.files
  BY DEF SaveState
<1>c. Captured' = Captured
  BY <1>u DEF Captured
<1>2. /\ run'.pc = "finish" /\ run'.skipped = run.skipped /\ run'.failed = run.failed
      /\ run'.sig = run.sig /\ run'.prev = run.prev /\ run'.content = run.content
  BY <1>m DEF SaveState, RunType, RunState
<1>s. state = run.prev /\ run.sig.source = "all" /\ run.failed \in BOOLEAN
  BY <1>m DEF PlanIsRecent, RunType, RunState
<1>3. ASSUME ~run.failed, NEW t \in Tasks(run), Fresh(t.path)
      PROVE  Right(t)
  <2>1. CASE t \in run.skipped
    BY <1>m, <1>3, <2>1 DEF SkippedIsRight
  <2>2. CASE t \notin run.skipped
    BY <1>m, <1>3, <2>2, DoneIsRight DEF RunProgress, NothingLeftOut, Due
  <2> QED BY <2>1, <2>2
<1>4. NothingFromFuture'
  BY <1>m, <1>u, <1>2 DEF NothingFromFuture
<1>5. PlanIsRecent'
  <2>1. Deleted(run)' = Deleted(run)
    BY <1>2, SamePlan
  <2>2. \A p \in Paths : state'[p] = Captured[p] => Fresh(p)
    BY <1>m, <1>u DEF PlanIsRecent, Fresh
  <2> QED BY <1>m, <1>u, <1>c, <1>s, <1>2, <2>1, <2>2 DEF PlanIsRecent, Busy, Fresh
<1>6. SkippedIsRight'
  BY <1>m, <1>u, <1>c, <1>2 DEF SkippedIsRight, Busy, InStores, TaskSet, Fresh, Right
<1>7. RecordedIsRight'
  BY <1>m, <1>u, <1>c DEF RecordedIsRight, Holds
<1>8. NoHiddenStaleness'
  <2>1. CASE run.failed
    BY <1>m, <1>u, <1>c, <2>1 DEF NoHiddenStaleness
  <2>2. ASSUME ~run.failed, NEW p \in Paths, Captured[p] = run.sig.files[p]
        PROVE  /\ overlay[p] = run.sig.files[p]
               /\ p \in DocPaths /\ run.sig.files[p] # Missing => vectors[p] = run.sig.files[p]
    <3>0. Fresh(p)
      BY <2>2 DEF Fresh
    <3>1. CASE p \in Changed(run)
      <4>1. [kind |-> "apply", path |-> p] \in Tasks(run)
        BY <3>1 DEF Tasks
      <4>2. overlay[p] = run.sig.files[p]
        BY <1>3, <2>2, <3>0, <4>1 DEF Right
      <4>3. p \in DocPaths => [kind |-> "vector", path |-> p] \in Tasks(run)
        BY <3>1 DEF Tasks
      <4>4. p \in DocPaths => vectors[p] = run.sig.files[p]
        BY <1>3, <2>2, <3>0, <4>3 DEF Right
      <4> QED BY <4>2, <4>4
    <3>2. CASE p \in Deleted(run)
      <4>1. [kind |-> "delete", path |-> p] \in Tasks(run)
        BY <3>2 DEF Tasks
      <4>2. overlay[p] = run.sig.files[p]
        BY <1>3, <2>2, <3>0, <4>1 DEF Right
      <4> QED BY <1>m, <3>2, <4>2, TaskFacts
    <3>3. CASE p \notin Changed(run) /\ p \notin Deleted(run)
      <4>1. run.sig.files[p] = state[p]
        BY <1>s, <3>3 DEF Changed, Deleted, Scope
      <4> QED BY <1>m, <2>2, <4>1 DEF NoHiddenStaleness
    <3> QED BY <3>1, <3>2, <3>3
  <2>3. CASE ~run.failed
    BY <1>u, <1>c, <2>2, <2>3 DEF NoHiddenStaleness
  <2> QED BY <1>s, <2>1, <2>3
<1> QED BY <1>4, <1>5, <1>6, <1>7, <1>8 DEF StoresAreRight

LEMMA NextHistoryInv == PlainHistory /\ HistoryInv /\ [Next]_vars => HistoryInv'
<1> SUFFICES ASSUME PlainHistory, HistoryInv, [Next]_vars PROVE HistoryInv'
  OBVIOUS
<1>m. TypeInv /\ RunType /\ JobsType /\ ProgressInv /\ StoresAreRight
  BY DEF HistoryInv, ProgressInv, TypeInv
<1>p. ProgressInv'
  BY <1>m, NextProgressInv
<1> SUFFICES StoresAreRight'
  BY <1>p DEF HistoryInv
<1>1. CASE \E p \in Paths : Edit(p)
  BY <1>1, EditStores
<1>2. CASE Invoke
  BY <1>2, PlanStores
<1>3. CASE ResumeJob \/ CreateJob \/ RefuseResume
  BY <1>3, PrepareStores
<1>4. CASE ReuseArtifact \/ Collect
  BY <1>4, CollectStores
<1>5. CASE CommitBatch
  BY <1>5, CommitStores
<1>6. CASE RecordCheckpoint
  BY <1>6, RecordStores
<1>7. CASE FailItem \/ NextPhase \/ PhaseFails
  <2>1. UNCHANGED <<ws, state, overlay, vectors, jobs>> /\ run.pc = "apply" /\ Busy
    <3>1. CASE FailItem
      BY <3>1 DEF FailItem, Busy
    <3>2. CASE NextPhase
      BY <3>2 DEF NextPhase, Busy
    <3>3. CASE PhaseFails
      BY <3>3, Zenon DEF PhaseFails, Busy
    <3> QED BY <1>7, <3>1, <3>2, <3>3
  <2>2. /\ run'.pc \notin {"idle", "finish"} /\ run'.skipped = run.skipped
        /\ run'.sig = run.sig /\ run'.prev = run.prev /\ run'.content = run.content
    <3>1. CASE FailItem
      BY <1>m, <2>1, <3>1 DEF FailItem, RunType, RunState
    <3>2. ASSUME NEW r \in RunState, r.pc = "apply", Leave(r)
          PROVE  /\ run'.pc \notin {"idle", "finish"} /\ run'.skipped = r.skipped
                 /\ run'.sig = r.sig /\ run'.prev = r.prev /\ run'.content = r.content
      BY <3>2 DEF Leave, RunState
    <3>3. ASSUME NEW r, r = [run EXCEPT !.todo = {}, !.applied = {}, !.failed = TRUE,
                               !.phase = IF @ = "doc" THEN "vector" ELSE @]
          PROVE  /\ r \in RunState /\ r.pc = run.pc /\ r.skipped = run.skipped
                 /\ r.sig = run.sig /\ r.prev = run.prev /\ r.content = run.content
      BY <1>m, <3>3 DEF RunType, RunState
    <3>4. CASE NextPhase
      BY <1>m, <2>1, <3>2, <3>4 DEF NextPhase, RunType
    <3>5. CASE PhaseFails
      BY <2>1, <3>2, <3>3, <3>5 DEF PhaseFails
    <3> QED BY <1>7, <3>1, <3>4, <3>5
  <2> QED BY <2>1, <2>2, SkippedStays, QuietStores
<1>8. CASE SaveState
  BY <1>8, SaveStores
<1>9. CASE Finish
  <2>1. \A j \in Jobs : jobs'[j].artifacts = jobs[j].artifacts /\ jobs'[j].done = jobs[j].done
    BY <1>m, <1>9 DEF Finish, JobsType, JobRow
  <2> QED BY <1>9, <2>1, QuietStores DEF Finish
<1>10. CASE Crash
  BY <1>10, QuietStores DEF Crash
<1>11. CASE \E s \in FullSources : FullIndex(s)
  BY <1>11 DEF PlainHistory
<1>12. CASE UNCHANGED vars
  BY <1>12, <1>m
     DEF vars, StoresAreRight, NothingFromFuture, PlanIsRecent, SkippedIsRight, RecordedIsRight,
         NoHiddenStaleness, Busy, Fresh, Right, InStores, TaskSet, Holds, Captured, Deleted
<1> QED
  BY <1>1, <1>2, <1>3, <1>4, <1>5, <1>6, <1>7, <1>8, <1>9, <1>10, <1>11, <1>12
     DEF Next, RunStep

LEMMA InitHistoryInv == Init => HistoryInv
<1> SUFFICES ASSUME Init PROVE StoresAreRight
  BY InitProgressInv DEF HistoryInv
<1>1. /\ ~Busy /\ \A j \in Jobs : jobs[j].done = {} /\ jobs[j].artifacts = {}
  BY DEF Init, Busy, IdleRun, AbsentJob
<1>2. \A p \in Paths : /\ ws[p] = Missing /\ state[p] = Missing /\ overlay[p] = Missing
                       /\ run.sig.files[p] = Missing /\ run.content[p] = Missing
  BY DEF Init, IdleRun, NoSignature, NothingIndexed
<1>3. NothingFromFuture
  BY <1>1, <1>2, RevisionFacts DEF NothingFromFuture
<1>4. NoHiddenStaleness
  BY <1>2 DEF NoHiddenStaleness
<1> QED BY <1>1, <1>3, <1>4
      DEF StoresAreRight, PlanIsRecent, SkippedIsRight, RecordedIsRight

LEMMA PlainRuns == PlainHistory => (Spec => []HistoryInv)
<1> SUFFICES ASSUME PlainHistory PROVE Spec => []HistoryInv
  OBVIOUS
<1>1. HistoryInv /\ [Next]_vars => HistoryInv'
  BY NextHistoryInv
<1> QED BY <1>1, InitHistoryInv, PTL DEF Spec

\* Any number of runs, resumed, refused, restarted, failing or killed at any
\* step while users edit: where the diff of the next run will see no
\* difference, the overlay and the vectors hold what the workspace has.
THEOREM StalenessShows == PlainHistory => (Spec => []NoHiddenStaleness)
<1>1. HistoryInv => NoHiddenStaleness
  BY DEF HistoryInv, StoresAreRight
<1> QED BY <1>1, PlainRuns, PTL

\* No checkpoint a resumed job could honour tells of work that is not in the
\* stores, however many runs wrote to them since it was recorded.
THEOREM CheckpointsAreTrue == PlainHistory => (Spec => []CheckpointsHold)
<1>1. HistoryInv => CheckpointsHold
  <2> SUFFICES ASSUME HistoryInv, NEW j \in Jobs, NEW c \in jobs[j].done, c.sig.files = Captured
               PROVE  CASE c.kind = "apply"  -> overlay[c.path] = c.input
                        [] c.kind = "delete" -> overlay[c.path] = Missing
                        [] c.kind = "vector" -> vectors[c.path] = c.input
    BY DEF CheckpointsHold
  <2>1. c.kind \in {"apply", "delete", "vector"}
    BY RecordTypes DEF HistoryInv, ProgressInv, Checkpoints
  <2>2. /\ Holds(c)
        /\ c.kind = "delete" => c.sig.files[c.path] = Missing
        /\ c.kind # "delete" => c.input = c.sig.files[c.path]
    BY DEF HistoryInv, StoresAreRight, RecordedIsRight
  <2> QED BY <2>1, <2>2 DEF Holds
<1> QED BY <1>1, PlainRuns, PTL

\* Only a run that saved its state ends ready: all it saw of its source, and
\* that is still so, is in the overlay then.
THEOREM ReadyIsIndexed == PlainHistory => (Spec => ReadyMeansIndexed)
<1> SUFFICES ASSUME PlainHistory PROVE Spec => ReadyMeansIndexed
  OBVIOUS
<1> DEFINE Indexed ==
      \A j \in Jobs : jobs[j].status # "ready" /\ jobs[j].status' = "ready" =>
        \A p \in Scope(run.sig.source) :
          Captured[p] = run.sig.files[p] => overlay[p] = Captured[p]
<1>1. HistoryInv /\ [Next]_vars => [Indexed]_vars
  <2> SUFFICES ASSUME HistoryInv, Next, NEW j \in Jobs, jobs[j].status # "ready",
                      jobs'[j].status = "ready",
                      NEW p \in Scope(run.sig.source), Captured[p] = run.sig.files[p]
               PROVE  overlay[p] = Captured[p]
    BY DEF vars
  <2>m. /\ TypeInv /\ JobsType /\ RunType /\ PlanIsRecent /\ NoHiddenStaleness
    BY DEF HistoryInv, ProgressInv, StoresAreRight, TypeInv
  <2>1. p \in Paths
    BY <2>m DEF RunType, RunState, Signatures, SourceKinds, Scope, Paths
  <2>2. ~(ResumeJob \/ CreateJob \/ RefuseResume)
    <3> SUFFICES ASSUME ResumeJob \/ CreateJob \/ RefuseResume PROVE FALSE
      OBVIOUS
    <3>1. \A i \in Jobs : jobs'[i].status \in {jobs[i].status, "open", "superseded"}
      BY <2>m, PrepareEffect, Zenon
    <3> QED BY <3>1
  <2>3. ~Collect
    <3> SUFFICES ASSUME Collect PROVE jobs'[j].status = jobs[j].status
      OBVIOUS
    <3>1. ASSUME NEW s, jobs' = [jobs EXCEPT ![run.job].artifacts = s]
          PROVE  jobs'[j].status = jobs[j].status
      BY <2>m, <3>1 DEF JobsType, JobRow
    <3>2. CASE jobs' = jobs
      BY <3>2
    <3>3. CASE \E paths, row : jobs' = [jobs EXCEPT ![run.job].artifacts =
                                          {a \in @ : a.part # run.phase} \cup {row}]
      BY <3>1, <3>3
    <3>4. \/ jobs' = jobs
          \/ \E paths, row : jobs' = [jobs EXCEPT ![run.job].artifacts =
                                        {a \in @ : a.part # run.phase} \cup {row}]
      BY Zenon DEF Collect
    <3> QED BY <3>2, <3>3, <3>4
  <2>4. ~RecordCheckpoint
    <3>1. ASSUME NEW s, jobs' = [jobs EXCEPT ![run.job].done = s]
          PROVE  jobs'[j].status = jobs[j].status
      BY <2>m, <3>1 DEF JobsType, JobRow
    <3> QED BY <3>1 DEF RecordCheckpoint
  <2>5. jobs' # jobs
    OBVIOUS
  <2>6. Finish
    <3>1. ~(\E q \in Paths : Edit(q)) /\ ~Invoke /\ ~(\E s \in FullSources : FullIndex(s))
      BY <2>5, Zenon DEF Edit, Invoke, Plan, FullIndex
    <3>2. ~ReuseArtifact /\ ~CommitBatch /\ ~NextPhase /\ ~SaveState
      BY <2>5, Zenon DEF ReuseArtifact, CommitBatch, NextPhase, SaveState
    <3>3. ~FailItem /\ ~PhaseFails /\ ~Crash
      BY <2>5, Zenon DEF FailItem, PhaseFails, Crash
    <3> QED BY <2>2, <2>3, <2>4, <3>1, <3>2, <3>3 DEF Next, RunStep
  <2>7. run.pc = "finish" /\ ~run.failed
    BY <2>5, <2>6 DEF Finish
  <2>8. state = run.sig.files
    BY <2>m, <2>7 DEF PlanIsRecent, Busy
  <2> QED BY <2>m, <2>1, <2>8 DEF NoHiddenStaleness
<1>2. Spec => []HistoryInv
  BY PlainRuns
<1> QED BY <1>1, <1>2, PTL DEF Spec, ReadyMeansIndexed

=============================================================================
