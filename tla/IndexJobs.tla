------------------------------ MODULE IndexJobs ------------------------------
(***************************************************************************)
(* The index jobs of active_knowledge_server: the job store in jobs.sqlite *)
(* (indexing/jobs.py), the CLI processes that create, resume, run and      *)
(* finish index jobs (cli.py, indexing/pipeline.py), and the MCP server    *)
(* whose gated ops tools schedule, resume and cancel them (mcp/tools.py).  *)
(*                                                                         *)
(* One step is one SQLite transaction (or one read) of one process; the    *)
(* processes interleave freely between transactions.  A CLI process is a   *)
(* member of Runners: it is invoked, prepares its job, applies batches to  *)
(* the overlay, records the outcome and releases the lock.  An exception   *)
(* or an interrupt may reach it between any two steps.                     *)
(*                                                                         *)
(* behind is a history variable: no guard reads it.  It tells which exits  *)
(* of a process kept the lock, or left a row without an outcome.           *)
(***************************************************************************)
EXTENDS Naturals

CONSTANTS
  Jobs,         \* job ids
  NamedJobs,    \* the ids among Jobs a user passes with --job-id
  Runners,      \* CLI processes
  Signatures,   \* plan signatures (fold in mode, target and source)
  Policies,     \* resume policies the CLI is invoked with
  Faults,       \* what may go wrong: a subset of FaultKinds
  OpsRequests,  \* MCP ops tools in use: a subset of OpsKinds
  MaxBatches,   \* bound: batches one run applies
  NoJob, NoSignature, OpsSignature

PolicyKinds == {"auto", "job_id", "restart", "disabled", "full"}
FaultKinds  == {"crash", "interrupt", "error", "expiry"}
OpsKinds    == {"start", "resume", "cancel"}

ASSUME ConstantsAssumption ==
  /\ NoJob \notin Jobs
  /\ NamedJobs \subseteq Jobs
  /\ Policies \subseteq PolicyKinds
  /\ Faults \subseteq FaultKinds
  /\ OpsRequests \subseteq OpsKinds
  /\ MaxBatches \in Nat
  /\ NoSignature \notin Signatures
  /\ OpsSignature \notin Signatures
  /\ NoSignature # OpsSignature

VARIABLES
  job,    \* job[j]: the row of j in the job table, or Absent
  lock,   \* the row of job_lock for "index:overlay"
  run,    \* run[r]: the control state of CLI process r
  ops,    \* the request the MCP server is serving
  behind  \* what processes that are gone have left behind

vars == <<job, lock, run, ops, behind>>

-----------------------------------------------------------------------------
(* Job statuses and the transition table of jobs.py.                       *)

RunningStatus == {"discovering", "parsing", "extracting", "embedding", "reporting"}
ActiveStatus  == {"pending"} \cup RunningStatus
\* Mutant: any terminal job may be retried.
RetryableTerminal == {"failed", "partial_ready", "ready"}

RetryableStatus == {"failed", "partial_ready"}
ResumableStatus == ActiveStatus \cup RetryableStatus
TerminalStatus == {"ready"} \cup RetryableStatus
JobStatus == ActiveStatus \cup TerminalStatus

Transitions ==
  [pending       |-> {"discovering", "failed"},
   discovering   |-> {"parsing", "failed", "partial_ready"},
   parsing       |-> {"extracting", "failed", "partial_ready"},
   extracting    |-> {"embedding", "failed", "partial_ready"},
   embedding     |-> {"reporting", "failed", "partial_ready"},
   reporting     |-> {"ready", "failed", "partial_ready"},
   ready         |-> {},
   failed        |-> {"pending"},
   partial_ready |-> {"pending"},
   absent        |-> {}]

\* The successor of a status on the way to "reporting".
NextRunning ==
  [pending |-> "discovering", discovering |-> "parsing", parsing |-> "extracting",
   extracting |-> "embedding", embedding |-> "reporting"]

ExecutionState == {"none", "scheduled", "running", "complete", "failed",
                   "interrupted", "superseded"}

JobRow == [status: JobStatus \cup {"absent"}, exec: ExecutionState,
           cancelled: BOOLEAN, sig: Signatures \cup {NoSignature, OpsSignature}]

Absent == [status |-> "absent", exec |-> "none", cancelled |-> FALSE, sig |-> NoSignature]

FreshRow(exec, sig) ==
  [status |-> "pending", exec |-> exec, cancelled |-> FALSE, sig |-> sig]

NoLock == [owner |-> NoJob, live |-> FALSE]

\* Where a process has no lock yet, where it has taken the lock and not
\* returned, and where it is inside the try block of _run_index_command.
PreparePc == {"read_lock", "select", "load", "check_lock", "supersede", "retry", "resume",
              "update", "create", "acquire"}
HoldingPc == {"start", "prepared", "running", "begin", "apply", "finalize", "conclude",
              "fail", "interrupted", "release_first", "release"}
TryPc == {"running", "begin", "apply"}
RunPc == {"idle"} \cup PreparePc \cup HoldingPc

RunState == [pc: RunPc, policy: PolicyKinds \cup {"none"},
             plan: Signatures \cup {NoSignature},
             named: NamedJobs \cup {NoJob}, job: Jobs \cup {NoJob},
             saw: JobStatus, blocked: BOOLEAN, left: 0..MaxBatches]

IdleRun == [pc |-> "idle", policy |-> "none", plan |-> NoSignature, named |-> NoJob,
            job |-> NoJob, saw |-> "pending", blocked |-> FALSE, left |-> 0]

OpsState == [pc: {"idle", "create", "retry", "resume", "schedule", "release"},
             job: Jobs \cup {NoJob}]

\* lock: a process left with the lock since it was last taken; rows: the
\* jobs left without an outcome since they were last started.
Behind == [lock: BOOLEAN, rows: SUBSET Jobs]

-----------------------------------------------------------------------------
(* Store primitives: what one transaction of SQLiteJobStore checks and     *)
(* writes.                                                                 *)

Status(j) == job[j].status

\* Mutant: the transition table is not consulted.
TransitionUnchecked(j, t) == t \in JobStatus

\* transition_job accepts status t.
TransitionAllowed(j, t) == t \in Transitions[Status(j)]

\* transition_or_update_running_metadata accepts status t.
UpdateAllowed(j, t) ==
  /\ Status(j) \in ActiveStatus
  /\ t = Status(j) \/ t \in Transitions[Status(j)]

\* Mutant: status and execution state swapped.
SetJobSwapped(j, t, exec) == job' = [job EXCEPT ![j].status = exec, ![j].exec = t]

SetJob(j, t, exec) == job' = [job EXCEPT ![j].status = t, ![j].exec = exec]

\* Mutant: the lock of a job that is over counts as free.
LockOfActiveJob == lock.owner # NoJob /\ lock.live /\ Status(lock.owner) \in ActiveStatus

LockLive == lock.owner # NoJob /\ lock.live

\* Mutant: the owner is not compared.
ReleaseAnyLock(j) == lock' = NoLock

\* DELETE ... WHERE owner_job_id = j
ReleaseLock(j) == lock' = IF lock.owner = j THEN NoLock ELSE lock

Mine(r) == run[r].job
At(r, l) == run[r].pc = l
Goto(r, l) == run' = [run EXCEPT ![r].pc = l]
Leave(r) == run' = [run EXCEPT ![r] = IdleRun]

\* r leaves with the lock it may have, or leaves the row of its job as it is.
KeepsLock(r) == behind' = [behind EXCEPT !.lock = @ \/ lock.owner = Mine(r)]
KeepsRow(r)  == behind' = [behind EXCEPT !.rows = @ \cup {Mine(r)}]
KeepsBoth(r) == behind' = [lock |-> behind.lock \/ lock.owner = Mine(r),
                           rows |-> behind.rows \cup {Mine(r)}]

\* metadata_match, plan_signature, not superseded and not cancelled.
Compatible(j, sig) ==
  /\ job[j].sig = sig
  /\ job[j].exec # "superseded"
  /\ ~job[j].cancelled

-----------------------------------------------------------------------------
(* Preparing a job (prepare_incremental_index_job and                      *)
(* prepare_nonresumable_index_job).                                        *)

FirstPc(p) ==
  CASE p \in {"auto", "restart"} -> "read_lock"
    [] p = "job_id" -> "load"
    [] OTHER -> "create"

Invoke(r) ==
  /\ At(r, "idle")
  /\ \E p \in Policies, s \in Signatures, n \in NamedJobs \cup {NoJob} :
       /\ p = "job_id" => n = NoJob
       /\ run' = [run EXCEPT ![r] =
            [IdleRun EXCEPT !.policy = p, !.plan = s, !.named = n, !.pc = FirstPc(p)]]
  /\ UNCHANGED <<job, lock, ops, behind>>

\* find_resumable_index_job reads the lock before it selects the rows.
ReadLock(r) ==
  /\ At(r, "read_lock")
  /\ run' = [run EXCEPT ![r].pc = "select", ![r].blocked = LockLive]
  /\ UNCHANGED <<job, lock, ops, behind>>

Matching(r) ==
  {j \in Jobs : Status(j) \in ResumableStatus /\ Compatible(j, run[r].plan)}

\* The newest match is taken: with several matches any of them may be it.
SelectJob(r) ==
  /\ At(r, "select")
  /\ \/ Matching(r) = {} /\ Goto(r, "create")
     \/ Matching(r) # {} /\ run[r].blocked /\ Leave(r)
     \/ /\ ~run[r].blocked
        /\ \E j \in Matching(r) :
             run' = [run EXCEPT ![r].job = j, ![r].saw = Status(j),
                       ![r].pc = IF run[r].policy = "restart" THEN "supersede"
                                 ELSE IF Status(j) \in RetryableStatus THEN "retry"
                                 ELSE "resume"]
  /\ UNCHANGED <<job, lock, ops, behind>>

\* --resume JOB_ID: the row is validated first, the lock read afterwards.
LoadJob(r) ==
  /\ At(r, "load")
  /\ \E j \in Jobs :
       IF Status(j) \in ResumableStatus /\ Compatible(j, run[r].plan)
         THEN run' = [run EXCEPT ![r].job = j, ![r].saw = Status(j), ![r].pc = "check_lock"]
         ELSE Leave(r)
  /\ UNCHANGED <<job, lock, ops, behind>>

CheckLock(r) ==
  /\ At(r, "check_lock")
  /\ IF LockLive THEN Leave(r)
     ELSE Goto(r, IF run[r].saw \in RetryableStatus THEN "retry" ELSE "resume")
  /\ UNCHANGED <<job, lock, ops, behind>>

Supersede(r) ==
  /\ At(r, "supersede")
  /\ IF Status(Mine(r)) = "ready"
       THEN Leave(r) /\ UNCHANGED job
       ELSE /\ SetJob(Mine(r), IF Status(Mine(r)) \in ActiveStatus
                                 THEN "failed" ELSE Status(Mine(r)), "superseded")
            /\ run' = [run EXCEPT ![r].pc = "create", ![r].job = NoJob]
  /\ UNCHANGED <<lock, ops, behind>>

Retry(r) ==
  /\ At(r, "retry")
  /\ IF Status(Mine(r)) \in RetryableStatus
       THEN /\ job' = [job EXCEPT ![Mine(r)].status = "pending"]
            /\ Goto(r, "resume")
       ELSE Leave(r) /\ UNCHANGED job
  /\ UNCHANGED <<lock, ops, behind>>

\* resume_job rewrites metadata only, whatever the status is by now.
Resume(r) ==
  /\ At(r, "resume")
  /\ job' = [job EXCEPT ![Mine(r)].exec = "running"]
  /\ Goto(r, "update")
  /\ UNCHANGED <<lock, ops, behind>>

UpdateMetadata(r) ==
  /\ At(r, "update")
  /\ IF Status(Mine(r)) \in ActiveStatus
       THEN /\ job' = [job EXCEPT ![Mine(r)].exec = "running", ![Mine(r)].sig = run[r].plan]
            /\ run' = [run EXCEPT ![r].pc = "acquire", ![r].saw = Status(Mine(r))]
       ELSE Leave(r) /\ UNCHANGED job
  /\ UNCHANGED <<lock, ops, behind>>

\* create_job upserts: a fresh uuid, or the id the user named, which may
\* already have a row.
NewIds(r) ==
  IF run[r].named # NoJob THEN {run[r].named}
  ELSE {j \in Jobs \ NamedJobs : Status(j) = "absent"}

\* Bound: with no id left in Jobs the process gives up.
Create(r) ==
  /\ At(r, "create")
  /\ \/ \E j \in NewIds(r) :
          /\ job' = [job EXCEPT ![j] =
               FreshRow("running", IF run[r].policy = "full" THEN NoSignature ELSE run[r].plan)]
          /\ run' = [run EXCEPT ![r].job = j, ![r].saw = "pending", ![r].pc = "acquire"]
     \/ NewIds(r) = {} /\ Leave(r) /\ UNCHANGED job
  /\ UNCHANGED <<lock, ops, behind>>

\* Mutant: the conflict is not noticed.
AcquireBlindly(r) ==
  /\ At(r, "acquire")
  /\ lock' = [owner |-> Mine(r), live |-> TRUE]
  /\ behind' = [behind EXCEPT !.lock = FALSE]
  /\ Goto(r, "start")
  /\ UNCHANGED <<job, ops>>

\* A conflict raises out of prepare_*: the row stays as it is.
AcquireLock(r) ==
  /\ At(r, "acquire")
  /\ IF LockLive /\ lock.owner # Mine(r)
       THEN Leave(r) /\ UNCHANGED <<lock, behind>>
       ELSE /\ lock' = [owner |-> Mine(r), live |-> TRUE]
            /\ behind' = [behind EXCEPT !.lock = FALSE]
            /\ Goto(r, "start")
  /\ UNCHANGED <<job, ops>>

Incremental(r) == run[r].policy # "full"

StartStatus(r) == IF run[r].saw = "pending" THEN "discovering" ELSE Status(Mine(r))

StartAccepted(r) ==
  /\ At(r, "start") /\ UpdateAllowed(Mine(r), StartStatus(r))
  /\ SetJob(Mine(r), StartStatus(r), "running")
  /\ run' = [run EXCEPT ![r].pc = "prepared", ![r].saw = StartStatus(r),
                        ![r].left = MaxBatches]
  /\ behind' = [behind EXCEPT !.rows = @ \ {Mine(r)}]
  /\ UNCHANGED <<lock, ops>>

\* Mutant: a refused start leaves the lock.
StartKeepsLock(r) ==
  /\ At(r, "start") /\ ~UpdateAllowed(Mine(r), StartStatus(r))
  /\ IF Incremental(r) THEN UNCHANGED behind ELSE KeepsLock(r)
  /\ Leave(r)
  /\ UNCHANGED <<job, lock, ops>>

\* The incremental path releases the lock when this transaction is refused,
\* the full path, which has no try there, does not.
StartRefused(r) ==
  /\ At(r, "start") /\ ~UpdateAllowed(Mine(r), StartStatus(r))
  /\ IF Incremental(r) THEN ReleaseLock(Mine(r)) /\ UNCHANGED behind
                       ELSE UNCHANGED lock /\ KeepsLock(r)
  /\ Leave(r)
  /\ UNCHANGED <<job, ops>>

-----------------------------------------------------------------------------
(* Running: pipeline.run with its _PipelineJobReporter, and run_full_index *)
(* which neither advances the job nor looks for a cancellation.            *)

\* The try block begins.  The reporter reads the status it will advance from
\* and raises if the job is over by now.
EnterRun(r) ==
  /\ At(r, "prepared")
  /\ IF ~Incremental(r) THEN Goto(r, "running")
     ELSE IF Status(Mine(r)) \in ActiveStatus
       THEN run' = [run EXCEPT ![r].pc = "running", ![r].saw = Status(Mine(r))]
       ELSE Goto(r, "fail")
  /\ UNCHANGED <<job, lock, ops, behind>>

\* _advance_to moves one status at a time from the status the reporter last
\* saw; a refused transition raises out of the pipeline.
Advance(r) ==
  /\ run[r].pc \in {"running", "begin"} /\ Incremental(r) /\ run[r].saw \in DOMAIN NextRunning
  /\ LET t == NextRunning[run[r].saw]
     IN IF UpdateAllowed(Mine(r), t)
          THEN /\ SetJob(Mine(r), t, "running")
               /\ run' = [run EXCEPT ![r].saw = t]
          ELSE Goto(r, "fail") /\ UNCHANGED job
  /\ UNCHANGED <<lock, ops, behind>>

\* An update of metadata is refused once the job is over (start, observe_event,
\* task_applied, task_skipped); an accepted one is as a Heartbeat.
ReportRefused(r) ==
  /\ At(r, "running") /\ Incremental(r) /\ Status(Mine(r)) \notin ActiveStatus
  /\ Goto(r, "fail")
  /\ UNCHANGED <<job, lock, ops, behind>>

\* begin_task first looks for a cancellation ...
CheckCancel(r) ==
  /\ At(r, "running") /\ Incremental(r) /\ run[r].left > 0
  /\ Goto(r, IF job[Mine(r)].cancelled THEN "fail" ELSE "begin")
  /\ UNCHANGED <<job, lock, ops, behind>>

\* ... and updates the metadata in a transaction of its own: this one reads
\* the status and not the cancellation.
BeginTask(r) ==
  /\ At(r, "begin")
  /\ IF Status(Mine(r)) \in ActiveStatus
       THEN /\ job' = [job EXCEPT ![Mine(r)].exec = "running"]
            /\ Goto(r, "apply")
       ELSE Goto(r, "fail") /\ UNCHANGED job
  /\ UNCHANGED <<lock, ops, behind>>

\* The full path writes its staging area and then publishes.
BeginPublish(r) ==
  /\ At(r, "running") /\ ~Incremental(r) /\ run[r].left > 0
  /\ Goto(r, "apply")
  /\ UNCHANGED <<job, lock, ops, behind>>

\* The overlay transaction commits; it never looks at the job or the lock.
Commit(r) ==
  /\ At(r, "apply")
  /\ run' = [run EXCEPT ![r].pc = "running", ![r].left = @ - 1]
  /\ UNCHANGED <<job, lock, ops, behind>>

\* The progress callback refreshes the row and renews the lease; errors of
\* either are swallowed.
Heartbeat(r) ==
  /\ run[r].pc \in TryPc
  /\ Status(Mine(r)) \in ActiveStatus
  /\ job' = [job EXCEPT ![Mine(r)].exec = "running"]
  /\ lock' = IF lock.owner = Mine(r) THEN [lock EXCEPT !.live = TRUE] ELSE lock
  /\ UNCHANGED <<run, ops, behind>>

-----------------------------------------------------------------------------
(* Finishing: finalize_index_job, the two failure paths, release_lock.     *)

RunReturns(r) ==
  /\ At(r, "running") /\ run[r].left = 0
  /\ IF Status(Mine(r)) \in ActiveStatus
       THEN run' = [run EXCEPT ![r].saw = Status(Mine(r)), ![r].pc =
                      IF Status(Mine(r)) = "reporting" THEN "conclude" ELSE "finalize"]
       ELSE Goto(r, "release")
  /\ UNCHANGED <<job, lock, ops, behind>>

\* _advance_index_job_to_reporting: one transaction per remaining status.
FinalizeStep(r) ==
  /\ At(r, "finalize")
  /\ LET t == NextRunning[run[r].saw]
     IN IF UpdateAllowed(Mine(r), t)
          THEN /\ job' = [job EXCEPT ![Mine(r)].status = t]
               /\ run' = [run EXCEPT ![r].saw = t,
                            ![r].pc = IF t = "reporting" THEN "conclude" ELSE "finalize"]
          ELSE Goto(r, "release") /\ UNCHANGED job
  /\ UNCHANGED <<lock, ops, behind>>

\* Mutant: the process insists on recording its outcome.
ConcludeInsists(r) ==
  /\ At(r, "conclude")
  /\ \E t \in {"ready", "partial_ready"} :
       TransitionAllowed(Mine(r), t) /\ SetJob(Mine(r), t, "complete")
  /\ Goto(r, "release")
  /\ UNCHANGED <<lock, ops, behind>>

Conclude(r) ==
  /\ At(r, "conclude")
  /\ \E t \in {"ready", "partial_ready"} :
       IF TransitionAllowed(Mine(r), t) THEN SetJob(Mine(r), t, "complete") ELSE UNCHANGED job
  /\ Goto(r, "release")
  /\ UNCHANGED <<lock, ops, behind>>

\* mark_index_job_failed is a no-op on a terminal job.
MarkFailed(r) ==
  /\ run[r].pc \in {"fail", "interrupted"}
  /\ IF Status(Mine(r)) \in ActiveStatus
       THEN SetJob(Mine(r), "failed", IF At(r, "fail") THEN "failed" ELSE "interrupted")
       ELSE UNCHANGED job
  /\ Goto(r, IF At(r, "fail") THEN "release" ELSE "release_first")
  /\ UNCHANGED <<lock, ops, behind>>

\* mark_index_job_interrupted releases the lock itself, before the finally
\* clause of _run_index_command releases it again.
ReleaseFirst(r) ==
  /\ At(r, "release_first")
  /\ ReleaseLock(Mine(r))
  /\ Goto(r, "release")
  /\ UNCHANGED <<job, ops, behind>>

\* Mutant: no finally clause.
ReleaseForgotten(r) == At(r, "release") /\ Leave(r) /\ UNCHANGED <<job, lock, ops, behind>>

Release(r) ==
  /\ At(r, "release")
  /\ ReleaseLock(Mine(r))
  /\ Leave(r)
  /\ UNCHANGED <<job, ops, behind>>

-----------------------------------------------------------------------------
(* Faults.                                                                 *)

\* An exception of the pipeline or of the job store ("error"), Ctrl-C or
\* SIGTERM ("interrupt"): where it is caught depends on where it strikes.
Raising == Faults \cap {"error", "interrupt"} # {}

\* Before the lock is taken only the row, if there is one, stays as it is.
PreparationRaises(r) ==
  /\ Raising /\ run[r].pc \in PreparePc
  /\ Leave(r)
  /\ UNCHANGED <<job, lock, ops, behind>>

\* The except clause around the start of an incremental job gives the lock
\* back; the transaction may have committed before the interrupt.
StartRaises(r) ==
  /\ Raising /\ Incremental(r)
  /\ \/ At(r, "start") /\ UNCHANGED behind
     \/ At(r, "prepared") /\ "interrupt" \in Faults /\ KeepsRow(r)
  /\ ReleaseLock(Mine(r))
  /\ Leave(r)
  /\ UNCHANGED <<job, ops>>

\* No clause gives the lock back: between acquire_lock and the try around the
\* start, anywhere in the full preparation, between the preparation and the
\* try of _run_index_command, and in the last release itself.
LockKept(r) ==
  /\ Raising
  /\ \/ run[r].pc \in {"start", "release"} /\ KeepsLock(r)
     \/ At(r, "prepared") /\ "interrupt" \in Faults /\ KeepsBoth(r)
  /\ Leave(r)
  /\ UNCHANGED <<job, lock, ops>>

\* Inside the try block the except clauses take over.
RunRaises(r) ==
  /\ "error" \in Faults /\ run[r].pc \in TryPc
  /\ Goto(r, "fail")
  /\ UNCHANGED <<job, lock, ops, behind>>

\* Mutant: an interrupted run does not mark its job.
InterruptUnmarked(r) ==
  /\ "interrupt" \in Faults /\ run[r].pc \in TryPc
  /\ Goto(r, "release")
  /\ UNCHANGED <<job, lock, ops, behind>>

Interrupt(r) ==
  /\ "interrupt" \in Faults /\ run[r].pc \in TryPc
  /\ Goto(r, "interrupted")
  /\ UNCHANGED <<job, lock, ops, behind>>

\* The else clause (finalize_index_job) and the except clauses themselves are
\* under finally alone: the lock is released, the outcome is not recorded.
OutcomeLost(r) ==
  /\ Raising /\ run[r].pc \in {"finalize", "conclude", "fail", "interrupted"}
  /\ KeepsRow(r)
  /\ Goto(r, IF At(r, "interrupted") THEN "release_first" ELSE "release")
  /\ UNCHANGED <<job, lock, ops>>

ReleaseFirstRaises(r) ==
  /\ Raising /\ At(r, "release_first")
  /\ Goto(r, "release")
  /\ UNCHANGED <<job, lock, ops, behind>>

\* SIGKILL or power loss.
Crash(r) ==
  /\ "crash" \in Faults /\ run[r].pc # "idle"
  /\ IF run[r].pc \in HoldingPc THEN KeepsBoth(r) ELSE UNCHANGED behind
  /\ Leave(r)
  /\ UNCHANGED <<job, lock, ops>>

\* The lease outlives its TTL without a heartbeat.
LeaseExpires ==
  /\ "expiry" \in Faults /\ LockLive
  /\ lock' = [lock EXCEPT !.live = FALSE]
  /\ UNCHANGED <<job, run, ops, behind>>

-----------------------------------------------------------------------------
(* The MCP server: ops_start_index, ops_resume_index, ops_cancel_index.    *)

OpsGoto(l, j) == ops' = [pc |-> l, job |-> j]
OpsDone == OpsGoto("idle", NoJob)

OpsStart ==
  /\ "start" \in OpsRequests /\ ops.pc = "idle"
  /\ \A j \in Jobs : Status(j) \notin ActiveStatus
  /\ LET found == {j \in Jobs : Status(j) \in RetryableStatus /\ Compatible(j, OpsSignature)}
     IN \/ \E j \in found : OpsGoto("retry", j)
        \/ found = {} /\ OpsGoto("create", NoJob)
  /\ UNCHANGED <<job, lock, run, behind>>

OpsCreate ==
  /\ ops.pc = "create"
  /\ LET fresh == {j \in Jobs \ NamedJobs : Status(j) = "absent"}
     IN \/ \E j \in fresh : job' = [job EXCEPT ![j] = FreshRow("scheduled", OpsSignature)]
        \/ fresh = {} /\ UNCHANGED job
  /\ OpsDone
  /\ UNCHANGED <<lock, run, behind>>

OpsResumeRequest ==
  /\ "resume" \in OpsRequests /\ ops.pc = "idle"
  /\ \E j \in Jobs :
       /\ ~job[j].cancelled /\ job[j].exec # "superseded" /\ Status(j) \in RetryableStatus
       /\ OpsGoto("retry", j)
  /\ UNCHANGED <<job, lock, run, behind>>

OpsRetry ==
  /\ ops.pc = "retry"
  /\ IF Status(ops.job) \in RetryableStatus
       THEN /\ job' = [job EXCEPT ![ops.job].status = "pending"]
            /\ OpsGoto("resume", ops.job)
       ELSE OpsDone /\ UNCHANGED job
  /\ UNCHANGED <<lock, run, behind>>

OpsResume ==
  /\ ops.pc = "resume"
  /\ job' = [job EXCEPT ![ops.job].exec = "running"]
  /\ OpsGoto("schedule", ops.job)
  /\ UNCHANGED <<lock, run, behind>>

OpsSchedule ==
  /\ ops.pc = "schedule"
  /\ job' = IF Status(ops.job) \in ActiveStatus
              THEN [job EXCEPT ![ops.job].exec = "scheduled"] ELSE job
  /\ OpsDone
  /\ UNCHANGED <<lock, run, behind>>

\* Mutant: a cancellation sets its mark and leaves the status to the run.
CancelMarkOnly ==
  /\ "cancel" \in OpsRequests /\ ops.pc = "idle"
  /\ \E j \in Jobs :
       /\ Status(j) \in ActiveStatus /\ ~job[j].cancelled
       /\ job' = [job EXCEPT ![j].cancelled = TRUE]
       /\ OpsGoto("release", j)
  /\ UNCHANGED <<lock, run, behind>>

OpsCancel ==
  /\ "cancel" \in OpsRequests /\ ops.pc = "idle"
  /\ \E j \in Jobs :
       /\ Status(j) \in ActiveStatus /\ TransitionAllowed(j, "failed")
       /\ job' = [job EXCEPT ![j].status = "failed", ![j].cancelled = TRUE]
       /\ OpsGoto("release", j)
  /\ UNCHANGED <<lock, run, behind>>

OpsRelease ==
  /\ ops.pc = "release"
  /\ ReleaseLock(ops.job)
  /\ OpsDone
  /\ UNCHANGED <<job, run, behind>>

-----------------------------------------------------------------------------
Init ==
  /\ job = [j \in Jobs |-> Absent]
  /\ lock = NoLock
  /\ run = [r \in Runners |-> IdleRun]
  /\ ops = [pc |-> "idle", job |-> NoJob]
  /\ behind = [lock |-> FALSE, rows |-> {}]

PrepareStep(r) ==
  \/ ReadLock(r) \/ SelectJob(r) \/ LoadJob(r) \/ CheckLock(r) \/ Supersede(r)
  \/ Retry(r) \/ Resume(r) \/ UpdateMetadata(r) \/ Create(r)
  \/ AcquireLock(r) \/ StartAccepted(r) \/ StartRefused(r)

RunStep(r) ==
  \/ EnterRun(r) \/ Advance(r) \/ ReportRefused(r) \/ CheckCancel(r) \/ BeginTask(r)
  \/ BeginPublish(r) \/ Commit(r)
  \/ RunReturns(r) \/ FinalizeStep(r) \/ Conclude(r)
  \/ MarkFailed(r) \/ ReleaseFirst(r) \/ Release(r)

FaultStep(r) ==
  \/ PreparationRaises(r) \/ StartRaises(r) \/ LockKept(r) \/ RunRaises(r) \/ Interrupt(r)
  \/ OutcomeLost(r) \/ ReleaseFirstRaises(r) \/ Crash(r)

OpsStep == OpsCreate \/ OpsRetry \/ OpsResume \/ OpsSchedule \/ OpsRelease
OpsRequest == OpsStart \/ OpsResumeRequest \/ OpsCancel

Next ==
  \/ \E r \in Runners : \/ Invoke(r) \/ PrepareStep(r) \/ RunStep(r)
                        \/ Heartbeat(r) \/ FaultStep(r)
  \/ LeaseExpires
  \/ OpsStep \/ OpsRequest

Spec == Init /\ [][Next]_vars

\* The operating system keeps scheduling every process that is not dead.
FairSpec ==
  /\ Spec
  /\ \A r \in Runners : WF_vars(PrepareStep(r) \/ RunStep(r))
  /\ WF_vars(OpsStep)

-----------------------------------------------------------------------------
(* Properties.                                                             *)

\* Every variable has its type.
TypeOK ==
  /\ job \in [Jobs -> JobRow]
  /\ lock \in [owner: Jobs \cup {NoJob}, live: BOOLEAN]
  /\ run \in [Runners -> RunState]
  /\ ops \in OpsState
  /\ behind \in Behind

Writers == {r \in Runners : At(r, "apply")}

\* The overlay has a single writer: no two processes are inside the apply of
\* a batch at once (the "index:overlay" lock of jobs.py).
SingleWriter == \A r1, r2 \in Writers : r1 = r2

\* A process that applies a batch does so under the lock of its own job.
WriterOwnsLock == \A r \in Writers : lock.owner = Mine(r)

\* The processes that hold the lock.
Holders == {r \in Runners : run[r].pc \in HoldingPc /\ lock.owner = Mine(r)}

Lease == INSTANCE WriteLease
           WITH Processes <- Runners, holders <- Holders, writers <- Writers

\* When every run works on a job of its own, the job store and the CLI
\* implement the abstract lease.
RefinesWriteLease == Lease!Spec

RunnerOf(j) == \E r \in Runners : run[r].pc \in HoldingPc /\ Mine(r) = j

\* Apart from a crash and from the places LockKept and StartRefused name, no
\* exit of a process (a conflict, a lost race, an exception, an interrupt,
\* either release of an interrupted run) leaves the lock with nobody to
\* release it.
LockHasHolder == lock.owner # NoJob => RunnerOf(lock.owner) \/ behind.lock

\* A job shown as running is being run by some process, unless its last run
\* crashed or could not record its outcome (OutcomeLost, StartRaises).
RunningHasRunner ==
  \A j \in Jobs : Status(j) \in RunningStatus => RunnerOf(j) \/ j \in behind.rows

\* A job cancelled through ops_cancel_index is never reported as ready.
CancelledNeverReady == \A j \in Jobs : job[j].cancelled => Status(j) # "ready"

\* Once ops_cancel_index has written its mark no incremental run starts to
\* apply another batch of the job, not even one that looked before the mark
\* was there and updates its metadata after.
NoApplyAfterCancel ==
  [][\A r \in Runners : At(r, "begin") /\ At(r, "apply")' => ~job[Mine(r)].cancelled]_vars

\* A finished job is never reopened.
ReadyIsFinal ==
  [][\A j \in Jobs : Status(j) = "ready" => Status(j)' = "ready"]_vars

\* Every invocation of the CLI comes to an end.
RunEnds == \A r \in Runners : run[r].pc # "idle" ~> run[r].pc = "idle"

\* A lock that is taken is given back, or its process is gone by one of the
\* exits that keep it.
LockReleased == \A j \in Jobs : lock.owner = j ~> lock.owner # j \/ behind.lock
=============================================================================
