--------------------------- MODULE IndexJobsProofs ---------------------------
(***************************************************************************)
(* Theorems about IndexJobs, for every set of jobs, processes and plan     *)
(* signatures: the lock and the lease it implements, then that a lock and  *)
(* a running job have a process that looks after them or are left behind   *)
(* by an exit that has a name, and what a cancellation is worth.           *)
(***************************************************************************)
EXTENDS IndexJobs, TLAPS

-----------------------------------------------------------------------------
(* Types.  A process inside "begin" or "apply" has a batch left to count:  *)
(* without this, TypeOK is not inductive.  behind comes last: it needs     *)
(* that a process which holds the lock has a job.                          *)

JobType  == job \in [Jobs -> JobRow]
LockType == lock \in [owner: Jobs \cup {NoJob}, live: BOOLEAN]
OpsType  == ops \in OpsState
RunType  == /\ run \in [Runners -> RunState]
            /\ \A r \in Runners : run[r].pc \in {"begin", "apply"} => run[r].left > 0

\* Where a process may go without counting its batches.
MovePc == RunPc \ {"begin", "apply"}

TypeInv == JobType /\ LockType /\ RunType /\ OpsType

\* What a write to one row of the job table needs.
LEMMA RowWrite ==
  ASSUME JobType, NEW j \in Jobs, NEW t \in JobStatus, NEW e \in ExecutionState,
         NEW s \in Signatures \cup {NoSignature, OpsSignature}
  PROVE  /\ [job EXCEPT ![j].status = t] \in [Jobs -> JobRow]
         /\ [job EXCEPT ![j].exec = e] \in [Jobs -> JobRow]
         /\ [job EXCEPT ![j].status = t, ![j].exec = e] \in [Jobs -> JobRow]
         /\ [job EXCEPT ![j].exec = e, ![j].sig = s] \in [Jobs -> JobRow]
         /\ [job EXCEPT ![j].status = t, ![j].cancelled = TRUE] \in [Jobs -> JobRow]
         /\ [job EXCEPT ![j] = [status |-> t, exec |-> e, cancelled |-> FALSE, sig |-> s]]
              \in [Jobs -> JobRow]
BY DEF JobType, JobRow

\* A job row's status, and the statuses the store moves it to.
LEMMA StatusTypes ==
  ASSUME JobType, NEW j \in Jobs
  PROVE  /\ Status(j) \in JobStatus \cup {"absent"}
         /\ Status(j) \in ActiveStatus => Status(j) \in JobStatus
         /\ Status(j) \in ResumableStatus => Status(j) \in JobStatus
         /\ \A t : TransitionAllowed(j, t) => t \in JobStatus
         /\ \A t : UpdateAllowed(j, t) => t \in JobStatus
<1>1. Status(j) \in JobStatus \cup {"absent"}
  BY DEF JobType, JobRow, Status
<1>2. \A t : TransitionAllowed(j, t) => t \in JobStatus
  BY <1>1 DEF TransitionAllowed, Transitions, JobStatus, ActiveStatus, RunningStatus,
              TerminalStatus, RetryableStatus
<1>3. ActiveStatus \subseteq JobStatus /\ ResumableStatus \subseteq JobStatus
  BY DEF JobStatus, ResumableStatus, TerminalStatus
<1> QED
  BY <1>1, <1>2, <1>3 DEF UpdateAllowed, TransitionAllowed

\* An update of running metadata sets a known status, whatever the row is.
LEMMA UpdatedStatus ==
  ASSUME NEW j, NEW t, UpdateAllowed(j, t)
  PROVE  t \in JobStatus
BY DEF UpdateAllowed, Transitions, JobStatus, ActiveStatus, RunningStatus, TerminalStatus,
       RetryableStatus

\* A process that moves on, or is over, keeps its types.
LEMMA GotoType ==
  ASSUME RunType, NEW r \in Runners, NEW l \in MovePc, Goto(r, l)
  PROVE  RunType'
<1>1. l \in RunPc /\ l \notin {"begin", "apply"}
  BY DEF MovePc
<1> QED BY <1>1 DEF RunType, Goto, RunState

LEMMA LeaveType ==
  ASSUME RunType, NEW r \in Runners, Leave(r)
  PROVE  RunType'
<1>1. IdleRun \in RunState /\ IdleRun.pc \notin {"begin", "apply"}
  BY ConstantsAssumption
     DEF ConstantsAssumption, IdleRun, RunState, RunPc, PreparePc, HoldingPc, PolicyKinds, JobStatus,
         ActiveStatus
<1> QED BY <1>1 DEF RunType, Leave

\* As GotoType, for a process that has learnt the status s of its job.
LEMMA SawType ==
  ASSUME RunType, NEW r \in Runners, NEW s \in JobStatus, NEW l \in MovePc,
         \/ run' = [run EXCEPT ![r].saw = s, ![r].pc = l]
         \/ run' = [run EXCEPT ![r].saw = s]
         \/ run' = [run EXCEPT ![r].pc = l, ![r].saw = s]
         \/ run' = [run EXCEPT ![r].pc = l, ![r].saw = s, ![r].left = MaxBatches]
  PROVE  RunType'
<1>1. l \in RunPc /\ l \notin {"begin", "apply"}
  BY DEF MovePc
<1> QED BY <1>1, ConstantsAssumption DEF ConstantsAssumption, RunType, RunState

\* As SawType, for a process that takes the job j.
LEMMA TakeType ==
  ASSUME RunType, NEW r \in Runners, NEW s \in JobStatus, NEW l \in MovePc,
         NEW j \in Jobs,
         run' = [run EXCEPT ![r].job = j, ![r].saw = s, ![r].pc = l]
  PROVE  RunType'
<1>1. l \in RunPc /\ l \notin {"begin", "apply"}
  BY DEF MovePc
<1>2. [run[r] EXCEPT !.job = j, !.saw = s, !.pc = l] \in RunState
  BY <1>1 DEF RunType, RunState
<1> QED BY <1>1, <1>2 DEF RunType

\* As GotoType, for a process that has read the lock.
LEMMA BlockedType ==
  ASSUME RunType, NEW r \in Runners, NEW b \in BOOLEAN,
         run' = [run EXCEPT ![r].pc = "select", ![r].blocked = b]
  PROVE  RunType'
<1>1. [run[r] EXCEPT !.pc = "select", !.blocked = b] \in RunState
  BY DEF RunType, RunState, RunPc, PreparePc
<1> QED BY <1>1 DEF RunType

\* Releasing keeps the lock's type.
LEMMA ReleaseType ==
  ASSUME LockType, NEW j, ReleaseLock(j)
  PROVE  LockType'
BY DEF LockType, ReleaseLock, NoLock

\* The initial states are well typed.
LEMMA InitTypeInv == Init => TypeInv
<1> SUFFICES ASSUME Init PROVE TypeInv
  OBVIOUS
<1>1. JobType
  BY DEF Init, JobType, JobRow, Absent, ExecutionState
<1>2. LockType /\ OpsType
  BY DEF Init, LockType, OpsType, OpsState, NoLock
<1>3. RunType
  BY ConstantsAssumption
     DEF Init, ConstantsAssumption, RunType, IdleRun, RunState, RunPc, PreparePc, HoldingPc, PolicyKinds,
         JobStatus, ActiveStatus
<1> QED BY <1>1, <1>2, <1>3 DEF TypeInv

\* Every step of a process that prepares its job keeps the types.
LEMMA PrepareTypeInv ==
  ASSUME TypeInv, NEW r \in Runners, PrepareStep(r)
  PROVE  TypeInv'
<1> USE DEF TypeInv
<1>m. Mine(r) \in Jobs \cup {NoJob} /\ run[r].saw \in JobStatus
      /\ run[r].plan \in Signatures \cup {NoSignature}
      /\ run[r].named \in NamedJobs \cup {NoJob}
  BY DEF RunType, RunState, Mine
<1>p. MovePc = {"idle", "read_lock", "select", "load", "check_lock", "supersede", "retry",
                "resume", "update", "create", "acquire", "start", "prepared", "running",
                "finalize", "conclude", "fail", "interrupted", "release_first", "release"}
  BY DEF MovePc, RunPc, PreparePc, HoldingPc
<1>s. {"pending", "discovering", "failed"} \subseteq JobStatus
      /\ {"running", "superseded"} \subseteq ExecutionState
  BY DEF JobStatus, ActiveStatus, RunningStatus, TerminalStatus, RetryableStatus,
         ExecutionState
<1>1. CASE ReadLock(r)
  <2>1. LockLive \in BOOLEAN
    BY DEF LockLive, LockType
  <2>2. RunType'
    BY <1>1, <2>1, BlockedType DEF ReadLock
  <2> QED BY <1>1, <2>2 DEF ReadLock, JobType, LockType, OpsType
<1>2. CASE SelectJob(r)
  <2>1. RunType'
    <3>1. CASE Goto(r, "create")
      BY <3>1, <1>p, GotoType
    <3>2. CASE Leave(r)
      BY <3>2, LeaveType
    <3>3. ASSUME NEW j \in Matching(r),
                 run' = [run EXCEPT ![r].job = j, ![r].saw = Status(j),
                           ![r].pc = IF run[r].policy = "restart" THEN "supersede"
                                     ELSE IF Status(j) \in RetryableStatus THEN "retry"
                                     ELSE "resume"]
          PROVE  RunType'
      <4>1. j \in Jobs /\ Status(j) \in JobStatus
        BY StatusTypes DEF Matching
      <4> QED BY <1>2, <1>p, <3>3, <4>1, TakeType DEF SelectJob, At
    <3> QED BY <1>2, <3>1, <3>2, <3>3 DEF SelectJob
  <2> QED BY <1>2, <2>1 DEF SelectJob, JobType, LockType, OpsType
<1>3. CASE LoadJob(r)
  <2>1. RunType'
    <3>1. CASE Leave(r)
      BY <3>1, LeaveType
    <3>2. ASSUME NEW j \in Jobs, Status(j) \in ResumableStatus,
                 run' = [run EXCEPT ![r].job = j, ![r].saw = Status(j), ![r].pc = "check_lock"]
          PROVE  RunType'
      <4>1. Status(j) \in JobStatus
        BY <3>2, StatusTypes
      <4> QED BY <1>3, <1>p, <3>2, <4>1, TakeType DEF LoadJob, At
    <3> QED BY <1>3, <3>1, <3>2 DEF LoadJob
  <2> QED BY <1>3, <2>1 DEF LoadJob, JobType, LockType, OpsType
<1>4. CASE CheckLock(r)
  <2>1. RunType'
    BY <1>4, <1>p, GotoType, LeaveType DEF CheckLock
  <2> QED BY <1>4, <2>1 DEF CheckLock, JobType, LockType, OpsType
<1>5. CASE Supersede(r)
  <2>1. CASE Leave(r) /\ UNCHANGED job
    BY <1>5, <2>1, LeaveType DEF Supersede, JobType, LockType, OpsType
  <2>2. CASE ~(Leave(r) /\ UNCHANGED job)
    <3>j. Mine(r) \in Jobs => Status(Mine(r)) \in JobStatus \cup {"absent"}
      BY StatusTypes
    <3>1. RunType'
      BY <1>5, <2>2, ConstantsAssumption DEF Supersede, RunType, RunState, RunPc, PreparePc
    <3>2. JobType'
      BY <1>5, <2>2, <1>s DEF Supersede, SetJob, JobType, JobRow, Status
    <3> QED BY <1>5, <3>1, <3>2 DEF Supersede, LockType, OpsType
  <2> QED BY <2>1, <2>2
<1>6. CASE Retry(r)
  <2>1. RunType'
    BY <1>6, <1>p, GotoType, LeaveType DEF Retry
  <2>2. JobType'
    BY <1>6, <1>s DEF Retry, JobType, JobRow
  <2> QED BY <1>6, <2>1, <2>2 DEF Retry, LockType, OpsType
<1>7. CASE Resume(r)
  <2>1. RunType'
    BY <1>7, <1>p, GotoType DEF Resume
  <2>2. JobType'
    BY <1>7, <1>s DEF Resume, JobType, JobRow
  <2> QED BY <1>7, <2>1, <2>2 DEF Resume, LockType, OpsType
<1>8. CASE UpdateMetadata(r)
  <2>1. RunType'
    <3>1. CASE Status(Mine(r)) \in ActiveStatus
      <4>1. Status(Mine(r)) \in JobStatus
        BY <3>1 DEF JobStatus
      <4> QED BY <1>8, <3>1, <4>1 DEF UpdateMetadata, RunType, RunState, RunPc, PreparePc
    <3>2. CASE Status(Mine(r)) \notin ActiveStatus
      BY <1>8, <3>2, LeaveType DEF UpdateMetadata
    <3> QED BY <3>1, <3>2
  <2>2. JobType'
    BY <1>8, <1>s, <1>m DEF UpdateMetadata, JobType, JobRow
  <2> QED BY <1>8, <2>1, <2>2 DEF UpdateMetadata, LockType, OpsType
<1>9. CASE Create(r)
  <2>1. CASE Leave(r) /\ UNCHANGED job
    BY <1>9, <2>1, LeaveType DEF Create, JobType, LockType, OpsType
  <2>2. ASSUME NEW j \in NewIds(r),
               job' = [job EXCEPT ![j] =
                 FreshRow("running", IF run[r].policy = "full" THEN NoSignature ELSE run[r].plan)],
               run' = [run EXCEPT ![r].job = j, ![r].saw = "pending", ![r].pc = "acquire"]
        PROVE  JobType' /\ RunType'
    <3>1. j \in Jobs
      BY <1>m, ConstantsAssumption DEF NewIds, ConstantsAssumption
    <3>2. JobType'
      BY <1>m, <1>s, <2>2, <3>1 DEF JobType, JobRow, FreshRow
    <3>3. RunType'
      BY <1>9, <1>p, <1>s, <2>2, <3>1, TakeType DEF Create, At
    <3> QED BY <3>2, <3>3
  <2> QED BY <1>9, <2>1, <2>2 DEF Create, LockType, OpsType
<1>10. CASE AcquireLock(r)
  <2>1. RunType'
    BY <1>10, <1>p, GotoType, LeaveType DEF AcquireLock
  <2>2. LockType'
    <3>1. [owner |-> Mine(r), live |-> TRUE] \in [owner: Jobs \cup {NoJob}, live: BOOLEAN]
      BY <1>m
    <3> QED BY <1>10, <3>1 DEF AcquireLock, LockType
  <2> QED BY <1>10, <2>1, <2>2 DEF AcquireLock, JobType, OpsType
<1>11. CASE StartAccepted(r)
  <2>1. StartStatus(r) \in JobStatus
    BY <1>11, UpdatedStatus DEF StartAccepted
  <2>2. RunType'
    BY <1>11, <1>p, <2>1, SawType DEF StartAccepted
  <2>3. JobType'
    BY <1>11, <1>s, <2>1 DEF StartAccepted, SetJob, JobType, JobRow
  <2> QED BY <1>11, <2>2, <2>3 DEF StartAccepted, LockType, OpsType
<1>12. CASE StartRefused(r)
  <2>1. RunType'
    BY <1>12, LeaveType DEF StartRefused
  <2>2. LockType'
    BY <1>12, ReleaseType DEF StartRefused, LockType
  <2> QED BY <1>12, <2>1, <2>2 DEF StartRefused, JobType, OpsType
<1> QED
  BY <1>1, <1>2, <1>3, <1>4, <1>5, <1>6, <1>7, <1>8, <1>9, <1>10, <1>11, <1>12
     DEF PrepareStep

\* Every step of a process that runs or finishes its job keeps the types.
LEMMA RunTypeInv ==
  ASSUME TypeInv, NEW r \in Runners, RunStep(r)
  PROVE  TypeInv'
<1> USE DEF TypeInv
<1>p. MovePc = {"idle", "read_lock", "select", "load", "check_lock", "supersede", "retry",
                "resume", "update", "create", "acquire", "start", "prepared", "running",
                "finalize", "conclude", "fail", "interrupted", "release_first", "release"}
  BY DEF MovePc, RunPc, PreparePc, HoldingPc
<1>s. {"pending", "discovering", "failed", "ready", "partial_ready"} \subseteq JobStatus
      /\ {"running", "complete", "failed", "interrupted"} \subseteq ExecutionState
  BY DEF JobStatus, ActiveStatus, RunningStatus, TerminalStatus, RetryableStatus,
         ExecutionState
<1>u. \A t : UpdateAllowed(Mine(r), t) => t \in JobStatus
  BY UpdatedStatus
<1>1. CASE Advance(r)
  <2> DEFINE t == NextRunning[run[r].saw]
  <2>1. CASE UpdateAllowed(Mine(r), t)
    <3>1. t \in JobStatus
      BY <2>1, <1>u
    <3>2. RunType'
      <4>1. run' = [run EXCEPT ![r].saw = t]
        BY <1>1, <2>1 DEF Advance
      <4>2. "fail" \in MovePc
        BY <1>p
      <4> HIDE DEF t
      <4> QED BY <3>1, <4>1, <4>2, SawType
    <3>3. JobType'
      BY <1>1, <1>s, <2>1, <3>1 DEF Advance, SetJob, JobType, JobRow
    <3> QED BY <1>1, <3>2, <3>3 DEF Advance, LockType, OpsType
  <2>2. CASE ~UpdateAllowed(Mine(r), t)
    BY <1>1, <1>p, <2>2, GotoType DEF Advance, JobType, LockType, OpsType
  <2> QED BY <2>1, <2>2
<1>2. CASE BeginTask(r)
  <2>1. RunType'
    <3>1. CASE Goto(r, "apply")
      BY <1>2, <3>1 DEF BeginTask, At, Goto, RunType, RunState, RunPc, HoldingPc
    <3>2. CASE Goto(r, "fail")
      BY <3>2, <1>p, GotoType
    <3> QED BY <1>2, <3>1, <3>2 DEF BeginTask
  <2>2. JobType'
    BY <1>2, <1>s DEF BeginTask, JobType, JobRow
  <2> QED BY <1>2, <2>1, <2>2 DEF BeginTask, LockType, OpsType
<1>3. CASE BeginPublish(r)
  <2>1. RunType'
    BY <1>3 DEF BeginPublish, Goto, RunType, RunState, RunPc, HoldingPc
  <2> QED BY <1>3, <2>1 DEF BeginPublish, JobType, LockType, OpsType
<1>4. CASE Commit(r)
  <2>1. RunType'
    <3>1. run[r] \in RunState /\ run[r].left \in 0..MaxBatches /\ run[r].left > 0
      BY <1>4 DEF Commit, At, RunType, RunState
    <3>2. run[r].left - 1 \in 0..MaxBatches
      BY <3>1, ConstantsAssumption DEF ConstantsAssumption
    <3>3. [run[r] EXCEPT !.pc = "running", !.left = run[r].left - 1] \in RunState
      BY <3>1, <3>2 DEF RunState, RunPc, HoldingPc
    <3> QED BY <1>4, <3>1, <3>3 DEF Commit, RunType
  <2> QED BY <1>4, <2>1 DEF Commit, JobType, LockType, OpsType
<1>5. CASE RunReturns(r)
  <2>1. RunType'
    <3>1. CASE Status(Mine(r)) \in ActiveStatus
      <4>1. Status(Mine(r)) \in JobStatus
        BY <3>1 DEF JobStatus
      <4> DEFINE l == IF Status(Mine(r)) = "reporting" THEN "conclude" ELSE "finalize"
      <4>2. run' = [run EXCEPT ![r].saw = Status(Mine(r)), ![r].pc = l]
            BY <1>5, <3>1 DEF RunReturns
      <4>3. l \in MovePc
        BY <1>p
      <4> HIDE DEF l
      <4> QED BY <4>1, <4>2, <4>3, SawType
    <3>2. CASE Status(Mine(r)) \notin ActiveStatus
      BY <1>5, <1>p, <3>2, GotoType DEF RunReturns
    <3> QED BY <3>1, <3>2
  <2> QED BY <1>5, <2>1 DEF RunReturns, JobType, LockType, OpsType
<1>6. CASE FinalizeStep(r)
  <2> DEFINE t == NextRunning[run[r].saw]
  <2>1. CASE UpdateAllowed(Mine(r), t)
    <3>1. t \in JobStatus
      BY <2>1, <1>u
    <3>2. RunType'
      <4> DEFINE l == IF t = "reporting" THEN "conclude" ELSE "finalize"
      <4>1. run' = [run EXCEPT ![r].saw = t, ![r].pc = l]
        BY <1>6, <2>1 DEF FinalizeStep
      <4>2. l \in MovePc
        BY <1>p
      <4> HIDE DEF t, l
      <4> QED BY <3>1, <4>1, <4>2, SawType
    <3>3. JobType'
      BY <1>6, <2>1, <3>1 DEF FinalizeStep, JobType, JobRow
    <3> QED BY <1>6, <3>2, <3>3 DEF FinalizeStep, LockType, OpsType
  <2>2. CASE ~UpdateAllowed(Mine(r), t)
    BY <1>6, <1>p, <2>2, GotoType DEF FinalizeStep, JobType, LockType, OpsType
  <2> QED BY <2>1, <2>2
<1>7. CASE Conclude(r)
  <2>1. RunType'
    BY <1>7, <1>p, GotoType DEF Conclude
  <2>2. JobType'
    BY <1>7, <1>s DEF Conclude, SetJob, JobType, JobRow
  <2> QED BY <1>7, <2>1, <2>2 DEF Conclude, LockType, OpsType
<1>8. CASE MarkFailed(r)
  <2>1. RunType'
    BY <1>8, <1>p, GotoType DEF MarkFailed
  <2>2. JobType'
    BY <1>8, <1>s DEF MarkFailed, SetJob, JobType, JobRow
  <2> QED BY <1>8, <2>1, <2>2 DEF MarkFailed, LockType, OpsType
<1>9. CASE ReleaseFirst(r)
  BY <1>9, <1>p, GotoType, ReleaseType DEF ReleaseFirst, JobType, OpsType
<1>10. CASE Release(r)
  BY <1>10, LeaveType, ReleaseType DEF Release, JobType, OpsType
<1>11. CASE EnterRun(r)
  <2>1. RunType'
    <3>1. CASE Goto(r, "running") \/ Goto(r, "fail")
      BY <3>1, <1>p, GotoType
    <3>2. CASE /\ Status(Mine(r)) \in ActiveStatus
               /\ run' = [run EXCEPT ![r].pc = "running", ![r].saw = Status(Mine(r))]
      <4>1. Status(Mine(r)) \in JobStatus
        BY <3>2 DEF JobStatus
      <4> QED BY <1>p, <3>2, <4>1, SawType
    <3> QED BY <1>11, <3>1, <3>2 DEF EnterRun
  <2> QED BY <1>11, <2>1 DEF EnterRun, JobType, LockType, OpsType
<1>12. CASE ReportRefused(r)
  BY <1>12, <1>p, GotoType DEF ReportRefused, JobType, LockType, OpsType
<1>13. CASE CheckCancel(r)
  <2>1. RunType'
    <3>1. CASE Goto(r, "begin")
      BY <1>13, <3>1 DEF CheckCancel, Goto, RunType, RunState, RunPc, HoldingPc
    <3>2. CASE Goto(r, "fail")
      BY <3>2, <1>p, GotoType
    <3> QED BY <1>13, <3>1, <3>2 DEF CheckCancel
  <2> QED BY <1>13, <2>1 DEF CheckCancel, JobType, LockType, OpsType
<1> QED
  BY <1>1, <1>2, <1>3, <1>4, <1>5, <1>6, <1>7, <1>8, <1>9, <1>10, <1>11, <1>12, <1>13
     DEF RunStep

\* What a fault does: the process is gone, with or without the lock, or goes
\* to the clause that catches the fault.
LEMMA FaultFacts ==
  ASSUME NEW r \in Runners, FaultStep(r)
  PROVE  /\ UNCHANGED <<job, ops>>
         /\ UNCHANGED lock \/ (/\ ReleaseLock(Mine(r)) /\ Leave(r)
                               /\ run[r].pc \in {"start", "prepared"})
         /\ \/ Leave(r)
            \/ run[r].pc \in TryPc /\ (Goto(r, "fail") \/ Goto(r, "interrupted"))
            \/ run[r].pc \in {"finalize", "conclude", "fail", "release_first"} /\ Goto(r, "release")
            \/ run[r].pc = "interrupted" /\ Goto(r, "release_first")
<1>1. CASE PreparationRaises(r) \/ LockKept(r) \/ Crash(r)
  BY <1>1 DEF PreparationRaises, LockKept, Crash
<1>2. CASE StartRaises(r)
  BY <1>2 DEF StartRaises, At
<1>3. CASE RunRaises(r) \/ Interrupt(r)
  BY <1>3 DEF RunRaises, Interrupt
<1>4. CASE OutcomeLost(r) \/ ReleaseFirstRaises(r)
  BY <1>4 DEF OutcomeLost, ReleaseFirstRaises, At
<1> QED BY <1>1, <1>2, <1>3, <1>4 DEF FaultStep

\* An invocation, a heartbeat or a fault keeps the types.
LEMMA OtherTypeInv ==
  ASSUME TypeInv, NEW r \in Runners,
         Invoke(r) \/ Heartbeat(r) \/ FaultStep(r) \/ LeaseExpires
  PROVE  TypeInv'
<1> USE DEF TypeInv
<1>1. CASE Invoke(r)
  <2>1. PICK p \in Policies, s \in Signatures, n \in NamedJobs \cup {NoJob} :
          run' = [run EXCEPT ![r] =
            [IdleRun EXCEPT !.policy = p, !.plan = s, !.named = n, !.pc = FirstPc(p)]]
    BY <1>1 DEF Invoke
  <2> DEFINE q == [IdleRun EXCEPT !.policy = p, !.plan = s, !.named = n, !.pc = FirstPc(p)]
  <2>2. q \in RunState /\ q.pc \notin {"begin", "apply"}
    <3>1. p \in PolicyKinds /\ 0 \in 0..MaxBatches /\ "pending" \in JobStatus
      BY ConstantsAssumption DEF ConstantsAssumption, JobStatus, ActiveStatus
    <3>2. FirstPc(p) \in {"read_lock", "load", "create"}
      BY DEF FirstPc
    <3> QED BY <3>1, <3>2 DEF IdleRun, RunState, RunPc, PreparePc
  <2> HIDE DEF q
  <2>3. RunType'
    BY <2>1, <2>2 DEF RunType, q
  <2> QED BY <1>1, <2>3 DEF Invoke, JobType, LockType, OpsType
<1>2. CASE Heartbeat(r)
  <2>1. JobType'
    BY <1>2 DEF Heartbeat, JobType, JobRow, ExecutionState
  <2>2. LockType'
    BY <1>2 DEF Heartbeat, LockType
  <2> QED BY <1>2, <2>1, <2>2 DEF Heartbeat, RunType, OpsType
<1>3. CASE FaultStep(r)
  <2>1. RunType'
    <3>1. {"fail", "interrupted", "release_first", "release"} \subseteq MovePc
      BY DEF MovePc, RunPc, HoldingPc
    <3> QED BY <1>3, <3>1, FaultFacts, GotoType, LeaveType
  <2>2. LockType'
    BY <1>3, FaultFacts, ReleaseType DEF LockType
  <2> QED BY <1>3, <2>1, <2>2, FaultFacts DEF JobType, OpsType
<1>4. CASE LeaseExpires
  BY <1>4 DEF LeaseExpires, JobType, LockType, RunType, OpsType
<1> QED BY <1>1, <1>2, <1>3, <1>4

\* The steps of the MCP server keep the types.
LEMMA OpsTypeInv ==
  ASSUME TypeInv, OpsStep \/ OpsRequest
  PROVE  TypeInv'
<1> USE DEF TypeInv
<1>o. \A j \in Jobs \cup {NoJob}, l \in {"idle", "create", "retry", "resume", "schedule", "release"} :
        OpsGoto(l, j) => OpsType'
  BY DEF OpsGoto, OpsType, OpsState
<1>m. ops.job \in Jobs \cup {NoJob}
  BY DEF OpsType, OpsState
<1>s. {"pending", "failed"} \subseteq JobStatus /\ {"running", "scheduled"} \subseteq ExecutionState
  BY DEF JobStatus, ActiveStatus, TerminalStatus, RetryableStatus, ExecutionState
<1>1. CASE OpsStart
  BY <1>1, <1>o DEF OpsStart, JobType, LockType, RunType
<1>2. CASE OpsCreate
  <2>1. JobType'
    <3>1. ASSUME NEW j \in Jobs, job' = [job EXCEPT ![j] = FreshRow("scheduled", OpsSignature)]
          PROVE  JobType'
      BY <1>s, <3>1 DEF FreshRow, JobType, JobRow
    <3> QED BY <1>2, <3>1 DEF OpsCreate, JobType
  <2> QED BY <1>2, <1>o, <2>1 DEF OpsCreate, OpsDone, LockType, RunType
<1>3. CASE OpsResumeRequest
  BY <1>3, <1>o DEF OpsResumeRequest, JobType, LockType, RunType
<1>4. CASE OpsRetry
  <2>1. JobType'
    BY <1>4, <1>s DEF OpsRetry, JobType, JobRow
  <2>2. OpsType'
    BY <1>4, <1>m, <1>o DEF OpsRetry, OpsDone
  <2> QED BY <1>4, <2>1, <2>2 DEF OpsRetry, LockType, RunType
<1>5. CASE OpsResume
  <2>1. JobType'
    BY <1>5, <1>s DEF OpsResume, JobType, JobRow
  <2> QED BY <1>5, <1>m, <1>o, <2>1 DEF OpsResume, LockType, RunType
<1>6. CASE OpsSchedule
  <2>1. JobType'
    BY <1>6, <1>s DEF OpsSchedule, JobType, JobRow
  <2> QED BY <1>6, <1>o, <2>1 DEF OpsSchedule, OpsDone, LockType, RunType
<1>7. CASE OpsCancel
  <2>1. PICK j \in Jobs : job' = [job EXCEPT ![j].status = "failed", ![j].cancelled = TRUE]
    BY <1>7 DEF OpsCancel
  <2>2. JobType'
    BY <1>s, <2>1, RowWrite DEF JobType
  <2> QED BY <1>7, <1>o, <2>2 DEF OpsCancel, LockType, RunType
<1>8. CASE OpsRelease
  <2>1. LockType'
    BY <1>8, ReleaseType DEF OpsRelease
  <2> QED BY <1>8, <1>o, <2>1 DEF OpsRelease, OpsDone, JobType, RunType
<1> QED
  BY <1>1, <1>2, <1>3, <1>4, <1>5, <1>6, <1>7, <1>8 DEF OpsStep, OpsRequest

LEMMA NextTypeInv == TypeInv /\ [Next]_vars => TypeInv'
<1> SUFFICES ASSUME TypeInv, [Next]_vars PROVE TypeInv'
  OBVIOUS
<1>1. CASE UNCHANGED vars
  BY <1>1 DEF vars, TypeInv, JobType, LockType, RunType, OpsType
<1>2. ASSUME NEW r \in Runners,
             Invoke(r) \/ PrepareStep(r) \/ RunStep(r) \/ Heartbeat(r) \/ FaultStep(r)
      PROVE  TypeInv'
  BY <1>2, PrepareTypeInv, RunTypeInv, OtherTypeInv
<1>3. CASE LeaseExpires
  BY <1>3 DEF LeaseExpires, TypeInv, JobType, LockType, RunType, OpsType
<1>4. CASE OpsStep \/ OpsRequest
  BY <1>4, OpsTypeInv
<1> QED BY <1>1, <1>2, <1>3, <1>4 DEF Next

-----------------------------------------------------------------------------
(* Steps of one process.                                                   *)

\* Another process is not moved by a step of r.
Others(r) == \A s \in Runners \ {r} : run'[s] = run[s]

\* What moving on and leaving do to the state of the processes.
LEMMA MoveFacts ==
  ASSUME RunType, NEW r \in Runners
  PROVE  /\ \A l : Goto(r, l) =>
              Others(r) /\ run'[r].pc = l /\ run'[r].job = run[r].job
         /\ Leave(r) => Others(r) /\ run'[r].pc = "idle"
BY DEF RunType, RunState, Goto, Leave, IdleRun, Others

StepOf(r) == Invoke(r) \/ PrepareStep(r) \/ RunStep(r) \/ Heartbeat(r) \/ FaultStep(r)

\* A step of a run goes on with its job under its policy, or is the last one.
LEMMA RunFacts ==
  ASSUME RunType, NEW r \in Runners, RunStep(r)
  PROVE  /\ Others(r) /\ UNCHANGED ops /\ UNCHANGED behind
         /\ run[r].pc \in HoldingPc \ {"start"}
         /\ \/ Release(r)
            \/ /\ run'[r].pc \in HoldingPc \ {"start", "prepared"}
               /\ run'[r].job = run[r].job /\ run'[r].policy = run[r].policy
               /\ UNCHANGED lock \/ ReleaseLock(Mine(r))
<1>g. \A l : Goto(r, l) => /\ Others(r) /\ run'[r].pc = l
                           /\ run'[r].job = run[r].job /\ run'[r].policy = run[r].policy
  BY DEF RunType, RunState, Goto, Others
<1>1. CASE EnterRun(r) \/ Advance(r) \/ ReportRefused(r) \/ CheckCancel(r) \/ BeginTask(r)
  BY <1>g, <1>1
     DEF EnterRun, Advance, ReportRefused, CheckCancel, BeginTask, RunType, RunState, Others,
         At, HoldingPc
<1>2. CASE BeginPublish(r) \/ Commit(r)
  BY <1>g, <1>2 DEF BeginPublish, Commit, RunType, RunState, Others, At, HoldingPc
<1>3. CASE RunReturns(r) \/ FinalizeStep(r)
  BY <1>g, <1>3 DEF RunReturns, FinalizeStep, RunType, RunState, Others, At, HoldingPc
<1>4. CASE Conclude(r) \/ MarkFailed(r) \/ ReleaseFirst(r)
  BY <1>g, <1>4 DEF Conclude, MarkFailed, ReleaseFirst, At, HoldingPc
<1>5. CASE Release(r)
  BY <1>5, MoveFacts DEF Release, At, HoldingPc
<1> QED BY <1>1, <1>2, <1>3, <1>4, <1>5 DEF RunStep

\* A step of a process changes the state of no other.
LEMMA OthersStay ==
  ASSUME TypeInv, NEW r \in Runners, StepOf(r)
  PROVE  Others(r)
<1>m. RunType
  BY DEF TypeInv
<1>1. CASE Invoke(r)
  BY <1>m, <1>1 DEF Invoke, RunType, Others
<1>2. CASE PrepareStep(r)
  <2>1. CASE ReadLock(r) \/ SelectJob(r) \/ LoadJob(r) \/ CheckLock(r)
    BY <1>m, <2>1, MoveFacts DEF ReadLock, SelectJob, LoadJob, CheckLock, RunType, Others
  <2>2. CASE Supersede(r) \/ Retry(r) \/ Resume(r) \/ UpdateMetadata(r)
    BY <1>m, <2>2, MoveFacts DEF Supersede, Retry, Resume, UpdateMetadata, RunType, Others
  <2>3. CASE Create(r) \/ AcquireLock(r) \/ StartAccepted(r) \/ StartRefused(r)
    BY <1>m, <2>3, MoveFacts
       DEF Create, AcquireLock, StartAccepted, StartRefused, RunType, Others
  <2> QED BY <1>2, <2>1, <2>2, <2>3 DEF PrepareStep
<1>3. CASE RunStep(r)
  BY <1>m, <1>3, RunFacts
<1>4. CASE Heartbeat(r)
  BY <1>m, <1>4 DEF Heartbeat, Others
<1>5. CASE FaultStep(r)
  BY <1>m, <1>5, FaultFacts, MoveFacts
<1> QED BY <1>1, <1>2, <1>3, <1>4, <1>5 DEF StepOf

\* Where a process has a job.
JobPc == HoldingPc \cup {"check_lock", "supersede", "retry", "resume", "update", "acquire"}
OwnsJob == \A r \in Runners : run[r].pc \in JobPc => Mine(r) \in Jobs

\* A process comes by its job once, and keeps it until it leaves or starts anew.
LEMMA OwnsJobStep ==
  ASSUME TypeInv, OwnsJob, NEW r \in Runners, StepOf(r)
  PROVE  OwnsJob'
<1>m. RunType
  BY DEF TypeInv
<1>o. Others(r)
  BY OthersStay
<1>l. Leave(r) => run'[r].pc \notin JobPc
  BY <1>m, MoveFacts DEF JobPc, HoldingPc
<1>j. \/ run'[r].pc \notin JobPc
      \/ run'[r].job \in Jobs
      \/ run[r].pc \in JobPc /\ run'[r].job = run[r].job
  <2>1. CASE Invoke(r)
    <3>1. PICK p \in Policies, s \in Signatures, n \in NamedJobs \cup {NoJob} :
            run' = [run EXCEPT ![r] =
              [IdleRun EXCEPT !.policy = p, !.plan = s, !.named = n, !.pc = FirstPc(p)]]
      BY <2>1 DEF Invoke
    <3>2. run'[r].pc = FirstPc(p)
      BY <1>m, <3>1 DEF RunType, IdleRun
    <3> QED BY <3>2 DEF FirstPc, JobPc, HoldingPc
  <2>2. CASE ReadLock(r)
    <3>1. \A b : run' = [run EXCEPT ![r].pc = "select", ![r].blocked = b] => run'[r].pc = "select"
      BY <1>m DEF RunType, RunState
    <3> QED BY <2>2, <3>1 DEF ReadLock, JobPc, HoldingPc
  <2>t. ASSUME NEW j \in Jobs, NEW s, NEW l,
               run' = [run EXCEPT ![r].job = j, ![r].saw = s, ![r].pc = l]
        PROVE  run'[r].job \in Jobs
    BY <1>m, <2>t DEF RunType, RunState
  <2>3. CASE SelectJob(r)
    <3>1. CASE \E j \in Jobs : \E l : run' = [run EXCEPT ![r].job = j, ![r].saw = Status(j),
                                                        ![r].pc = l]
      BY <2>t, <3>1
    <3>2. CASE Goto(r, "create") \/ Leave(r)
      BY <1>m, <1>l, <3>2, MoveFacts DEF JobPc, HoldingPc
    <3> QED BY <2>3, <3>1, <3>2 DEF SelectJob, Matching
  <2>4. CASE LoadJob(r)
    BY <1>l, <2>t, <2>4 DEF LoadJob
  <2>5. CASE CheckLock(r) \/ Retry(r) \/ Resume(r) \/ AcquireLock(r)
    BY <1>m, <1>l, <2>5, MoveFacts DEF CheckLock, Retry, Resume, AcquireLock, At, JobPc
  <2>6. CASE Supersede(r)
    BY <1>m, <1>l, <2>6 DEF Supersede, RunType, RunState, JobPc, HoldingPc
  <2>7. CASE UpdateMetadata(r) \/ StartAccepted(r)
    BY <1>m, <1>l, <2>7
       DEF UpdateMetadata, StartAccepted, At, RunType, RunState, JobPc, HoldingPc
  <2>8. CASE Create(r)
    <3>1. NewIds(r) \subseteq Jobs
      BY <1>m, ConstantsAssumption DEF ConstantsAssumption, NewIds, RunType, RunState
    <3>2. CASE \E j \in NewIds(r) :
                 run' = [run EXCEPT ![r].job = j, ![r].saw = "pending", ![r].pc = "acquire"]
      BY <2>t, <3>1, <3>2
    <3> QED BY <1>l, <2>8, <3>2 DEF Create
  <2>9. CASE StartRefused(r) \/ Release(r)
    BY <1>l, <2>9 DEF StartRefused, Release
  <2>10. CASE RunStep(r)
    BY <1>m, <2>9, <2>10, RunFacts DEF JobPc
  <2>11. CASE Heartbeat(r)
    BY <2>11 DEF Heartbeat
  <2>12. CASE FaultStep(r)
    <3>1. TryPc \subseteq HoldingPc
      BY DEF TryPc, HoldingPc
    <3>2. {"finalize", "conclude", "fail", "release_first", "interrupted"} \subseteq HoldingPc
      BY DEF HoldingPc
    <3> QED BY <1>m, <1>l, <2>12, <3>1, <3>2, FaultFacts, MoveFacts DEF JobPc
  <2> QED
    BY <2>1, <2>2, <2>3, <2>4, <2>5, <2>6, <2>7, <2>8, <2>9, <2>10, <2>11, <2>12
       DEF StepOf, PrepareStep
<1> QED BY <1>o, <1>j DEF OwnsJob, Others, Mine

BehindType == behind \in Behind

\* What processes leave behind is the lock, or the row of a job they had.
LEMMA BehindStep ==
  ASSUME OwnsJob, BehindType, NEW r \in Runners, StepOf(r)
  PROVE  BehindType'
<1>k. ASSUME run[r].pc \in HoldingPc, KeepsLock(r) \/ KeepsRow(r) \/ KeepsBoth(r)
      PROVE  BehindType'
  <2>1. Mine(r) \in Jobs
    BY <1>k DEF OwnsJob, JobPc
  <2> DEFINE b == behind.lock \/ lock.owner = Mine(r)
             s == behind.rows \cup {Mine(r)}
  <2>2. behind \in Behind /\ b \in BOOLEAN /\ s \in SUBSET Jobs
    BY <2>1 DEF BehindType, Behind
  <2>3. \/ behind' = [behind EXCEPT !.lock = b]
        \/ behind' = [behind EXCEPT !.rows = s]
        \/ behind' = [lock |-> b, rows |-> s]
    BY <1>k DEF KeepsLock, KeepsRow, KeepsBoth
  <2> HIDE DEF b, s
  <2> QED BY <2>2, <2>3 DEF BehindType, Behind
<1>u. behind' = behind => BehindType'
  BY DEF BehindType
<1>1. CASE Invoke(r) \/ Heartbeat(r)
  BY <1>u, <1>1 DEF Invoke, Heartbeat
<1>2. CASE PrepareStep(r)
  <2>1. CASE AcquireLock(r) \/ StartAccepted(r)
    BY <2>1 DEF AcquireLock, StartAccepted, BehindType, Behind
  <2>2. CASE StartRefused(r)
    BY <1>k, <1>u, <2>2 DEF StartRefused, At, HoldingPc
  <2> QED
    BY <1>u, <1>2, <2>1, <2>2
       DEF PrepareStep, ReadLock, SelectJob, LoadJob, CheckLock, Supersede, Retry, Resume,
           UpdateMetadata, Create
<1>3. CASE RunStep(r)
  BY <1>u, <1>3
     DEF RunStep, EnterRun, Advance, ReportRefused, CheckCancel, BeginTask, BeginPublish, Commit,
         RunReturns, FinalizeStep, Conclude, MarkFailed, ReleaseFirst, Release
<1>4. CASE FaultStep(r)
  <2>1. CASE PreparationRaises(r) \/ RunRaises(r) \/ Interrupt(r) \/ ReleaseFirstRaises(r)
    BY <1>u, <2>1 DEF PreparationRaises, RunRaises, Interrupt, ReleaseFirstRaises
  <2>2. CASE StartRaises(r) \/ LockKept(r) \/ OutcomeLost(r) \/ Crash(r)
    BY <1>k, <1>u, <2>2 DEF StartRaises, LockKept, OutcomeLost, Crash, At, HoldingPc
  <2> QED BY <1>4, <2>1, <2>2 DEF FaultStep
<1> QED BY <1>1, <1>2, <1>3, <1>4 DEF StepOf

\* The whole invariant of types.
AllTypes == TypeInv /\ OwnsJob /\ BehindType

LEMMA InitAllTypes == Init => AllTypes
BY InitTypeInv DEF Init, AllTypes, OwnsJob, BehindType, Behind, IdleRun, JobPc, HoldingPc

LEMMA NextAllTypes == AllTypes /\ [Next]_vars => AllTypes'
<1> SUFFICES ASSUME AllTypes, [Next]_vars PROVE AllTypes'
  OBVIOUS
<1>t. TypeInv /\ TypeInv'
  BY NextTypeInv DEF AllTypes
<1>1. ASSUME NEW r \in Runners, StepOf(r)
      PROVE  OwnsJob' /\ BehindType'
  BY <1>t, <1>1, OwnsJobStep, BehindStep DEF AllTypes
<1>2. CASE LeaseExpires \/ OpsStep \/ OpsRequest \/ UNCHANGED vars
  <2>1. run' = run /\ behind' = behind
    BY <1>2 DEF LeaseExpires, vars, OpsStep, OpsRequest, OpsStart, OpsCreate, OpsResumeRequest,
                OpsRetry, OpsResume, OpsSchedule, OpsCancel, OpsRelease
  <2> QED BY <1>t, <2>1 DEF AllTypes, OwnsJob, BehindType, Mine
<1> QED BY <1>t, <1>1, <1>2 DEF AllTypes, Next, StepOf

\* Type correctness of the job store, the lock, every process and the history.
THEOREM TypeCorrect == Spec => []TypeOK
<1>1. AllTypes => TypeOK
  BY DEF AllTypes, TypeInv, TypeOK, JobType, LockType, RunType, OpsType, BehindType
<1> QED BY InitAllTypes, NextAllTypes, <1>1, PTL DEF Spec

-----------------------------------------------------------------------------
(* A finished job stays finished, as long as ids are fresh: create_job is  *)
(* an upsert, and an id given with --job-id may be that of a ready job.    *)
(* Every other write checks the status it finds in its own transaction.    *)

LEMMA ReadyStep ==
  ASSUME NamedJobs = {}, TypeInv, [Next]_vars, NEW j \in Jobs, Status(j) = "ready"
  PROVE  Status(j)' = "ready"
<1> USE DEF Status
<1>t. job \in [Jobs -> JobRow]
  BY DEF TypeInv, JobType
<1>a. "ready" \notin ActiveStatus /\ "ready" \notin RetryableStatus
  BY DEF ActiveStatus, RunningStatus, RetryableStatus
<1>u. \A t : ~UpdateAllowed(j, t) /\ ~TransitionAllowed(j, t)
  BY <1>a DEF UpdateAllowed, TransitionAllowed, Transitions
<1>1. CASE UNCHANGED job
  BY <1>1
<1>2. ASSUME NEW r \in Runners, PrepareStep(r), job' # job
      PROVE  Status(j)' = "ready"
  <2>1. CASE Supersede(r)
    BY <1>t, <1>2, <2>1 DEF Supersede, SetJob, JobRow
  <2>2. CASE Retry(r)
    BY <1>t, <1>a, <2>2 DEF Retry, JobRow
  <2>3. CASE Resume(r)
    BY <1>t, <2>3 DEF Resume, JobRow
  <2>4. CASE UpdateMetadata(r)
    BY <1>t, <2>4 DEF UpdateMetadata, JobRow
  <2>5. CASE Create(r)
    <3>1. run[r].named = NoJob
      BY <1>2 DEF TypeInv, RunType, RunState
    <3>2. \A k \in NewIds(r) : k # j
      BY <3>1 DEF NewIds
    <3> QED BY <1>t, <1>2, <2>5, <3>2 DEF Create
  <2>6. CASE StartAccepted(r)
    BY <1>t, <1>u, <1>2, <2>6 DEF StartAccepted, SetJob
  <2> QED
    BY <1>2, <2>1, <2>2, <2>3, <2>4, <2>5, <2>6
       DEF PrepareStep, ReadLock, SelectJob, LoadJob, CheckLock, AcquireLock, StartRefused
<1>3. ASSUME NEW r \in Runners, RunStep(r), job' # job
      PROVE  Status(j)' = "ready"
  <2>1. CASE Advance(r)
    BY <1>t, <1>u, <1>3, <2>1 DEF Advance, SetJob
  <2>2. CASE BeginTask(r)
    BY <1>t, <2>2 DEF BeginTask, JobRow
  <2>3. CASE FinalizeStep(r)
    BY <1>t, <1>u, <1>3, <2>3 DEF FinalizeStep
  <2>4. CASE Conclude(r)
    <3>1. PICK t \in {"ready", "partial_ready"} :
            IF TransitionAllowed(Mine(r), t) THEN SetJob(Mine(r), t, "complete")
                                             ELSE UNCHANGED job
      BY <2>4 DEF Conclude
    <3>2. SetJob(Mine(r), t, "complete") /\ Mine(r) # j
      BY <1>u, <1>3, <3>1
    <3> QED BY <1>t, <3>2 DEF SetJob
  <2>5. CASE MarkFailed(r)
    <3>1. Mine(r) # j
      BY <1>a, <1>3, <2>5 DEF MarkFailed
    <3> QED BY <1>t, <1>3, <2>5, <3>1 DEF MarkFailed, SetJob
  <2> QED
    BY <1>3, <2>1, <2>2, <2>3, <2>4, <2>5
       DEF RunStep, EnterRun, ReportRefused, CheckCancel, BeginPublish, Commit, RunReturns,
           ReleaseFirst, Release
<1>4. ASSUME NEW r \in Runners, Heartbeat(r)
      PROVE  Status(j)' = "ready"
  BY <1>t, <1>4 DEF Heartbeat, JobRow
<1>5. ASSUME OpsStep \/ OpsRequest, job' # job
      PROVE  Status(j)' = "ready"
  <2>1. CASE OpsCreate
    BY <1>t, <1>5, <2>1 DEF OpsCreate
  <2>2. CASE OpsRetry
    BY <1>t, <1>a, <2>2 DEF OpsRetry, JobRow
  <2>3. CASE OpsResume
    BY <1>t, <2>3 DEF OpsResume, JobRow
  <2>4. CASE OpsSchedule
    BY <1>t, <2>4 DEF OpsSchedule, JobRow
  <2>5. CASE OpsCancel
    BY <1>t, <1>a, <2>5 DEF OpsCancel
  <2> QED
    BY <1>5, <2>1, <2>2, <2>3, <2>4, <2>5
       DEF OpsStep, OpsRequest, OpsStart, OpsResumeRequest, OpsRelease
<1>6. ASSUME NEW r \in Runners, Invoke(r) \/ FaultStep(r)
      PROVE  UNCHANGED job
  BY <1>6, FaultFacts DEF Invoke
<1> QED
  BY <1>1, <1>2, <1>3, <1>4, <1>5, <1>6 DEF Next, vars, LeaseExpires

\* A finished job is never reopened, by any interleaving of CLI processes,
\* faults and MCP requests.
THEOREM ReadyStaysReady == NamedJobs = {} => (Spec => ReadyIsFinal)
<1> SUFFICES ASSUME NamedJobs = {} PROVE Spec => ReadyIsFinal
  OBVIOUS
<1>1. TypeInv /\ [Next]_vars
        => [\A j \in Jobs : Status(j) = "ready" => Status(j)' = "ready"]_vars
  BY ReadyStep
<1> QED
  BY InitTypeInv, NextTypeInv, <1>1, PTL DEF Spec, ReadyIsFinal

-----------------------------------------------------------------------------
(* The single writer.  It is a property of the lock only as long as every  *)
(* run has a job of its own, no lease expires under a live run and nobody  *)
(* releases the lock of somebody else: --resume off and --full, no         *)
(* --job-id, no MCP requests.                                              *)

FreshRuns ==
  /\ Policies \subseteq {"disabled", "full"}
  /\ NamedJobs = {}
  /\ OpsRequests = {}
  /\ "expiry" \notin Faults

HasJobPc == HoldingPc \cup {"acquire"}

FreshPc == /\ ops.pc = "idle"
           /\ \A r \in Runners : run[r].pc \in {"idle", "create"} \cup HasJobPc
LiveLock == lock.owner # NoJob => lock.live
OwnJob   == \A r \in Runners : run[r].pc \in HasJobPc =>
              Mine(r) \in Jobs /\ Status(Mine(r)) # "absent"
Distinct == \A r, s \in Runners :
              run[r].pc \in HasJobPc /\ run[s].pc \in HasJobPc /\ Mine(r) = Mine(s) => r = s
Held     == \A r \in Runners :
              run[r].pc \in HoldingPc /\ ~At(r, "release") => lock.owner = Mine(r)

FreshInv == TypeInv /\ FreshPc /\ LiveLock /\ OwnJob /\ Distinct /\ Held

LEMMA InitFreshInv == Init => FreshInv
BY InitTypeInv
   DEF Init, FreshInv, FreshPc, LiveLock, OwnJob, Distinct, Held, IdleRun, NoLock,
       HasJobPc, HoldingPc

\* Rows that exist go on existing.
RowsStay == \A j \in Jobs : Status(j) # "absent" => Status(j)' # "absent"

LEMMA RowsStayLemma ==
  ASSUME TypeInv, NEW k,
         \/ UNCHANGED job
         \/ \E t \in JobStatus : \E e : SetJob(k, t, e)
         \/ \E t \in JobStatus : job' = [job EXCEPT ![k].status = t]
         \/ \E e : job' = [job EXCEPT ![k].exec = e]
         \/ \E e, c : job' = [job EXCEPT ![k] = FreshRow(e, c)]
  PROVE  RowsStay
BY DEF RowsStay, TypeInv, JobType, JobRow, Status, SetJob, FreshRow, JobStatus,
       ActiveStatus, RunningStatus, TerminalStatus, RetryableStatus

LEMMA FreshCreate ==
  ASSUME FreshRuns, FreshInv, TypeInv', NEW r \in Runners, Create(r), ~Leave(r)
  PROVE  FreshInv'
<1>1. PICK j \in Jobs : /\ Status(j) = "absent"
                        /\ job' = [job EXCEPT ![j] = FreshRow("running",
                             IF run[r].policy = "full" THEN NoSignature ELSE run[r].plan)]
                        /\ run' = [run EXCEPT ![r].job = j, ![r].saw = "pending",
                                            ![r].pc = "acquire"]
  <2>1. run[r].named = NoJob
    BY DEF FreshRuns, FreshInv, TypeInv, RunType, RunState
  <2> QED BY <2>1 DEF Create, NewIds
<1>2. RowsStay
  BY <1>1, RowsStayLemma DEF FreshInv
<1>3. Status(j)' = "pending"
  BY <1>1 DEF FreshInv, TypeInv, JobType, Status, FreshRow
<1>4. Others(r) /\ run'[r].pc = "acquire" /\ run'[r].job = j /\ UNCHANGED <<lock, ops>>
  BY <1>1 DEF Create, FreshInv, TypeInv, RunType, RunState, Others
<1>5. \A s \in Runners \ {r} : run[s].pc \in HasJobPc => Mine(s) # j
  BY <1>1 DEF FreshInv, OwnJob
<1>6. FreshPc' /\ LiveLock'
  BY <1>4 DEF FreshInv, FreshPc, LiveLock, HasJobPc, Others
<1>7. OwnJob'
  BY <1>2, <1>3, <1>4 DEF FreshInv, OwnJob, Mine, Others, RowsStay
<1>8. Distinct'
  BY <1>4, <1>5 DEF FreshInv, Distinct, Mine, Others
<1>9. Held'
  BY <1>4 DEF FreshInv, Held, HoldingPc, Mine, At, Others
<1> QED BY <1>6, <1>7, <1>8, <1>9 DEF FreshInv

LEMMA FreshAcquire ==
  ASSUME FreshRuns, FreshInv, TypeInv', NEW r \in Runners, AcquireLock(r), ~Leave(r)
  PROVE  FreshInv'
<1>1. /\ run[r].pc = "acquire"
      /\ ~LockLive \/ lock.owner = Mine(r)
      /\ lock' = [owner |-> Mine(r), live |-> TRUE]
      /\ run' = [run EXCEPT ![r].pc = "start"]
      /\ UNCHANGED <<job, ops>>
  BY DEF AcquireLock, At, Goto
<1>2. Others(r) /\ run'[r].pc = "start" /\ run'[r].job = run[r].job
  BY <1>1 DEF FreshInv, TypeInv, RunType, RunState, Others
<1>3. \A s \in Runners \ {r} : run[s].pc \in HoldingPc => At(s, "release")
  BY <1>1, ConstantsAssumption
     DEF ConstantsAssumption, FreshInv, LiveLock, LockLive, Held, Distinct, OwnJob, HasJobPc
<1>4. FreshPc' /\ LiveLock'
  BY <1>1, <1>2 DEF FreshInv, FreshPc, LiveLock, HasJobPc, HoldingPc, Others
<1>5. OwnJob' /\ Distinct'
  BY <1>1, <1>2 DEF FreshInv, OwnJob, Distinct, HasJobPc, HoldingPc, Mine, Others, Status
<1>6. Held'
  BY <1>1, <1>2, <1>3 DEF Held, Mine, At, Others
<1> QED BY <1>4, <1>5, <1>6 DEF FreshInv

\* A process that goes on working on its job keeps what it holds.
LEMMA FreshOnward ==
  ASSUME FreshInv, TypeInv', NEW r \in Runners, Others(r), RowsStay, UNCHANGED ops,
         run[r].pc \in HoldingPc, ~At(r, "release"),
         run'[r].pc \in HoldingPc, run'[r].job = run[r].job,
         \/ UNCHANGED lock
         \/ lock' = [lock EXCEPT !.live = TRUE]
         \/ ReleaseLock(Mine(r)) /\ run'[r].pc = "release"
  PROVE  FreshInv'
<1>1. FreshPc'
  BY DEF FreshInv, FreshPc, HasJobPc, Others
<1>2. LiveLock'
  BY DEF FreshInv, TypeInv, LockType, LiveLock, ReleaseLock, NoLock
<1>3. OwnJob' /\ Distinct'
  BY DEF FreshInv, OwnJob, Distinct, HasJobPc, Mine, Others, RowsStay
<1>4. Held'
  <2>1. \A s \in Runners \ {r} : run[s].pc \in HoldingPc => Mine(s) # Mine(r)
    BY DEF FreshInv, Distinct, HasJobPc
  <2> QED BY <2>1 DEF FreshInv, TypeInv, LockType, Held, Mine, At, Others, ReleaseLock
<1> QED BY <1>1, <1>2, <1>3, <1>4 DEF FreshInv

\* A process that is over, or that starts anew, leaves the others theirs.
LEMMA FreshOver ==
  ASSUME FreshInv, TypeInv', NEW r \in Runners, Others(r), UNCHANGED <<job, ops>>,
         run'[r].pc \in {"idle", "create"},
         UNCHANGED lock \/ (ReleaseLock(Mine(r)) /\ run[r].pc \in HasJobPc)
  PROVE  FreshInv'
<1>1. FreshPc'
  BY DEF FreshInv, FreshPc, Others
<1>2. LiveLock'
  BY DEF FreshInv, LiveLock, ReleaseLock, NoLock
<1>p. run'[r].pc \notin HasJobPc /\ run'[r].pc \notin HoldingPc
  BY DEF HasJobPc, HoldingPc
<1>3. OwnJob' /\ Distinct'
  BY <1>p DEF FreshInv, OwnJob, Distinct, Mine, Others, Status
<1>4. Held'
  <2>1. run[r].pc \in HasJobPc =>
          \A s \in Runners \ {r} : run[s].pc \in HoldingPc => Mine(s) # Mine(r)
    BY DEF FreshInv, Distinct, HasJobPc
  <2> QED BY <1>p, <2>1 DEF FreshInv, Held, Mine, At, Others, ReleaseLock
<1> QED BY <1>1, <1>2, <1>3, <1>4 DEF FreshInv

\* Preparing: under FreshRuns only Create, AcquireLock and the two starts.
LEMMA FreshPrepare ==
  ASSUME FreshRuns, FreshInv, TypeInv', NEW r \in Runners, PrepareStep(r)
  PROVE  FreshInv'
<1>m. RunType
  BY DEF FreshInv, TypeInv
<1>1. CASE Create(r)
  <2>1. CASE Leave(r)
    <3>1. UNCHANGED <<job, lock, ops>>
      <4>1. run'[r].pc = "idle"
        BY <1>m, <2>1, MoveFacts
      <4>2. \A j : run' = [run EXCEPT ![r].job = j, ![r].saw = "pending", ![r].pc = "acquire"]
                     => run'[r].pc = "acquire"
        BY <1>m DEF RunType, RunState
      <4> QED BY <1>1, <4>1, <4>2 DEF Create
    <3> QED BY <1>m, <2>1, <3>1, MoveFacts, FreshOver
  <2> QED BY <1>1, <2>1, FreshCreate
<1>2. CASE AcquireLock(r)
  <2>1. CASE Leave(r)
    <3>1. run'[r].pc = "idle"
      BY <1>m, <2>1, MoveFacts
    <3>2. UNCHANGED <<job, lock, ops>>
      BY <1>m, <1>2, <3>1, MoveFacts DEF AcquireLock
    <3> QED BY <1>m, <2>1, <3>2, MoveFacts, FreshOver
  <2> QED BY <1>2, <2>1, FreshAcquire
<1>3. CASE StartAccepted(r)
  <2>1. RowsStay
    BY <1>3, UpdatedStatus, RowsStayLemma DEF StartAccepted, FreshInv
  <2>2. Others(r) /\ run'[r].pc = "prepared" /\ run'[r].job = run[r].job
    BY <1>3, <1>m DEF StartAccepted, RunType, RunState, Others
  <2> QED BY <1>3, <2>1, <2>2, FreshOnward DEF StartAccepted, At, HoldingPc
<1>5. CASE StartRefused(r)
  <2>1. run[r].pc \in HasJobPc
    BY <1>5 DEF StartRefused, At, HoldingPc, HasJobPc
  <2> QED BY <1>5, <1>m, <2>1, MoveFacts, FreshOver DEF StartRefused
<1>4. ASSUME ReadLock(r) \/ SelectJob(r) \/ LoadJob(r) \/ CheckLock(r) \/ Supersede(r)
             \/ Retry(r) \/ Resume(r) \/ UpdateMetadata(r)
      PROVE  FALSE
  BY <1>4 DEF ReadLock, SelectJob, LoadJob, CheckLock, Supersede, Retry, Resume,
              UpdateMetadata, At, FreshInv, FreshPc, HasJobPc, HoldingPc
<1> QED BY <1>1, <1>2, <1>3, <1>4, <1>5 DEF PrepareStep

\* Running and finishing.
LEMMA FreshRun ==
  ASSUME FreshInv, TypeInv', NEW r \in Runners, RunStep(r)
  PROVE  FreshInv'
<1>m. RunType /\ TypeInv
  BY DEF FreshInv, TypeInv
<1>u. UNCHANGED job => RowsStay
  BY <1>m, RowsStayLemma
<1>1. CASE Advance(r)
  <2>1. RowsStay
    BY <1>m, <1>u, <1>1, RowsStayLemma, UpdatedStatus DEF Advance
  <2>2. Others(r) /\ run'[r].pc \in {"running", "begin", "fail"} /\ run'[r].job = run[r].job
    BY <1>m, <1>1, MoveFacts DEF Advance, RunType, RunState, Others
  <2> QED BY <1>1, <2>1, <2>2, FreshOnward DEF Advance, At, HoldingPc
<1>2. CASE BeginTask(r)
  <2>1. RowsStay
    BY <1>m, <1>u, <1>2, RowsStayLemma DEF BeginTask
  <2> QED BY <1>m, <1>2, <2>1, MoveFacts, FreshOnward DEF BeginTask, At, HoldingPc
<1>3. CASE BeginPublish(r)
  BY <1>m, <1>u, <1>3, MoveFacts, FreshOnward DEF BeginPublish, At, HoldingPc
<1>4. CASE Commit(r)
  <2>1. Others(r) /\ run'[r].pc = "running" /\ run'[r].job = run[r].job
    BY <1>m, <1>4 DEF Commit, RunType, RunState, Others
  <2> QED BY <1>u, <1>4, <2>1, FreshOnward DEF Commit, At, HoldingPc
<1>5. CASE RunReturns(r)
  <2>1. Others(r) /\ run'[r].pc \in {"conclude", "finalize", "release"}
        /\ run'[r].job = run[r].job
    BY <1>m, <1>5, MoveFacts DEF RunReturns, RunType, RunState, Others
  <2> QED BY <1>u, <1>5, <2>1, FreshOnward DEF RunReturns, At, HoldingPc
<1>6. CASE FinalizeStep(r)
  <2>1. RowsStay
    BY <1>m, <1>u, <1>6, RowsStayLemma, UpdatedStatus DEF FinalizeStep
  <2>2. Others(r) /\ run'[r].pc \in {"conclude", "finalize", "release"}
        /\ run'[r].job = run[r].job
    BY <1>m, <1>6, MoveFacts DEF FinalizeStep, RunType, RunState, Others
  <2> QED BY <1>6, <2>1, <2>2, FreshOnward DEF FinalizeStep, At, HoldingPc
<1>7. CASE Conclude(r)
  <2>1. RowsStay
    <3>1. {"ready", "partial_ready"} \subseteq JobStatus
      BY DEF JobStatus, TerminalStatus, RetryableStatus
    <3> QED BY <1>m, <1>u, <1>7, <3>1, RowsStayLemma DEF Conclude
  <2> QED BY <1>m, <1>7, <2>1, MoveFacts, FreshOnward DEF Conclude, At, HoldingPc
<1>8. CASE MarkFailed(r)
  <2>1. RowsStay
    <3>1. "failed" \in JobStatus
      BY DEF JobStatus, TerminalStatus, RetryableStatus
    <3> QED BY <1>m, <1>u, <1>8, <3>1, RowsStayLemma DEF MarkFailed
  <2>2. Others(r) /\ run'[r].pc \in {"release", "release_first"} /\ run'[r].job = run[r].job
    BY <1>m, <1>8, MoveFacts DEF MarkFailed
  <2> QED BY <1>8, <2>1, <2>2, FreshOnward DEF MarkFailed, At, HoldingPc
<1>9. CASE ReleaseFirst(r)
  BY <1>m, <1>u, <1>9, MoveFacts, FreshOnward DEF ReleaseFirst, At, HoldingPc
<1>10. CASE Release(r)
  BY <1>m, <1>10, MoveFacts, FreshOver DEF Release, At, HoldingPc, HasJobPc
<1>11. CASE EnterRun(r)
  <2>1. Others(r) /\ run'[r].pc \in {"running", "fail"} /\ run'[r].job = run[r].job
    BY <1>m, <1>11, MoveFacts DEF EnterRun, RunType, RunState, Others
  <2> QED BY <1>u, <1>11, <2>1, FreshOnward DEF EnterRun, At, HoldingPc
<1>12. CASE ReportRefused(r) \/ CheckCancel(r)
  <2>1. Others(r) /\ run'[r].pc \in {"begin", "fail"} /\ run'[r].job = run[r].job
    BY <1>m, <1>12, MoveFacts DEF ReportRefused, CheckCancel
  <2> QED BY <1>u, <1>12, <2>1, FreshOnward DEF ReportRefused, CheckCancel, At, HoldingPc
<1> QED
  BY <1>1, <1>2, <1>3, <1>4, <1>5, <1>6, <1>7, <1>8, <1>9, <1>10, <1>11, <1>12 DEF RunStep

LEMMA NextFreshInv == FreshRuns /\ FreshInv /\ [Next]_vars => FreshInv'
<1> SUFFICES ASSUME FreshRuns, FreshInv, [Next]_vars PROVE FreshInv'
  OBVIOUS
<1>t. TypeInv'
  BY NextTypeInv DEF FreshInv
<1>m. RunType /\ TypeInv
  BY DEF FreshInv, TypeInv
<1>u. UNCHANGED job => RowsStay
  BY <1>m, RowsStayLemma
<1>1. CASE UNCHANGED vars
  BY <1>t, <1>1
     DEF vars, FreshInv, FreshPc, LiveLock, OwnJob, Distinct, Held, Mine, At, Status
<1>2. ASSUME NEW r \in Runners, Invoke(r)
      PROVE  FreshInv'
  <2>1. PICK p \in Policies, s \in Signatures, n \in NamedJobs \cup {NoJob} :
          run' = [run EXCEPT ![r] =
            [IdleRun EXCEPT !.policy = p, !.plan = s, !.named = n, !.pc = FirstPc(p)]]
    BY <1>2 DEF Invoke
  <2>2. FirstPc(p) = "create"
    BY DEF FirstPc, FreshRuns
  <2>3. Others(r) /\ run'[r].pc = "create"
    BY <1>m, <2>1, <2>2 DEF RunType, IdleRun, Others
  <2> QED BY <1>2, <1>t, <2>3, FreshOver DEF Invoke
<1>3. ASSUME NEW r \in Runners, PrepareStep(r)
      PROVE  FreshInv'
  BY <1>t, <1>3, FreshPrepare
<1>4. ASSUME NEW r \in Runners, RunStep(r)
      PROVE  FreshInv'
  BY <1>t, <1>4, FreshRun
<1>5. ASSUME NEW r \in Runners, Heartbeat(r)
      PROVE  FreshInv'
  <2>1. RowsStay
    BY <1>m, <1>5, RowsStayLemma DEF Heartbeat
  <2>2. Others(r) /\ run'[r].pc = run[r].pc /\ run'[r].job = run[r].job
    BY <1>5 DEF Heartbeat, Others
  <2>3. run[r].pc \in HoldingPc /\ ~At(r, "release")
    BY <1>5 DEF Heartbeat, TryPc, HoldingPc, At
  <2> QED BY <1>t, <1>5, <2>1, <2>2, <2>3, FreshOnward DEF Heartbeat
<1>6. ASSUME NEW r \in Runners, FaultStep(r)
      PROVE  FreshInv'
  <2>1. CASE Leave(r)
    <3>1. UNCHANGED lock \/ (ReleaseLock(Mine(r)) /\ run[r].pc \in HasJobPc)
      BY <1>6, FaultFacts DEF HasJobPc, HoldingPc
    <3> QED BY <1>t, <1>m, <1>6, <2>1, <3>1, FaultFacts, MoveFacts, FreshOver
  <2>2. CASE ~Leave(r)
    <3>1. Others(r) /\ run'[r].job = run[r].job /\ UNCHANGED <<job, lock, ops>>
      BY <1>m, <1>6, <2>2, FaultFacts, MoveFacts
    <3>2. run[r].pc \in HoldingPc /\ ~At(r, "release") /\ run'[r].pc \in HoldingPc
      BY <1>m, <1>6, <2>2, FaultFacts, MoveFacts DEF TryPc, HoldingPc, At
    <3> QED BY <1>t, <1>u, <3>1, <3>2, FreshOnward
  <2> QED BY <2>1, <2>2
<1>7. ASSUME LeaseExpires \/ OpsStep \/ OpsRequest
      PROVE  FALSE
  BY <1>7 DEF FreshRuns, FreshInv, FreshPc, LeaseExpires, OpsStep, OpsRequest, OpsStart,
              OpsCreate, OpsRetry, OpsResume, OpsSchedule, OpsRelease, OpsResumeRequest,
              OpsCancel
<1> QED BY <1>1, <1>2, <1>3, <1>4, <1>5, <1>6, <1>7 DEF Next

\* The invariant is what the two safety properties need.
LEMMA FreshInvImplies == FreshInv => SingleWriter /\ WriterOwnsLock
<1> SUFFICES ASSUME FreshInv PROVE SingleWriter /\ WriterOwnsLock
  OBVIOUS
<1>1. \A r \in Writers : r \in Runners /\ run[r].pc \in HasJobPc /\ lock.owner = Mine(r)
  BY DEF Writers, At, FreshInv, Held, HoldingPc, HasJobPc
<1> QED BY <1>1 DEF FreshInv, Distinct, SingleWriter, WriterOwnsLock

\* With a job for every run, the overlay has one writer at a time, and it is
\* the owner of the lock.
THEOREM OneWriter == FreshRuns => (Spec => [](SingleWriter /\ WriterOwnsLock))
<1> SUFFICES ASSUME FreshRuns PROVE Spec => [](SingleWriter /\ WriterOwnsLock)
  OBVIOUS
<1>1. FreshInv /\ [Next]_vars => FreshInv'
  BY NextFreshInv
<1> QED BY InitFreshInv, <1>1, FreshInvImplies, PTL DEF Spec

-----------------------------------------------------------------------------
(* Refinement: under FreshRuns the job store and the CLI implement the     *)
(* abstract lease of WriteLease.                                           *)

LeaseStep == [Lease!Next]_<<Holders, Writers>>

\* A step of r under an unchanged owner maps to Begin, End, Release or to a
\* stutter, unless r starts to hold the lease by it.
LEMMA LeaseMove ==
  ASSUME FreshInv, FreshInv', NEW r \in Runners, Others(r),
         lock'.owner = lock.owner, r \in Holders' => r \in Holders
  PROVE  LeaseStep
<1>1. \A s \in Runners \ {r} : /\ s \in Holders' <=> s \in Holders
                               /\ s \in Writers' <=> s \in Writers
  BY DEF Others, Holders, Writers, Mine, At
<1>2. Holders \subseteq Runners /\ Writers \subseteq Holders
      /\ Holders' \subseteq Runners /\ Writers' \subseteq Holders'
  BY DEF FreshInv, Held, Holders, Writers, At, HoldingPc
<1>3. CASE r \notin Holders'
  <2>1. Holders' = Holders \ {r} /\ Writers' = Writers \ {r}
    BY <1>1, <1>2, <1>3
  <2>2. r \in Holders => Lease!Release(r)
    BY <2>1 DEF Lease!Release
  <2>3. r \notin Holders => UNCHANGED <<Holders, Writers>>
    BY <1>2, <2>1
  <2> QED BY <2>2, <2>3 DEF LeaseStep, Lease!Next
<1>4. CASE r \in Holders' /\ r \in Writers'
  <2>1. Holders' = Holders /\ Writers' = Writers \cup {r}
    BY <1>1, <1>2, <1>4
  <2>2. Lease!Begin(r)
    BY <1>4, <2>1 DEF Lease!Begin
  <2> QED BY <2>2 DEF LeaseStep, Lease!Next
<1>5. CASE r \in Holders' /\ r \notin Writers'
  <2>1. Holders' = Holders /\ Writers' = Writers \ {r}
    BY <1>1, <1>2, <1>5
  <2>2. r \in Writers => Lease!End(r)
    BY <2>1 DEF Lease!End
  <2>3. r \notin Writers => UNCHANGED <<Holders, Writers>>
    BY <2>1
  <2> QED BY <2>2, <2>3 DEF LeaseStep, Lease!Next
<1> QED BY <1>3, <1>4, <1>5

\* Giving the lock back is a Release, or a stutter when it was not r's.
LEMMA LeaseRelease ==
  ASSUME FreshInv, FreshInv', NEW r \in Runners, Others(r), ReleaseLock(Mine(r)),
         run[r].pc \in HoldingPc, run'[r].pc \notin HoldingPc \/ run'[r].job = run[r].job,
         ~At(r, "apply"), run'[r].pc # "apply"
  PROVE  LeaseStep
<1>1. CASE lock.owner = Mine(r)
  <2>1. r \in Holders /\ \A s \in Holders : s = r
    BY <1>1 DEF Holders, FreshInv, Distinct, HasJobPc
  <2>2. Holders' = {}
    <3>1. lock'.owner = NoJob
      BY <1>1 DEF ReleaseLock, NoLock
    <3> QED BY <3>1, ConstantsAssumption
            DEF ConstantsAssumption, FreshInv, OwnJob, HasJobPc, Holders, Mine
  <2>3. Writers = {} /\ Writers' = {}
    <3>1. \A s \in Writers : s \in Holders
      BY DEF FreshInv, Held, Holders, Writers, At, HoldingPc
    <3>2. Writers = {}
      BY <2>1, <3>1 DEF Writers
    <3> QED BY <3>2 DEF Writers, At, Others
  <2>4. Lease!Release(r)
    BY <2>1, <2>2, <2>3 DEF Lease!Release
  <2> QED BY <2>4 DEF LeaseStep, Lease!Next
<1>2. CASE lock.owner # Mine(r)
  <2>1. lock' = lock
    BY <1>2 DEF ReleaseLock
  <2>2. r \notin Holders'
    BY <1>2, <2>1 DEF Holders, Mine
  <2> QED BY <2>1, <2>2, LeaseMove
<1> QED BY <1>1, <1>2

\* Taking the lock is an Acquire.
LEMMA LeaseAcquire ==
  ASSUME FreshInv, FreshInv', NEW r \in Runners, AcquireLock(r), ~Leave(r)
  PROVE  LeaseStep
<1>1. /\ run[r].pc = "acquire"
      /\ ~LockLive \/ lock.owner = Mine(r)
      /\ lock' = [owner |-> Mine(r), live |-> TRUE]
      /\ run' = [run EXCEPT ![r].pc = "start"]
  BY DEF AcquireLock, At, Goto
<1>2. Others(r) /\ run'[r].pc = "start" /\ run'[r].job = run[r].job
  BY <1>1 DEF FreshInv, TypeInv, RunType, RunState, Others
<1>3. Holders = {}
  <2>1. r \notin Holders
    BY <1>1 DEF Holders, HoldingPc
  <2>2. \A s \in Holders : Mine(s) # NoJob /\ Mine(s) # Mine(r)
    BY <1>1, <2>1, ConstantsAssumption
       DEF ConstantsAssumption, Holders, FreshInv, OwnJob, Distinct, HasJobPc
  <2> QED BY <1>1, <2>2 DEF Holders, LockLive, FreshInv, LiveLock
<1>4. Holders' = {r}
  <2>1. r \in Holders'
    BY <1>1, <1>2 DEF Holders, HoldingPc, Mine
  <2>2. \A s \in Runners \ {r} : run'[s].pc \in HoldingPc => run'[s].job # run'[r].job
    <3>1. run'[r].pc \in HasJobPc
      BY <1>2 DEF HasJobPc, HoldingPc
    <3>2. \A s \in Runners : run'[s].pc \in HoldingPc => run'[s].pc \in HasJobPc
      BY DEF HasJobPc
    <3>3. Distinct'
      BY DEF FreshInv
    <3> QED BY <3>1, <3>2, <3>3 DEF Distinct, Mine
  <2> QED BY <1>1, <1>2, <2>1, <2>2 DEF Holders, Mine
<1>5. Writers' = Writers
  BY <1>1, <1>2 DEF Writers, At, Others
<1>6. Lease!Acquire(r)
  BY <1>3, <1>4, <1>5 DEF Lease!Acquire
<1> QED BY <1>6 DEF LeaseStep, Lease!Next

LEMMA NextLease == FreshRuns /\ FreshInv /\ FreshInv' /\ [Next]_vars => LeaseStep
<1> SUFFICES ASSUME FreshRuns, FreshInv, FreshInv', [Next]_vars PROVE LeaseStep
  OBVIOUS
<1>m. RunType
  BY DEF FreshInv, TypeInv
<1>1. CASE UNCHANGED vars
  BY <1>1 DEF vars, LeaseStep, Holders, Writers, Mine, At
<1>2. ASSUME NEW r \in Runners, Invoke(r) \/ Create(r)
      PROVE  LeaseStep
  <2>1. Others(r) /\ lock' = lock
    BY <1>m, <1>2 DEF Invoke, Create, Leave, Others, RunType
  <2>2. run'[r].pc \notin HoldingPc
    <3>1. CASE Invoke(r)
      <4>1. PICK p \in Policies, s \in Signatures, n \in NamedJobs \cup {NoJob} :
              run' = [run EXCEPT ![r] =
                [IdleRun EXCEPT !.policy = p, !.plan = s, !.named = n, !.pc = FirstPc(p)]]
        BY <3>1 DEF Invoke
      <4>2. FirstPc(p) = "create"
        BY DEF FirstPc, FreshRuns
      <4> QED BY <1>m, <4>1, <4>2 DEF RunType, IdleRun, HoldingPc
    <3>3. CASE Create(r)
      <4>1. Leave(r) => run'[r].pc = "idle"
        BY <1>m, MoveFacts
      <4>2. \A j : run' = [run EXCEPT ![r].job = j, ![r].saw = "pending", ![r].pc = "acquire"]
                     => run'[r].pc = "acquire"
        BY <1>m DEF RunType, RunState
      <4> QED BY <3>3, <4>1, <4>2 DEF Create, HoldingPc
    <3> QED BY <1>2, <3>1, <3>3
  <2> QED BY <2>1, <2>2, LeaseMove DEF Holders
<1>3. ASSUME NEW r \in Runners, AcquireLock(r)
      PROVE  LeaseStep
  <2>1. CASE Leave(r)
    <3>1. Others(r) /\ run'[r].pc = "idle"
      BY <1>m, <2>1, MoveFacts
    <3>2. lock' = lock
      BY <1>m, <1>3, <3>1, MoveFacts DEF AcquireLock
    <3> QED BY <3>1, <3>2, LeaseMove DEF Holders, HoldingPc
  <2> QED BY <1>3, <2>1, LeaseAcquire
<1>4. ASSUME NEW r \in Runners, StartAccepted(r)
      PROVE  LeaseStep
  <2>1. Others(r) /\ run'[r].job = run[r].job /\ lock' = lock /\ run[r].pc = "start"
    BY <1>4, <1>m DEF StartAccepted, RunType, RunState, Others, At
  <2> QED BY <2>1, LeaseMove DEF Holders, Mine, HoldingPc
<1>f. ASSUME NEW r \in Runners, Leave(r),
             UNCHANGED lock \/ (ReleaseLock(Mine(r)) /\ run[r].pc \in {"start", "prepared"})
      PROVE  LeaseStep
  <2>1. Others(r) /\ run'[r].pc = "idle"
    BY <1>m, <1>f, MoveFacts
  <2>2. CASE lock' = lock
    BY <2>1, <2>2, LeaseMove DEF Holders, HoldingPc
  <2>3. CASE ReleaseLock(Mine(r)) /\ run[r].pc \in {"start", "prepared"}
    BY <2>1, <2>3, LeaseRelease DEF HoldingPc, At
  <2> QED BY <1>f, <2>2, <2>3
<1>l. ASSUME NEW r \in Runners, StartRefused(r)
      PROVE  LeaseStep
  BY <1>l, <1>f DEF StartRefused, At
<1>5. ASSUME NEW r \in Runners, ReadLock(r) \/ SelectJob(r) \/ LoadJob(r) \/ CheckLock(r)
               \/ Supersede(r) \/ Retry(r) \/ Resume(r) \/ UpdateMetadata(r)
      PROVE  FALSE
  BY <1>5 DEF ReadLock, SelectJob, LoadJob, CheckLock, Supersede, Retry, Resume,
              UpdateMetadata, At, FreshInv, FreshPc, HasJobPc, HoldingPc
<1>6. ASSUME NEW r \in Runners, RunStep(r), ~ReleaseFirst(r), ~Release(r)
      PROVE  LeaseStep
  <2>1. lock' = lock
    BY <1>6 DEF RunStep, EnterRun, Advance, ReportRefused, CheckCancel, BeginTask, BeginPublish,
                Commit, RunReturns, FinalizeStep, Conclude, MarkFailed
  <2> QED BY <1>m, <1>6, <2>1, RunFacts, LeaseMove DEF Holders, Mine
<1>10. ASSUME NEW r \in Runners, FaultStep(r)
       PROVE  LeaseStep
  <2>1. CASE Leave(r) /\ ~UNCHANGED lock
    BY <1>10, <1>f, <2>1, FaultFacts DEF At
  <2>2. CASE Leave(r) /\ UNCHANGED lock
    <3>1. Others(r) /\ run'[r].pc = "idle"
      BY <1>m, <2>2, MoveFacts
    <3> QED BY <2>2, <3>1, LeaseMove DEF Holders, HoldingPc
  <2>3. CASE ~Leave(r)
    <3>1. Others(r) /\ run'[r].job = run[r].job /\ UNCHANGED lock
      BY <1>m, <1>10, <2>3, FaultFacts, MoveFacts
    <3>2. run[r].pc \in HoldingPc
      BY <1>10, <2>3, FaultFacts DEF TryPc, HoldingPc
    <3> QED BY <3>1, <3>2, LeaseMove DEF Holders, Mine
  <2> QED BY <2>1, <2>2, <2>3
<1>7. ASSUME NEW r \in Runners, ReleaseFirst(r) \/ Release(r)
      PROVE  LeaseStep
  BY <1>m, <1>7, MoveFacts, LeaseRelease DEF ReleaseFirst, Release, At, HoldingPc
<1>8. ASSUME NEW r \in Runners, Heartbeat(r)
      PROVE  LeaseStep
  <2>1. run' = run /\ lock'.owner = lock.owner
    BY <1>8 DEF Heartbeat, FreshInv, TypeInv, LockType
  <2> QED BY <2>1, LeaseMove DEF Others, Holders, Mine
<1>9. ASSUME LeaseExpires \/ OpsStep \/ OpsRequest
      PROVE  FALSE
  BY <1>9 DEF FreshRuns, FreshInv, FreshPc, LeaseExpires, OpsStep, OpsRequest, OpsStart,
              OpsCreate, OpsRetry, OpsResume, OpsSchedule, OpsRelease, OpsResumeRequest,
              OpsCancel
<1> QED
  BY <1>1, <1>2, <1>3, <1>4, <1>l, <1>5, <1>6, <1>7, <1>8, <1>9, <1>10
     DEF Next, PrepareStep

LEMMA InitLease == Init => Lease!Init
BY DEF Init, Lease!Init, Holders, Writers, IdleRun, At, HoldingPc

\* With a job for every run, the job store and the CLI implement WriteLease.
THEOREM ImplementsLease == FreshRuns => (Spec => RefinesWriteLease)
<1> SUFFICES ASSUME FreshRuns PROVE Spec => RefinesWriteLease
  OBVIOUS
<1>1. FreshInv /\ [Next]_vars => FreshInv'
  BY NextFreshInv
<1>2. FreshInv /\ FreshInv' /\ [Next]_vars => [Lease!Next]_<<Holders, Writers>>
  BY NextLease DEF LeaseStep
<1> QED
  BY InitFreshInv, InitLease, <1>1, <1>2, PTL DEF Spec, RefinesWriteLease, Lease!Spec

-----------------------------------------------------------------------------
(* The lock.  A process that took it goes on until it gives it back, or    *)
(* leaves it behind by a crash or by one of the exits without a clause.    *)

\* What the three ways of leaving something behind write.
LEMMA KeepsFacts ==
  ASSUME BehindType, NEW r
  PROVE  /\ KeepsLock(r) => /\ behind'.lock <=> behind.lock \/ lock.owner = Mine(r)
                            /\ behind'.rows = behind.rows
         /\ KeepsRow(r)  => /\ behind'.lock = behind.lock
                            /\ behind'.rows = behind.rows \cup {Mine(r)}
         /\ KeepsBoth(r) => /\ behind'.lock <=> behind.lock \/ lock.owner = Mine(r)
                            /\ behind'.rows = behind.rows \cup {Mine(r)}
<1> DEFINE b == behind.lock \/ lock.owner = Mine(r)
           s == behind.rows \cup {Mine(r)}
<1>1. behind \in [lock: BOOLEAN, rows: SUBSET Jobs]
  BY DEF BehindType, Behind
<1>2. /\ KeepsLock(r) => behind' = [behind EXCEPT !.lock = b]
      /\ KeepsRow(r)  => behind' = [behind EXCEPT !.rows = s]
      /\ KeepsBoth(r) => behind' = [lock |-> b, rows |-> s]
  BY DEF KeepsLock, KeepsRow, KeepsBoth
<1> HIDE DEF b, s
<1>3. /\ KeepsLock(r) => behind'.lock = b /\ behind'.rows = behind.rows
      /\ KeepsRow(r)  => behind'.lock = behind.lock /\ behind'.rows = s
      /\ KeepsBoth(r) => behind'.lock = b /\ behind'.rows = s
  BY <1>1, <1>2
<1> QED BY <1>3 DEF b, s

\* What is left behind stays there, and a process that a fault takes away
\* leaves behind what it neither gave back nor finished.
LEMMA FaultBehind ==
  ASSUME RunType, BehindType, NEW r \in Runners, FaultStep(r)
  PROVE  /\ behind.lock => behind'.lock
         /\ behind.rows \subseteq behind'.rows
         /\ Leave(r) /\ run[r].pc \in HoldingPc /\ lock.owner = Mine(r) =>
              behind'.lock \/ ReleaseLock(Mine(r))
         /\ Leave(r) /\ run[r].pc \in {"prepared"} \cup TryPc => Mine(r) \in behind'.rows
         /\ run[r].pc \in {"finalize", "conclude", "fail", "interrupted"} =>
              Mine(r) \in behind'.rows
<1>g. \A l \in {"fail", "interrupted", "release", "release_first"} : Goto(r, l) => ~Leave(r)
  BY MoveFacts
<1>1. CASE PreparationRaises(r)
  BY <1>1 DEF PreparationRaises, PreparePc, HoldingPc, TryPc
<1>2. CASE StartRaises(r)
  BY <1>2, KeepsFacts DEF StartRaises, At, TryPc
<1>3. CASE LockKept(r)
  BY <1>3, KeepsFacts DEF LockKept, At, TryPc
<1>4. CASE RunRaises(r) \/ Interrupt(r)
  BY <1>g, <1>4 DEF RunRaises, Interrupt, TryPc
<1>5. CASE OutcomeLost(r)
  BY <1>g, <1>5, KeepsFacts DEF OutcomeLost
<1>6. CASE ReleaseFirstRaises(r)
  BY <1>g, <1>6 DEF ReleaseFirstRaises, At
<1>7. CASE Crash(r)
  BY <1>7, KeepsFacts DEF Crash, HoldingPc, TryPc
<1> QED BY <1>1, <1>2, <1>3, <1>4, <1>5, <1>6, <1>7 DEF FaultStep

\* What a step of r does to the lock: it is free afterwards, or left behind, or
\* its owner stays and r goes on if it held it, or r has just taken it.
LEMMA LockStep ==
  ASSUME AllTypes, NEW r \in Runners, StepOf(r)
  PROVE  \/ lock'.owner = NoJob
         \/ behind'.lock
         \/ /\ lock'.owner = lock.owner /\ (behind.lock => behind'.lock)
            /\ run[r].pc \in HoldingPc /\ lock.owner = Mine(r) =>
                 run'[r].pc \in HoldingPc /\ run'[r].job = run[r].job
         \/ /\ lock'.owner = Mine(r)
            /\ run'[r].pc \in HoldingPc /\ run'[r].job = run[r].job
<1>m. RunType /\ LockType /\ BehindType
  BY DEF AllTypes, TypeInv
<1>r. ReleaseLock(Mine(r)) =>
        lock'.owner = NoJob \/ (lock'.owner = lock.owner /\ lock.owner # Mine(r))
  BY DEF ReleaseLock, NoLock
<1>1. CASE Invoke(r)
  BY <1>1 DEF Invoke, At, HoldingPc
<1>2. CASE PrepareStep(r)
  <2>1. CASE ReadLock(r) \/ SelectJob(r) \/ LoadJob(r) \/ CheckLock(r) \/ Supersede(r)
             \/ Retry(r) \/ Resume(r) \/ UpdateMetadata(r) \/ Create(r)
    BY <2>1 DEF ReadLock, SelectJob, LoadJob, CheckLock, Supersede, Retry, Resume,
                UpdateMetadata, Create, At, HoldingPc
  <2>2. CASE AcquireLock(r)
    BY <1>m, <2>2, MoveFacts DEF AcquireLock, At, HoldingPc
  <2>3. CASE StartAccepted(r)
    BY <1>m, <2>3 DEF StartAccepted, RunType, RunState, BehindType, Behind, HoldingPc
  <2>4. CASE StartRefused(r)
    BY <1>m, <1>r, <2>4, KeepsFacts DEF StartRefused
  <2> QED BY <1>2, <2>1, <2>2, <2>3, <2>4 DEF PrepareStep
<1>3. CASE RunStep(r)
  BY <1>m, <1>r, <1>3, RunFacts DEF Release
<1>4. CASE Heartbeat(r)
  BY <1>m, <1>4 DEF Heartbeat, LockType
<1>5. CASE FaultStep(r)
  <2>1. CASE Leave(r)
    BY <1>m, <1>r, <1>5, <2>1, FaultFacts, FaultBehind
  <2>2. CASE ~Leave(r)
    <3>1. lock' = lock /\ run'[r].pc \in HoldingPc /\ run'[r].job = run[r].job
      BY <1>m, <1>5, <2>2, FaultFacts, MoveFacts DEF HoldingPc
    <3> QED BY <1>m, <1>5, <3>1, FaultBehind
  <2> QED BY <2>1, <2>2
<1> QED BY <1>1, <1>2, <1>3, <1>4, <1>5 DEF StepOf

LockInv == AllTypes /\ LockHasHolder

LEMMA NextLockInv == LockInv /\ [Next]_vars => LockInv'
<1> SUFFICES ASSUME LockInv, [Next]_vars PROVE LockInv'
  OBVIOUS
<1>t. AllTypes /\ AllTypes' /\ TypeInv
  BY NextAllTypes DEF LockInv, AllTypes
<1>1. ASSUME NEW r \in Runners, StepOf(r)
      PROVE  LockHasHolder'
  <2>1. Others(r)
    BY <1>t, <1>1, OthersStay
  <2> SUFFICES ASSUME lock'.owner # NoJob, ~behind'.lock
               PROVE  \E s \in Runners : run'[s].pc \in HoldingPc /\ run'[s].job = lock'.owner
    BY DEF LockHasHolder, RunnerOf, Mine
  <2>2. CASE lock'.owner = Mine(r) /\ run'[r].pc \in HoldingPc /\ run'[r].job = run[r].job
    BY <2>2 DEF Mine
  <2>3. CASE /\ lock'.owner = lock.owner /\ (behind.lock => behind'.lock)
             /\ run[r].pc \in HoldingPc /\ lock.owner = Mine(r) =>
                  run'[r].pc \in HoldingPc /\ run'[r].job = run[r].job
    <3>1. PICK s \in Runners : run[s].pc \in HoldingPc /\ Mine(s) = lock.owner
      BY <2>3 DEF LockInv, LockHasHolder, RunnerOf
    <3>2. CASE s = r
      BY <2>3, <3>1, <3>2 DEF Mine
    <3>3. CASE s # r
      BY <2>1, <2>3, <3>1, <3>3 DEF Others, Mine
    <3> QED BY <3>2, <3>3
  <2> QED BY <1>t, <1>1, <2>2, <2>3, LockStep
<1>2. ASSUME LeaseExpires \/ OpsStep \/ OpsRequest \/ UNCHANGED vars
      PROVE  LockHasHolder'
  <2>1. run' = run /\ behind' = behind /\ (lock'.owner = lock.owner \/ lock'.owner = NoJob)
    <3>1. CASE LeaseExpires
      BY <1>t, <3>1 DEF LeaseExpires, TypeInv, LockType
    <3>2. CASE OpsStep
      BY <3>2 DEF OpsStep, OpsCreate, OpsRetry, OpsResume, OpsSchedule, OpsRelease,
                  ReleaseLock, NoLock
    <3>3. CASE OpsRequest
      BY <3>3 DEF OpsRequest, OpsStart, OpsResumeRequest, OpsCancel
    <3>4. CASE UNCHANGED vars
      BY <3>4 DEF vars
    <3> QED BY <1>2, <3>1, <3>2, <3>3, <3>4
  <2> SUFFICES ASSUME lock'.owner # NoJob, ~behind'.lock
               PROVE  \E s \in Runners : run'[s].pc \in HoldingPc /\ run'[s].job = lock'.owner
    BY DEF LockHasHolder, RunnerOf, Mine
  <2>2. PICK s \in Runners : run[s].pc \in HoldingPc /\ Mine(s) = lock.owner
    BY <2>1 DEF LockInv, LockHasHolder, RunnerOf
  <2> QED BY <2>1, <2>2 DEF Mine
<1> QED BY <1>t, <1>1, <1>2 DEF Next, StepOf, LockInv

\* Whatever fails, is interrupted or cancelled, under every policy, and whoever
\* shares a job: a lock without a process that will release it was left by a
\* crash or by one of the exits of LockKept and StartRefused.
THEOREM LockIsHeld == Spec => []LockHasHolder
<1>1. Init => LockInv
  BY InitAllTypes DEF Init, LockInv, LockHasHolder, NoLock
<1>2. LockInv /\ [Next]_vars => LockInv'
  BY NextLockInv
<1>3. LockInv => LockHasHolder
  BY DEF LockInv
<1> QED BY <1>1, <1>2, <1>3, PTL DEF Spec

-----------------------------------------------------------------------------
(* Running jobs.  Of the processes that share a running job at least one   *)
(* is going to end it: a process that fails marks the job, and one that is *)
(* overtaken while it finishes, and therefore leaves the job alone, was    *)
(* overtaken by another one of these.  Or its row has been left behind.    *)

Responsible(r, j) ==
  /\ Mine(r) = j
  /\ run[r].pc \in {"prepared", "finalize", "conclude", "fail", "interrupted"} \cup TryPc
  /\ At(r, "finalize") => run[r].saw = Status(j) /\ Status(j) # "reporting"
  /\ At(r, "conclude") => Status(j) = "reporting"

SomebodyResponsible ==
  \A j \in Jobs : Status(j) \in RunningStatus =>
    j \in behind.rows \/ \E r \in Runners : Responsible(r, j)

\* It is enough to look at r: what it makes of the statuses, and of its duties.
LEMMA ResponsibleStep ==
  ASSUME SomebodyResponsible, NEW r \in Runners, Others(r),
         \A j \in Jobs : \/ Status(j)' = Status(j)
                         \/ Status(j)' \notin RunningStatus
                         \/ Responsible(r, j)',
         \A j \in Jobs : Status(j) \in RunningStatus /\ Responsible(r, j) =>
                           \/ Responsible(r, j)'
                           \/ Status(j)' \notin RunningStatus
                           \/ j \in behind'.rows,
         \A j \in Jobs : j \in behind.rows => j \in behind'.rows \/ Responsible(r, j)'
  PROVE  SomebodyResponsible'
<1> SUFFICES ASSUME NEW j \in Jobs, Status(j)' \in RunningStatus, ~Responsible(r, j)',
                    j \notin behind'.rows
             PROVE  \E s \in Runners : Responsible(s, j)'
  BY DEF SomebodyResponsible
<1>1. Status(j)' = Status(j) /\ j \notin behind.rows
  OBVIOUS
<1>2. PICK s \in Runners : Responsible(s, j)
  BY <1>1 DEF SomebodyResponsible
<1>3. s # r
  BY <1>1, <1>2
<1>4. run'[s] = run[s]
  BY <1>3 DEF Others
<1>5. Responsible(s, j)'
  BY <1>1, <1>2, <1>4 DEF Responsible, Mine, At
<1> QED BY <1>5

\* Writes to one row of the job table and what they leave of the statuses.
LEMMA StatusWrite ==
  ASSUME JobType, NEW k
  PROVE  /\ \A t, e : SetJob(k, t, e) \/ job' = [job EXCEPT ![k].status = t] =>
              \A j \in Jobs : Status(j)' = IF j = k THEN t ELSE Status(j)
         /\ \A e : job' = [job EXCEPT ![k].exec = e] => \A j \in Jobs : Status(j)' = Status(j)
         /\ \A e, c : job' = [job EXCEPT ![k].exec = e, ![k].sig = c] =>
              \A j \in Jobs : Status(j)' = Status(j)
         /\ \A e, c : job' = [job EXCEPT ![k] = FreshRow(e, c)] =>
              \A j \in Jobs : Status(j)' = IF j = k THEN "pending" ELSE Status(j)
         /\ \A t, c : job' = [job EXCEPT ![k].status = t, ![k].cancelled = c] =>
              \A j \in Jobs : Status(j)' = IF j = k THEN t ELSE Status(j)
BY DEF JobType, JobRow, Status, SetJob, FreshRow

\* Where the running statuses lead.
LEMMA RunningFacts ==
  /\ {"pending", "failed", "ready", "partial_ready", "absent"} \cap RunningStatus = {}
  /\ RunningStatus \subseteq ActiveStatus
  /\ ActiveStatus \ {"reporting"} = DOMAIN NextRunning
  /\ \A s \in DOMAIN NextRunning :
       NextRunning[s] \in RunningStatus /\ NextRunning[s] \in Transitions[s]
  /\ {"ready", "partial_ready"} \subseteq Transitions["reporting"]
BY DEF RunningStatus, ActiveStatus, NextRunning, Transitions

LEMMA ResponsiblePrepare ==
  ASSUME TypeInv, BehindType, SomebodyResponsible, NEW r \in Runners, Invoke(r) \/ PrepareStep(r)
  PROVE  SomebodyResponsible'
<1>m. RunType /\ JobType
  BY DEF TypeInv
<1>o. Others(r)
  BY OthersStay DEF StepOf
<1>n. \A j : ~Responsible(r, j)
  BY DEF Responsible, Invoke, PrepareStep, ReadLock, SelectJob, LoadJob, CheckLock, Supersede,
         Retry, Resume, UpdateMetadata, Create, AcquireLock, StartAccepted, StartRefused, At, TryPc
<1>b. StartAccepted(r) \/ behind'.rows = behind.rows
  <2>1. CASE AcquireLock(r)
    BY <2>1 DEF AcquireLock, BehindType, Behind
  <2>2. CASE StartRefused(r)
    BY <2>2, KeepsFacts DEF StartRefused
  <2> QED
    BY <2>1, <2>2 DEF Invoke, PrepareStep, ReadLock, SelectJob, LoadJob, CheckLock, Supersede,
                      Retry, Resume, UpdateMetadata, Create
<1>1. CASE Invoke(r) \/ ReadLock(r) \/ SelectJob(r) \/ LoadJob(r) \/ CheckLock(r)
           \/ AcquireLock(r) \/ StartRefused(r)
  <2>1. UNCHANGED job /\ behind'.rows = behind.rows
    <3>1. ~StartAccepted(r)
      BY <1>1 DEF Invoke, ReadLock, SelectJob, LoadJob, CheckLock, AcquireLock, StartRefused,
                  StartAccepted, At
    <3> QED
      BY <1>b, <1>1, <3>1 DEF Invoke, ReadLock, SelectJob, LoadJob, CheckLock, AcquireLock,
                              StartRefused
  <2> QED BY <1>o, <1>n, <2>1, ResponsibleStep DEF Status
<1>2. CASE Supersede(r)
  <2>1. \A j \in Jobs : Status(j)' \in {Status(j), "failed"}
    BY <1>m, <1>2, StatusWrite DEF Supersede, Status
  <2>2. behind'.rows = behind.rows
    BY <1>2 DEF Supersede
  <2> QED BY <1>o, <1>n, <2>1, <2>2, ResponsibleStep, RunningFacts
<1>3. CASE Retry(r) \/ Resume(r) \/ UpdateMetadata(r)
  <2>1. \A j \in Jobs : Status(j)' \in {Status(j), "pending"}
    BY <1>m, <1>3, StatusWrite DEF Retry, Resume, UpdateMetadata, Status
  <2>2. behind'.rows = behind.rows
    BY <1>3 DEF Retry, Resume, UpdateMetadata
  <2> QED BY <1>o, <1>n, <2>1, <2>2, ResponsibleStep, RunningFacts
<1>4. CASE Create(r)
  <2>1. \A j \in Jobs : Status(j)' \in {Status(j), "pending"}
    <3>1. ASSUME NEW k, NEW e, NEW c, job' = [job EXCEPT ![k] = FreshRow(e, c)]
          PROVE  \A j \in Jobs : Status(j)' \in {Status(j), "pending"}
      BY <1>m, <3>1, StatusWrite
    <3>2. UNCHANGED job => \A j \in Jobs : Status(j)' \in {Status(j), "pending"}
      BY DEF Status
    <3>3. ASSUME NEW k, job' = [job EXCEPT ![k] =
                   FreshRow("running", IF run[r].policy = "full" THEN NoSignature ELSE run[r].plan)]
          PROVE  \A j \in Jobs : Status(j)' \in {Status(j), "pending"}
      BY <3>1, <3>3
    <3> QED BY <1>4, <3>2, <3>3 DEF Create
  <2>2. behind'.rows = behind.rows
    BY <1>4 DEF Create
  <2> QED BY <1>o, <1>n, <2>1, <2>2, ResponsibleStep, RunningFacts
<1>5. CASE StartAccepted(r)
  <2>1. \A j \in Jobs : j # Mine(r) => Status(j)' = Status(j)
    BY <1>m, <1>5, StatusWrite DEF StartAccepted
  <2>2. run'[r].pc = "prepared" /\ run'[r].job = run[r].job
    BY <1>m, <1>5 DEF StartAccepted, RunType, RunState
  <2>3. \A j : Mine(r) = j => Responsible(r, j)'
    BY <2>2 DEF Responsible, Mine, At
  <2>4. behind'.rows = behind.rows \ {Mine(r)}
    BY <1>5 DEF StartAccepted, BehindType, Behind
  <2> QED BY <1>o, <1>n, <2>1, <2>3, <2>4, ResponsibleStep
<1> QED BY <1>1, <1>2, <1>3, <1>4, <1>5 DEF PrepareStep

LEMMA ResponsibleRun ==
  ASSUME TypeInv, SomebodyResponsible, NEW r \in Runners, RunStep(r)
  PROVE  SomebodyResponsible'
<1>m. RunType /\ JobType
  BY DEF TypeInv
<1>o. Others(r)
  BY OthersStay DEF StepOf
<1>b. behind' = behind
  BY <1>m, RunFacts
<1>1. CASE Advance(r)
  <2>1. run'[r].pc \in {"running", "begin", "fail"} /\ run'[r].job = run[r].job
    BY <1>m, <1>1, MoveFacts DEF Advance, RunType, RunState
  <2>2. \A j : Mine(r) = j => Responsible(r, j)'
    BY <2>1 DEF Responsible, Mine, At, TryPc
  <2>3. \A j \in Jobs : j # Mine(r) => Status(j)' = Status(j)
    BY <1>m, <1>1, StatusWrite DEF Advance, Status
  <2> QED BY <1>o, <1>b, <2>2, <2>3, ResponsibleStep DEF Responsible
<1>2. CASE EnterRun(r) \/ ReportRefused(r) \/ CheckCancel(r) \/ BeginTask(r)
           \/ BeginPublish(r) \/ Commit(r)
  <2>1. run'[r].pc \in {"running", "begin", "apply", "fail"} /\ run'[r].job = run[r].job
    BY <1>m, <1>2, MoveFacts
       DEF EnterRun, ReportRefused, CheckCancel, BeginTask, BeginPublish, Commit, RunType, RunState
  <2>2. \A j : Mine(r) = j => Responsible(r, j)'
    BY <2>1 DEF Responsible, Mine, At, TryPc
  <2>3. \A j \in Jobs : Status(j)' = Status(j)
    BY <1>m, <1>2, StatusWrite
       DEF EnterRun, ReportRefused, CheckCancel, BeginTask, BeginPublish, Commit, Status
  <2> QED BY <1>o, <1>b, <2>2, <2>3, ResponsibleStep DEF Responsible
<1>3. CASE RunReturns(r)
  <2>1. \A j \in Jobs : Status(j)' = Status(j)
    BY <1>3 DEF RunReturns, Status
  <2>2. CASE Status(Mine(r)) \in ActiveStatus
    <3>1. /\ run'[r].job = run[r].job /\ run'[r].saw = Status(Mine(r))
          /\ run'[r].pc = IF Status(Mine(r)) = "reporting" THEN "conclude" ELSE "finalize"
      BY <1>m, <1>3, <2>2 DEF RunReturns, RunType, RunState
    <3>2. \A j \in Jobs : Mine(r) = j => Responsible(r, j)'
      BY <2>1, <3>1 DEF Responsible, Mine, At
    <3> QED BY <1>o, <1>b, <2>1, <3>2, ResponsibleStep DEF Responsible
  <2>3. CASE Status(Mine(r)) \notin ActiveStatus
    BY <1>o, <1>b, <2>1, <2>3, ResponsibleStep, RunningFacts DEF Responsible
  <2> QED BY <2>2, <2>3
<1>4. CASE FinalizeStep(r)
  <2> DEFINE t == NextRunning[run[r].saw]
  <2>1. CASE UpdateAllowed(Mine(r), t)
    <3>1. \A j \in Jobs : Status(j)' = IF j = Mine(r) THEN t ELSE Status(j)
      BY <1>m, <1>4, <2>1, StatusWrite DEF FinalizeStep
    <3>2. /\ run'[r].job = run[r].job /\ run'[r].saw = t
          /\ run'[r].pc = IF t = "reporting" THEN "conclude" ELSE "finalize"
      BY <1>m, <1>4, <2>1 DEF FinalizeStep, RunType, RunState
    <3>3. \A j \in Jobs : Mine(r) = j => Responsible(r, j)'
      BY <3>1, <3>2 DEF Responsible, Mine, At
    <3> QED BY <1>o, <1>b, <3>1, <3>3, ResponsibleStep DEF Responsible
  <2>2. CASE ~UpdateAllowed(Mine(r), t)
    <3>1. \A j \in Jobs : Status(j)' = Status(j)
      BY <1>4, <2>2 DEF FinalizeStep, Status
    <3>2. \A j \in Jobs : Status(j) \in RunningStatus => ~Responsible(r, j)
      BY <1>4, <2>2, RunningFacts DEF FinalizeStep, Responsible, UpdateAllowed, At
    <3> QED BY <1>o, <1>b, <3>1, <3>2, ResponsibleStep
  <2> QED BY <2>1, <2>2
<1>5. CASE Conclude(r)
  <2>1. PICK t \in {"ready", "partial_ready"} :
          IF TransitionAllowed(Mine(r), t) THEN SetJob(Mine(r), t, "complete") ELSE UNCHANGED job
    BY <1>5 DEF Conclude
  <2>2. \A j \in Jobs : Status(j)' = Status(j) \/ Status(j)' \notin RunningStatus
    BY <1>m, <2>1, StatusWrite, RunningFacts DEF Status
  <2>3. \A j \in Jobs : Responsible(r, j) => Status(j)' \notin RunningStatus
    <3> SUFFICES ASSUME NEW j \in Jobs, Responsible(r, j)
                 PROVE  Status(j)' \notin RunningStatus
      OBVIOUS
    <3>1. Mine(r) = j /\ Status(j) = "reporting"
      BY <1>5 DEF Conclude, Responsible
    <3>2. TransitionAllowed(Mine(r), t)
      BY <3>1, RunningFacts DEF TransitionAllowed
    <3> QED BY <1>m, <2>1, <3>1, <3>2, StatusWrite, RunningFacts
  <2> QED BY <1>o, <1>b, <2>2, <2>3, ResponsibleStep
<1>6. CASE MarkFailed(r)
  <2>1. \A j \in Jobs : Status(j)' \in {Status(j), "failed"}
    BY <1>m, <1>6, StatusWrite DEF MarkFailed, Status
  <2>2. \A j \in Jobs : Status(j) \in RunningStatus /\ Responsible(r, j) => Status(j)' = "failed"
    BY <1>m, <1>6, StatusWrite, RunningFacts DEF MarkFailed, Responsible
  <2> QED BY <1>o, <1>b, <2>1, <2>2, ResponsibleStep, RunningFacts
<1>7. CASE ReleaseFirst(r) \/ Release(r)
  <2>1. \A j \in Jobs : Status(j)' = Status(j)
    BY <1>7 DEF ReleaseFirst, Release, Status
  <2>2. \A j : ~Responsible(r, j)
    BY <1>7 DEF ReleaseFirst, Release, Responsible, At, TryPc
  <2> QED BY <1>o, <1>b, <2>1, <2>2, ResponsibleStep
<1> QED BY <1>1, <1>2, <1>3, <1>4, <1>5, <1>6, <1>7 DEF RunStep

LEMMA ResponsibleOther ==
  ASSUME TypeInv, BehindType, SomebodyResponsible, NEW r \in Runners,
         Heartbeat(r) \/ FaultStep(r)
  PROVE  SomebodyResponsible'
<1>m. RunType /\ JobType
  BY DEF TypeInv
<1>1. Others(r)
  BY OthersStay DEF StepOf
<1>2. CASE Heartbeat(r)
  <2>1. \A j \in Jobs : Status(j)' = Status(j)
    BY <1>m, <1>2, StatusWrite DEF Heartbeat
  <2>2. run' = run /\ behind' = behind
    BY <1>2 DEF Heartbeat
  <2>3. \A j \in Jobs : Responsible(r, j) => Responsible(r, j)'
    BY <2>1, <2>2 DEF Responsible, Mine, At
  <2> QED BY <1>1, <2>1, <2>2, <2>3, ResponsibleStep
<1>3. CASE FaultStep(r)
  <2>1. \A j \in Jobs : Status(j)' = Status(j)
    BY <1>3, FaultFacts DEF Status
  <2>2. ASSUME NEW j \in Jobs, Responsible(r, j), j \notin behind'.rows
        PROVE  Responsible(r, j)'
    <3>0. /\ Mine(r) = j
          /\ run[r].pc \in {"prepared", "finalize", "conclude", "fail", "interrupted"} \cup TryPc
      BY <2>2 DEF Responsible
    <3>1. Mine(r) = j /\ run[r].pc \in TryPc /\ ~Leave(r)
      <4>1. run[r].pc \notin {"finalize", "conclude", "fail", "interrupted"}
        BY <1>m, <1>3, <2>2, <3>0, FaultBehind
      <4>2. ~Leave(r)
        BY <1>m, <1>3, <2>2, <3>0, <4>1, FaultBehind
      <4>3. run[r].pc # "prepared"
        BY <1>3, <4>2, FaultFacts DEF TryPc
      <4> QED BY <3>0, <4>1, <4>2, <4>3
    <3>2. run'[r].pc \in {"fail", "interrupted"} /\ run'[r].job = run[r].job
      BY <1>m, <1>3, <3>1, FaultFacts, MoveFacts DEF TryPc
    <3> QED BY <3>1, <3>2 DEF Responsible, Mine, At
  <2>3. behind.rows \subseteq behind'.rows
    BY <1>m, <1>3, FaultBehind
  <2> QED BY <1>1, <2>1, <2>2, <2>3, ResponsibleStep
<1> QED BY <1>2, <1>3

\* The MCP server changes no process, and moves no job to a running status.
LEMMA ResponsibleOps ==
  ASSUME TypeInv, SomebodyResponsible, OpsStep \/ OpsRequest
  PROVE  SomebodyResponsible'
<1>m. JobType
  BY DEF TypeInv
<1>1. \A j \in Jobs : Status(j)' \in {Status(j), "pending", "failed"}
  <2>1. CASE OpsStart \/ OpsResumeRequest \/ OpsRelease
    BY <2>1 DEF OpsStart, OpsResumeRequest, OpsRelease, Status
  <2>2. CASE OpsCreate
    BY <1>m, <2>2, StatusWrite DEF OpsCreate, Status
  <2>3. CASE OpsRetry \/ OpsResume \/ OpsSchedule
    BY <1>m, <2>3, StatusWrite DEF OpsRetry, OpsResume, OpsSchedule, Status
  <2>4. CASE OpsCancel
    BY <1>m, <2>4, StatusWrite DEF OpsCancel
  <2> QED BY <2>1, <2>2, <2>3, <2>4 DEF OpsStep, OpsRequest
<1>2. run' = run /\ behind' = behind
  BY DEF OpsStep, OpsRequest, OpsStart, OpsCreate, OpsResumeRequest, OpsRetry, OpsResume,
         OpsSchedule, OpsCancel, OpsRelease
<1> QED BY <1>1, <1>2, RunningFacts DEF SomebodyResponsible, Responsible, Mine, At

RunnerInv == AllTypes /\ SomebodyResponsible

LEMMA NextRunnerInv == RunnerInv /\ [Next]_vars => RunnerInv'
<1> SUFFICES ASSUME RunnerInv, [Next]_vars PROVE RunnerInv'
  OBVIOUS
<1>t. AllTypes' /\ TypeInv /\ BehindType /\ SomebodyResponsible
  BY NextAllTypes DEF RunnerInv, AllTypes
<1>1. ASSUME NEW r \in Runners, StepOf(r)
      PROVE  SomebodyResponsible'
  BY <1>t, <1>1, ResponsiblePrepare, ResponsibleRun, ResponsibleOther DEF StepOf
<1>2. CASE LeaseExpires \/ UNCHANGED vars
  BY <1>t, <1>2 DEF LeaseExpires, vars, RunnerInv, SomebodyResponsible, Responsible, Status, Mine, At
<1>3. CASE OpsStep \/ OpsRequest
  BY <1>t, <1>3, ResponsibleOps DEF RunnerInv
<1> QED BY <1>t, <1>1, <1>2, <1>3 DEF Next, StepOf, RunnerInv

\* A job that is shown as running is being run, whoever shares, supersedes,
\* retries or cancels it, under every policy and every fault, unless the last
\* process that ran it was killed or could not record its outcome.
THEOREM RunningIsRun == Spec => []RunningHasRunner
<1>1. Init => RunnerInv
  BY InitAllTypes, RunningFacts DEF Init, RunnerInv, SomebodyResponsible, Status, Absent
<1>2. RunnerInv /\ [Next]_vars => RunnerInv'
  BY NextRunnerInv
<1>3. RunnerInv => RunningHasRunner
  BY DEF RunnerInv, SomebodyResponsible, RunningHasRunner, RunnerOf, Responsible, TryPc, HoldingPc
<1> QED BY <1>1, <1>2, <1>3, PTL DEF Spec

-----------------------------------------------------------------------------
(* Cancellation.  A cancelled job has failed.  It comes back only if a     *)
(* process that had found it before the cancellation retries it after (the *)
(* transaction of the retry looks at the status alone); such a job is a    *)
(* zombie, which the next begin_task puts to rest.  With one CLI process,  *)
(* or with runs that never resume a job, that is all there is to it.       *)

OneProcess == MaxBatches > 0 /\ \A r, s \in Runners : r = s
OwnJobsOnly == Policies \subseteq {"disabled", "full"} /\ NamedJobs = {}
CancellationScope == OneProcess \/ OwnJobsOnly

ResumePc == {"read_lock", "select", "load", "check_lock", "supersede", "retry", "resume", "update"}

\* Only invocations that may resume a job look for one.
ResumersResume ==
  \A r \in Runners : run[r].pc \in ResumePc =>
    run[r].policy \in {"auto", "job_id", "restart"} \cap Policies

\* r has not come past the next begin_task of its job j.
BeforeTask(r, j) ==
  Mine(r) = j => /\ run[r].pc \notin {"begin", "apply", "finalize", "conclude"}
                 /\ run[r].pc \in {"prepared", "running"} => run[r].left > 0
                 /\ run[r].policy # "full"

Zombie(j) == Status(j) # "ready" /\ \A r \in Runners : BeforeTask(r, j)

CancelledIsOver ==
  \A j \in Jobs : job[j].cancelled => Status(j) = "failed" \/ (OneProcess /\ Zombie(j))

\* The MCP server does not retry what it cancelled itself.
OpsRetriesLive == \A j \in Jobs : ops.pc = "retry" /\ ops.job = j => ~job[j].cancelled

CancelInv == TypeInv /\ ResumersResume /\ CancelledIsOver /\ OpsRetriesLive

\* What a step of r does to the policy and the place of r.
LEMMA ResumersStep ==
  ASSUME TypeInv, ResumersResume, NEW r \in Runners, StepOf(r)
  PROVE  ResumersResume'
<1>m. RunType
  BY DEF TypeInv
<1>o. Others(r)
  BY OthersStay
<1>g. \A l : Goto(r, l) => run'[r].pc = l /\ run'[r].policy = run[r].policy
  BY <1>m DEF RunType, RunState, Goto
<1>l. Leave(r) => run'[r].pc \notin ResumePc
  BY <1>m, MoveFacts DEF ResumePc
<1>q. \/ run'[r].pc \notin ResumePc
      \/ run[r].pc \in ResumePc /\ run'[r].policy = run[r].policy
      \/ run'[r].policy \in {"auto", "job_id", "restart"} \cap Policies
  <2>1. CASE Invoke(r)
    <3>1. PICK p \in Policies, s \in Signatures, n \in NamedJobs \cup {NoJob} :
            run' = [run EXCEPT ![r] =
              [IdleRun EXCEPT !.policy = p, !.plan = s, !.named = n, !.pc = FirstPc(p)]]
      BY <2>1 DEF Invoke
    <3>2. run'[r].policy = p /\ run'[r].pc = FirstPc(p)
      BY <1>m, <3>1 DEF RunType, IdleRun
    <3>3. FirstPc(p) \in ResumePc => p \in {"auto", "job_id", "restart"}
      BY DEF FirstPc, ResumePc
    <3> QED BY <3>2, <3>3
  <2>2. CASE ReadLock(r)
    <3>1. \A b : run' = [run EXCEPT ![r].pc = "select", ![r].blocked = b]
                  => run'[r].policy = run[r].policy
      BY <1>m DEF RunType, RunState
    <3> QED BY <2>2, <3>1 DEF ReadLock, ResumePc, At
  <2>3. CASE SelectJob(r)
    <3>1. ASSUME NEW j,
                 run' = [run EXCEPT ![r].job = j, ![r].saw = Status(j),
                           ![r].pc = IF run[r].policy = "restart" THEN "supersede"
                                     ELSE IF Status(j) \in RetryableStatus THEN "retry"
                                     ELSE "resume"]
          PROVE  run'[r].policy = run[r].policy
      BY <1>m, <3>1 DEF RunType, RunState
    <3>2. run[r].pc \in ResumePc
      BY <2>3 DEF SelectJob, At, ResumePc
    <3> QED BY <1>g, <1>l, <2>3, <3>1, <3>2 DEF SelectJob
  <2>4. CASE LoadJob(r)
    <3>1. ASSUME NEW j, run' = [run EXCEPT ![r].job = j, ![r].saw = Status(j),
                                           ![r].pc = "check_lock"]
          PROVE  run'[r].policy = run[r].policy
      BY <1>m, <3>1 DEF RunType, RunState
    <3> QED BY <1>l, <2>4, <3>1 DEF LoadJob, At, ResumePc
  <2>5. CASE CheckLock(r) \/ Retry(r) \/ Resume(r)
    BY <1>g, <1>l, <2>5 DEF CheckLock, Retry, Resume, At, ResumePc
  <2>6. CASE Supersede(r)
    <3>1. Leave(r) \/ run'[r].pc = "create"
      BY <1>m, <2>6 DEF Supersede, RunType, RunState
    <3> QED BY <1>l, <3>1 DEF ResumePc
  <2>7. CASE UpdateMetadata(r) \/ Create(r)
    <3>1. Leave(r) \/ run'[r].pc = "acquire"
      BY <1>m, <2>7 DEF UpdateMetadata, Create, RunType, RunState
    <3> QED BY <1>l, <3>1 DEF ResumePc
  <2>8. CASE AcquireLock(r) \/ StartAccepted(r) \/ StartRefused(r)
    <3>1. Leave(r) \/ run'[r].pc \in {"start", "prepared"}
      BY <1>m, <1>g, <2>8 DEF AcquireLock, StartAccepted, StartRefused, RunType, RunState
    <3> QED BY <1>l, <3>1 DEF ResumePc
  <2>9. CASE RunStep(r)
    <3>1. Leave(r) \/ run'[r].pc \in HoldingPc
      BY <1>m, <2>9, RunFacts DEF Release
    <3> QED BY <1>l, <3>1 DEF ResumePc, HoldingPc
  <2>10. CASE Heartbeat(r)
    BY <2>10 DEF Heartbeat
  <2>11. CASE FaultStep(r)
    <3>1. Leave(r) \/ run'[r].pc \in {"fail", "interrupted", "release_first", "release"}
      BY <1>g, <2>11, FaultFacts
    <3> QED BY <1>l, <3>1 DEF ResumePc
  <2> QED
    BY <2>1, <2>2, <2>3, <2>4, <2>5, <2>6, <2>7, <2>8, <2>9, <2>10, <2>11 DEF StepOf, PrepareStep
<1> QED BY <1>o, <1>q DEF ResumersResume, Others

\* Writes to one row of the job table and what they leave of cancellations.
LEMMA CancelWrite ==
  ASSUME JobType, NEW k
  PROVE  /\ \A t, e : \/ SetJob(k, t, e)
                      \/ job' = [job EXCEPT ![k].status = t]
                      \/ job' = [job EXCEPT ![k].exec = e]
                      \/ job' = [job EXCEPT ![k].exec = e, ![k].sig = t]
                      => \A j \in Jobs : job'[j].cancelled = job[j].cancelled
         /\ \A e, c : job' = [job EXCEPT ![k] = FreshRow(e, c)] =>
              \A j \in Jobs : job'[j].cancelled => j # k /\ job[j].cancelled
         /\ \A t : job' = [job EXCEPT ![k].status = t, ![k].cancelled = TRUE] =>
              \A j \in Jobs : job'[j].cancelled <=> j = k \/ job[j].cancelled
BY DEF JobType, JobRow, SetJob, FreshRow

\* Nothing but the MCP server cancels a job.
LEMMA OnlyOpsCancel ==
  ASSUME TypeInv, NEW r \in Runners, StepOf(r)
  PROVE  \A j \in Jobs : job'[j].cancelled => job[j].cancelled
<1>m. JobType
  BY DEF TypeInv
<1>1. CASE Invoke(r) \/ ReadLock(r) \/ SelectJob(r) \/ LoadJob(r) \/ CheckLock(r)
           \/ AcquireLock(r) \/ StartRefused(r) \/ FaultStep(r)
  BY <1>1, FaultFacts DEF Invoke, ReadLock, SelectJob, LoadJob, CheckLock, AcquireLock,
                          StartRefused
<1>2. CASE Supersede(r) \/ Retry(r) \/ Resume(r) \/ UpdateMetadata(r) \/ StartAccepted(r)
  BY <1>m, <1>2, CancelWrite DEF Supersede, Retry, Resume, UpdateMetadata, StartAccepted
<1>3. CASE Create(r)
  <2>1. ASSUME NEW k, job' = [job EXCEPT ![k] =
                 FreshRow("running", IF run[r].policy = "full" THEN NoSignature ELSE run[r].plan)]
        PROVE  \A j \in Jobs : job'[j].cancelled => job[j].cancelled
    BY <1>m, <2>1, CancelWrite
  <2> QED BY <1>3, <2>1 DEF Create
<1>4. CASE RunStep(r)
  BY <1>m, <1>4, CancelWrite
     DEF RunStep, EnterRun, Advance, ReportRefused, CheckCancel, BeginTask, BeginPublish, Commit,
         RunReturns, FinalizeStep, Conclude, MarkFailed, ReleaseFirst, Release
<1>5. CASE Heartbeat(r)
  BY <1>m, <1>5, CancelWrite DEF Heartbeat
<1> QED BY <1>1, <1>2, <1>3, <1>4, <1>5 DEF StepOf, PrepareStep

\* Under OneProcess it is enough to look at r.
LEMMA CancelStep ==
  ASSUME TypeInv, NEW r \in Runners, StepOf(r),
         \A j \in Jobs : job[j].cancelled /\ job'[j].cancelled =>
            \/ Status(j)' = "failed"
            \/ OneProcess /\ Status(j)' # "ready" /\ BeforeTask(r, j)'
  PROVE  CancelledIsOver'
<1>1. OneProcess' <=> OneProcess
  BY DEF OneProcess
<1>2. OneProcess => \A s \in Runners : s = r
  BY DEF OneProcess
<1> QED BY <1>1, <1>2, OnlyOpsCancel DEF CancelledIsOver, Zombie

LEMMA CancelPrepare ==
  ASSUME CancellationScope, CancelInv, NEW r \in Runners, Invoke(r) \/ PrepareStep(r)
  PROVE  CancelledIsOver'
<1>m. TypeInv /\ RunType /\ JobType
  BY DEF CancelInv, TypeInv
<1>s. StepOf(r)
  BY DEF StepOf
<1>z. \A j \in Jobs : job[j].cancelled =>
        Status(j) = "failed" \/ (OneProcess /\ Status(j) # "ready" /\ BeforeTask(r, j))
  BY DEF CancelInv, CancelledIsOver, Zombie
<1>p. OwnJobsOnly => run[r].pc \notin ResumePc
  BY DEF CancelInv, ResumersResume, OwnJobsOnly
<1>h. \A l : l \notin {"begin", "apply", "finalize", "conclude", "prepared", "running"}
        /\ run'[r].pc = l
        /\ (OneProcess => run'[r].policy # "full" \/ run'[r].job = NoJob)
        => (OneProcess => \A j \in Jobs : BeforeTask(r, j)')
  BY ConstantsAssumption DEF ConstantsAssumption, BeforeTask, Mine, At
<1>1. CASE Invoke(r)
  <2>1. PICK p \in Policies, s \in Signatures, n \in NamedJobs \cup {NoJob} :
          run' = [run EXCEPT ![r] =
            [IdleRun EXCEPT !.policy = p, !.plan = s, !.named = n, !.pc = FirstPc(p)]]
    BY <1>1 DEF Invoke
  <2>2. run'[r].job = NoJob /\ run'[r].pc = FirstPc(p)
    BY <1>m, <2>1 DEF RunType, IdleRun
  <2>3. FirstPc(p) \notin {"begin", "apply", "finalize", "conclude", "prepared", "running"}
    BY DEF FirstPc
  <2>4. \A j \in Jobs : Status(j)' = Status(j)
    BY <1>1 DEF Invoke, Status
  <2> QED BY <1>m, <1>s, <1>z, <1>h, <2>2, <2>3, <2>4, CancelStep
<1>2. CASE ReadLock(r) \/ SelectJob(r) \/ LoadJob(r) \/ CheckLock(r)
  <2>1. OneProcess
    BY <1>p, <1>2 DEF CancellationScope, ReadLock, SelectJob, LoadJob, CheckLock, At, ResumePc
  <2>2. run[r].policy # "full"
    BY <1>2 DEF CancelInv, ResumersResume, ReadLock, SelectJob, LoadJob, CheckLock, At, ResumePc
  <2>3. ASSUME NEW j \in Jobs, job[j].cancelled
        PROVE  Status(j)' = Status(j) /\ BeforeTask(r, j)'
    <3>1. Status(j)' = Status(j)
      BY <1>2 DEF ReadLock, SelectJob, LoadJob, CheckLock, Status
    <3>2. /\ run'[r].pc \notin {"begin", "apply", "finalize", "conclude", "prepared", "running"}
          /\ run'[r].policy # "full"
      <4>0. Leave(r) => run'[r].pc = "idle" /\ run'[r].policy = "none"
        BY <1>m DEF RunType, Leave, IdleRun
      <4>g. \A l : Goto(r, l) => run'[r].pc = l /\ run'[r].policy = run[r].policy
        BY <1>m DEF RunType, RunState, Goto
      <4>1. CASE ReadLock(r)
        <5>1. \A b : run' = [run EXCEPT ![r].pc = "select", ![r].blocked = b]
                      => run'[r].policy = run[r].policy /\ run'[r].pc = "select"
          BY <1>m DEF RunType, RunState
        <5> QED BY <2>2, <4>1, <5>1 DEF ReadLock
      <4>2. CASE SelectJob(r)
        <5>1. ASSUME NEW i,
                     run' = [run EXCEPT ![r].job = i, ![r].saw = Status(i),
                               ![r].pc = IF run[r].policy = "restart" THEN "supersede"
                                         ELSE IF Status(i) \in RetryableStatus THEN "retry"
                                         ELSE "resume"]
              PROVE  run'[r].policy = run[r].policy
                     /\ run'[r].pc \in {"supersede", "retry", "resume"}
          BY <1>m, <5>1 DEF RunType, RunState
        <5>2. CASE \E i \in Matching(r) :
                     run' = [run EXCEPT ![r].job = i, ![r].saw = Status(i),
                               ![r].pc = IF run[r].policy = "restart" THEN "supersede"
                                         ELSE IF Status(i) \in RetryableStatus THEN "retry"
                                         ELSE "resume"]
          <6>1. run'[r].policy = run[r].policy
                /\ run'[r].pc \in {"supersede", "retry", "resume"}
            BY <5>1, <5>2
          <6> QED BY <2>2, <6>1
        <5>3. CASE Goto(r, "create") \/ Leave(r)
          BY <2>2, <4>0, <4>g, <5>3
        <5> QED BY <4>2, <5>2, <5>3 DEF SelectJob
      <4>3. CASE LoadJob(r)
        <5>1. ASSUME NEW i, run' = [run EXCEPT ![r].job = i, ![r].saw = Status(i),
                                               ![r].pc = "check_lock"]
              PROVE  run'[r].policy = run[r].policy /\ run'[r].pc = "check_lock"
          BY <1>m, <5>1 DEF RunType, RunState
        <5> QED BY <2>2, <4>0, <4>3, <5>1 DEF LoadJob
      <4>4. CASE CheckLock(r)
        BY <2>2, <4>0, <4>g, <4>4 DEF CheckLock
      <4> QED BY <1>2, <4>1, <4>2, <4>3, <4>4
    <3> QED BY <3>1, <3>2 DEF BeforeTask, Mine, At
  <2> QED BY <1>m, <1>s, <1>z, <2>1, <2>3, CancelStep
<1>3. CASE Supersede(r) \/ Retry(r) \/ Resume(r) \/ UpdateMetadata(r)
  <2>1. OneProcess
    BY <1>p, <1>3 DEF CancellationScope, Supersede, Retry, Resume, UpdateMetadata, At, ResumePc
  <2>2. run[r].policy # "full"
    BY <1>3 DEF CancelInv, ResumersResume, Supersede, Retry, Resume, UpdateMetadata, At, ResumePc
  <2>3. \A j \in Jobs : Status(j)' \in {Status(j), "failed", "pending"}
    BY <1>m, <1>3, StatusWrite DEF Supersede, Retry, Resume, UpdateMetadata, Status
  <2>4. run'[r].pc \in {"idle", "create", "resume", "update", "acquire"}
        /\ (run'[r].policy # "full" \/ run'[r].job = NoJob)
    BY <1>m, <1>3, <2>2
       DEF Supersede, Retry, Resume, UpdateMetadata, Goto, Leave, IdleRun, RunType, RunState
  <2>5. \A j \in Jobs : BeforeTask(r, j)'
    BY <1>h, <2>1, <2>4
  <2> QED BY <1>m, <1>s, <1>z, <2>1, <2>3, <2>5, CancelStep
<1>4. CASE Create(r)
  <2>1. CASE Leave(r) /\ UNCHANGED job
    <3>1. run'[r].pc = "idle" /\ run'[r].job = NoJob
      BY <1>m, <2>1 DEF RunType, Leave, IdleRun
    <3> QED BY <1>m, <1>s, <1>z, <1>h, <2>1, <3>1, CancelStep DEF Status
  <2>2. ASSUME NEW k \in NewIds(r),
               job' = [job EXCEPT ![k] =
                 FreshRow("running", IF run[r].policy = "full" THEN NoSignature ELSE run[r].plan)],
               run' = [run EXCEPT ![r].job = k, ![r].saw = "pending", ![r].pc = "acquire"]
        PROVE  CancelledIsOver'
    <3>1. run'[r].job = k
      BY <1>m, <2>2 DEF RunType, RunState
    <3> DEFINE c == IF run[r].policy = "full" THEN NoSignature ELSE run[r].plan
    <3>0. job' = [job EXCEPT ![k] = FreshRow("running", c)]
      BY <2>2
    <3> HIDE DEF c
    <3>2. \A j \in Jobs : job'[j].cancelled => j # k /\ Status(j)' = Status(j)
      BY <1>m, <3>0, CancelWrite, StatusWrite
    <3>3. \A j \in Jobs : j # k => BeforeTask(r, j)'
      BY <3>1 DEF BeforeTask, Mine
    <3> QED BY <1>m, <1>s, <1>z, <3>2, <3>3, CancelStep
  <2> QED BY <1>4, <2>1, <2>2 DEF Create
<1>5. CASE AcquireLock(r)
  <2>1. \A j \in Jobs : Status(j)' = Status(j)
    BY <1>5 DEF AcquireLock, Status
  <2>2. \A j \in Jobs : BeforeTask(r, j) => BeforeTask(r, j)'
    <3>0. CASE Leave(r)
      BY <1>m, <3>0, ConstantsAssumption
         DEF ConstantsAssumption, RunType, Leave, IdleRun, BeforeTask, Mine
    <3>1. CASE Goto(r, "start")
      <4>1. run'[r].pc = "start" /\ run'[r].job = run[r].job /\ run'[r].policy = run[r].policy
        BY <1>m, <3>1 DEF RunType, RunState, Goto
      <4> QED BY <4>1 DEF BeforeTask, Mine, At
    <3> QED BY <1>5, <3>0, <3>1 DEF AcquireLock
  <2> QED BY <1>m, <1>s, <1>z, <2>1, <2>2, CancelStep
<1>6. CASE StartAccepted(r)
  <2> DEFINE t == StartStatus(r)
  <2>0. SetJob(Mine(r), t, "running") /\ UpdateAllowed(Mine(r), t)
    BY <1>6 DEF StartAccepted
  <2>1. \A j \in Jobs : Status(j)' = IF j = Mine(r) THEN t ELSE Status(j)
    <3> HIDE DEF t
    <3> QED BY <1>m, <2>0, StatusWrite
  <2>2. t # "ready" /\ Status(Mine(r)) # "failed"
    BY <2>0 DEF UpdateAllowed, ActiveStatus, RunningStatus, StartStatus
  <2>3. /\ run'[r].pc = "prepared" /\ run'[r].job = run[r].job
        /\ run'[r].policy = run[r].policy /\ run'[r].left = MaxBatches
    BY <1>m, <1>6, ConstantsAssumption
       DEF ConstantsAssumption, StartAccepted, RunType, RunState
  <2>4. OneProcess => \A j \in Jobs : BeforeTask(r, j) => BeforeTask(r, j)'
    BY <2>3 DEF OneProcess, BeforeTask, Mine, At
  <2> QED BY <1>m, <1>s, <1>z, <2>1, <2>2, <2>4, CancelStep
<1>7. CASE StartRefused(r)
  <2>1. run'[r].pc = "idle" /\ run'[r].job = NoJob /\ job' = job
    BY <1>m, <1>7 DEF StartRefused, RunType, Leave, IdleRun
  <2> QED BY <1>m, <1>s, <1>z, <1>h, <2>1, CancelStep DEF Status
<1> QED BY <1>1, <1>2, <1>3, <1>4, <1>5, <1>6, <1>7 DEF PrepareStep

\* A run acts on its own job alone, and begin_task is what it cannot get past.
LEMMA CancelRun ==
  ASSUME CancelInv, NEW r \in Runners, RunStep(r)
  PROVE  CancelledIsOver'
<1>m. TypeInv /\ RunType /\ JobType
  BY DEF CancelInv, TypeInv
<1>s. StepOf(r)
  BY DEF StepOf
<1>z. \A j \in Jobs : job[j].cancelled =>
        Status(j) = "failed" \/ (OneProcess /\ Status(j) # "ready" /\ BeforeTask(r, j))
  BY DEF CancelInv, CancelledIsOver, Zombie
<1>f. /\ Transitions["failed"] = {"pending"} /\ "failed" \notin ActiveStatus
      /\ \A x \in DOMAIN NextRunning : NextRunning[x] \notin {"ready", "pending"}
  BY DEF Transitions, ActiveStatus, RunningStatus, NextRunning
<1>k. ASSUME \A j \in Jobs : job[j].cancelled => Status(j)' = Status(j),
             \A j \in Jobs : BeforeTask(r, j) => BeforeTask(r, j)'
      PROVE  CancelledIsOver'
  BY <1>m, <1>s, <1>z, <1>k, CancelStep
<1>g. ASSUME NEW l \in {"fail", "release", "release_first"}, Goto(r, l), NEW j
      PROVE  BeforeTask(r, j) => BeforeTask(r, j)'
  <2>1. run'[r].pc = l /\ run'[r].job = run[r].job /\ run'[r].policy = run[r].policy
    BY <1>m, <1>g DEF RunType, RunState, Goto
  <2> QED BY <2>1 DEF BeforeTask, Mine, At
<1>1. CASE Advance(r)
  <2> DEFINE t == NextRunning[run[r].saw]
  <2>1. CASE UpdateAllowed(Mine(r), t)
    <3>0. SetJob(Mine(r), t, "running") /\ run' = [run EXCEPT ![r].saw = t] /\ t # "ready"
      BY <1>1, <1>f, <2>1 DEF Advance
    <3>1. \A j \in Jobs : Status(j)' = IF j = Mine(r) THEN t ELSE Status(j)
      <4> HIDE DEF t
      <4> QED BY <1>m, <3>0, StatusWrite
    <3>2. Status(Mine(r)) # "failed"
      BY <1>f, <2>1 DEF UpdateAllowed
    <3>3. /\ run'[r].pc = run[r].pc /\ run'[r].job = run[r].job
          /\ run'[r].policy = run[r].policy /\ run'[r].left = run[r].left
      <4> HIDE DEF t
      <4> QED BY <1>m, <3>0 DEF RunType, RunState
    <3>4. \A j \in Jobs : BeforeTask(r, j) => BeforeTask(r, j)'
      BY <3>3 DEF BeforeTask, Mine, At
    <3> HIDE DEF t
    <3> QED BY <1>m, <1>s, <1>z, <3>0, <3>1, <3>2, <3>4, CancelStep
  <2>2. CASE ~UpdateAllowed(Mine(r), t)
    BY <1>1, <1>g, <1>k, <2>2 DEF Advance, Status
  <2> QED BY <2>1, <2>2
<1>2. CASE BeginTask(r)
  <2>1. \A j \in Jobs : Status(j)' = Status(j)
    BY <1>m, <1>2, StatusWrite DEF BeginTask, Status
  <2>2. run'[r].job = run[r].job
    BY <1>m, <1>2, MoveFacts DEF BeginTask
  <2>3. ~BeforeTask(r, Mine(r))
    BY <1>2 DEF BeginTask, BeforeTask, At
  <2>4. \A j \in Jobs : BeforeTask(r, j) => BeforeTask(r, j)'
    BY <2>2, <2>3 DEF BeforeTask, Mine
  <2> QED BY <1>k, <2>1, <2>4
<1>8. CASE EnterRun(r)
  <2>1. \A j \in Jobs : Status(j)' = Status(j)
    BY <1>8 DEF EnterRun, Status
  <2>2. /\ run'[r].pc \in {"running", "fail"} /\ run'[r].job = run[r].job
        /\ run'[r].policy = run[r].policy /\ run'[r].left = run[r].left
    BY <1>m, <1>8 DEF EnterRun, Goto, RunType, RunState
  <2>3. run[r].pc = "prepared"
    BY <1>8 DEF EnterRun, At
  <2>4. \A j \in Jobs : BeforeTask(r, j) => BeforeTask(r, j)'
    BY <2>2, <2>3 DEF BeforeTask, Mine
  <2> QED BY <1>k, <2>1, <2>4
<1>9. CASE CheckCancel(r) \/ ReportRefused(r)
  <2>1. CASE Goto(r, "fail")
    BY <1>9, <1>g, <1>k, <2>1 DEF CheckCancel, ReportRefused, Status
  <2>2. CASE ~job[Mine(r)].cancelled /\ Goto(r, "begin")
    <3>1. \A j \in Jobs : Status(j)' = Status(j)
      BY <1>9 DEF CheckCancel, ReportRefused, Status
    <3>2. run'[r].job = run[r].job
      BY <1>m, <2>2, MoveFacts
    <3>3. \A j \in Jobs : job[j].cancelled => BeforeTask(r, j)'
      BY <2>2, <3>2 DEF BeforeTask, Mine
    <3> QED BY <1>m, <1>s, <1>z, <3>1, <3>3, CancelStep
  <2> QED BY <1>9, <2>1, <2>2 DEF CheckCancel, ReportRefused
<1>3. CASE BeginPublish(r) \/ Commit(r) \/ RunReturns(r)
  <2>1. \A j \in Jobs : Status(j)' = Status(j)
    BY <1>3 DEF BeginPublish, Commit, RunReturns, Status
  <2>2. run'[r].job = run[r].job
    BY <1>m, <1>3, MoveFacts DEF BeginPublish, Commit, RunReturns, RunType, RunState
  <2>3. ~BeforeTask(r, Mine(r))
    BY <1>3 DEF BeginPublish, Commit, RunReturns, BeforeTask, Incremental, At
  <2>4. \A j \in Jobs : BeforeTask(r, j) => BeforeTask(r, j)'
    BY <2>2, <2>3 DEF BeforeTask, Mine
  <2> QED BY <1>k, <2>1, <2>4
<1>4. CASE FinalizeStep(r) \/ Conclude(r)
  <2>1. ~BeforeTask(r, Mine(r))
    BY <1>4 DEF FinalizeStep, Conclude, BeforeTask, At
  <2>2. \A j \in Jobs : job[j].cancelled /\ j = Mine(r) => Status(j) = "failed"
    BY <1>z, <2>1
  <2>3. \A j \in Jobs : job[j].cancelled => Status(j)' = Status(j)
    <3>1. CASE FinalizeStep(r)
      <4> DEFINE t == NextRunning[run[r].saw]
      <4>1. job' = job \/ (UpdateAllowed(Mine(r), t) /\ job' = [job EXCEPT ![Mine(r)].status = t])
        BY <3>1 DEF FinalizeStep
      <4> HIDE DEF t
      <4>2. CASE job' = job
        BY <4>2 DEF Status
      <4>3. CASE UpdateAllowed(Mine(r), t) /\ job' = [job EXCEPT ![Mine(r)].status = t]
        BY <1>m, <1>f, <2>2, <4>3, StatusWrite DEF UpdateAllowed
      <4> QED BY <4>1, <4>2, <4>3
    <3>2. CASE Conclude(r)
      <4>1. PICK t \in {"ready", "partial_ready"} :
              IF TransitionAllowed(Mine(r), t) THEN SetJob(Mine(r), t, "complete")
              ELSE UNCHANGED job
        BY <3>2 DEF Conclude
      <4>2. CASE job' = job
        BY <4>2 DEF Status
      <4>3. CASE TransitionAllowed(Mine(r), t) /\ SetJob(Mine(r), t, "complete")
        BY <1>m, <1>f, <2>2, <4>3, StatusWrite DEF TransitionAllowed
      <4> QED BY <4>1, <4>2, <4>3
    <3> QED BY <1>4, <3>1, <3>2
  <2>4. run'[r].job = run[r].job
    BY <1>m, <1>4, MoveFacts DEF FinalizeStep, Conclude, RunType, RunState
  <2>5. \A j \in Jobs : BeforeTask(r, j) => BeforeTask(r, j)'
    BY <2>1, <2>4 DEF BeforeTask, Mine
  <2> QED BY <1>k, <2>3, <2>5
<1>5. CASE MarkFailed(r)
  <2>1. \A j \in Jobs : Status(j)' = Status(j) \/ Status(j)' = "failed"
    BY <1>m, <1>5, StatusWrite DEF MarkFailed, Status
  <2>2. \A j \in Jobs : BeforeTask(r, j) => BeforeTask(r, j)'
    BY <1>5, <1>g DEF MarkFailed
  <2> QED BY <1>m, <1>s, <1>z, <2>1, <2>2, CancelStep
<1>6. CASE ReleaseFirst(r)
  BY <1>6, <1>g, <1>k DEF ReleaseFirst, Status
<1>7. CASE Release(r)
  <2>1. run'[r].job = NoJob
    BY <1>m, <1>7 DEF Release, RunType, Leave, IdleRun
  <2>2. \A j \in Jobs : BeforeTask(r, j)'
    BY <2>1, ConstantsAssumption DEF ConstantsAssumption, BeforeTask, Mine
  <2> QED BY <1>7, <1>k, <2>2 DEF Release, Status
<1> QED BY <1>1, <1>2, <1>3, <1>4, <1>5, <1>6, <1>7, <1>8, <1>9 DEF RunStep

LEMMA CancelOther ==
  ASSUME CancelInv, NEW r \in Runners, Heartbeat(r) \/ FaultStep(r)
  PROVE  CancelledIsOver'
<1>m. TypeInv /\ RunType /\ JobType
  BY DEF CancelInv, TypeInv
<1>s. StepOf(r)
  BY DEF StepOf
<1>1. \A j \in Jobs : Status(j)' = Status(j)
  BY <1>m, StatusWrite, FaultFacts DEF Heartbeat, Status
<1>2. ASSUME NEW j \in Jobs, BeforeTask(r, j)
      PROVE  BeforeTask(r, j)'
  <2>1. CASE Heartbeat(r)
    BY <1>2, <2>1 DEF Heartbeat, BeforeTask, Mine, At
  <2>2. CASE Leave(r)
    <3>1. run'[r].job = NoJob
      BY <1>m, <2>2 DEF RunType, Leave, IdleRun
    <3> QED BY <3>1, ConstantsAssumption DEF ConstantsAssumption, BeforeTask, Mine
  <2>3. ASSUME NEW l \in {"fail", "interrupted", "release", "release_first"}, Goto(r, l)
        PROVE  BeforeTask(r, j)'
    <3>1. run'[r].pc = l /\ run'[r].job = run[r].job /\ run'[r].policy = run[r].policy
      BY <1>m, <2>3 DEF Goto, RunType, RunState
    <3> QED BY <1>2, <3>1 DEF BeforeTask, Mine
  <2> QED BY <2>1, <2>2, <2>3, FaultFacts
<1>3. \A j \in Jobs : job[j].cancelled => Status(j) = "failed"
                        \/ (OneProcess /\ Status(j) # "ready" /\ BeforeTask(r, j))
  BY DEF CancelInv, CancelledIsOver, Zombie
<1> QED BY <1>m, <1>s, <1>1, <1>2, <1>3, CancelStep

\* The server cancels what is active, and retries nothing it has cancelled.
LEMMA CancelOps ==
  ASSUME CancelInv, OpsStep \/ OpsRequest
  PROVE  CancelledIsOver' /\ OpsRetriesLive' /\ ResumersResume'
<1>m. TypeInv /\ JobType
  BY DEF CancelInv, TypeInv
<1>r. run' = run
  BY DEF OpsStep, OpsRequest, OpsStart, OpsCreate, OpsResumeRequest, OpsRetry, OpsResume,
         OpsSchedule, OpsCancel, OpsRelease
<1>b. \A j \in Jobs : Zombie(j) /\ Status(j)' = Status(j) => Zombie(j)'
  BY <1>r DEF Zombie, BeforeTask, Mine, At
<1>w. \A j \in Jobs : job'[j].cancelled =>
        Status(j)' = "failed" \/ (job[j].cancelled /\ Status(j)' = Status(j))
  <2>1. CASE OpsStart \/ OpsResumeRequest \/ OpsRelease
    BY <2>1 DEF OpsStart, OpsResumeRequest, OpsRelease, Status
  <2>2. CASE OpsCreate
    <3>1. CASE job' = job
      BY <3>1 DEF Status
    <3>2. ASSUME NEW k, job' = [job EXCEPT ![k] = FreshRow("scheduled", OpsSignature)]
          PROVE  \A j \in Jobs : job'[j].cancelled =>
                   job[j].cancelled /\ Status(j)' = Status(j)
      BY <1>m, <3>2, CancelWrite, StatusWrite
    <3> QED BY <2>2, <3>1, <3>2 DEF OpsCreate
  <2>3. CASE OpsRetry
    <3>1. CASE job' = job
      BY <3>1 DEF Status
    <3>2. CASE job' = [job EXCEPT ![ops.job].status = "pending"]
      <4>1. \A j \in Jobs : job'[j].cancelled = job[j].cancelled
        BY <1>m, <3>2, CancelWrite
      <4>2. \A j \in Jobs : Status(j)' = IF j = ops.job THEN "pending" ELSE Status(j)
        BY <1>m, <3>2, StatusWrite
      <4>3. \A j \in Jobs : j = ops.job => ~job[j].cancelled
        BY <2>3 DEF OpsRetry, CancelInv, OpsRetriesLive
      <4> QED BY <4>1, <4>2, <4>3
    <3> QED BY <2>3, <3>1, <3>2 DEF OpsRetry
  <2>4. CASE OpsResume \/ OpsSchedule
    BY <1>m, <2>4, CancelWrite, StatusWrite DEF OpsResume, OpsSchedule, Status
  <2>5. CASE OpsCancel
    <3>1. PICK k \in Jobs : job' = [job EXCEPT ![k].status = "failed", ![k].cancelled = TRUE]
      BY <2>5 DEF OpsCancel
    <3>2. \A j \in Jobs : Status(j)' = IF j = k THEN "failed" ELSE Status(j)
      BY <1>m, <3>1, StatusWrite
    <3>3. \A j \in Jobs : job'[j].cancelled <=> j = k \/ job[j].cancelled
      BY <1>m, <3>1, CancelWrite
    <3> QED BY <3>2, <3>3
  <2> QED BY <2>1, <2>2, <2>3, <2>4, <2>5 DEF OpsStep, OpsRequest
<1>1. CancelledIsOver'
  BY <1>b, <1>w DEF CancelInv, CancelledIsOver, OneProcess
<1>2. OpsRetriesLive'
  <2>1. CASE OpsStart \/ OpsResumeRequest
    <3>1. \A j \in Jobs : ops'.pc = "retry" /\ ops'.job = j => ~job[j].cancelled
      BY <2>1 DEF OpsStart, OpsResumeRequest, OpsGoto, Compatible
    <3> QED BY <2>1, <3>1 DEF OpsRetriesLive, OpsStart, OpsResumeRequest
  <2>2. CASE OpsCancel
    <3>1. ops'.pc = "release"
      BY <2>2 DEF OpsCancel, OpsGoto
    <3> QED BY <3>1 DEF OpsRetriesLive
  <2>3. CASE OpsStep
    <3>1. ops'.pc # "retry"
      BY <2>3 DEF OpsStep, OpsCreate, OpsRetry, OpsResume, OpsSchedule, OpsRelease, OpsGoto, OpsDone
    <3> QED BY <3>1 DEF OpsRetriesLive
  <2> QED BY <2>1, <2>2, <2>3 DEF OpsRequest
<1>3. ResumersResume'
  BY <1>r DEF CancelInv, ResumersResume
<1> QED BY <1>1, <1>2, <1>3

LEMMA NextCancelInv == CancellationScope /\ CancelInv /\ [Next]_vars => CancelInv'
<1> SUFFICES ASSUME CancellationScope, CancelInv, [Next]_vars PROVE CancelInv'
  OBVIOUS
<1>t. TypeInv /\ TypeInv'
  BY NextTypeInv DEF CancelInv
<1>1. ASSUME NEW r \in Runners, StepOf(r)
      PROVE  ResumersResume' /\ CancelledIsOver' /\ OpsRetriesLive'
  <2>1. ResumersResume'
    BY <1>t, <1>1, ResumersStep DEF CancelInv
  <2>2. CancelledIsOver'
    BY <1>1, CancelPrepare, CancelRun, CancelOther DEF StepOf
  <2>3. ops' = ops
    <3>1. CASE Invoke(r) \/ PrepareStep(r)
      BY <3>1 DEF Invoke, PrepareStep, ReadLock, SelectJob, LoadJob, CheckLock, Supersede, Retry,
                  Resume, UpdateMetadata, Create, AcquireLock, StartAccepted, StartRefused
    <3>2. CASE RunStep(r)
      BY <1>t, <3>2, RunFacts DEF TypeInv
    <3>3. CASE Heartbeat(r) \/ FaultStep(r)
      BY <3>3, FaultFacts DEF Heartbeat
    <3> QED BY <1>1, <3>1, <3>2, <3>3 DEF StepOf
  <2>4. \A j \in Jobs : job'[j].cancelled => job[j].cancelled
    BY <1>t, <1>1, OnlyOpsCancel
  <2>5. OpsRetriesLive
    BY DEF CancelInv
  <2>6. OpsRetriesLive'
    BY <2>3, <2>4, <2>5 DEF OpsRetriesLive
  <2> QED BY <2>1, <2>2, <2>6
<1>2. ASSUME LeaseExpires \/ UNCHANGED vars
      PROVE  ResumersResume' /\ CancelledIsOver' /\ OpsRetriesLive'
  <2>1. job' = job /\ run' = run /\ ops' = ops
    BY <1>2 DEF LeaseExpires, vars
  <2> QED
    BY <2>1 DEF CancelInv, ResumersResume, CancelledIsOver, OpsRetriesLive, OneProcess, Zombie,
                BeforeTask, Status, Mine, At
<1>3. ASSUME OpsStep \/ OpsRequest
      PROVE  ResumersResume' /\ CancelledIsOver' /\ OpsRetriesLive'
  BY <1>3, CancelOps
<1>4. ResumersResume' /\ CancelledIsOver' /\ OpsRetriesLive'
  BY <1>1, <1>2, <1>3 DEF Next, StepOf
<1> QED BY <1>t, <1>4 DEF CancelInv

LEMMA InitCancelInv == Init => CancelInv
BY InitTypeInv
   DEF Init, CancelInv, ResumersResume, ResumePc, CancelledIsOver, OpsRetriesLive, IdleRun, Absent

\* With one CLI process, or with any number of them that start jobs of their
\* own, a job cancelled through ops_cancel_index is never reported as ready,
\* although a process may go on with it and even retry it.
THEOREM CancelledStaysOver == CancellationScope => (Spec => []CancelledNeverReady)
<1> SUFFICES ASSUME CancellationScope PROVE Spec => []CancelledNeverReady
  OBVIOUS
<1>1. Init => CancelInv
  BY InitCancelInv
<1>2. CancelInv /\ [Next]_vars => CancelInv'
  BY NextCancelInv
<1>3. CancelInv => CancelledNeverReady
  BY DEF CancelInv, CancelledIsOver, Zombie, CancelledNeverReady
<1> QED BY <1>1, <1>2, <1>3, PTL DEF Spec

\* begin_task's own transaction is the only way from its look at the
\* cancellation into the batch.
LEMMA BeginStep ==
  ASSUME TypeInv, NEW r \in Runners, StepOf(r),
         NEW s \in Runners, At(s, "begin"), At(s, "apply")'
  PROVE  Status(Mine(s)) \in ActiveStatus
<1>m. RunType
  BY DEF TypeInv
<1>1. s = r
  BY OthersStay DEF Others, At
<1>2. CASE Invoke(r) \/ PrepareStep(r)
  BY <1>1, <1>2
     DEF Invoke, PrepareStep, ReadLock, SelectJob, LoadJob, CheckLock, Supersede, Retry, Resume,
         UpdateMetadata, Create, AcquireLock, StartAccepted, StartRefused, At
<1>3. CASE RunStep(r)
  <2>1. CASE Advance(r)
    BY <1>m, <1>1, <2>1, MoveFacts DEF Advance, At, RunType, RunState
  <2>2. CASE BeginTask(r)
    BY <1>m, <1>1, <2>2, MoveFacts DEF BeginTask, At
  <2> QED
    BY <1>1, <1>3, <2>1, <2>2
       DEF RunStep, EnterRun, ReportRefused, CheckCancel, BeginPublish, Commit, RunReturns,
           FinalizeStep, Conclude, MarkFailed, ReleaseFirst, Release, At
<1>4. CASE Heartbeat(r)
  BY <1>1, <1>4 DEF Heartbeat, At
<1>5. CASE FaultStep(r)
  BY <1>m, <1>1, <1>5, FaultFacts, MoveFacts DEF At
<1> QED BY <1>2, <1>3, <1>4, <1>5 DEF StepOf

\* The same scope: no incremental run applies a batch after the cancellation of
\* its job, although begin_task looks for one in a transaction of its own, before
\* the update that lets the batch begin.
THEOREM NothingAfterCancel == CancellationScope => (Spec => NoApplyAfterCancel)
<1> SUFFICES ASSUME CancellationScope PROVE Spec => NoApplyAfterCancel
  OBVIOUS
<1> DEFINE Inv == AllTypes /\ CancelInv
           Keeps == \A r \in Runners :
                      At(r, "begin") /\ At(r, "apply")' => ~job[Mine(r)].cancelled
<1>1. Init => Inv
  BY InitAllTypes, InitCancelInv
<1>2. Inv /\ [Next]_vars => Inv' /\ [Keeps]_vars
  <2> SUFFICES ASSUME Inv, [Next]_vars PROVE Inv' /\ [Keeps]_vars
    OBVIOUS
  <2>1. Inv'
    BY NextAllTypes, NextCancelInv
  <2>2. ASSUME NEW s \in Runners, At(s, "begin"), At(s, "apply")', ~UNCHANGED vars
        PROVE  ~job[Mine(s)].cancelled
    <3>1. Mine(s) \in Jobs
      BY <2>2 DEF AllTypes, OwnsJob, JobPc, HoldingPc, At
    <3>2. PICK r \in Runners : StepOf(r)
      <4>1. LeaseExpires \/ OpsStep \/ OpsRequest => run' = run
        BY DEF LeaseExpires, OpsStep, OpsRequest, OpsStart, OpsCreate, OpsResumeRequest, OpsRetry,
               OpsResume, OpsSchedule, OpsCancel, OpsRelease
      <4> QED BY <2>2, <4>1 DEF Next, StepOf, At
    <3>3. Status(Mine(s)) \in ActiveStatus
      BY <2>2, <3>2, BeginStep DEF CancelInv
    <3>4. Status(Mine(s)) # "failed"
      BY <3>3 DEF ActiveStatus, RunningStatus
    <3>5. ~BeforeTask(s, Mine(s))
      BY <2>2 DEF BeforeTask, At
    <3> QED BY <3>1, <3>4, <3>5 DEF CancelInv, CancelledIsOver, Zombie
  <2> QED BY <2>1, <2>2
<1> QED BY <1>1, <1>2, PTL DEF Spec, NoApplyAfterCancel

=============================================================================
