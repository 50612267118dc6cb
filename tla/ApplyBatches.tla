---------------------------- MODULE ApplyBatches ----------------------------
(***************************************************************************)
(* One phase of a run: the files are collected by a pool of workers        *)
(* (indexing/parallel.py), and what they produced is applied in batches of *)
(* bounded size (_apply_metadata_batches, _apply_vector_batches in         *)
(* indexing/pipeline.py).  A batch that fails is halved until the items    *)
(* that fail are alone.  The job may be cancelled at any moment; opening a *)
(* batch looks for it.                                                     *)
(***************************************************************************)
EXTENDS Integers, SequencesExt, FiniteSetsExt

CONSTANTS
  Items,        \* task keys: numbers, in the order of the keys
  Records,      \* Records[i]: how many records item i writes
  Poisoned,     \* sets of items that may turn out not to be writable
  Configured,   \* indexing.workers: a number, 0 for "auto"
  Mode,         \* indexing.parallel_mode
  AllowProcess, \* whether the collector may be run in other processes
  Cpus,         \* os.cpu_count()
  MaxFiles,     \* max_files_per_transaction
  MaxRecords    \* max_records_per_transaction

ASSUME PhaseAssumption ==
  /\ Items \subseteq Nat /\ Items # {} /\ IsFiniteSet(Items)
  /\ Records \in [Items -> Nat]
  /\ Poisoned \subseteq SUBSET Items
  /\ Configured \in Nat /\ Mode \in {"thread", "process", "hybrid"}
  /\ AllowProcess \in BOOLEAN /\ Cpus \in Nat \ {0} /\ MaxFiles \in Nat \ {0} /\ MaxRecords \in Nat \ {0}

VARIABLES
  pool,   \* the collection
  phase   \* the application of its results

phaseVars == <<pool, phase>>

Kinds == {"metadata", "vector"}
\* The n-th is the one that n - 1 others are smaller than.
InKeyOrder(S) ==
  [n \in 1..Cardinality(S) |-> CHOOSE i \in S : Cardinality({k \in S : k < i}) = n - 1]

-----------------------------------------------------------------------------
(* resolve_indexing_workers and parallel_map_ordered.                      *)

DocWorkerCap == 6
CodeProcessCap == 4
LargeRepoCap == 2
LargeRepo == 4096

\* The number of workers of "auto".
AutoWorkers(tasks, source) ==
  LET cap == CASE source = "docs" -> DocWorkerCap
               [] source = "code" /\ Mode # "thread" /\ AllowProcess -> CodeProcessCap
               [] OTHER -> IF tasks < LargeRepo THEN 1 ELSE LargeRepoCap
  IN IF tasks < 4 THEN 1 ELSE Min({tasks, cap, Cpus})

WorkerCount(tasks, source) ==
  IF tasks <= 1 THEN 1 ELSE IF Configured = 0 THEN AutoWorkers(tasks, source) ELSE Min({Configured, tasks})

\* "serial" maps one item at a time, without a pool.
ExecutorKind(tasks, source) ==
  CASE WorkerCount(tasks, source) <= 1 -> "serial"
    [] Mode = "process" /\ AllowProcess -> "process"
    [] Mode = "hybrid" /\ source = "code" /\ AllowProcess -> "process"
    [] OTHER -> "thread"

InFlightLimit(source) ==
  LET n == Cardinality(Items)
  IN IF ExecutorKind(n, source) = "serial" THEN 1 ELSE 2 * WorkerCount(n, source)

IdlePool == [next |-> 1, inFlight |-> {}, ok |-> {}, failed |-> {}]

Submit ==
  /\ phase.pc = "collect"
  /\ pool.next <= Cardinality(Items) /\ Cardinality(pool.inFlight) < InFlightLimit(phase.source)
  /\ pool' = [pool EXCEPT !.next = @ + 1, !.inFlight = @ \cup {InKeyOrder(Items)[pool.next]}]
  /\ UNCHANGED phase

\* Workers take what was submitted first, and finish in any order.
Executing ==
  {i \in pool.inFlight : Cardinality({k \in pool.inFlight : k < i}) <
                           WorkerCount(Cardinality(Items), phase.source)}

Complete ==
  /\ \E i \in Executing :
       /\ \/ pool' = [pool EXCEPT !.inFlight = @ \ {i}, !.ok = @ \cup {i}]
          \/ pool' = [pool EXCEPT !.inFlight = @ \ {i}, !.failed = @ \cup {i}]
  /\ UNCHANGED phase

\* Mutant: the results come in the order in which the workers finished.
AnyOrder(S) == Reverse(InKeyOrder(S))

\* The results in the order of their keys, whatever order they came in.
Collected(S) == InKeyOrder(S)

-----------------------------------------------------------------------------
(* Batches.                                                                *)

SizeOf(i) == Max({1, Records[i]})
SizeOfAll(batch) == SumFunction([n \in DOMAIN batch |-> SizeOf(batch[n])])

Full(batch, i) ==
  batch # <<>> /\ (Len(batch) >= MaxFiles \/ SizeOfAll(batch) + SizeOf(i) > MaxRecords)

\* _build_apply_batches: an item goes to the last batch or begins another.
Batched(batches, i) ==
  IF batches = <<>> \/ Full(Last(batches), i) THEN Append(batches, <<i>>)
  ELSE [batches EXCEPT ![Len(batches)] = Append(@, i)]
BuildBatches(items) == FoldLeft(Batched, <<>>, items)

\* before: how many batches were committed when the job was cancelled.
IdlePhase(kind, source, poison) ==
  [pc |-> "collect", kind |-> kind, source |-> source, poison |-> poison, todo |-> <<>>,
   open |-> <<>>, halves |-> <<>>, committed |-> <<>>, failed |-> <<>>,
   cancelled |-> FALSE, before |-> 0]

\* Metadata batches are cut while the items stream by, vector batches before.
BeginApply ==
  /\ phase.pc = "collect" /\ pool.next > Cardinality(Items) /\ pool.inFlight = {}
  /\ LET items == Collected(pool.ok)
     IN phase' = IF phase.kind = "metadata" THEN [phase EXCEPT !.pc = "stream", !.todo = items]
                 ELSE [phase EXCEPT !.pc = "degrade", !.halves = BuildBatches(items)]
  /\ UNCHANGED pool

\* begin_task raises IndexJobCancelled: out of the stream it ends the phase.
OpenBatch ==
  /\ phase.pc = "stream" /\ phase.open = <<>> /\ phase.todo # <<>>
  /\ phase' = IF phase.cancelled THEN [phase EXCEPT !.pc = "cancelled"]
              ELSE [phase EXCEPT !.pc = "write"]
  /\ UNCHANGED pool

CloseBatch ==
  /\ phase.pc = "stream" /\ phase.open # <<>>
  /\ phase.todo # <<>> => Full(phase.open, Head(phase.todo))
  /\ phase' = [phase EXCEPT !.open = <<>>, !.committed = Append(@, phase.open)]
  /\ UNCHANGED pool

ContinueBatch ==
  /\ phase.pc = "stream" /\ phase.open # <<>> /\ phase.todo # <<>>
  /\ ~Full(phase.open, Head(phase.todo))
  /\ phase' = [phase EXCEPT !.pc = "write"]
  /\ UNCHANGED pool

\* The transaction is committed early when commit_interval_ms has passed.
WriteItem ==
  /\ phase.pc = "write" /\ Head(phase.todo) \notin phase.poison
  /\ LET batch == Append(phase.open, Head(phase.todo))
         written == [phase EXCEPT !.pc = "stream", !.todo = Tail(@)]
     IN \/ phase' = [written EXCEPT !.open = batch]
        \/ phase' = [written EXCEPT !.open = <<>>, !.committed = Append(@, batch)]
  /\ UNCHANGED pool

\* The item raises: its batch is rolled back and taken apart.
RollBack ==
  /\ phase.pc = "write" /\ Head(phase.todo) \in phase.poison
  /\ phase' = [phase EXCEPT !.pc = "degrade", !.todo = Tail(@), !.open = <<>>,
                            !.halves = <<Append(phase.open, Head(phase.todo))>>]
  /\ UNCHANGED pool

\* Half a batch cannot be written: it is halved again, or is alone and fails.
Degrade(half) ==
  LET mid == Max({1, Len(half) \div 2})
      rest == Tail(phase.halves)
  IN phase' = [phase EXCEPT !.pc = "degrade",
                 !.failed = IF Len(half) = 1 THEN Append(@, half[1]) ELSE @,
                 !.halves = IF Len(half) = 1 THEN rest
                            ELSE <<SubSeq(half, 1, mid), SubSeq(half, mid + 1, Len(half))>> \o rest]

\* Mutant: the halves of a batch are written without looking at the job again.
OpenHalfUnasked ==
  /\ phase.pc = "degrade" /\ phase.halves # <<>>
  /\ phase' = [phase EXCEPT !.pc = "half"]
  /\ UNCHANGED pool

\* _apply_batch_with_degradation: here the cancellation that on_batch_open
\* raises is an exception like any other, and the items count as failed.
OpenHalf ==
  /\ phase.pc = "degrade" /\ phase.halves # <<>>
  /\ IF phase.cancelled THEN Degrade(Head(phase.halves)) ELSE phase' = [phase EXCEPT !.pc = "half"]
  /\ UNCHANGED pool

ApplyHalf ==
  /\ phase.pc = "half"
  /\ LET half == Head(phase.halves)
     IN IF Range(half) \cap phase.poison # {} THEN Degrade(half)
        ELSE phase' = [phase EXCEPT !.pc = "degrade", !.halves = Tail(@),
                                    !.committed = Append(@, half)]
  /\ UNCHANGED pool

EndDegradation ==
  /\ phase.pc = "degrade" /\ phase.halves = <<>>
  /\ phase' = [phase EXCEPT !.pc = IF phase.kind = "metadata" THEN "stream" ELSE "done"]
  /\ UNCHANGED pool

EndStream ==
  /\ phase.pc = "stream" /\ phase.open = <<>> /\ phase.todo = <<>>
  /\ phase' = [phase EXCEPT !.pc = "done"]
  /\ UNCHANGED pool

CancelJob ==
  /\ phase.pc \notin {"done", "cancelled"} /\ ~phase.cancelled
  /\ phase' = [phase EXCEPT !.cancelled = TRUE, !.before = Len(phase.committed)]
  /\ UNCHANGED pool

PhaseInit ==
  /\ pool = IdlePool
  /\ \E kind \in Kinds, source \in {"code", "docs"}, poison \in Poisoned :
       /\ kind = "vector" => source = "docs"
       /\ phase = IdlePhase(kind, source, poison)

PhaseNext ==
  \/ Submit \/ Complete \/ BeginApply
  \/ OpenBatch \/ ContinueBatch \/ WriteItem \/ CloseBatch \/ RollBack
  \/ OpenHalf \/ ApplyHalf \/ EndDegradation \/ EndStream \/ CancelJob

-----------------------------------------------------------------------------
\* What a phase reports adds up: every collected item is committed once or
\* reported as failed once, in the order of the keys, and unless the job was
\* cancelled only the items that cannot be written fail, whatever batch they
\* were in; and a transaction writes at most max_files and, unless it is one
\* big file, max_records, whether it was cut from the stream, before it or in
\* halves (_apply_metadata_batches, _apply_batch_with_degradation).
PhaseAddsUp ==
  LET written == FlattenSeq(phase.committed)
  IN /\ Range(written) \cap Range(phase.failed) = {} /\ IsInjective(phase.failed)
     /\ \A a, b \in DOMAIN written : a < b => written[a] < written[b]
     /\ phase.pc = "done" => Range(written) \cup Range(phase.failed) = pool.ok
     /\ ~phase.cancelled => Range(phase.failed) \subseteq phase.poison
     /\ \A batch \in Range(phase.committed) :
          Len(batch) <= MaxFiles /\ (Len(batch) > 1 => SizeOfAll(batch) <= MaxRecords)

\* After a cancellation at most the batch that was open is still committed,
\* also where the degradation swallows IndexJobCancelled (pipeline.py:2119).
NothingBegunAfterCancel == phase.cancelled => Len(phase.committed) <= phase.before + 1
=============================================================================
