--------------------------- MODULE PipelineProofs ---------------------------
(***************************************************************************)
(* Theorems about two parts of a run of the pipeline: the batches of a     *)
(* phase (ApplyBatches), for any items, batch bounds and workers, and the  *)
(* profile-conditioned relations from run to run (ProfileRelations), for   *)
(* any profiles, guards and runs.                                          *)
(***************************************************************************)
EXTENDS ApplyBatches, ProfileRelations, DataFacts

-----------------------------------------------------------------------------
(* The batches of a phase.                                                 *)

PhaseSpec == PhaseInit /\ [][PhaseNext]_phaseVars

\* What is a sequence, whatever is in it.
IsSequence(s) == \E S : s \in Seq(S)

PhaseShape ==
  /\ phase = [pc |-> phase.pc, kind |-> phase.kind, source |-> phase.source,
              poison |-> phase.poison, todo |-> phase.todo, open |-> phase.open,
              halves |-> phase.halves, committed |-> phase.committed, failed |-> phase.failed,
              cancelled |-> phase.cancelled, before |-> phase.before]
  /\ IsSequence(phase.committed)

\* Only the stream has a batch open: halves are tried when none is.
HalvesAlone == phase.pc \in {"stream", "write"} \/ phase.open = <<>>

\* The batch that was open when the job was cancelled may still be committed.
\* Then none is open any more, and every way to open one looks for the
\* cancellation first.
LastBatch ==
  phase.cancelled =>
    \/ Len(phase.committed) = phase.before
    \/ /\ Len(phase.committed) = phase.before + 1
       /\ phase.open = <<>> /\ phase.pc \notin {"write", "half"}

PhaseInv ==
  PhaseShape /\ phase.before \in Nat /\ HalvesAlone /\ LastBatch

LEMMA Appended ==
  ASSUME NEW s, IsSequence(s), NEW x
  PROVE  IsSequence(Append(s, x)) /\ Len(s) \in Nat /\ Len(Append(s, x)) = Len(s) + 1
<1>1. PICK S : s \in Seq(S)
  BY DEF IsSequence
<1>2. s \in Seq(S \cup {x})
  BY <1>1
<1> QED BY <1>1, <1>2 DEF IsSequence

LEMMA InitPhaseInv == PhaseInit => PhaseInv
<1> SUFFICES ASSUME PhaseInit PROVE PhaseInv
  OBVIOUS
<1>1. PICK kind \in Kinds, source \in {"code", "docs"}, poison \in Poisoned :
        phase = IdlePhase(kind, source, poison)
  BY DEF PhaseInit
<1>2. phase.committed \in Seq({}) /\ phase.cancelled = FALSE
  BY <1>1 DEF IdlePhase
<1> QED BY <1>1, <1>2
        DEF IdlePhase, PhaseInv, PhaseShape, IsSequence, HalvesAlone, LastBatch

\* A step that commits nothing, opens no batch and asks for no cancellation.
LEMMA QuietStep ==
  ASSUME PhaseInv, PhaseShape', phase'.committed = phase.committed,
         phase'.cancelled = phase.cancelled, phase'.before = phase.before,
         phase'.open \in {phase.open, <<>>},
         phase'.pc \in {"write", "half"} =>
           phase.pc = phase'.pc \/ ~phase.cancelled \/ phase.open # <<>>,
         phase'.pc \in {"stream", "write"} \/ phase'.open = <<>>
  PROVE  PhaseInv'
BY DEF PhaseInv, HalvesAlone, LastBatch

\* A step that commits the batch that was open or the half that was tried.
LEMMA CommitStep ==
  ASSUME PhaseInv, PhaseShape', NEW batch, phase'.committed = Append(phase.committed, batch),
         phase'.cancelled = phase.cancelled, phase'.before = phase.before,
         phase.pc \in {"write", "half"} \/ phase.open # <<>>,
         phase'.open = <<>>, phase'.pc \notin {"write", "half"}
  PROVE  PhaseInv'
<1>1. Len(phase'.committed) = Len(phase.committed) + 1
  BY Appended DEF PhaseInv, PhaseShape
<1> QED BY <1>1 DEF PhaseInv, HalvesAlone, LastBatch

LEMMA NextPhaseInv == PhaseInv /\ [PhaseNext]_phaseVars => PhaseInv'
<1> SUFFICES ASSUME PhaseInv, [PhaseNext]_phaseVars PROVE PhaseInv'
  OBVIOUS
<1>t. PhaseShape /\ HalvesAlone
  BY DEF PhaseInv
<1>1. CASE Submit \/ Complete \/ UNCHANGED phaseVars
  <2>1. UNCHANGED phase
    BY <1>1 DEF Submit, Complete, phaseVars
  <2> QED BY <2>1 DEF PhaseInv, PhaseShape, HalvesAlone, LastBatch
<1>2. CASE BeginApply
  <2> DEFINE items == Collected(pool.ok)
             halves == BuildBatches(items)
  <2>1. /\ phase.pc = "collect"
        /\ \/ phase' = [phase EXCEPT !.pc = "stream", !.todo = items]
           \/ phase' = [phase EXCEPT !.pc = "degrade", !.halves = halves]
    BY <1>2 DEF BeginApply
  <2> HIDE DEF items, halves
  <2>2. PhaseShape' /\ phase'.pc \in {"stream", "degrade"} /\ phase'.open = <<>>
    BY <1>t, <2>1 DEF PhaseShape, HalvesAlone
  <2>3. /\ phase'.committed = phase.committed /\ phase'.cancelled = phase.cancelled
        /\ phase'.before = phase.before
    BY <1>t, <2>1 DEF PhaseShape
  <2> QED BY QuietStep, <2>2, <2>3
<1>3. CASE OpenBatch \/ ContinueBatch \/ EndDegradation \/ EndStream
  <2>1. PICK pc : phase' = [phase EXCEPT !.pc = pc]
    BY <1>3 DEF OpenBatch, ContinueBatch, EndDegradation, EndStream
  <2>2. /\ PhaseShape' /\ phase'.pc = pc /\ phase'.open = phase.open
        /\ phase'.committed = phase.committed /\ phase'.cancelled = phase.cancelled
        /\ phase'.before = phase.before
    BY <1>t, <2>1 DEF PhaseShape
  <2>3. CASE OpenBatch
    BY QuietStep, <1>t, <2>2, <2>3 DEF OpenBatch, PhaseShape
  <2>4. CASE ContinueBatch
    BY QuietStep, <1>t, <2>2, <2>4 DEF ContinueBatch, PhaseShape
  <2>5. CASE EndDegradation \/ EndStream
    BY QuietStep, <1>t, <2>2, <2>5 DEF EndDegradation, EndStream, HalvesAlone, PhaseShape
  <2> QED BY <1>3, <2>3, <2>4, <2>5
<1>4. CASE CloseBatch
  <2>1. /\ phase.pc = "stream" /\ phase.open # <<>>
        /\ phase' = [phase EXCEPT !.open = <<>>, !.committed = Append(phase.committed, phase.open)]
    BY <1>4 DEF CloseBatch
  <2>2. /\ phase'.committed = Append(phase.committed, phase.open) /\ phase'.open = <<>>
        /\ phase'.pc = "stream" /\ phase'.cancelled = phase.cancelled
        /\ phase'.before = phase.before
    BY <1>t, <2>1 DEF PhaseShape
  <2>3. PhaseShape'
    BY <1>t, <2>1, <2>2, Appended DEF PhaseShape
  <2> QED BY CommitStep, <2>1, <2>2, <2>3
<1>5. CASE WriteItem
  <2> DEFINE batch == Append(phase.open, Head(phase.todo))
             rest == Tail(phase.todo)
  <2>1. /\ phase.pc = "write"
        /\ \/ phase' = [phase EXCEPT !.pc = "stream", !.todo = rest, !.open = batch]
           \/ phase' = [phase EXCEPT !.pc = "stream", !.todo = rest, !.open = <<>>,
                                     !.committed = Append(phase.committed, batch)]
    BY <1>t, <1>5 DEF WriteItem, PhaseShape
  <2> HIDE DEF batch, rest
  <2>2. CASE phase' = [phase EXCEPT !.pc = "stream", !.todo = rest, !.open = batch]
    <3>1. /\ PhaseShape' /\ phase'.pc = "stream" /\ phase'.committed = phase.committed
          /\ phase'.cancelled = phase.cancelled /\ phase'.before = phase.before
      BY <1>t, <2>2 DEF PhaseShape
    <3> QED BY <2>1, <3>1 DEF PhaseInv, HalvesAlone, LastBatch
  <2>3. CASE phase' = [phase EXCEPT !.pc = "stream", !.todo = rest, !.open = <<>>,
                                    !.committed = Append(phase.committed, batch)]
    <3>1. /\ phase'.committed = Append(phase.committed, batch) /\ phase'.open = <<>>
          /\ phase'.pc = "stream" /\ phase'.cancelled = phase.cancelled
          /\ phase'.before = phase.before
      BY <1>t, <2>3 DEF PhaseShape
    <3>2. PhaseShape'
      BY <1>t, <2>3, <3>1, Appended DEF PhaseShape
    <3> QED BY CommitStep, <2>1, <3>1, <3>2
  <2> QED BY <2>1, <2>2, <2>3
<1>6. CASE RollBack
  <2> DEFINE halves == <<Append(phase.open, Head(phase.todo))>>
             rest == Tail(phase.todo)
  <2>1. phase' = [phase EXCEPT !.pc = "degrade", !.todo = rest, !.open = <<>>, !.halves = halves]
    BY <1>6 DEF RollBack
  <2> HIDE DEF halves, rest
  <2>2. /\ PhaseShape' /\ phase'.pc = "degrade" /\ phase'.open = <<>>
        /\ phase'.committed = phase.committed /\ phase'.cancelled = phase.cancelled
        /\ phase'.before = phase.before
    BY <1>t, <2>1 DEF PhaseShape
  <2> QED BY QuietStep, <2>2
<1>d. ASSUME NEW half, Degrade(half), phase.pc \in {"degrade", "half"} PROVE PhaseInv'
  <2>1. PICK failed, halves :
          phase' = [phase EXCEPT !.pc = "degrade", !.failed = failed, !.halves = halves]
    BY <1>d DEF Degrade
  <2>2. /\ PhaseShape' /\ phase'.pc = "degrade" /\ phase'.open = phase.open
        /\ phase'.committed = phase.committed /\ phase'.cancelled = phase.cancelled
        /\ phase'.before = phase.before
    BY <1>t, <2>1 DEF PhaseShape
  <2> QED BY QuietStep, <1>d, <1>t, <2>2 DEF HalvesAlone
<1>7. CASE OpenHalf
  <2>1. phase.pc = "degrade"
    BY <1>7 DEF OpenHalf
  <2>2. CASE phase.cancelled
    BY <1>d, <1>7, <2>1, <2>2 DEF OpenHalf
  <2>3. CASE ~phase.cancelled
    <3>1. phase' = [phase EXCEPT !.pc = "half"]
      BY <1>7, <2>3 DEF OpenHalf
    <3>2. /\ PhaseShape' /\ phase'.pc = "half" /\ phase'.open = phase.open
          /\ phase'.committed = phase.committed /\ phase'.cancelled = phase.cancelled
          /\ phase'.before = phase.before
      BY <1>t, <3>1 DEF PhaseShape
    <3> QED BY QuietStep, <1>t, <2>1, <2>3, <3>2 DEF HalvesAlone
  <2> QED BY <2>2, <2>3
<1>8. CASE ApplyHalf
  <2> DEFINE half == Head(phase.halves)
             rest == Tail(phase.halves)
  <2>1. phase.pc = "half"
    BY <1>8 DEF ApplyHalf
  <2>2. CASE Degrade(half)
    BY <1>d, <2>1, <2>2
  <2>3. CASE phase' = [phase EXCEPT !.pc = "degrade", !.halves = rest,
                                    !.committed = Append(phase.committed, half)]
    <3> HIDE DEF half, rest
    <3>1. /\ phase'.committed = Append(phase.committed, half) /\ phase'.open = phase.open
          /\ phase'.pc = "degrade" /\ phase'.cancelled = phase.cancelled
          /\ phase'.before = phase.before
      BY <1>t, <2>3 DEF PhaseShape
    <3>2. PhaseShape'
      BY <1>t, <2>3, <3>1, Appended DEF PhaseShape
    <3> QED BY CommitStep, <1>t, <2>1, <3>1, <3>2 DEF HalvesAlone
  <2> QED BY <1>8, <2>2, <2>3 DEF ApplyHalf
<1>9. CASE CancelJob
  <2>1. phase' = [phase EXCEPT !.cancelled = TRUE, !.before = Len(phase.committed)]
    BY <1>9 DEF CancelJob
  <2>2. PhaseShape' /\ phase'.pc = phase.pc /\ phase'.open = phase.open
    BY <1>t, <2>1 DEF PhaseShape
  <2>3. phase'.committed = phase.committed /\ phase'.before = Len(phase'.committed)
    BY <1>t, <2>1 DEF PhaseShape
  <2>4. Len(phase.committed) \in Nat
    BY <1>t, Appended DEF PhaseShape
  <2> QED BY <1>t, <2>2, <2>3, <2>4 DEF PhaseInv, HalvesAlone, LastBatch
<1> QED BY <1>1, <1>2, <1>3, <1>4, <1>5, <1>6, <1>7, <1>8, <1>9 DEF PhaseNext

\* After a cancellation at most the batch that was open is still committed,
\* whether batches are cut from the stream or halved: whoever is about to
\* open one looks for the cancellation, and the degradation that swallows it
\* opens none either (pipeline.py _apply_batch_with_degradation).
THEOREM OneBatchAfterCancel == PhaseSpec => []NothingBegunAfterCancel
<1>1. PhaseInv => NothingBegunAfterCancel
  BY DEF PhaseInv, LastBatch, NothingBegunAfterCancel
<1> QED BY <1>1, InitPhaseInv, NextPhaseInv, PTL DEF PhaseSpec

-----------------------------------------------------------------------------
(* How batches are cut, for any items and bounds.                          *)

Sizes == [i \in Items |-> SizeOf(i)]

LEMMA SizesAreNat ==
  /\ \A i \in Items : SizeOf(i) \in Nat /\ Sizes[i] = SizeOf(i)
  /\ Weighed(Sizes, Items)
  /\ \A batch \in Seq(Items) : SizeOfAll(batch) = Weigh(Sizes, batch) /\ SizeOfAll(batch) \in Nat
<1>1. ASSUME NEW i \in Items PROVE SizeOf(i) \in Nat
  <2>1. Records[i] \in Nat BY PhaseAssumption
  <2>2. Max({1, Records[i]}) = IF 1 >= Records[i] THEN 1 ELSE Records[i] BY <2>1, LargerOfTwo
  <2> QED BY <2>1, <2>2 DEF SizeOf
<1>2. \A i \in Items : Sizes[i] = SizeOf(i) /\ Sizes[i] \in Nat BY <1>1 DEF Sizes
<1>3. ASSUME NEW batch \in Seq(Items) PROVE SizeOfAll(batch) = Weigh(Sizes, batch) /\ SizeOfAll(batch) \in Nat
  <2>1. \A n \in DOMAIN batch : Sizes[batch[n]] = SizeOf(batch[n]) BY <1>2
  <2>2. [n \in DOMAIN batch |-> Sizes[batch[n]]] = [n \in DOMAIN batch |-> SizeOf(batch[n])] BY <2>1
  <2>3. SizeOfAll(batch) = Weigh(Sizes, batch) BY <2>2 DEF SizeOfAll, Weigh
  <2>4. Weigh(Sizes, batch) \in Nat BY <1>2, WeightIsNat
  <2> QED BY <2>3, <2>4
<1> QED BY <1>1, <1>2, <1>3 DEF Weighed

\* What a transaction may write.
Fits(batch) == Len(batch) <= MaxFiles /\ (Len(batch) > 1 => SizeOfAll(batch) <= MaxRecords)

LEMMA MoreFits ==
  ASSUME NEW batch \in Seq(Items), NEW i \in Items
  PROVE  /\ Fits(<<>>) /\ Fits(<<i>>)
         /\ Fits(batch) /\ ~Full(batch, i) => Fits(Append(batch, i))
<1>1. Fits(<<>>) /\ Fits(<<i>>)
  BY PhaseAssumption DEF Fits
<1>2. ASSUME Fits(batch), ~Full(batch, i) PROVE Fits(Append(batch, i))
  <2>1. CASE batch = <<>>
    BY <1>1, <2>1
  <2>2. CASE batch # <<>>
    <3> DEFINE n == SizeOfAll(batch)
               m == SizeOf(i)
    <3>1. /\ Len(batch) \in Nat /\ n \in Nat /\ m \in Nat
          /\ MaxFiles \in Nat /\ MaxRecords \in Nat
      BY SizesAreNat, PhaseAssumption
    <3>2. ~(Len(batch) >= MaxFiles) /\ ~(n + m > MaxRecords)
      BY <1>2, <2>2 DEF Full
    <3>3. SizeOfAll(Append(batch, i)) = n + m
      <4>1. Append(batch, i) \in Seq(Items) OBVIOUS
      <4>2. Weigh(Sizes, Append(batch, i)) = Weigh(Sizes, batch) + Sizes[i]
        BY SizesAreNat, WeightOfAppended
      <4> QED BY <4>1, <4>2, SizesAreNat
    <3> HIDE DEF n, m
    <3>4. Len(Append(batch, i)) = Len(batch) + 1 OBVIOUS
    <3> QED BY <3>1, <3>2, <3>3, <3>4 DEF Fits
  <2> QED BY <2>1, <2>2
<1> QED BY <1>1, <1>2

LEMMA PartsFit ==
  ASSUME NEW s \in Seq(Items), NEW t \in Seq(Items), Fits(s \o t)
  PROVE  Fits(s) /\ Fits(t)
<1> DEFINE a == SizeOfAll(s)
           b == SizeOfAll(t)
           m == Len(s)
           n == Len(t)
<1>1. a \in Nat /\ b \in Nat /\ m \in Nat /\ n \in Nat /\ MaxFiles \in Nat /\ MaxRecords \in Nat
  BY SizesAreNat, PhaseAssumption
<1>2. SizeOfAll(s \o t) = a + b /\ Len(s \o t) = m + n
  <2>1. s \o t \in Seq(Items) OBVIOUS
  <2>2. Weigh(Sizes, s \o t) = Weigh(Sizes, s) + Weigh(Sizes, t) BY SizesAreNat, WeightOfJoined
  <2>3. SizeOfAll(s \o t) = Weigh(Sizes, s \o t) /\ a = Weigh(Sizes, s) /\ b = Weigh(Sizes, t)
    BY <2>1, SizesAreNat
  <2> QED BY <2>2, <2>3
<1> HIDE DEF a, b, m, n
<1>3. m + n <= MaxFiles /\ (m + n > 1 => a + b <= MaxRecords) BY <1>2 DEF Fits
<1>4. m <= MaxFiles /\ n <= MaxFiles /\ (m > 1 => a <= MaxRecords) /\ (n > 1 => b <= MaxRecords)
  BY <1>1, <1>3
<1> QED BY <1>4 DEF Fits, a, b, m, n

-----------------------------------------------------------------------------
(* What _build_apply_batches builds.                                       *)

\* Batches are lists of items; none is empty and each fits.
Batches == {b \in Seq(Items) : b # <<>> /\ Fits(b)}

LEMMA BatchesJoined ==
  /\ FlattenSeq(<<>>) = <<>>
  /\ \A seqs \in Seq(Seq(Items)), t \in Seq(Items) :
       /\ FlattenSeq(seqs) \in Seq(Items)
       /\ FlattenSeq(Append(seqs, t)) = FlattenSeq(seqs) \o t
       /\ FlattenSeq(<<t>> \o seqs) = t \o FlattenSeq(seqs)
<1>1. FlattenSeq(<<>>) = <<>> BY DEF FlattenSeq
<1>2. ASSUME NEW seqs \in Seq(Seq(Items)), NEW t \in Seq(Items)
      PROVE  /\ FlattenSeq(seqs) \in Seq(Items)
             /\ FlattenSeq(Append(seqs, t)) = FlattenSeq(seqs) \o t
             /\ FlattenSeq(<<t>> \o seqs) = t \o FlattenSeq(seqs)
  BY FlattenAppended, FlattenConsed, Zenon
<1> QED BY <1>1, <1>2

LEMMA BatchedOne ==
  ASSUME NEW batches \in Seq(Batches), NEW i \in Items
  PROVE  /\ Batched(batches, i) \in Seq(Batches)
         /\ FlattenSeq(Batched(batches, i)) = FlattenSeq(batches) \o <<i>>
<1>1. batches \in Seq(Seq(Items)) /\ <<i>> \in Seq(Items)
  BY DEF Batches
<1>2. <<i>> \in Batches
  BY MoreFits DEF Batches
<1>3. CASE batches = <<>> \/ Full(Last(batches), i)
  <2>1. Batched(batches, i) = Append(batches, <<i>>) BY <1>3 DEF Batched
  <2>2. Append(batches, <<i>>) \in Seq(Batches) BY <1>2
  <2> QED BY <1>1, <2>1, <2>2, BatchesJoined
<1>4. CASE ~(batches = <<>> \/ Full(Last(batches), i))
  <2>1. PICK front \in Seq(Batches), last \in Batches : batches = Append(front, last)
    BY <1>4, SequenceEmptyOrAppend
  <2>2. last \in Seq(Items) /\ Fits(last) /\ front \in Seq(Seq(Items)) BY DEF Batches
  <2>3. Last(batches) = last BY <2>1 DEF Last
  <2>4. Fits(Append(last, i)) BY <1>4, <2>2, <2>3, MoreFits
  <2>12. Append(last, i) \in Seq(Items) /\ Append(last, i) # <<>> BY <2>2
  <2>5. Append(last, i) \in Batches BY <2>12, <2>4 DEF Batches
  <2>6. Batched(batches, i) = [batches EXCEPT ![Len(batches)] = Append(last, i)]
    BY <1>4, <2>3 DEF Batched, Last
  <2>7. [batches EXCEPT ![Len(batches)] = Append(last, i)] = Append(front, Append(last, i))
    <3> DEFINE u == [batches EXCEPT ![Len(batches)] = Append(last, i)]
               v == Append(front, Append(last, i))
               m == Len(front) + 1
    <3>1. Len(batches) = m /\ m \in Nat /\ DOMAIN batches = 1..m /\ \A k \in 1..m : k # m => batches[k] = front[k]
      BY <2>1
    <3>2. u \in Seq(Batches) /\ v \in Seq(Batches) /\ Len(u) = m /\ Len(v) = m
      <4>1. Len(batches) \in 1..Len(batches) /\ batches \in Seq(Batches) BY <3>1
      <4>2. u \in Seq(Batches) /\ Len(u) = Len(batches) BY <2>5, <4>1, ExceptSeq
      <4> QED BY <2>5, <3>1, <4>2
    <3>3. \A k \in 1..m : u[k] = v[k] BY <2>5, <3>1
    <3> HIDE DEF u, v, m
    <3>4. u = v BY <3>2, <3>3, SeqEqual
    <3> QED BY <3>4 DEF u, v
  <2>8. Append(front, Append(last, i)) \in Seq(Batches) BY <2>5
  <2>9. FlattenSeq(Append(front, Append(last, i))) = FlattenSeq(front) \o Append(last, i)
    BY <2>2, <2>12, BatchesJoined
  <2>10. FlattenSeq(batches) = FlattenSeq(front) \o last /\ FlattenSeq(front) \in Seq(Items)
    BY <2>1, <2>2, <2>12, BatchesJoined
  <2>11. FlattenSeq(front) \o Append(last, i) = (FlattenSeq(front) \o last) \o <<i>>
    BY <2>2, <2>10, ConcatAssociative, AppendIsConcat
  <2> QED BY <2>6, <2>7, <2>8, <2>9, <2>10, <2>11
<1> QED BY <1>3, <1>4

LEMMA BuiltBatches ==
  ASSUME NEW items \in Seq(Items)
  PROVE  BuildBatches(items) \in Seq(Batches) /\ FlattenSeq(BuildBatches(items)) = items
<1> DEFINE n == Len(items)
           S == 1..n
           V == Seq(Batches)
           Iter(g) == [T \in SUBSET S |-> IF T = {} THEN <<>>
                                          ELSE Batched(g[T \ {Max(T)}], items[Max(T)])]
           iter == CHOOSE g : g = Iter(g)
<1>1. n \in Nat /\ DOMAIN items = S /\ \A k \in S : items[k] \in Items
  BY LenProperties
<1>2. IsFiniteSet(S) BY <1>1, FS_Interval
<1>3. \A T \in SUBSET S : T # {} => Max(T) \in T BY <1>1, LargestNumber
<1>4. BuildBatches(items) = iter[S]
  BY <1>1 DEF BuildBatches, FoldLeft, MapThenFoldSet
<1>5. iter = Iter(iter)
  <2> DEFINE pick == [T \in SUBSET S |-> Max(T)]
             Op == [p \in S \X V |-> Batched(p[2], items[p[1]])]
  <2>1. \A x \in S : \A v \in V : Op[<<x, v>>] = Batched(v, items[x]) /\ Op[<<x, v>>] \in V
    BY <1>1, BatchedOne
  <2>2. \A T \in SUBSET S : pick[T] = Max(T) /\ (T # {} => pick[T] \in T) BY <1>3
  <2>3. <<>> \in V OBVIOUS
  <2> HIDE DEF pick, Op, V, S
  <2>4. Recursion(S, V, <<>>, pick, Op) BY <2>1, <2>2, <2>3 DEF Recursion
  <2>5. PICK g \in [SUBSET S -> V] : Solution(g, S, <<>>, pick, Op)
    BY <1>2, <2>4, RecursionOverSets, Zenon
  <2>6. ASSUME NEW T \in SUBSET S PROVE g[T] = IF T = {} THEN <<>> ELSE Batched(g[T \ {Max(T)}], items[Max(T)])
    <3>1. g[T] = IF T = {} THEN <<>> ELSE Op[<<pick[T], g[T \ {pick[T]}]>>] BY <2>5 DEF Solution
    <3>2. CASE T = {} BY <3>1, <3>2
    <3>3. CASE T # {}
      <4>1. pick[T] = Max(T) /\ Max(T) \in S /\ T \ {Max(T)} \in SUBSET S BY <2>2, <3>3
      <4>2. g[T \ {Max(T)}] \in V BY <4>1
      <4> QED BY <2>1, <3>1, <3>3, <4>1, <4>2
    <3> QED BY <3>2, <3>3
  <2>7. g = Iter(g) BY <2>6
  <2> QED BY <2>7
<1>6. \A T \in SUBSET S : iter[T] = IF T = {} THEN <<>> ELSE Batched(iter[T \ {Max(T)}], items[Max(T)])
  <2> HIDE DEF iter, S
  <2> QED BY <1>5
<1> HIDE DEF iter, n, V
<1>7. ASSUME NEW k \in Nat, k + 1 <= n PROVE iter[1..(k + 1)] = Batched(iter[1..k], items[k + 1])
  <2>1. 1..(k + 1) \in SUBSET S /\ k + 1 \in 1..(k + 1) /\ (1..(k + 1)) \ {k + 1} = 1..k BY <1>1, <1>7
  <2>2. Max(1..(k + 1)) = k + 1
    <3>1. Max(1..(k + 1)) \in 1..(k + 1) /\ \A m \in 1..(k + 1) : m <= Max(1..(k + 1))
      BY <1>1, <2>1, LargestNumber
    <3> QED BY <2>1, <3>1
  <2> QED BY <1>6, <2>1, <2>2
<1>8. iter[1..0] = <<>>
  <2>1. 1..0 = {} /\ {} \in SUBSET S OBVIOUS
  <2> QED BY <1>6, <2>1
<1> DEFINE N == {k \in Nat : k <= n => /\ iter[1..k] \in Seq(Batches)
                                       /\ FlattenSeq(iter[1..k]) = SubSeq(items, 1, k)}
<1>9. 0 \in N
  <2>1. SubSeq(items, 1, 0) = <<>> /\ <<>> \in Seq(Batches) OBVIOUS
  <2>2. FlattenSeq(<<>>) = <<>> BY DEF FlattenSeq
  <2> QED BY <1>8, <2>1, <2>2
<1>10. ASSUME NEW k \in Nat, k \in N PROVE k + 1 \in N
  <2> SUFFICES ASSUME k + 1 <= n PROVE /\ iter[1..(k + 1)] \in Seq(Batches)
                                       /\ FlattenSeq(iter[1..(k + 1)]) = SubSeq(items, 1, k + 1)
    OBVIOUS
  <2>1. k <= n BY <1>1
  <2>2. iter[1..k] \in Seq(Batches) /\ FlattenSeq(iter[1..k]) = SubSeq(items, 1, k) BY <1>10, <2>1
  <2>3. items[k + 1] \in Items BY <1>1
  <2>4. SubSeq(items, 1, k + 1) = SubSeq(items, 1, k) \o <<items[k + 1]>>
    BY <1>1 DEF n
  <2> HIDE DEF N
  <2>5. /\ Batched(iter[1..k], items[k + 1]) \in Seq(Batches)
        /\ FlattenSeq(Batched(iter[1..k], items[k + 1])) = FlattenSeq(iter[1..k]) \o <<items[k + 1]>>
    BY <2>2, <2>3, BatchedOne
  <2> QED BY <1>7, <2>2, <2>4, <2>5
<1> HIDE DEF N
<1>11. n \in N BY <1>1, <1>9, <1>10, NumbersInduct
<1>12. SubSeq(items, 1, n) = items BY DEF n
<1> QED BY <1>1, <1>4, <1>11, <1>12 DEF N

-----------------------------------------------------------------------------
(* Every item is accounted for.                                            *)

PhaseFields ==
  phase = [pc |-> phase.pc, kind |-> phase.kind, source |-> phase.source,
           poison |-> phase.poison, todo |-> phase.todo, open |-> phase.open,
           halves |-> phase.halves, committed |-> phase.committed, failed |-> phase.failed,
           cancelled |-> phase.cancelled, before |-> phase.before]

PoolType ==
  /\ pool = [next |-> pool.next, inFlight |-> pool.inFlight, ok |-> pool.ok, failed |-> pool.failed]
  /\ pool.next \in Nat \ {0} /\ pool.inFlight \subseteq Items /\ pool.ok \subseteq Items

BatchesType ==
  /\ PhaseFields /\ phase.kind \in Kinds
  /\ phase.todo \in Seq(Items) /\ phase.open \in Seq(Items) /\ phase.failed \in Seq(Items)
  /\ phase.halves \in Seq(Batches) /\ phase.committed \in Seq(Batches)

\* Where the items are at each step.
BatchesPlaced ==
  /\ IF phase.pc = "collect"
     THEN /\ phase.todo = <<>> /\ phase.halves = <<>>
          /\ phase.committed = <<>> /\ phase.failed = <<>>
     ELSE pool.inFlight = {}
  /\ phase.pc \notin {"stream", "write"} => phase.open = <<>>
  /\ phase.pc \in {"stream", "write", "done"} => phase.halves = <<>>
  /\ phase.pc = "write" => phase.todo # <<>> /\ ~Full(phase.open, Head(phase.todo))
  /\ phase.pc = "half" => phase.halves # <<>>
  /\ phase.kind = "vector" \/ phase.pc = "done" => phase.todo = <<>>
  /\ Fits(phase.open)

\* What was committed and what is still to be, in a line.
Line ==
  FlattenSeq(phase.committed) \o (phase.open \o (FlattenSeq(phase.halves) \o phase.todo))

Accounts ==
  /\ Ascending(Line) /\ IsInjective(phase.failed)
  /\ Range(Line) \cap Range(phase.failed) = {}
  /\ phase.pc # "collect" => Range(Line) \cup Range(phase.failed) = pool.ok
  /\ ~phase.cancelled => Range(phase.failed) \subseteq phase.poison

AccountsInv == PoolType /\ BatchesType /\ BatchesPlaced /\ Accounts

LEMMA ItemsJoined ==
  /\ <<>> \in Seq(Items)
  /\ \A s \in Seq(Items) : s \o <<>> = s /\ <<>> \o s = s
  /\ \A s, t \in Seq(Items) : s \o t \in Seq(Items)
  /\ \A s, t, u \in Seq(Items) : (s \o t) \o u = s \o (t \o u)
  /\ \A s \in Seq(Items), i \in Items : Append(s, i) = s \o <<i>> /\ <<i>> \in Seq(Items)
  /\ \A s \in Seq(Items) : s # <<>> =>
       Head(s) \in Items /\ Tail(s) \in Seq(Items) /\ s = <<Head(s)>> \o Tail(s)
<1>1. /\ \A s \in Seq(Items) : s \o <<>> = s /\ <<>> \o s = s
      /\ \A s, t \in Seq(Items) : s \o t \in Seq(Items)
  OBVIOUS
<1>2. \A s, t, u \in Seq(Items) : (s \o t) \o u = s \o (t \o u)
  BY ConcatAssociative
<1>3. \A s \in Seq(Items), i \in Items : Append(s, i) = s \o <<i>> /\ <<i>> \in Seq(Items)
  BY AppendIsConcat
<1>4. \A s \in Seq(Items) : s # <<>> =>
       Head(s) \in Items /\ Tail(s) \in Seq(Items) /\ s = <<Head(s)>> \o Tail(s)
  OBVIOUS
<1> QED BY <1>1, <1>2, <1>3, <1>4

LEMMA BatchesAreSequences ==
  ASSUME NEW batches \in Seq(Batches)
  PROVE  /\ batches \in Seq(Seq(Items)) /\ FlattenSeq(batches) \in Seq(Items)
         /\ batches # <<>> => /\ Head(batches) \in Batches /\ Tail(batches) \in Seq(Batches)
                              /\ FlattenSeq(batches) = Head(batches) \o FlattenSeq(Tail(batches))
<1>1. batches \in Seq(Seq(Items)) BY DEF Batches
<1>2. FlattenSeq(batches) \in Seq(Items) BY <1>1, BatchesJoined, ItemsJoined
<1>3. ASSUME batches # <<>>
      PROVE  /\ Head(batches) \in Batches /\ Tail(batches) \in Seq(Batches)
             /\ FlattenSeq(batches) = Head(batches) \o FlattenSeq(Tail(batches))
  <2>1. /\ Head(batches) \in Batches /\ Tail(batches) \in Seq(Batches)
        /\ batches = <<Head(batches)>> \o Tail(batches)
    BY <1>3
  <2>2. Head(batches) \in Seq(Items) /\ Tail(batches) \in Seq(Seq(Items)) BY <2>1 DEF Batches
  <2> QED BY <2>1, <2>2, BatchesJoined
<1> QED BY <1>1, <1>2, <1>3

LEMMA FlatFacts ==
  ASSUME BatchesType
  PROVE  /\ FlattenSeq(phase.committed) \in Seq(Items) /\ FlattenSeq(phase.halves) \in Seq(Items)
         /\ \A batch \in Batches :
              /\ Append(phase.committed, batch) \in Seq(Batches) /\ batch \in Seq(Items)
              /\ FlattenSeq(Append(phase.committed, batch)) = FlattenSeq(phase.committed) \o batch
         /\ FlattenSeq(<<>>) = <<>> /\ \A batch \in Seq(Items) : FlattenSeq(<<batch>>) = batch
<1>1. phase.committed \in Seq(Batches) /\ phase.halves \in Seq(Batches) BY DEF BatchesType
<1>2. FlattenSeq(phase.committed) \in Seq(Items) /\ FlattenSeq(phase.halves) \in Seq(Items)
      /\ phase.committed \in Seq(Seq(Items))
  BY <1>1, BatchesAreSequences
<1>3. ASSUME NEW batch \in Batches
      PROVE  /\ Append(phase.committed, batch) \in Seq(Batches) /\ batch \in Seq(Items)
             /\ FlattenSeq(Append(phase.committed, batch)) = FlattenSeq(phase.committed) \o batch
  <2>1. batch \in Seq(Items) BY DEF Batches
  <2>2. Append(phase.committed, batch) \in Seq(Batches) BY <1>1
  <2>3. FlattenSeq(Append(phase.committed, batch)) = FlattenSeq(phase.committed) \o batch
    BY <1>2, <2>1, BatchesJoined, Zenon
  <2> QED BY <2>1, <2>2, <2>3
<1>4. ASSUME NEW batch \in Seq(Items) PROVE FlattenSeq(<<batch>>) = batch
  <2>1. <<>> \in Seq(Seq(Items)) /\ <<batch>> \o <<>> = <<batch>> OBVIOUS
  <2>2. FlattenSeq(<<batch>> \o <<>>) = batch \o FlattenSeq(<<>>) BY <2>1, BatchesJoined
  <2> QED BY <2>1, <2>2, BatchesJoined, ItemsJoined
<1> QED BY <1>2, <1>3, <1>4, BatchesJoined

\* A step that moves items along the line.
LEMMA LineKept ==
  ASSUME AccountsInv, Line' = Line, phase'.failed = phase.failed, pool'.ok = pool.ok,
         phase'.poison = phase.poison, phase.cancelled => phase'.cancelled,
         phase.pc = "collect" => phase'.pc = "collect"
  PROVE  Accounts'
BY DEF AccountsInv, Accounts, Ascending, IsInjective, Range

\* A step that takes an item out of the line, because it failed.
LEMMA LineCut ==
  ASSUME AccountsInv, NEW s \in Seq(Items), NEW x \in Items, NEW t \in Seq(Items),
         Line = s \o (<<x>> \o t), Line' = s \o t, phase'.failed = Append(phase.failed, x),
         pool'.ok = pool.ok, phase'.poison = phase.poison, phase'.cancelled = phase.cancelled,
         phase.pc # "collect", phase.cancelled \/ x \in phase.poison
  PROVE  Accounts'
<1>1. /\ Ascending(s \o t) /\ x \notin Range(s \o t)
      /\ Range(Line) = Range(s \o t) \cup {x}
  <2>1. Numbers(Items) BY PhaseAssumption DEF Numbers
  <2>2. Ascending(s \o (<<x>> \o t)) BY DEF AccountsInv, Accounts
  <2>3. /\ Ascending(s \o t) /\ x \notin Range(s \o t)
        /\ Range(s \o (<<x>> \o t)) = Range(s \o t) \cup {x}
    BY <2>1, <2>2, AscendingWithout
  <2> QED BY <2>3
<1> DEFINE f == phase.failed
           g == Append(f, x)
<1>2. /\ f \in Seq(Items) /\ Range(Line) \cap Range(f) = {} /\ IsInjective(f)
      /\ Range(Line) \cup Range(f) = pool.ok /\ (~phase.cancelled => Range(f) \subseteq phase.poison)
  BY DEF AccountsInv, Accounts, BatchesType
<1>3. x \notin Range(f) BY <1>1, <1>2
<1> HIDE DEF f
<1>4. /\ DOMAIN f = 1..Len(f) /\ Len(f) \in Nat /\ DOMAIN g = 1..(Len(f) + 1)
      /\ g[Len(f) + 1] = x /\ \A k \in 1..Len(f) : g[k] = f[k]
  BY <1>2
<1> HIDE DEF g
<1>5. \A k \in 1..(Len(f) + 1) : k = Len(f) + 1 \/ k \in 1..Len(f) BY <1>4
<1>6. Range(g) = Range(f) \cup {x}
  <2>1. Len(f) + 1 \in 1..(Len(f) + 1) /\ \A k \in 1..Len(f) : k \in 1..(Len(f) + 1) BY <1>4
  <2> QED BY <1>4, <1>5, <2>1 DEF Range
<1>7. IsInjective(g)
  <2> SUFFICES ASSUME NEW a \in 1..(Len(f) + 1), NEW b \in 1..(Len(f) + 1), g[a] = g[b] PROVE a = b
    BY <1>4 DEF IsInjective
  <2>1. \A k \in 1..Len(f) : g[k] \in Range(f) BY <1>4 DEF Range
  <2> QED BY <1>2, <1>3, <1>4, <1>5, <2>1 DEF IsInjective
<1>8. phase'.failed = g BY DEF f, g
<1> QED BY <1>1, <1>2, <1>3, <1>6, <1>7, <1>8 DEF Accounts, f

LEMMA InitAccounts == PhaseInit => AccountsInv
<1> SUFFICES ASSUME PhaseInit PROVE AccountsInv
  OBVIOUS
<1>1. PICK kind \in Kinds, source \in {"code", "docs"}, poison \in Poisoned :
        phase = IdlePhase(kind, source, poison)
  BY DEF PhaseInit
<1>2. /\ phase.pc = "collect" /\ phase.kind = kind /\ phase.todo = <<>> /\ phase.open = <<>>
      /\ phase.halves = <<>> /\ phase.committed = <<>> /\ phase.failed = <<>>
      /\ phase.poison = poison /\ phase.cancelled = FALSE /\ PhaseFields
  BY <1>1 DEF IdlePhase, PhaseFields
<1>3. PoolType
  BY DEF PhaseInit, IdlePool, PoolType
<1>4. BatchesType
  <2>1. <<>> \in Seq(Batches) /\ <<>> \in Seq(Items) OBVIOUS
  <2> QED BY <1>2, <2>1 DEF BatchesType
<1>5. BatchesPlaced
  <2>1. Fits(<<>>) BY PhaseAssumption DEF Fits
  <2> QED BY <1>2, <2>1 DEF BatchesPlaced
<1>6. Line = <<>>
  BY <1>2, BatchesJoined, ItemsJoined DEF Line
<1>7. Accounts
  BY <1>2, <1>6 DEF Accounts, Ascending, IsInjective, Range
<1> QED BY <1>3, <1>4, <1>5, <1>7 DEF AccountsInv

LEMMA CollectAccounts == AccountsInv /\ (Submit \/ Complete) => AccountsInv'
<1> SUFFICES ASSUME AccountsInv, Submit \/ Complete PROVE AccountsInv'
  OBVIOUS
<1>1. phase.pc = "collect" /\ UNCHANGED phase
  BY DEF Submit, Complete, Executing, AccountsInv, BatchesPlaced
<1>2. PoolType'
  <2>1. CASE Submit
    <3>1. InKeyOrder(Items)[pool.next] \in Items
      <4>1. IsFiniteSet(Items) /\ Items \subseteq Nat BY PhaseAssumption
      <4>2. InKeyOrder(Items) = Ordered(Items) BY DEF InKeyOrder, Ordered
      <4>3. Ordered(Items) \in Seq(Items) BY <4>1, OrderedIsAscending
      <4>4. DOMAIN Ordered(Items) = 1..Cardinality(Items) BY DEF Ordered
      <4>5. Cardinality(Items) \in Nat BY <4>1, FS_CardinalityType
      <4>6. pool.next \in 1..Cardinality(Items) BY <2>1, <4>5 DEF Submit, AccountsInv, PoolType
      <4>7. Ordered(Items)[pool.next] \in Items
        <5> DEFINE o == Ordered(Items)
        <5> HIDE DEF o
        <5>1. o \in Seq(Items) /\ pool.next \in DOMAIN o BY <4>3, <4>4, <4>6 DEF o
        <5>2. o[pool.next] \in Items BY <5>1
        <5> QED BY <5>2 DEF o
      <4> QED BY <4>2, <4>7
    <3> DEFINE item == InKeyOrder(Items)[pool.next]
    <3>2. pool' = [pool EXCEPT !.next = @ + 1, !.inFlight = @ \cup {item}] /\ item \in Items
      BY <2>1, <3>1 DEF Submit
    <3> HIDE DEF item
    <3>3. PoolType BY DEF AccountsInv
    <3>4. /\ pool'.next = pool.next + 1 /\ pool'.inFlight = pool.inFlight \cup {item}
          /\ pool'.ok = pool.ok
          /\ pool' = [next |-> pool'.next, inFlight |-> pool'.inFlight, ok |-> pool'.ok, failed |-> pool'.failed]
      BY <3>2, <3>3 DEF PoolType
    <3> QED BY <3>2, <3>3, <3>4 DEF PoolType
  <2>2. CASE Complete
    BY <2>2 DEF Complete, Executing, AccountsInv, PoolType
  <2> QED BY <2>1, <2>2
<1>3. BatchesType' /\ BatchesPlaced' /\ Accounts'
  BY <1>1 DEF AccountsInv, BatchesType, PhaseFields, BatchesPlaced, Accounts, Line
<1> QED BY <1>2, <1>3 DEF AccountsInv

LEMMA BeginAccounts == AccountsInv /\ BeginApply => AccountsInv'
<1> SUFFICES ASSUME AccountsInv, BeginApply PROVE AccountsInv'
  OBVIOUS
<1> DEFINE items == Collected(pool.ok)
           batches == BuildBatches(items)
<1>1. items \in Seq(Items) /\ Ascending(items) /\ Range(items) = pool.ok
  <2>1. pool.ok \in SUBSET Items /\ IsFiniteSet(Items) /\ Items \subseteq Nat
    BY PhaseAssumption DEF AccountsInv, PoolType
  <2>2. IsFiniteSet(pool.ok) /\ pool.ok \subseteq Nat BY <2>1, FS_Subset
  <2>3. items = Ordered(pool.ok) BY DEF Collected, InKeyOrder, Ordered
  <2>4. Ordered(pool.ok) \in Seq(pool.ok) /\ Ascending(Ordered(pool.ok)) /\ Range(Ordered(pool.ok)) = pool.ok
    BY <2>2, OrderedIsAscending
  <2>5. Seq(pool.ok) \subseteq Seq(Items) BY <2>1
  <2> HIDE DEF items
  <2> QED BY <2>3, <2>4, <2>5
<1>2. batches \in Seq(Batches) /\ FlattenSeq(batches) = items
  BY <1>1, BuiltBatches
<1>3. /\ phase.pc = "collect" /\ pool' = pool /\ pool.inFlight = {}
      /\ IF phase.kind = "metadata" THEN phase' = [phase EXCEPT !.pc = "stream", !.todo = items]
         ELSE phase' = [phase EXCEPT !.pc = "degrade", !.halves = batches]
  BY DEF BeginApply
<1> HIDE DEF items, batches
<1>4. /\ PoolType /\ BatchesType /\ PhaseFields /\ phase.kind \in Kinds
      /\ phase.todo = <<>> /\ phase.open = <<>> /\ phase.halves = <<>>
      /\ phase.committed = <<>> /\ phase.failed = <<>> /\ Fits(<<>>)
  BY <1>3 DEF AccountsInv, BatchesType, BatchesPlaced
<1>5. PoolType' BY <1>3, <1>4 DEF PoolType
<1>6. /\ phase'.kind = phase.kind /\ phase'.open = <<>> /\ phase'.committed = <<>> /\ phase'.failed = <<>>
      /\ PhaseFields'
      /\ IF phase.kind = "metadata" THEN phase'.todo = items /\ phase'.halves = <<>> /\ phase'.pc = "stream"
         ELSE phase'.todo = <<>> /\ phase'.halves = batches /\ phase'.pc = "degrade"
  BY <1>3, <1>4 DEF PhaseFields
<1>7. BatchesType'
  <2>1. <<>> \in Seq(Items) /\ <<>> \in Seq(Batches) OBVIOUS
  <2> QED BY <1>1, <1>2, <1>4, <1>6, <2>1 DEF BatchesType
<1>8. BatchesPlaced'
  BY <1>3, <1>4, <1>6 DEF BatchesPlaced, Kinds
<1>9. Line' = items
  <2>1. Line' = FlattenSeq(<<>>) \o (<<>> \o (FlattenSeq(phase'.halves) \o phase'.todo))
    BY <1>6 DEF Line
  <2>2. FlattenSeq(<<>>) = <<>> BY BatchesJoined
  <2>3. Line' = FlattenSeq(phase'.halves) \o phase'.todo
    <3>1. FlattenSeq(phase'.halves) \in Seq(Items) /\ phase'.todo \in Seq(Items)
      BY <1>1, <1>2, <1>6, <2>2, ItemsJoined
    <3> DEFINE v == FlattenSeq(phase'.halves) \o phase'.todo
    <3>2. v \in Seq(Items) BY <3>1, ItemsJoined
    <3> HIDE DEF v
    <3>3. <<>> \o (<<>> \o v) = v BY <3>2, ItemsJoined
    <3>4. Line' = <<>> \o (<<>> \o v) BY <2>1, <2>2 DEF v
    <3> QED BY <3>3, <3>4 DEF v
  <2>4. CASE phase.kind = "metadata" BY <1>1, <1>6, <2>2, <2>3, <2>4, ItemsJoined
  <2>5. CASE phase.kind # "metadata" BY <1>1, <1>2, <1>6, <2>3, <2>5, ItemsJoined
  <2> QED BY <2>4, <2>5
<1>10. Accounts'
  <2>1. Range(phase'.failed) = {} /\ IsInjective(phase'.failed) BY <1>6 DEF Range, IsInjective
  <2> QED BY <1>1, <1>3, <1>9, <2>1 DEF Accounts
<1> QED BY <1>5, <1>7, <1>8, <1>10 DEF AccountsInv

\* A step that only turns to something else, or hears of the cancellation.
LEMMA TurnAccounts ==
  AccountsInv /\ (OpenBatch \/ ContinueBatch \/ EndDegradation \/ EndStream \/ CancelJob) => AccountsInv'
<1> SUFFICES ASSUME AccountsInv, OpenBatch \/ ContinueBatch \/ EndDegradation \/ EndStream \/ CancelJob
             PROVE  AccountsInv'
  OBVIOUS
<1>1. pool' = pool /\ PoolType /\ BatchesType /\ PhaseFields /\ BatchesPlaced
  BY DEF OpenBatch, ContinueBatch, EndDegradation, EndStream, CancelJob, AccountsInv, BatchesType
<1>2. \/ \E pc : phase' = [phase EXCEPT !.pc = pc] /\ phase.pc # "collect" /\ pc # "collect"
      \/ CancelJob
  BY DEF OpenBatch, ContinueBatch, EndDegradation, EndStream
<1>3. /\ phase'.kind = phase.kind /\ phase'.open = phase.open /\ phase'.committed = phase.committed
      /\ phase'.failed = phase.failed /\ phase'.todo = phase.todo /\ phase'.halves = phase.halves
      /\ phase'.poison = phase.poison /\ (phase.cancelled => phase'.cancelled) /\ PhaseFields'
      /\ (phase.pc = "collect" <=> phase'.pc = "collect")
  <2>1. CASE CancelJob
    BY <1>1, <2>1 DEF CancelJob, PhaseFields
  <2>2. CASE \E pc : phase' = [phase EXCEPT !.pc = pc] /\ phase.pc # "collect" /\ pc # "collect"
    BY <1>1, <2>2 DEF PhaseFields
  <2> QED BY <1>2, <2>1, <2>2
<1>4. PoolType' /\ BatchesType' BY <1>1, <1>3 DEF PoolType, BatchesType
<1>5. BatchesPlaced'
  <2>1. CASE CancelJob
    <3>1. phase'.pc = phase.pc BY <1>1, <2>1 DEF CancelJob, PhaseFields
    <3> QED BY <1>1, <1>3, <3>1 DEF BatchesPlaced
  <2>2. CASE OpenBatch
    <3>1. phase'.pc \in {"cancelled", "write"} /\ phase.open = <<>> /\ phase.pc = "stream" /\ phase.todo # <<>>
      BY <1>1, <2>2 DEF OpenBatch, PhaseFields
    <3>2. ~Full(<<>>, Head(phase.todo)) BY DEF Full
    <3> QED BY <1>1, <1>3, <3>1, <3>2 DEF BatchesPlaced
  <2>3. CASE ContinueBatch
    <3>1. phase'.pc = "write" /\ phase.pc = "stream" BY <1>1, <2>3 DEF ContinueBatch, PhaseFields
    <3> QED BY <1>1, <1>3, <2>3, <3>1 DEF BatchesPlaced, ContinueBatch
  <2>4. CASE EndDegradation
    <3>1. /\ phase'.pc = IF phase.kind = "metadata" THEN "stream" ELSE "done"
          /\ phase.pc = "degrade" /\ phase.halves = <<>> /\ phase.kind \in Kinds
      BY <1>1, <2>4 DEF EndDegradation, PhaseFields, BatchesType
    <3> QED BY <1>1, <1>3, <3>1 DEF BatchesPlaced, Kinds
  <2>5. CASE EndStream
    <3>1. phase'.pc = "done" /\ phase.pc = "stream" /\ phase.open = <<>> /\ phase.todo = <<>>
      BY <1>1, <2>5 DEF EndStream, PhaseFields
    <3> QED BY <1>1, <1>3, <3>1 DEF BatchesPlaced
  <2> QED BY <2>1, <2>2, <2>3, <2>4, <2>5
<1>6. Line' = Line BY <1>3 DEF Line
<1>7. Accounts' BY <1>1, <1>3, <1>6, LineKept
<1> QED BY <1>4, <1>5, <1>7 DEF AccountsInv

LEMMA CloseAccounts == AccountsInv /\ CloseBatch => AccountsInv'
<1> SUFFICES ASSUME AccountsInv, CloseBatch PROVE AccountsInv'
  OBVIOUS
<1> DEFINE c == phase.committed
           o == phase.open
           t == phase.todo
<1>1. /\ pool' = pool /\ PoolType /\ BatchesType /\ PhaseFields /\ BatchesPlaced
      /\ phase.pc = "stream" /\ o # <<>>
      /\ phase' = [phase EXCEPT !.open = <<>>, !.committed = Append(c, o)]
  BY DEF CloseBatch, AccountsInv, BatchesType
<1>2. o \in Batches /\ o \in Seq(Items) /\ t \in Seq(Items) /\ phase.halves = <<>>
  BY <1>1 DEF BatchesType, BatchesPlaced, Batches
<1> HIDE DEF c, o, t
<1>3. /\ phase'.pc = "stream" /\ phase'.kind = phase.kind /\ phase'.open = <<>> /\ phase'.committed = Append(c, o)
      /\ phase'.failed = phase.failed /\ phase'.todo = t /\ phase'.halves = phase.halves
      /\ phase'.poison = phase.poison /\ phase'.cancelled = phase.cancelled /\ PhaseFields'
  BY <1>1 DEF PhaseFields, t
<1>4. /\ Append(c, o) \in Seq(Batches) /\ FlattenSeq(c) \in Seq(Items) /\ FlattenSeq(<<>>) = <<>>
      /\ FlattenSeq(Append(c, o)) = FlattenSeq(c) \o o
  BY <1>1, <1>2, FlatFacts DEF c
<1>5. PoolType' /\ BatchesType'
  BY <1>1, <1>3, <1>4, ItemsJoined DEF PoolType, BatchesType, t
<1>6. BatchesPlaced'
  BY <1>1, <1>3, MoreFits, PhaseAssumption DEF BatchesPlaced, Fits, t
<1>7. Line' = Line
  <2> DEFINE fc == FlattenSeq(c)
  <2>1. Line = fc \o (o \o (<<>> \o t)) BY <1>2, <1>4 DEF Line, c, o, t
  <2>2. Line' = (fc \o o) \o (<<>> \o (<<>> \o t)) BY <1>2, <1>3, <1>4 DEF Line
  <2>3. fc \in Seq(Items) BY <1>4
  <2> HIDE DEF fc
  <2>4. (fc \o o) \o t = fc \o (o \o t) /\ <<>> \o t = t BY <1>2, <2>3, ItemsJoined
  <2> QED BY <2>1, <2>2, <2>4
<1>8. Accounts' BY <1>1, <1>3, <1>7, LineKept
<1> QED BY <1>5, <1>6, <1>8 DEF AccountsInv

\* Writing an item and rolling back move it out of the stream.
LEMMA WriteAccounts == AccountsInv /\ (WriteItem \/ RollBack) => AccountsInv'
<1> SUFFICES ASSUME AccountsInv, WriteItem \/ RollBack PROVE AccountsInv'
  OBVIOUS
<1> DEFINE c == phase.committed
           o == phase.open
           x == Head(phase.todo)
           r == Tail(phase.todo)
           batch == Append(o, x)
<1>1. /\ pool' = pool /\ PoolType /\ BatchesType /\ PhaseFields /\ BatchesPlaced /\ phase.pc = "write"
      /\ \/ phase' = [phase EXCEPT !.pc = "stream", !.todo = r, !.open = batch]
         \/ phase' = [phase EXCEPT !.pc = "stream", !.todo = r, !.open = <<>>, !.committed = Append(c, batch)]
         \/ phase' = [phase EXCEPT !.pc = "degrade", !.todo = r, !.open = <<>>, !.halves = <<batch>>]
  BY DEF WriteItem, RollBack, AccountsInv, BatchesType, PhaseFields
<1>2. /\ phase.todo # <<>> /\ phase.todo \in Seq(Items) /\ phase.halves = <<>>
      /\ ~Full(o, x) /\ Fits(o) /\ o \in Seq(Items) /\ phase.kind # "vector"
  BY <1>1 DEF BatchesType, BatchesPlaced
<1>3. x \in Items /\ r \in Seq(Items) /\ phase.todo = <<x>> \o r
  BY <1>2, ItemsJoined
<1>4. batch \in Batches /\ batch \in Seq(Items) /\ batch = o \o <<x>> /\ Fits(batch) /\ <<batch>> \in Seq(Batches)
  <2>1. Fits(batch) /\ batch \in Seq(Items) /\ batch # <<>>
    <3> HIDE DEF o, x
    <3>1. Fits(batch) BY <1>2, <1>3, MoreFits
    <3> QED BY <1>2, <1>3, <3>1
  <2>2. batch \in Batches BY <2>1 DEF Batches
  <2> QED BY <1>2, <1>3, <2>1, <2>2, ItemsJoined
<1> HIDE DEF c, o, x, r, batch
<1>5. /\ phase'.kind = phase.kind /\ phase'.failed = phase.failed /\ phase'.todo = r
      /\ phase'.poison = phase.poison /\ phase'.cancelled = phase.cancelled /\ PhaseFields'
      /\ \/ phase'.pc = "stream" /\ phase'.open = batch /\ phase'.committed = c /\ phase'.halves = <<>>
         \/ phase'.pc = "stream" /\ phase'.open = <<>> /\ phase'.committed = Append(c, batch) /\ phase'.halves = <<>>
         \/ phase'.pc = "degrade" /\ phase'.open = <<>> /\ phase'.committed = c /\ phase'.halves = <<batch>>
  BY <1>1, <1>2 DEF PhaseFields, c
<1>6. /\ Append(c, batch) \in Seq(Batches) /\ FlattenSeq(c) \in Seq(Items) /\ FlattenSeq(<<>>) = <<>>
      /\ FlattenSeq(Append(c, batch)) = FlattenSeq(c) \o batch /\ FlattenSeq(<<batch>>) = batch /\ c \in Seq(Batches)
  <2>1. c \in Seq(Batches) BY <1>1 DEF BatchesType, c
  <2> QED BY <1>1, <1>4, <2>1, FlatFacts DEF c
<1>7. PoolType' /\ BatchesType'
  <2>1. <<>> \in Seq(Batches) OBVIOUS
  <2> QED BY <1>1, <1>3, <1>4, <1>5, <1>6, <2>1, ItemsJoined DEF PoolType, BatchesType
<1>8. BatchesPlaced'
  <2>1. Fits(<<>>) BY PhaseAssumption DEF Fits
  <2>2. phase.pc # "collect" BY <1>1
  <2> QED BY <1>1, <1>2, <1>4, <1>5, <2>1, <2>2 DEF BatchesPlaced
<1>9. Line' = Line
  <2> DEFINE fc == FlattenSeq(c)
  <2>1. Line = fc \o (o \o (<<>> \o (<<x>> \o r))) BY <1>2, <1>3, <1>6 DEF Line, c, o
  <2>2. \/ Line' = fc \o (batch \o (<<>> \o r))
        \/ Line' = (fc \o batch) \o (<<>> \o (<<>> \o r))
        \/ Line' = fc \o (<<>> \o (batch \o r))
    BY <1>5, <1>6 DEF Line
  <2>3. fc \in Seq(Items) BY <1>6
  <2> HIDE DEF fc
  <2> DEFINE one == <<x>>
  <2>4. one \in Seq(Items) /\ batch = o \o one BY <1>3, <1>4, ItemsJoined
  <2> HIDE DEF one
  <2>5. Line = fc \o (o \o (one \o r))
    <3>1. one \o r \in Seq(Items) BY <1>3, <2>4, ItemsJoined
    <3>2. <<>> \o (one \o r) = one \o r BY <3>1, ItemsJoined
    <3> QED BY <2>1, <3>2 DEF one
  <2>6. batch \o r = o \o (one \o r) BY <1>2, <1>3, <2>4, ItemsJoined
  <2>7. <<>> \o r = r /\ <<>> \o (batch \o r) = batch \o r
    <3>1. batch \o r \in Seq(Items) BY <1>3, <1>4, ItemsJoined
    <3> QED BY <1>3, <3>1, ItemsJoined
  <2>8. (fc \o batch) \o r = fc \o (batch \o r) BY <1>3, <1>4, <2>3, ItemsJoined
  <2> QED BY <2>2, <2>5, <2>6, <2>7, <2>8
<1>10. Accounts' BY <1>1, <1>5, <1>9, LineKept
<1> QED BY <1>7, <1>8, <1>10 DEF AccountsInv

\* Half a batch that cannot be written is halved, or fails with its one item.
LEMMA DegradeAccounts ==
  ASSUME AccountsInv, phase.pc \in {"degrade", "half"}, phase.halves # <<>>, pool' = pool,
         NEW half, half = Head(phase.halves), Degrade(half),
         phase.cancelled \/ Range(half) \cap phase.poison # {}
  PROVE  AccountsInv'
<1> DEFINE c == phase.committed
           f == phase.failed
           t == phase.todo
           rest == Tail(phase.halves)
           n == Len(half)
           mid == Max({1, n \div 2})
           s == SubSeq(half, 1, mid)
           u == SubSeq(half, mid + 1, n)
           x == half[1]
<1>1. /\ PoolType /\ BatchesType /\ PhaseFields /\ BatchesPlaced /\ phase.open = <<>>
      /\ IF n = 1 THEN phase' = [phase EXCEPT !.pc = "degrade", !.failed = Append(f, x), !.halves = rest]
         ELSE phase' = [phase EXCEPT !.pc = "degrade", !.halves = <<s, u>> \o rest]
  <2>1. PoolType /\ BatchesType /\ PhaseFields /\ BatchesPlaced BY DEF AccountsInv, BatchesType
  <2>2. CASE n = 1 BY <2>1, <2>2 DEF Degrade, BatchesPlaced
  <2>3. CASE n # 1
    <3>1. phase' = [phase EXCEPT !.pc = "degrade", !.failed = f, !.halves = <<s, u>> \o rest]
      BY <2>1, <2>3 DEF Degrade
    <3> HIDE DEF s, u, rest, n
    <3> QED BY <2>1, <2>3, <3>1 DEF BatchesPlaced, PhaseFields
  <2> QED BY <2>2, <2>3
<1>2. /\ half \in Batches /\ rest \in Seq(Batches) /\ FlattenSeq(phase.halves) = half \o FlattenSeq(rest)
      /\ rest \in Seq(Seq(Items)) /\ FlattenSeq(rest) \in Seq(Items)
  <2>1. phase.halves \in Seq(Batches) BY <1>1 DEF BatchesType
  <2>2. half \in Batches /\ rest \in Seq(Batches) /\ FlattenSeq(phase.halves) = half \o FlattenSeq(rest)
    BY <2>1, BatchesAreSequences
  <2> QED BY <2>2, BatchesAreSequences
<1>3. half \in Seq(Items) /\ half # <<>> /\ Fits(half) /\ n \in Nat \ {0}
  BY <1>2 DEF Batches
<1>4. FlattenSeq(c) \in Seq(Items) /\ t \in Seq(Items) /\ f \in Seq(Items) /\ c \in Seq(Batches)
  BY <1>1, FlatFacts DEF BatchesType
<1>5. Line = FlattenSeq(c) \o (<<>> \o ((half \o FlattenSeq(rest)) \o t))
  BY <1>1, <1>2 DEF Line
<1> DEFINE fc == FlattenSeq(c)
           fr == FlattenSeq(rest)
<1>6. CASE n = 1
  <2>1. x \in Items /\ half = <<x>> BY <1>3, <1>6
  <2> HIDE DEF c, f, t, rest, n, x
  <2>2. /\ phase'.pc = "degrade" /\ phase'.failed = Append(f, x) /\ phase'.halves = rest
        /\ phase'.open = <<>> /\ phase'.committed = c /\ phase'.todo = t /\ phase'.kind = phase.kind
        /\ phase'.poison = phase.poison /\ phase'.cancelled = phase.cancelled /\ PhaseFields'
    BY <1>1, <1>6 DEF PhaseFields, c, t
  <2>3. PoolType' /\ BatchesType'
    <3>1. Append(f, x) \in Seq(Items) /\ <<>> \in Seq(Items) BY <1>4, <2>1
    <3> QED BY <1>1, <1>2, <1>4, <2>2, <3>1 DEF PoolType, BatchesType
  <2>4. BatchesPlaced'
    BY <1>1, <2>2 DEF BatchesPlaced, t
  <2>5. Line' = fc \o (<<>> \o (fr \o t)) BY <2>2 DEF Line
  <2> DEFINE one == <<x>>
             tail == fr \o t
  <2>6. one \in Seq(Items) /\ half = one /\ tail \in Seq(Items) /\ fc \in Seq(Items) /\ fr \in Seq(Items)
    BY <1>2, <1>4, <2>1, ItemsJoined
  <2> HIDE DEF one, fc, fr
  <2>7. Line = fc \o (one \o tail)
    <3>1. (one \o fr) \o t = one \o tail /\ one \o tail \in Seq(Items) BY <1>4, <2>6, ItemsJoined
    <3>2. <<>> \o (one \o tail) = one \o tail BY <3>1, ItemsJoined
    <3> QED BY <1>5, <2>6, <3>1, <3>2 DEF fc, fr
  <2>8. Line' = fc \o tail
    <3>1. <<>> \o tail = tail BY <2>6, ItemsJoined
    <3> QED BY <2>5, <3>1
  <2>9. phase.cancelled \/ x \in phase.poison BY <2>1 DEF Range
  <2> HIDE DEF tail
  <2>10. Accounts'
    <3>1. Line = fc \o (<<x>> \o tail) BY <2>7 DEF one
    <3>2. pool'.ok = pool.ok /\ phase.pc # "collect" /\ phase'.failed = Append(phase.failed, x)
      BY <2>2 DEF f
    <3> QED BY <2>1, <2>2, <2>6, <2>8, <2>9, <3>1, <3>2, LineCut
  <2> QED BY <2>3, <2>4, <2>10 DEF AccountsInv
<1>7. CASE n # 1
  <2>1. mid \in 1..(n - 1)
    <3> HIDE DEF n
    <3>1. n \div 2 \in Int /\ 1 <= n - 1 /\ n \div 2 <= n - 1 BY <1>3, <1>7
    <3> DEFINE m == n \div 2
    <3>2. m \in Int /\ m <= n - 1 BY <3>1
    <3> HIDE DEF m
    <3>3. Max({1, m}) = IF 1 >= m THEN 1 ELSE m BY <3>2, LargerOfTwo
    <3> QED BY <1>3, <3>1, <3>2, <3>3 DEF m
  <2>2. /\ s \in Seq(Items) /\ u \in Seq(Items) /\ s # <<>> /\ u # <<>> /\ half = s \o u
    <3> HIDE DEF mid
    <3> QED BY <1>3, <2>1, SplitSequence
  <2>3. s \in Batches /\ u \in Batches
    BY <1>3, <2>2, PartsFit DEF Batches
  <2> HIDE DEF c, f, t, rest, n, s, u
  <2>4. /\ phase'.pc = "degrade" /\ phase'.failed = f /\ phase'.halves = <<s, u>> \o rest
        /\ phase'.open = <<>> /\ phase'.committed = c /\ phase'.todo = t /\ phase'.kind = phase.kind
        /\ phase'.poison = phase.poison /\ phase'.cancelled = phase.cancelled /\ PhaseFields'
    BY <1>1, <1>7 DEF PhaseFields, c, t, f
  <2>5. <<s, u>> \o rest \in Seq(Batches) BY <1>2, <2>3
  <2>6. PoolType' /\ BatchesType'
    <3>1. <<>> \in Seq(Items) OBVIOUS
    <3> QED BY <1>1, <1>4, <2>4, <2>5, <3>1 DEF PoolType, BatchesType
  <2>7. BatchesPlaced'
    BY <1>1, <2>4 DEF BatchesPlaced, t
  <2>8. FlattenSeq(<<s, u>> \o rest) = s \o (u \o fr)
    <3> DEFINE more == <<u>> \o rest
    <3>1. <<s, u>> \o rest = <<s>> \o more
      <4>1. <<s>> \in Seq(Seq(Items)) /\ <<u>> \in Seq(Seq(Items)) BY <2>2
      <4>2. <<s, u>> = <<s>> \o <<u>> BY PairIsJoin
      <4>3. (<<s>> \o <<u>>) \o rest = <<s>> \o (<<u>> \o rest) BY <1>2, <4>1, ConcatAssociative
      <4> QED BY <4>2, <4>3
    <3>2. more \in Seq(Seq(Items)) BY <1>2, <2>2
    <3>3. FlattenSeq(more) = u \o fr BY <1>2, <2>2, BatchesJoined, Zenon
    <3> HIDE DEF more
    <3>4. FlattenSeq(<<s>> \o more) = s \o FlattenSeq(more) BY <2>2, <3>2, BatchesJoined, Zenon
    <3> QED BY <3>1, <3>3, <3>4
  <2>9. Line' = Line
    <3>1. s \o (u \o fr) = half \o fr
      <4>1. fr \in Seq(Items) BY <1>2
      <4> HIDE DEF fr
      <4>2. (s \o u) \o fr = s \o (u \o fr) BY <2>2, <4>1, ItemsJoined
      <4> QED BY <2>2, <4>2
    <3>2. Line' = fc \o (<<>> \o ((half \o fr) \o t)) BY <2>4, <2>8, <3>1 DEF Line
    <3> QED BY <1>5, <3>2
  <2>10. Accounts' BY <1>1, <2>4, <2>9, LineKept DEF f
  <2> QED BY <2>6, <2>7, <2>10 DEF AccountsInv
<1> QED BY <1>6, <1>7

LEMMA HalfAccounts == AccountsInv /\ (OpenHalf \/ ApplyHalf) => AccountsInv'
<1> SUFFICES ASSUME AccountsInv, OpenHalf \/ ApplyHalf PROVE AccountsInv'
  OBVIOUS
<1>1. pool' = pool /\ PoolType /\ BatchesType /\ PhaseFields /\ BatchesPlaced /\ phase.halves # <<>>
      /\ phase.pc \in {"degrade", "half"}
  BY DEF OpenHalf, ApplyHalf, AccountsInv, BatchesType, BatchesPlaced
<1> DEFINE half == Head(phase.halves)
           rest == Tail(phase.halves)
           c == phase.committed
<1>2. CASE Degrade(half) /\ (phase.cancelled \/ Range(half) \cap phase.poison # {})
  <2> HIDE DEF rest, c
  <2> QED BY <1>1, <1>2, DegradeAccounts
<1>3. CASE phase' = [phase EXCEPT !.pc = "half"]
  <2>1. /\ phase'.pc = "half" /\ phase'.failed = phase.failed /\ phase'.halves = phase.halves
        /\ phase'.open = phase.open /\ phase'.committed = phase.committed /\ phase'.todo = phase.todo
        /\ phase'.kind = phase.kind /\ phase'.poison = phase.poison
        /\ phase'.cancelled = phase.cancelled /\ PhaseFields'
    BY <1>1, <1>3 DEF PhaseFields
  <2>2. PoolType' /\ BatchesType' BY <1>1, <2>1 DEF PoolType, BatchesType
  <2>3. BatchesPlaced' BY <1>1, <2>1 DEF BatchesPlaced
  <2>4. Line' = Line BY <2>1 DEF Line
  <2>5. Accounts' BY <1>1, <2>1, <2>4, LineKept
  <2> QED BY <2>2, <2>3, <2>5 DEF AccountsInv
<1>4. CASE phase' = [phase EXCEPT !.pc = "degrade", !.halves = rest, !.committed = Append(c, half)]
  <2>1. half \in Batches /\ rest \in Seq(Batches) /\ FlattenSeq(phase.halves) = half \o FlattenSeq(rest)
    BY <1>1, BatchesAreSequences DEF BatchesType
  <2>2. /\ Append(c, half) \in Seq(Batches) /\ FlattenSeq(c) \in Seq(Items) /\ half \in Seq(Items)
        /\ FlattenSeq(Append(c, half)) = FlattenSeq(c) \o half
    BY <1>1, <2>1, FlatFacts
  <2>3. FlattenSeq(rest) \in Seq(Items) /\ phase.todo \in Seq(Items) /\ phase.open = <<>>
    BY <1>1, <2>1, BatchesAreSequences DEF BatchesType, BatchesPlaced
  <2> HIDE DEF half, rest, c
  <2>4. /\ phase'.pc = "degrade" /\ phase'.failed = phase.failed /\ phase'.halves = rest
        /\ phase'.open = phase.open /\ phase'.committed = Append(c, half) /\ phase'.todo = phase.todo
        /\ phase'.kind = phase.kind /\ phase'.poison = phase.poison
        /\ phase'.cancelled = phase.cancelled /\ PhaseFields'
    BY <1>1, <1>4 DEF PhaseFields
  <2>5. PoolType' /\ BatchesType' BY <1>1, <2>1, <2>2, <2>4 DEF PoolType, BatchesType
  <2>6. BatchesPlaced' BY <1>1, <2>4 DEF BatchesPlaced
  <2>7. Line' = Line
    <3> DEFINE fc == FlattenSeq(c)
               fr == FlattenSeq(rest)
               t == phase.todo
    <3>1. Line = fc \o (<<>> \o ((half \o fr) \o t)) BY <2>1, <2>3 DEF Line, c
    <3>2. Line' = (fc \o half) \o (<<>> \o (fr \o t)) BY <2>2, <2>3, <2>4 DEF Line
    <3>3. fc \in Seq(Items) /\ fr \in Seq(Items) /\ t \in Seq(Items) /\ half \in Seq(Items) BY <2>2, <2>3
    <3> HIDE DEF fc, fr, t
    <3>4. fr \o t \in Seq(Items) /\ (half \o fr) \o t = half \o (fr \o t) BY <3>3, ItemsJoined
    <3> DEFINE v == fr \o t
    <3> HIDE DEF v
    <3>5. v \in Seq(Items) /\ Line = fc \o (<<>> \o (half \o v)) /\ Line' = (fc \o half) \o (<<>> \o v)
      BY <3>1, <3>2, <3>4 DEF v
    <3>6. half \o v \in Seq(Items) BY <3>3, <3>5, ItemsJoined
    <3>7. <<>> \o v = v /\ <<>> \o (half \o v) = half \o v BY <3>5, <3>6, ItemsJoined
    <3>8. (fc \o half) \o v = fc \o (half \o v) BY <3>3, <3>5, ItemsJoined
    <3> QED BY <3>5, <3>7, <3>8
  <2>8. Accounts' BY <1>1, <2>4, <2>7, LineKept
  <2> QED BY <2>5, <2>6, <2>8 DEF AccountsInv
<1> QED BY <1>2, <1>3, <1>4 DEF OpenHalf, ApplyHalf

LEMMA NextAccounts == AccountsInv /\ [PhaseNext]_phaseVars => AccountsInv'
<1> SUFFICES ASSUME AccountsInv, [PhaseNext]_phaseVars PROVE AccountsInv'
  OBVIOUS
<1>1. CASE UNCHANGED phaseVars
  BY <1>1 DEF phaseVars, AccountsInv, PoolType, BatchesType, PhaseFields, BatchesPlaced, Accounts, Line
<1>2. CASE PhaseNext
  BY <1>2, CollectAccounts, BeginAccounts, TurnAccounts, CloseAccounts, WriteAccounts, HalfAccounts
     DEF PhaseNext
<1> QED BY <1>1, <1>2

\* Once a phase is over, every item the workers finished is committed or has
\* failed, never both, and none twice; before a cancellation only what really
\* fails is reported as failed.  What is committed, across batches and halves,
\* is in key order, and no batch is past its bounds unless it is one item
\* (pipeline.py _apply_file_indexing_phase, _build_apply_batches and
\* _apply_batch_with_degradation).
THEOREM PhaseIsAccountedFor == PhaseSpec => []PhaseAddsUp
<1>1. AccountsInv => PhaseAddsUp
  <2> SUFFICES ASSUME AccountsInv PROVE PhaseAddsUp
    OBVIOUS
  <2> DEFINE written == FlattenSeq(phase.committed)
             after == phase.open \o (FlattenSeq(phase.halves) \o phase.todo)
  <2>1. BatchesType /\ BatchesPlaced /\ Accounts BY DEF AccountsInv
  <2>2. written \in Seq(Items) /\ after \in Seq(Items)
    BY <2>1, FlatFacts, ItemsJoined DEF BatchesType
  <2>3. Line = written \o after BY DEF Line
  <2>4. Ascending(written) /\ Range(written) \subseteq Range(Line)
    <3> HIDE DEF written, after
    <3> QED BY <2>1, <2>2, <2>3, AscendingFirst DEF Accounts
  <2>5. phase.pc = "done" => Range(written) = Range(Line)
    <3> SUFFICES ASSUME phase.pc = "done" PROVE Line = written OBVIOUS
    <3>1. phase.open = <<>> /\ phase.halves = <<>> /\ phase.todo = <<>> BY <2>1 DEF BatchesPlaced
    <3>2. after = <<>> BY <3>1, BatchesJoined, ItemsJoined
    <3> HIDE DEF written, after
    <3> QED BY <2>2, <2>3, <3>2, ItemsJoined
  <2>6. \A batch \in Range(phase.committed) :
          Len(batch) <= MaxFiles /\ (Len(batch) > 1 => SizeOfAll(batch) <= MaxRecords)
    <3>1. \A n \in DOMAIN phase.committed : phase.committed[n] \in Batches BY <2>1 DEF BatchesType
    <3> QED BY <3>1 DEF Range, Batches, Fits
  <2> HIDE DEF written, after
  <2>7. /\ Range(written) \cap Range(phase.failed) = {} /\ IsInjective(phase.failed)
        /\ phase.pc = "done" => Range(written) \cup Range(phase.failed) = pool.ok
        /\ ~phase.cancelled => Range(phase.failed) \subseteq phase.poison
    BY <2>1, <2>4, <2>5 DEF Accounts
  <2> QED BY <2>4, <2>6, <2>7 DEF PhaseAddsUp, Ascending, written
<1> QED BY <1>1, InitAccounts, NextAccounts, PTL DEF PhaseSpec

-----------------------------------------------------------------------------
(* The profile-conditioned relations.                                      *)

ProfilesSpec == ProfilesInit /\ [][ProfilesNext]_profileVars

\* A run of the documents alone rebuilds no relation, but saves the versions of
\* the configurations all the same: what is remembered is true without such runs.
CodeIsRun == SourceFilters \subseteq {"all", "code"}

\* What the view shows of a profile.
RelationsAre(p, v) == \A k \in ShownRelations : k[1] = p => relationRows[k] = v
NoneShown(p) == \A k \in ShownRelations : k[1] # p

\* Profiles are as they were added last, or gone for good.
ProfilesType ==
  /\ builds \in [BuildProfiles -> Nat] /\ newest \in [BuildProfiles -> Nat]
  /\ \A p \in BuildProfiles : builds[p] \in {0, newest[p]}
  /\ profileRows \in [BuildProfiles -> Nat]
  /\ relationRows \in [BuildProfiles \X Guards -> Nat]
  /\ savedProfiles = [configs |-> savedProfiles.configs, indexer |-> savedProfiles.indexer]
  /\ savedProfiles.configs \in [BuildProfiles -> Nat]
  /\ \A p \in BuildProfiles : savedProfiles.configs[p] <= newest[p]

\* A version that is remembered and still there is the version stored: runs
\* that stopped have at most written that version once more.
SavedIsStored ==
  \A p \in BuildProfiles :
    savedProfiles.configs[p] # 0 /\ builds[p] = savedProfiles.configs[p] =>
      profileRows[p] = builds[p] /\ RelationsAre(p, builds[p])

\* The checkpoint of a rebuild goes on telling what the rebuild did, of each
\* profile that has not changed since: no version comes back, and no profile.
TaskTargets(changed, removed, configs) ==
  IF changed \cup removed = {} THEN {p \in BuildProfiles : configs[p] # 0}
  ELSE changed \cup removed

TaskDone(changed, removed, configs) ==
  /\ \A p \in BuildProfiles : configs[p] <= newest[p]
  /\ \A p \in BuildProfiles : configs[p] # 0 /\ builds[p] = configs[p] =>
       /\ profileRows[p] = builds[p]
       /\ p \in TaskTargets(changed, removed, configs) => RelationsAre(p, builds[p])
  /\ \A p \in removed : builds[p] = 0 /\ newest[p] # 0 /\ NoneShown(p)

CheckpointIsTrue ==
  \A changed, removed \in SUBSET BuildProfiles, configs \in [BuildProfiles -> Nat] :
    checkpoint = <<changed, removed, configs>> => TaskDone(changed, removed, configs)

\* The run.
RunShape ==
  profileRun.pc # "idle" =>
    /\ profileRun = [pc |-> profileRun.pc, configs |-> profileRun.configs,
                     indexer |-> profileRun.indexer, changed |-> profileRun.changed,
                     removed |-> profileRun.removed, planned |-> profileRun.planned,
                     resumed |-> profileRun.resumed, unstored |-> profileRun.unstored,
                     retired |-> profileRun.retired, fresh |-> profileRun.fresh]
    /\ profileRun.configs = builds
    /\ profileRun.changed = ChangedProfiles /\ profileRun.removed = RemovedProfiles
    /\ ~profileRun.planned => ChangedProfiles \cup RemovedProfiles = {}

RowsStored == \A p \in BuildProfiles : builds[p] # 0 => profileRows[p] = builds[p]

\* What is shown of a target has yet to be retired or written, or is right.
TargetsUnderWay ==
  /\ \A k \in profileRun.fresh : builds[k[1]] # 0
  /\ \A k \in ShownRelations :
       k[1] \in TaskTargets(ChangedProfiles, RemovedProfiles, builds) =>
         \/ k \in profileRun.retired \cup profileRun.fresh
         \/ builds[k[1]] # 0 /\ relationRows[k] = builds[k[1]]

AllShown ==
  /\ RowsStored
  /\ \A p \in BuildProfiles : builds[p] # 0 => RelationsAre(p, builds[p])
  /\ \A p \in RemovedProfiles : NoneShown(p)

RunGoesOn ==
  /\ profileRun.pc \in {"code", "profiles"} =>
       \A p \in BuildProfiles :
         builds[p] # 0 => p \in profileRun.unstored \/ profileRows[p] = builds[p]
  /\ profileRun.pc = "relations" => RowsStored /\ TargetsUnderWay
  /\ profileRun.pc = "save" => AllShown

ProfilesInv ==
  ProfilesType /\ SavedIsStored /\ CheckpointIsTrue /\ RunShape /\ RunGoesOn

-----------------------------------------------------------------------------
\* A step of a run that writes only what the configurations say.
SoundStep ==
  /\ UNCHANGED <<builds, newest, savedProfiles>>
  /\ profileRows' \in [BuildProfiles -> Nat]
  /\ relationRows' \in [BuildProfiles \X Guards -> Nat]
  /\ \A p \in BuildProfiles : profileRows'[p] \in {profileRows[p], builds[p]}
  /\ \A k \in ShownRelations' :
       \/ k \in ShownRelations /\ relationRows'[k] = relationRows[k]
       \/ builds[k[1]] # 0 /\ relationRows'[k] = builds[k[1]]

\* Such a step keeps what is right of a profile, ...
LEMMA SoundKeeps ==
  ASSUME SoundStep, NEW p \in BuildProfiles
  PROVE  /\ builds[p] # 0 /\ RelationsAre(p, builds[p]) => RelationsAre(p, builds[p])'
         /\ builds[p] = 0 /\ NoneShown(p) => NoneShown(p)'
BY DEF SoundStep, RelationsAre, NoneShown

\* ... and so what the state file and the checkpoint say.
LEMMA SoundIsSound ==
  ASSUME ProfilesInv, SoundStep
  PROVE  /\ ProfilesType' /\ SavedIsStored'
         /\ ChangedProfiles' = ChangedProfiles /\ RemovedProfiles' = RemovedProfiles
         /\ checkpoint' = checkpoint => CheckpointIsTrue'
<1>1. ProfilesType'
  BY DEF ProfilesInv, ProfilesType, SoundStep
<1>2. SavedIsStored'
  BY SoundKeeps DEF ProfilesInv, ProfilesType, SavedIsStored, SoundStep
<1>3. ChangedProfiles' = ChangedProfiles /\ RemovedProfiles' = RemovedProfiles
  BY DEF SoundStep, ChangedProfiles, RemovedProfiles
<1>4. ASSUME NEW changed \in SUBSET BuildProfiles, NEW removed \in SUBSET BuildProfiles,
             NEW configs \in [BuildProfiles -> Nat], TaskDone(changed, removed, configs)
      PROVE  TaskDone(changed, removed, configs)'
  <2>1. \A p \in BuildProfiles : configs[p] # 0 /\ builds[p] = configs[p] =>
          /\ profileRows'[p] = builds[p]
          /\ p \in TaskTargets(changed, removed, configs) => RelationsAre(p, builds[p])'
    BY <1>4, SoundKeeps DEF TaskDone, SoundStep
  <2>2. \A p \in removed : builds[p] = 0 /\ newest[p] # 0 /\ NoneShown(p)'
    BY <1>4, SoundKeeps DEF TaskDone
  <2> QED BY <1>4, <2>1, <2>2 DEF TaskDone, TaskTargets, SoundStep
<1>5. checkpoint' = checkpoint => CheckpointIsTrue'
  BY <1>4 DEF ProfilesInv, CheckpointIsTrue
<1> QED BY <1>1, <1>2, <1>3, <1>5

LEMMA InitProfilesInv == ProfilesInit => ProfilesInv
<1> SUFFICES ASSUME ProfilesInit PROVE ProfilesInv
  OBVIOUS
<1>1. ProfilesType
  BY DEF ProfilesInit, ProfilesType, NoProfiles, NothingSaved
<1>2. SavedIsStored
  BY DEF ProfilesInit, SavedIsStored, NoProfiles, NothingSaved
<1>3. CheckpointIsTrue
  <2>1. \A a, b, c : <<>> # <<a, b, c>>
    OBVIOUS
  <2> QED BY <2>1 DEF ProfilesInit, CheckpointIsTrue, NoTask
<1>4. profileRun.pc = "idle"
  BY DEF ProfilesInit, IdleRun
<1> QED BY <1>1, <1>2, <1>3, <1>4 DEF ProfilesInv, RunShape, RunGoesOn

\* What users do while no run is under way takes no version back.
LEMMA EditKeepsInv ==
  ASSUME ProfilesInv, NEW p \in BuildProfiles, EditProfile(p) \/ RemoveProfile(p)
  PROVE  ProfilesInv'
<1>0. /\ UNCHANGED <<savedProfiles, profileRows, relationRows, hiddenRows, checkpoint, profileRun>>
      /\ profileRun.pc = "idle"
  BY DEF EditProfile, RemoveProfile, storeVars
<1>1. /\ builds' \in [BuildProfiles -> Nat] /\ newest' \in [BuildProfiles -> Nat]
      /\ \A q \in BuildProfiles : q # p => builds'[q] = builds[q] /\ newest'[q] = newest[q]
      /\ \/ builds[p] = newest[p] /\ newest'[p] = newest[p] + 1 /\ builds'[p] = newest'[p]
         \/ builds[p] # 0 /\ builds'[p] = 0 /\ newest'[p] = newest[p]
  <2> USE DEF ProfilesInv, ProfilesType
  <2>1. CASE EditProfile(p)
    BY <2>1 DEF EditProfile
  <2>2. CASE RemoveProfile(p)
    BY <2>2 DEF RemoveProfile
  <2> QED BY <2>1, <2>2
<1>2. \A q \in BuildProfiles : NoneShown(q)' = NoneShown(q)
  BY <1>0 DEF NoneShown, ShownRelations, Stored
<1>3. \A q \in BuildProfiles : q # p => RelationsAre(q, builds[q])' = RelationsAre(q, builds[q])
  BY <1>0, <1>1 DEF RelationsAre, ShownRelations, Stored
<1>4. /\ \A q \in BuildProfiles : newest[q] \in Nat /\ newest[q] <= newest'[q]
      /\ \A q \in BuildProfiles : builds[q] \in {0, newest[q]}
      /\ builds'[p] = 0 \/ builds'[p] > newest[p]
  <2>1. \A q \in BuildProfiles : newest[q] \in Nat /\ builds[q] \in {0, newest[q]}
    BY DEF ProfilesInv, ProfilesType
  <2>2. newest[p] <= newest'[p] /\ (builds'[p] = 0 \/ builds'[p] > newest[p])
    BY <1>1, <2>1
  <2>3. \A q \in BuildProfiles : newest[q] <= newest'[q]
    BY <1>1, <2>1, <2>2
  <2> QED BY <2>1, <2>2, <2>3
<1>5. ProfilesType'
  <2>1. \A q \in BuildProfiles : builds'[q] \in {0, newest'[q]}
    BY <1>1, <1>4
  <2>2. \A q \in BuildProfiles : savedProfiles.configs[q] <= newest'[q]
    <3> TAKE q \in BuildProfiles
    <3>1. savedProfiles.configs[q] \in Nat /\ savedProfiles.configs[q] <= newest[q]
      BY DEF ProfilesInv, ProfilesType
    <3>2. newest'[q] \in Nat /\ newest[q] \in Nat /\ newest[q] <= newest'[q]
      BY <1>1, <1>4
    <3> QED BY <3>1, <3>2
  <2> QED BY <1>0, <1>1, <2>1, <2>2 DEF ProfilesInv, ProfilesType
<1>6. SavedIsStored'
  <2> SUFFICES ASSUME NEW q \in BuildProfiles, savedProfiles.configs[q] # 0,
                      builds'[q] = savedProfiles.configs[q]
               PROVE  profileRows[q] = builds'[q] /\ RelationsAre(q, builds[q])'
    BY <1>0 DEF SavedIsStored
  <2>1. q # p
    BY <1>1, <1>4 DEF ProfilesInv, ProfilesType
  <2> QED BY <1>1, <1>3, <2>1 DEF ProfilesInv, SavedIsStored
<1>7. CheckpointIsTrue'
  <2> SUFFICES ASSUME NEW changed \in SUBSET BuildProfiles, NEW removed \in SUBSET BuildProfiles,
                      NEW configs \in [BuildProfiles -> Nat],
                      checkpoint = <<changed, removed, configs>>
               PROVE  TaskDone(changed, removed, configs)'
    BY <1>0 DEF CheckpointIsTrue
  <2>1. TaskDone(changed, removed, configs)
    BY DEF ProfilesInv, CheckpointIsTrue
  <2>2. \A q \in BuildProfiles : configs[q] \in Nat /\ configs[q] <= newest[q] /\ configs[q] <= newest'[q]
    BY <1>1, <1>4, <2>1 DEF TaskDone
  <2>3. ASSUME NEW q \in BuildProfiles, configs[q] # 0, builds'[q] = configs[q]
        PROVE  /\ profileRows[q] = builds'[q]
               /\ q \in TaskTargets(changed, removed, configs) => RelationsAre(q, builds[q])'
    <3>1. q # p
      BY <1>4, <2>2, <2>3
    <3> QED BY <1>1, <1>3, <2>1, <2>3, <3>1 DEF TaskDone
  <2>4. ASSUME NEW q \in removed
        PROVE  builds'[q] = 0 /\ newest'[q] # 0 /\ NoneShown(q)'
    <3>1. builds[q] = 0 /\ newest[q] # 0 /\ NoneShown(q) /\ q \in BuildProfiles
      BY <2>1 DEF TaskDone
    <3>2. q # p
      BY <1>1, <3>1
    <3> QED BY <1>1, <1>2, <3>1, <3>2
  <2> QED BY <1>0, <2>2, <2>3, <2>4 DEF TaskDone, TaskTargets
<1> QED BY <1>0, <1>5, <1>6, <1>7 DEF ProfilesInv, RunShape, RunGoesOn

\* A step of the run that leaves the stores alone.
LEMMA QuietKeeps ==
  ASSUME ProfilesInv,
         UNCHANGED <<builds, newest, savedProfiles, profileRows, relationRows, hiddenRows>>
  PROVE  /\ SoundStep
         /\ AllShown' = AllShown /\ RowsStored' = RowsStored
         /\ \A p \in BuildProfiles : RelationsAre(p, builds[p])' = RelationsAre(p, builds[p])
         /\ \A p \in BuildProfiles : NoneShown(p)' = NoneShown(p)
<1>1. ShownRelations' = ShownRelations
  BY DEF ShownRelations, Stored
<1>2. SoundStep
  BY <1>1 DEF SoundStep, ProfilesInv, ProfilesType
<1> QED BY <1>1, <1>2 DEF AllShown, RowsStored, RelationsAre, NoneShown, RemovedProfiles

\* What a run compares has not changed when nothing is to be rebuilt.
LEMMA UnchangedIsStored ==
  ASSUME ProfilesInv, NEW p \in BuildProfiles, builds[p] # 0, p \notin ChangedProfiles
  PROVE  profileRows[p] = builds[p] /\ RelationsAre(p, builds[p])
BY DEF ProfilesInv, SavedIsStored, ChangedProfiles

\* The steps of a run change how far it is, and nothing it compared.
RunStays ==
  /\ profileRun' = [pc |-> profileRun'.pc, configs |-> profileRun'.configs,
                    indexer |-> profileRun'.indexer, changed |-> profileRun'.changed,
                    removed |-> profileRun'.removed, planned |-> profileRun'.planned,
                    resumed |-> profileRun'.resumed, unstored |-> profileRun'.unstored,
                    retired |-> profileRun'.retired, fresh |-> profileRun'.fresh]
  /\ profileRun'.configs = profileRun.configs
  /\ profileRun'.changed = profileRun.changed /\ profileRun'.removed = profileRun.removed
  /\ profileRun'.planned = profileRun.planned

LEMMA StaysShaped ==
  ASSUME ProfilesInv, SoundStep, profileRun.pc # "idle", RunStays
  PROVE  RunShape'
BY SoundIsSound DEF RunShape, RunStays, ProfilesInv, SoundStep

LEMMA StartKeepsInv ==
  ASSUME CodeIsRun, ProfilesInv, NEW source \in SourceFilters, NEW resumed \in BOOLEAN,
         StartProfileRun(source, resumed)
  PROVE  ProfilesInv'
<1>0. /\ UNCHANGED <<builds, newest, savedProfiles, profileRows, relationRows, hiddenRows>>
      /\ checkpoint' = checkpoint
  BY DEF StartProfileRun, workspaceVars, storeVars
<1>1. SoundStep
  BY <1>0, QuietKeeps
<1>2. source \in {"all", "code"}
  BY DEF CodeIsRun
<1> DEFINE planned == RebuildPlanned(source)
           unstored == {p \in BuildProfiles : builds[p] # 0}
<1>3. profileRun' = [pc |-> "code", configs |-> builds, indexer |-> indexer,
                     changed |-> ChangedProfiles, removed |-> RemovedProfiles,
                     planned |-> planned, resumed |-> resumed,
                     unstored |-> unstored, retired |-> {}, fresh |-> {}]
  BY <1>2 DEF StartProfileRun
<1>4. /\ ~planned => ChangedProfiles \cup RemovedProfiles = {}
      /\ \A p \in BuildProfiles : builds[p] # 0 => p \in unstored
  BY <1>2 DEF RebuildPlanned
<1>5. ProfilesType' /\ SavedIsStored' /\ CheckpointIsTrue'
  BY <1>0, <1>1, SoundIsSound
<1>6. ChangedProfiles' = ChangedProfiles /\ RemovedProfiles' = RemovedProfiles
  BY <1>1, SoundIsSound
<1> HIDE DEF planned, unstored
<1>7. RunShape' /\ RunGoesOn'
  BY <1>0, <1>3, <1>4, <1>6 DEF RunShape, RunGoesOn
<1> QED BY <1>5, <1>7 DEF ProfilesInv

\* The code of a run hides relations; a run that rebuilds nothing is done.
LEMMA CodeKeepsInv ==
  ASSUME ProfilesInv, NEW bundle, NEW after, ApplyCode(bundle, after)
  PROVE  ProfilesInv'
<1>0. /\ UNCHANGED <<builds, newest, savedProfiles, profileRows, relationRows, checkpoint>>
      /\ profileRun.pc = "code"
      /\ profileRun' = [profileRun EXCEPT !.pc = IF profileRun.planned THEN "profiles" ELSE "save"]
      /\ hiddenRows \subseteq hiddenRows'
  BY DEF ApplyCode, workspaceVars
<1>1. SoundStep
  BY <1>0 DEF SoundStep, ShownRelations, Stored, ProfilesInv, ProfilesType
<1>2. ProfilesType' /\ SavedIsStored' /\ CheckpointIsTrue'
  BY <1>0, <1>1, SoundIsSound
<1> DEFINE pc == IF profileRun.planned THEN "profiles" ELSE "save"
<1>3. pc \in {"profiles", "save"} /\ (pc = "save" => ~profileRun.planned)
  OBVIOUS
<1>4. profileRun' = [profileRun EXCEPT !.pc = pc]
  BY <1>0
<1> HIDE DEF pc
<1>5. RunStays /\ profileRun'.pc = pc /\ profileRun'.unstored = profileRun.unstored
  BY <1>0, <1>4 DEF ProfilesInv, RunShape, RunStays
<1>6. RunShape'
  BY <1>0, <1>1, <1>5, StaysShaped
<1>7. CASE pc = "profiles"
  BY <1>0, <1>5, <1>7, <1>2, <1>6 DEF RunGoesOn, ProfilesInv
<1>8. CASE pc = "save"
  <2>1. ChangedProfiles \cup RemovedProfiles = {}
    BY <1>0, <1>3, <1>8 DEF ProfilesInv, RunShape
  <2>2. \A p \in BuildProfiles : builds[p] # 0 =>
          profileRows[p] = builds[p] /\ RelationsAre(p, builds[p])'
    BY <2>1, <1>1, UnchangedIsStored, SoundKeeps
  <2>3. AllShown'
    BY <1>0, <2>1, <2>2, <1>1, SoundIsSound DEF AllShown, RowsStored
  <2> QED BY <1>5, <1>8, <1>2, <1>6, <2>3 DEF RunGoesOn, ProfilesInv
<1> QED BY <1>3, <1>7, <1>8

\* A rebuild is skipped when an earlier attempt did the same one.
LEMMA SkipKeepsInv ==
  ASSUME ProfilesInv, SkipRebuild
  PROVE  ProfilesInv'
<1>0. /\ UNCHANGED <<builds, newest, savedProfiles, profileRows, relationRows, hiddenRows, checkpoint>>
      /\ profileRun.pc = "profiles" /\ checkpoint = TaskHash
      /\ profileRun' = [profileRun EXCEPT !.pc = "save"]
  BY DEF SkipRebuild, workspaceVars, storeVars
<1>1. SoundStep /\ AllShown' = AllShown
  BY <1>0, QuietKeeps
<1>2. ProfilesType' /\ SavedIsStored' /\ CheckpointIsTrue'
  BY <1>0, <1>1, SoundIsSound
<1>3. RunStays /\ profileRun'.pc = "save"
  BY <1>0 DEF ProfilesInv, RunShape, RunStays
<1>4. RunShape'
  BY <1>0, <1>1, <1>3, StaysShaped
<1>5. TaskDone(ChangedProfiles, RemovedProfiles, builds)
  <2>1. checkpoint = <<ChangedProfiles, RemovedProfiles, builds>>
    BY <1>0 DEF TaskHash, ProfilesInv, RunShape
  <2>2. /\ ChangedProfiles \in SUBSET BuildProfiles /\ RemovedProfiles \in SUBSET BuildProfiles
        /\ builds \in [BuildProfiles -> Nat]
    BY DEF ChangedProfiles, RemovedProfiles, ProfilesInv, ProfilesType
  <2> QED BY <2>1, <2>2 DEF ProfilesInv, CheckpointIsTrue
<1>6. AllShown
  <2>1. RowsStored
    BY <1>5 DEF TaskDone, RowsStored
  <2>2. ASSUME NEW p \in BuildProfiles, builds[p] # 0
        PROVE  RelationsAre(p, builds[p])
    <3>1. CASE p \in TaskTargets(ChangedProfiles, RemovedProfiles, builds)
      BY <1>5, <2>2, <3>1 DEF TaskDone
    <3>2. CASE p \notin TaskTargets(ChangedProfiles, RemovedProfiles, builds)
      <4>1. p \notin ChangedProfiles
        BY <2>2, <3>2 DEF TaskTargets
      <4> QED BY <2>2, <4>1, UnchangedIsStored
    <3> QED BY <3>1, <3>2
  <2>3. \A p \in RemovedProfiles : NoneShown(p)
    BY <1>5 DEF TaskDone
  <2> QED BY <2>1, <2>2, <2>3 DEF AllShown
<1> QED BY <1>1, <1>2, <1>3, <1>4, <1>6 DEF ProfilesInv, RunGoesOn

LEMMA StoreKeepsInv ==
  ASSUME ProfilesInv, NEW p \in BuildProfiles, StoreProfile(p)
  PROVE  ProfilesInv'
<1>0. /\ UNCHANGED <<builds, newest, savedProfiles, relationRows, hiddenRows, checkpoint>>
      /\ profileRun.pc = "profiles"
      /\ profileRows' = [profileRows EXCEPT ![p] = builds[p]]
      /\ profileRun' = [profileRun EXCEPT !.unstored = profileRun.unstored \ {p}]
  BY DEF StoreProfile, workspaceVars, ProfilesInv, RunShape
<1>1. SoundStep
  BY <1>0 DEF SoundStep, ShownRelations, Stored, ProfilesInv, ProfilesType
<1>2. ProfilesType' /\ SavedIsStored' /\ CheckpointIsTrue'
  BY <1>0, <1>1, SoundIsSound
<1>3. /\ RunStays /\ profileRun'.pc = "profiles"
      /\ profileRun'.unstored = profileRun.unstored \ {p}
  BY <1>0 DEF ProfilesInv, RunShape, RunStays
<1>4. RunShape'
  BY <1>0, <1>1, <1>3, StaysShaped
<1>5. \A q \in BuildProfiles : builds[q] # 0 =>
        q \in profileRun'.unstored \/ profileRows'[q] = builds[q]
  BY <1>0, <1>3 DEF ProfilesInv, RunGoesOn, ProfilesType
<1> QED BY <1>0, <1>2, <1>3, <1>4, <1>5 DEF ProfilesInv, RunGoesOn

\* The targets of a run are those its checkpoint will name.
LEMMA TargetsAre ==
  ASSUME ProfilesInv, profileRun.pc # "idle"
  PROVE  /\ TargetProfiles(profileRun.changed, profileRun.removed) =
              TaskTargets(ChangedProfiles, RemovedProfiles, builds)
         /\ CollectedIds = {p \in BuildProfiles : builds[p] # 0}
         /\ TaskHash = <<ChangedProfiles, RemovedProfiles, builds>>
BY DEF ProfilesInv, RunShape, TargetProfiles, TaskTargets, CollectedIds, TaskHash

LEMMA CompareKeepsInv ==
  ASSUME ProfilesInv, CompareRelations
  PROVE  ProfilesInv'
<1> DEFINE targets == TargetProfiles(profileRun.changed, profileRun.removed)
           old == {k \in ShownRelations : k[1] \in targets}
           new == (targets \cap CollectedIds) \X liveGuards
           retired == old \ new
<1>0. /\ UNCHANGED <<builds, newest, savedProfiles, profileRows, relationRows, hiddenRows, checkpoint>>
      /\ profileRun.pc = "profiles" /\ profileRun.unstored = {}
      /\ profileRun' = [profileRun EXCEPT !.pc = "relations", !.retired = retired, !.fresh = new]
  BY DEF CompareRelations, workspaceVars, storeVars
<1>1. SoundStep /\ RowsStored' = RowsStored
  BY <1>0, QuietKeeps
<1>2. ProfilesType' /\ SavedIsStored' /\ CheckpointIsTrue'
  BY <1>0, <1>1, SoundIsSound
<1>3. /\ targets = TaskTargets(ChangedProfiles, RemovedProfiles, builds)
      /\ \A k \in new : builds[k[1]] # 0
      /\ \A k \in ShownRelations : k[1] \in targets => k \in retired \cup new
  BY <1>0, TargetsAre
<1> HIDE DEF targets, new, retired
<1>4. /\ RunStays /\ profileRun'.pc = "relations"
      /\ profileRun'.retired = retired /\ profileRun'.fresh = new
  BY <1>0 DEF ProfilesInv, RunShape, RunStays
<1>5. RunShape'
  BY <1>0, <1>1, <1>4, StaysShaped
<1>6. RowsStored
  BY <1>0 DEF ProfilesInv, RunGoesOn, RowsStored
<1>7. TargetsUnderWay'
  <2>1. ShownRelations' = ShownRelations
    BY <1>0 DEF ShownRelations, Stored
  <2>2. ChangedProfiles' = ChangedProfiles /\ RemovedProfiles' = RemovedProfiles
    BY <1>1, SoundIsSound
  <2> QED BY <1>0, <1>3, <1>4, <2>1, <2>2 DEF TargetsUnderWay, TaskTargets
<1> QED BY <1>1, <1>2, <1>4, <1>5, <1>6, <1>7 DEF ProfilesInv, RunGoesOn

LEMMA RelationKeepsInv ==
  ASSUME ProfilesInv, NEW k \in BuildProfiles \X Guards, RetireRelation(k) \/ WriteRelation(k)
  PROVE  ProfilesInv'
<1>0. /\ UNCHANGED <<builds, newest, savedProfiles, profileRows, checkpoint>>
      /\ profileRun.pc = "relations"
      /\ \/ /\ hiddenRows' = hiddenRows \cup {k} /\ UNCHANGED relationRows
            /\ profileRun' = [profileRun EXCEPT !.retired = profileRun.retired \ {k}]
         \/ /\ UNCHANGED hiddenRows /\ relationRows' = [relationRows EXCEPT ![k] = builds[k[1]]]
            /\ k \in profileRun.fresh
            /\ profileRun' = [profileRun EXCEPT !.fresh = profileRun.fresh \ {k}]
  BY DEF RetireRelation, WriteRelation, workspaceVars, ProfilesInv, RunShape
<1>t. /\ RowsStored /\ TargetsUnderWay
      /\ k[1] \in BuildProfiles
      /\ relationRows \in [BuildProfiles \X Guards -> Nat] /\ builds \in [BuildProfiles -> Nat]
  BY <1>0 DEF ProfilesInv, RunGoesOn, ProfilesType
<1>s. /\ relationRows' \in [BuildProfiles \X Guards -> Nat]
      /\ \A j \in ShownRelations' :
           \/ j \in ShownRelations /\ relationRows'[j] = relationRows[j] /\ j \notin hiddenRows'
           \/ j = k /\ builds[j[1]] # 0 /\ relationRows'[j] = builds[j[1]]
  <2>1. CASE UNCHANGED relationRows /\ hiddenRows' = hiddenRows \cup {k}
    BY <1>t, <2>1 DEF ShownRelations, Stored
  <2>2. CASE UNCHANGED hiddenRows /\ relationRows' = [relationRows EXCEPT ![k] = builds[k[1]]]
    <3>1. relationRows' \in [BuildProfiles \X Guards -> Nat]
      BY <1>t, <2>2
    <3>2. relationRows'[k] = builds[k[1]]
      BY <1>t, <2>2
    <3>3. \A j \in BuildProfiles \X Guards : j # k => relationRows'[j] = relationRows[j]
      BY <1>t, <2>2
    <3>4. \A j \in ShownRelations' : j \in BuildProfiles \X Guards /\ relationRows'[j] # 0
                                     /\ j \notin hiddenRows
      BY <2>2 DEF ShownRelations, Stored
    <3> QED BY <2>2, <3>1, <3>2, <3>3, <3>4 DEF ShownRelations, Stored
  <2> QED BY <1>0, <2>1, <2>2
<1>1. SoundStep
  BY <1>0, <1>s DEF SoundStep, ProfilesInv, ProfilesType
<1>2. ProfilesType' /\ SavedIsStored' /\ CheckpointIsTrue'
  BY <1>0, <1>1, SoundIsSound
<1>3. /\ RunStays /\ profileRun'.pc = "relations"
      /\ \/ /\ k \in hiddenRows' /\ profileRun'.retired = profileRun.retired \ {k}
            /\ profileRun'.fresh = profileRun.fresh /\ UNCHANGED relationRows
         \/ /\ profileRun'.retired = profileRun.retired
            /\ profileRun'.fresh = profileRun.fresh \ {k}
            /\ relationRows'[k] = builds[k[1]] /\ k \in profileRun.fresh
  <2>1. CASE hiddenRows' = hiddenRows \cup {k} /\ UNCHANGED relationRows
             /\ profileRun' = [profileRun EXCEPT !.retired = profileRun.retired \ {k}]
    BY <1>0, <2>1 DEF ProfilesInv, RunShape, RunStays
  <2>2. CASE relationRows' = [relationRows EXCEPT ![k] = builds[k[1]]] /\ k \in profileRun.fresh
             /\ profileRun' = [profileRun EXCEPT !.fresh = profileRun.fresh \ {k}]
    <3>1. relationRows'[k] = builds[k[1]]
      BY <1>t, <2>2
    <3> QED BY <1>0, <2>2, <3>1 DEF ProfilesInv, RunShape, RunStays
  <2> QED BY <1>0, <2>1, <2>2
<1>4. RunShape'
  BY <1>0, <1>1, <1>3, StaysShaped
<1>5. TargetsUnderWay'
  <2>1. ChangedProfiles' = ChangedProfiles /\ RemovedProfiles' = RemovedProfiles
    BY <1>1, SoundIsSound
  <2>2. \A j \in profileRun'.fresh : builds[j[1]] # 0
    BY <1>t, <1>3 DEF TargetsUnderWay
  <2>3. ASSUME NEW j \in ShownRelations',
               j[1] \in TaskTargets(ChangedProfiles, RemovedProfiles, builds)
        PROVE  \/ j \in profileRun'.retired \cup profileRun'.fresh
               \/ builds[j[1]] # 0 /\ relationRows'[j] = builds[j[1]]
    <3>1. CASE j \in ShownRelations /\ relationRows'[j] = relationRows[j] /\ j \notin hiddenRows'
      <4>1. \/ j \in profileRun.retired \cup profileRun.fresh
            \/ builds[j[1]] # 0 /\ relationRows[j] = builds[j[1]]
        BY <1>t, <2>3, <3>1 DEF TargetsUnderWay
      <4> QED BY <1>t, <1>3, <3>1, <4>1 DEF TargetsUnderWay
    <3>2. CASE builds[j[1]] # 0 /\ relationRows'[j] = builds[j[1]]
      BY <3>2
    <3> QED BY <1>s, <3>1, <3>2
  <2> QED BY <1>0, <2>1, <2>2, <2>3 DEF TargetsUnderWay, TaskTargets
<1>6. RowsStored'
  BY <1>0, <1>t DEF RowsStored
<1> QED BY <1>2, <1>3, <1>4, <1>5, <1>6 DEF ProfilesInv, RunGoesOn

\* The rebuild is over: what is shown is as the configurations say, and the
\* checkpoint says so.
LEMMA RecordKeepsInv ==
  ASSUME ProfilesInv, RecordRebuild
  PROVE  ProfilesInv'
<1>0. /\ UNCHANGED <<builds, newest, savedProfiles, profileRows, relationRows, hiddenRows>>
      /\ profileRun.pc = "relations" /\ profileRun.retired \cup profileRun.fresh = {}
      /\ profileRun' = [profileRun EXCEPT !.pc = "save"]
      /\ checkpoint' = <<ChangedProfiles, RemovedProfiles, builds>>
  BY TargetsAre DEF RecordRebuild, workspaceVars, storeVars
<1>1. SoundStep /\ AllShown' = AllShown
  BY <1>0, QuietKeeps
<1>2. ProfilesType' /\ SavedIsStored'
  BY <1>1, SoundIsSound
<1>3. RunStays /\ profileRun'.pc = "save"
  BY <1>0 DEF ProfilesInv, RunShape, RunStays
<1>4. RunShape'
  BY <1>0, <1>1, <1>3, StaysShaped
<1>5. RowsStored /\ TargetsUnderWay
  BY <1>0 DEF ProfilesInv, RunGoesOn
<1>6. \A k \in ShownRelations : k[1] \in TaskTargets(ChangedProfiles, RemovedProfiles, builds) =>
        builds[k[1]] # 0 /\ relationRows[k] = builds[k[1]]
  BY <1>0, <1>5 DEF TargetsUnderWay
<1>7. \A p \in RemovedProfiles : builds[p] = 0 /\ NoneShown(p)
  BY <1>6 DEF NoneShown, TaskTargets, RemovedProfiles
<1>8. AllShown
  <2>1. ASSUME NEW p \in BuildProfiles, builds[p] # 0
        PROVE  RelationsAre(p, builds[p])
    <3>1. CASE p \in TaskTargets(ChangedProfiles, RemovedProfiles, builds)
      BY <1>6, <3>1 DEF RelationsAre
    <3>2. CASE p \notin TaskTargets(ChangedProfiles, RemovedProfiles, builds)
      <4>1. p \notin ChangedProfiles
        BY <2>1, <3>2 DEF TaskTargets
      <4> QED BY <2>1, <4>1, UnchangedIsStored
    <3> QED BY <3>1, <3>2
  <2> QED BY <1>5, <1>7, <2>1 DEF AllShown
<1>9. CheckpointIsTrue'
  <2>1. /\ \A p \in BuildProfiles : builds[p] \in Nat /\ newest[p] \in Nat
        /\ \A p \in BuildProfiles : builds[p] <= newest[p]
        /\ \A p \in RemovedProfiles : newest[p] # 0 /\ p \in BuildProfiles
    BY DEF ProfilesInv, ProfilesType, RemovedProfiles
  <2>2. /\ \A p \in BuildProfiles : RelationsAre(p, builds[p])' = RelationsAre(p, builds[p])
        /\ \A p \in BuildProfiles : NoneShown(p)' = NoneShown(p)
    BY <1>0, QuietKeeps
  <2>3. TaskDone(ChangedProfiles, RemovedProfiles, builds)'
    BY <1>0, <1>1, <1>7, <1>8, <2>1, <2>2, SoundIsSound DEF TaskDone, AllShown, RowsStored
  <2>4. \A changed, removed, configs : checkpoint' = <<changed, removed, configs>> =>
          changed = ChangedProfiles' /\ removed = RemovedProfiles' /\ configs = builds'
    BY <1>0, <1>1, SoundIsSound
  <2> QED BY <2>3, <2>4 DEF CheckpointIsTrue
<1> QED BY <1>1, <1>2, <1>3, <1>4, <1>8, <1>9 DEF ProfilesInv, RunGoesOn

\* What a run that ends finds is what the property says, and what it saves.
LEMMA SaveIsTrue ==
  ASSUME ProfilesInv, SaveProfiles
  PROVE  /\ savedProfiles' = [configs |-> builds, indexer |-> profileRun.indexer]
         /\ AllShown
BY DEF SaveProfiles, ProfilesInv, RunShape, RunGoesOn

LEMMA SaveKeepsInv ==
  ASSUME ProfilesInv, SaveProfiles
  PROVE  ProfilesInv'
<1>0. /\ UNCHANGED <<builds, newest, profileRows, relationRows, hiddenRows, checkpoint>>
      /\ profileRun' = IdleRun
  BY DEF SaveProfiles, workspaceVars, storeVars
<1>1. savedProfiles'.configs = builds
      /\ savedProfiles' = [configs |-> savedProfiles'.configs, indexer |-> savedProfiles'.indexer]
  BY SaveIsTrue
<1>2. \A p \in BuildProfiles : RelationsAre(p, builds[p])' = RelationsAre(p, builds[p])
      /\ NoneShown(p)' = NoneShown(p)
  BY <1>0 DEF RelationsAre, NoneShown, ShownRelations, Stored
<1>3. ProfilesType'
  <2>1. ASSUME NEW p \in BuildProfiles PROVE builds[p] <= newest[p]
    <3>1. newest[p] \in Nat /\ builds[p] \in {0, newest[p]}
      BY DEF ProfilesInv, ProfilesType
    <3> QED BY <3>1
  <2> QED BY <1>0, <1>1, <2>1 DEF ProfilesInv, ProfilesType
<1>4. SavedIsStored'
  BY <1>0, <1>1, <1>2, SaveIsTrue DEF SavedIsStored, AllShown, RowsStored
<1>5. CheckpointIsTrue'
  <2>1. ASSUME NEW changed \in SUBSET BuildProfiles, NEW removed \in SUBSET BuildProfiles,
               NEW configs, TaskDone(changed, removed, configs)
        PROVE  TaskDone(changed, removed, configs)'
    BY <1>0, <1>2, <2>1 DEF TaskDone, TaskTargets
  <2> QED BY <1>0, <2>1 DEF ProfilesInv, CheckpointIsTrue
<1> QED BY <1>0, <1>3, <1>4, <1>5 DEF ProfilesInv, RunShape, RunGoesOn, IdleRun

\* Nothing but the run, or nothing but the indexer.
LEMMA StopKeepsInv ==
  ASSUME ProfilesInv, StopProfileRun \/ Upgrade \/ UNCHANGED profileVars
  PROVE  ProfilesInv'
<1>0. /\ UNCHANGED <<builds, newest, savedProfiles, profileRows, relationRows, hiddenRows, checkpoint>>
      /\ profileRun' = IdleRun \/ UNCHANGED profileRun
  BY DEF StopProfileRun, Upgrade, profileVars, workspaceVars, storeVars
<1>1. SoundStep /\ AllShown' = AllShown /\ RowsStored' = RowsStored
  BY <1>0, QuietKeeps
<1>2. /\ ProfilesType' /\ SavedIsStored' /\ CheckpointIsTrue'
      /\ ChangedProfiles' = ChangedProfiles /\ RemovedProfiles' = RemovedProfiles
  BY <1>0, <1>1, SoundIsSound
<1>3. CASE profileRun' = IdleRun
  BY <1>2, <1>3 DEF ProfilesInv, RunShape, RunGoesOn, IdleRun
<1>4. CASE UNCHANGED profileRun
  <2>1. ShownRelations' = ShownRelations
    BY <1>0 DEF ShownRelations, Stored
  <2>2. RunShape'
    BY <1>0, <1>2, <1>4 DEF ProfilesInv, RunShape
  <2>3. TargetsUnderWay' = TargetsUnderWay
    BY <1>0, <1>2, <1>4, <2>1 DEF TargetsUnderWay, TaskTargets
  <2>4. RunGoesOn'
    BY <1>0, <1>1, <1>4, <2>3 DEF ProfilesInv, RunGoesOn
  <2> QED BY <1>2, <2>2, <2>4 DEF ProfilesInv
<1> QED BY <1>0, <1>3, <1>4

LEMMA NextProfilesInv ==
  ASSUME CodeIsRun, ProfilesInv, [ProfilesNext]_profileVars
  PROVE  ProfilesInv'
BY EditKeepsInv, StartKeepsInv, CodeKeepsInv, SkipKeepsInv, StoreKeepsInv, CompareKeepsInv,
   RelationKeepsInv, RecordKeepsInv, SaveKeepsInv, StopKeepsInv DEF ProfilesNext, RebuildStep

\* Whatever runs stopped at whatever write, skipped what an earlier attempt did
\* or left out what had not changed, whenever a run remembers the versions of
\* the profiles, the relations shown of each profile are of that version, and
\* none is shown of a profile that is forgotten
\* (_rebuild_profile_conditioned_relations, save_state).
THEOREM RememberedIsShown == CodeIsRun => (ProfilesSpec => SavedProfilesAreShown)
<1> SUFFICES ASSUME CodeIsRun PROVE ProfilesSpec => SavedProfilesAreShown
  OBVIOUS
<1>1. ProfilesInv /\ [ProfilesNext]_profileVars => ProfilesInv'
  BY NextProfilesInv
<1> DEFINE Shown ==
      \A p \in BuildProfiles :
        IF savedProfiles'.configs[p] # 0
        THEN /\ profileRows[p] = savedProfiles'.configs[p]
             /\ \A k \in ShownRelations : k[1] = p => relationRows[k] = savedProfiles'.configs[p]
        ELSE savedProfiles.configs[p] # 0 => \A k \in ShownRelations : k[1] # p
<1>2. ProfilesInv /\ SaveProfiles => Shown
  BY SaveIsTrue DEF AllShown, RowsStored, RelationsAre, NoneShown, RemovedProfiles
<1> HIDE DEF Shown
<1>3. ProfilesInv /\ [ProfilesNext]_profileVars => [SaveProfiles => Shown]_profileVars
  BY <1>2
<1>4. ProfilesSpec => [][SaveProfiles => Shown]_profileVars
  BY <1>1, <1>3, InitProfilesInv, PTL DEF ProfilesSpec
<1> QED BY <1>4 DEF SavedProfilesAreShown, Shown

=============================================================================
