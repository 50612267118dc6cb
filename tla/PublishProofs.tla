--------------------------- MODULE PublishProofs ----------------------------
(***************************************************************************)
(* Proofs about Publish, for any number of full indexes, incremental runs  *)
(* and readers, any faults, and any --keep of at least one.                *)
(***************************************************************************)
EXTENDS Publish, FiniteSetTheorems, TLAPS

-----------------------------------------------------------------------------
(* The inductive invariant.                                                *)

\* The pointer switch of v may be over (it is not, if v failed before).
Settled(v) == full[v].pc \in {"finish", "done", "dead"}

\* Whoever names a version by way of the pointer names a settled one.
NamedAreSettled ==
  /\ pointer \in Versions => Settled(pointer)
  /\ \A u \in Updaters :
       /\ update[u].metadata \in Versions => Settled(update[u].metadata)
       /\ update[u].vectors \in Versions => Settled(update[u].vectors)

\* A metadata file is complete wherever readers may find it, and staged complete
\* once validated.
MetadataComplete ==
  /\ \A p \in Places : store[p].db => {store[p].chunk, store[p].ref} \subseteq {p} \cup Updaters
  /\ \A v \in Versions : FullAt(v, "move_metadata") /\ staging[v].db =>
       staging[v].chunk = v /\ staging[v].ref = v

WritersHoldLock ==
  /\ \A v \in Versions : FullRunning(v) => lock = v
  /\ \A u \in Updaters : UpdateWriting(u) => lock = u

\* Only the jobs of processes that are over are stale.
StaleAreDone ==
  /\ \A v \in Versions : full[v].status \in {"failed", "partial_ready"} => FullAt(v, "done")
  /\ \A f \in cleaner.todo :
       /\ f.where = "staging" => FullAt(f.of, "done")
       /\ f.where = "store" => Settled(f.of) /\ (cleaner.pc = "delete" => f.of # pointer)

\* Where the build of v is, while it is under way.
BuildInPlace ==
  \A v \in Versions :
    /\ ~Settled(v) /\ full[v].pc \notin {"move_vectors", "activate"} => store[v] = Empty
    /\ FullAt(v, "move_metadata") => staging[v] = Built(v)
    /\ FullAt(v, "move_vectors") => staging[v].row = v /\ store[v] = NoVectors(Built(v))
    /\ FullAt(v, "activate") => store[v] = Built(v)

\* Nobody wrote a version after the build that is under way.
BuildIsNewest ==
  \A v \in Versions : FullRunning(v) /\ full[v].pc \notin {"scan", "finish"} =>
    \A w \in Versions : <<w, v>> \notin newer

Safe == /\ WritersHoldLock
        /\ StaleAreDone
        /\ BuildInPlace
        /\ BuildIsNewest
        /\ LiveWhole

IInv == /\ TypeOK
        /\ NamedAreSettled
        /\ MetadataComplete
        /\ NoneCancelled => Safe

-----------------------------------------------------------------------------
(* Type correctness.                                                       *)

\* Moving or deleting half a store leaves a store.
LEMMA StoreParts ==
  ASSUME NEW s \in Store, NEW t \in Store
  PROVE  /\ NoMetadata(s) \in Store /\ NoVectors(s) \in Store /\ WithMetadata(s, t) \in Store
         /\ \A part : WithoutFile(s, part) \in Store
         /\ [s EXCEPT !.db = TRUE] \in Store
         /\ [s EXCEPT !.row = t.row] \in Store
         /\ \A x \in Generations :
              /\ [s EXCEPT !.chunk = x] \in Store
              /\ [s EXCEPT !.ref = x] \in Store
              /\ [s EXCEPT !.row = x] \in Store
BY DEF Store, NoMetadata, NoVectors, WithMetadata, WithoutFile

\* What is in a store after its metadata or vectors were moved or deleted.
LEMMA StoreFields ==
  ASSUME NEW s \in Store, NEW t \in Store
  PROVE  /\ WithMetadata(s, t).db = t.db /\ WithMetadata(s, t).chunk = t.chunk
         /\ WithMetadata(s, t).ref = t.ref /\ WithMetadata(s, t).row = s.row
         /\ NoMetadata(s).db = FALSE /\ NoMetadata(s).row = s.row
         /\ NoVectors(s).db = s.db /\ NoVectors(s).chunk = s.chunk /\ NoVectors(s).ref = s.ref
         /\ NoVectors(s).row = None
         /\ [s EXCEPT !.row = t.row].db = s.db /\ [s EXCEPT !.row = t.row].chunk = s.chunk
         /\ [s EXCEPT !.row = t.row].ref = s.ref /\ [s EXCEPT !.row = t.row].row = t.row
BY DEF Store, NoMetadata, NoVectors, WithMetadata

\* What clean lists are files of versions.
LEMMA ListedFiles ==
  /\ [where: {"staging"}, part: {"metadata", "vectors"}, of: StaleStaging] \subseteq Files
  /\ PublishedFiles \subseteq Files
BY DEF Files, StaleStaging, PublishedFiles

\* Every variable keeps its type (Publish: every action).
THEOREM TypeCorrect == Spec => []TypeOK
<1>1. Init => TypeOK
  BY ConstantsAssumption
     DEF Init, TypeOK, NoJob, Places, Generations, Store, Empty, FullState, FullPc, JobStatus,
         UpdateState, UpdatePc, ReaderState, ReaderPc, Closed, CleanerState
<1>2. TypeOK /\ [Next]_vars => TypeOK'
  <2> SUFFICES ASSUME TypeOK, [Next]_vars PROVE TypeOK'
    OBVIOUS
  <2> USE DEF TypeOK
  <2>1. ASSUME NEW v \in Versions, FullStep(v) PROVE TypeOK'
    <3> USE DEF FullState, FullPc, JobStatus, Places, FullGoto, ReleaseLock, Touch
    <3>1. CASE StartFull(v)
      BY <3>1 DEF StartFull, NoJob
    <3>2. CASE CreateStaging(v) \/ StageChunks(v) \/ StageRows(v) \/ StageRefs(v)
      <4>1. staging' \in [Versions -> Store]
        <5>1. CASE CreateStaging(v)
          BY <5>1, StoreParts DEF CreateStaging
        <5>2. CASE StageChunks(v)
          BY <5>2, StoreParts DEF StageChunks, Generations
        <5>3. CASE StageRows(v)
          BY <5>3, StoreParts DEF StageRows, Generations
        <5>4. CASE StageRefs(v)
          BY <5>4, StoreParts DEF StageRefs, Generations
        <5> QED
          BY <3>2, <5>1, <5>2, <5>3, <5>4
      <4>2. newer' \subseteq Versions \X Versions
        BY <3>2 DEF CreateStaging, StageChunks, StageRows, StageRefs
      <4> QED
        BY <3>2, <4>1, <4>2 DEF CreateStaging, StageChunks, StageRows, StageRefs
    <3>3. CASE PassValidation(v) \/ MissValidation(v) \/ FinishFull(v)
               \/ FailFull(v) \/ CrashFull(v) \/ CancelFull(v)
      BY <3>3 DEF PassValidation, MissValidation, FinishFull, FailFull, CrashFull, CancelFull
    <3>4. CASE MoveMetadata(v) \/ MoveVectors(v)
      <4>1. staging' \in [Versions -> Store] /\ store' \in [Places -> Store]
        <5> staging[v] \in Store /\ store[v] \in Store
          OBVIOUS
        <5>a. /\ NoMetadata(staging[v]) \in Store /\ NoVectors(staging[v]) \in Store
              /\ WithMetadata(store[v], staging[v]) \in Store
              /\ [store[v] EXCEPT !.row = staging[v].row] \in Store
          BY StoreParts
        <5>1. CASE MoveMetadata(v)
          BY <5>1, <5>a DEF MoveMetadata
        <5>2. CASE MoveVectors(v)
          BY <5>2, <5>a DEF MoveVectors
        <5> QED
          BY <3>4, <5>1, <5>2
      <4> QED
        BY <3>4, <4>1 DEF MoveMetadata, MoveVectors
    <3>5. CASE Activate(v)
      BY <3>5 DEF Activate
    <3> QED
      BY <2>1, <3>1, <3>2, <3>3, <3>4, <3>5 DEF FullStep
  <2>2. ASSUME NEW u \in Updaters, UpdateStep(u) PROVE TypeOK'
    <3> USE DEF UpdateState, UpdatePc, UpdateGoto, EndUpdate, ReleaseLock, Places
    <3>1. CASE OpenUpdateMetadata(u) \/ OpenUpdateVectors(u) \/ StartUpdate(u)
               \/ StopUpdate(u) \/ CrashUpdate(u)
      BY <3>1 DEF OpenUpdateMetadata, OpenUpdateVectors, StartUpdate, StopUpdate, CrashUpdate
    <3>2. CASE UpdateChunks(u) \/ UpdateRows(u) \/ UpdateRefs(u)
      <4>1. store' \in [Places -> Store]
        BY <3>2 DEF UpdateChunks, UpdateRows, UpdateRefs, Store, Generations
      <4>2. newer' \subseteq Versions \X Versions
        BY <3>2 DEF UpdateChunks, UpdateRows, UpdateRefs, Touch
      <4> QED
        BY <3>2, <4>1, <4>2 DEF UpdateChunks, UpdateRows, UpdateRefs
    <3> QED
      BY <2>2, <3>1, <3>2 DEF UpdateStep
  <2>3. ASSUME NEW r \in Readers, ReaderStep(r) PROVE TypeOK'
    BY <2>3 DEF ReaderStep, OpenMetadata, OpenVectors, ReaderUnchanged, ReaderState, ReaderPc
  <2>4. CASE CleanStep
    <3> USE DEF CleanerUnchanged, CleanerState
    <3>1. CASE ListStaging
      BY <3>1, ListedFiles DEF ListStaging
    <3>4. CASE ListVersions
      <4>1. {f \in PublishedFiles : f.of \notin Newest} \in SUBSET Files
        BY ListedFiles
      <4> QED
        BY <3>4, <4>1 DEF ListVersions
    <3>2. CASE RetainCurrent
      BY <3>2 DEF RetainCurrent
    <3>3. ASSUME NEW f \in Files, Delete(f) PROVE TypeOK'
      <4>1. f.of \in Versions
        BY DEF Files
      <4>2. staging' \in [Versions -> Store] /\ store' \in [Places -> Store]
        <5> staging[f.of] \in Store /\ store[f.of] \in Store
          BY <4>1 DEF Places
        <5>1. /\ WithoutFile(staging[f.of], f.part) \in Store
              /\ WithoutFile(store[f.of], f.part) \in Store
          BY StoreParts
        <5> QED
          BY <3>3, <4>1, <5>1 DEF Delete
      <4> QED
        BY <3>3, <4>2 DEF Delete
    <3> QED
      BY <2>4, <3>1, <3>2, <3>3, <3>4 DEF CleanStep
  <2>5. CASE LockTimesOut
    BY <2>5 DEF LockTimesOut
  <2>6. CASE UNCHANGED vars
    BY <2>6 DEF vars
  <2> QED
    BY <2>1, <2>2, <2>3, <2>4, <2>5, <2>6 DEF Next
<1> QED
  BY <1>1, <1>2, PTL DEF Spec

-----------------------------------------------------------------------------
(* Facts about steps.                                                      *)

\* A job that is over stays over, and a cancelled one cancelled.
LEMMA JobsMoveOn ==
  ASSUME TypeOK, [Next]_vars, NEW v \in Versions
  PROVE  /\ Settled(v) => Settled(v)'
         /\ FullAt(v, "done") => FullAt(v, "done")'
         /\ full[v].status = "cancelled" => full'[v].status = "cancelled"
<1> USE DEF TypeOK, FullState, Settled, FullAt, FullGoto
<1>1. ASSUME NEW w \in Versions, FullStep(w)
      PROVE  /\ Settled(v) => Settled(v)'
             /\ FullAt(v, "done") => FullAt(v, "done")'
             /\ full[v].status = "cancelled" => full'[v].status = "cancelled"
  <2>1. CASE StartFull(w)
    BY <2>1 DEF StartFull, NoJob
  <2>2. CASE CreateStaging(w) \/ StageChunks(w) \/ StageRows(w) \/ StageRefs(w)
    BY <2>2 DEF CreateStaging, StageChunks, StageRows, StageRefs
  <2>3. CASE PassValidation(w) \/ MissValidation(w) \/ MoveMetadata(w) \/ MoveVectors(w)
    BY <2>3 DEF PassValidation, MissValidation, MoveMetadata, MoveVectors
  <2>4. CASE Activate(w) \/ FinishFull(w)
    BY <2>4 DEF Activate, FinishFull
  <2>5. CASE FailFull(w) \/ CrashFull(w) \/ CancelFull(w)
    BY <2>5 DEF FailFull, CrashFull, CancelFull, FullRunning
  <2> QED
    BY <1>1, <2>1, <2>2, <2>3, <2>4, <2>5 DEF FullStep
<1>2. CASE full' = full
  BY <1>2
<1> QED
  BY <1>1, <1>2
     DEF Next, vars, UpdateStep, OpenUpdateMetadata, OpenUpdateVectors, StartUpdate, StopUpdate,
         CrashUpdate, UpdateChunks, UpdateRows, UpdateRefs, ReaderStep, OpenMetadata, OpenVectors,
         ReaderUnchanged, CleanStep, ListStaging, ListVersions, RetainCurrent, Delete,
         CleanerUnchanged, LockTimesOut

LEMMA NoneCancelledBefore ==
  ASSUME TypeOK, [Next]_vars, NoneCancelled'
  PROVE  NoneCancelled
BY JobsMoveOn DEF NoneCancelled

\* A pointer, or a place opened by way of it, names a settled version.
LEMMA NamedStaySettled ==
  ASSUME TypeOK, TypeOK', NamedAreSettled, [Next]_vars
  PROVE  NamedAreSettled'
<1> USE DEF NamedAreSettled
<1>1. ASSUME NEW v \in Versions, Activate(v) PROVE NamedAreSettled'
  <2>1. Settled(v)'
    BY <1>1 DEF Activate, FullGoto, Settled, TypeOK, FullState
  <2> QED
    BY <1>1, <2>1, JobsMoveOn DEF Activate, TypeOK, UpdateState, Places
<1>2. ASSUME NEW v \in Versions, FullStep(v), ~Activate(v) PROVE NamedAreSettled'
  <2>1. pointer' = pointer /\ update' = update
    BY <1>2 DEF FullStep, StartFull, CreateStaging, StageChunks, StageRows, StageRefs,
         PassValidation, MissValidation, MoveMetadata, MoveVectors, FinishFull, FailFull,
         CrashFull, CancelFull
  <2> QED
    BY <2>1, JobsMoveOn DEF TypeOK, UpdateState, Places
<1>3. ASSUME NEW u \in Updaters, UpdateStep(u) PROVE NamedAreSettled'
  <2> USE DEF TypeOK, UpdateState, Places
  <2>1. pointer' = pointer /\ full' = full
    BY <1>3 DEF UpdateStep, OpenUpdateMetadata, OpenUpdateVectors, StartUpdate, StopUpdate,
         CrashUpdate, UpdateChunks, UpdateRows, UpdateRefs
  <2>2. \A p : Settled(p)' = Settled(p)
    BY <2>1 DEF Settled
  <2>3. CASE OpenUpdateMetadata(u) \/ OpenUpdateVectors(u)
    BY <2>1, <2>2, <2>3 DEF OpenUpdateMetadata, OpenUpdateVectors
  <2>4. CASE StartUpdate(u) \/ UpdateChunks(u) \/ UpdateRows(u)
    BY <2>1, <2>2, <2>4 DEF StartUpdate, UpdateChunks, UpdateRows, UpdateGoto
  <2>5. CASE UpdateRefs(u) \/ StopUpdate(u) \/ CrashUpdate(u)
    BY <2>1, <2>2, <2>5, ConstantsAssumption DEF UpdateRefs, StopUpdate, CrashUpdate, EndUpdate
  <2> QED
    BY <1>3, <2>3, <2>4, <2>5 DEF UpdateStep
<1>4. CASE UNCHANGED <<pointer, full, update>>
  BY <1>4 DEF Settled
<1> QED
  BY <1>1, <1>2, <1>3, <1>4
     DEF Next, vars, ReaderStep, OpenMetadata, OpenVectors, ReaderUnchanged, CleanStep,
         ListStaging, ListVersions, RetainCurrent, Delete, CleanerUnchanged, LockTimesOut

-----------------------------------------------------------------------------
(* The parts of the invariant, one by one.                                 *)

\* Only MoveMetadata makes a metadata file appear in a place, and what it moves
\* passed validation.
LEMMA MetadataStayComplete ==
  ASSUME TypeOK, MetadataComplete, [Next]_vars
  PROVE  MetadataComplete'
<1> USE DEF TypeOK, MetadataComplete, Places, FullState
<1>1. ASSUME NEW v \in Versions, FullStep(v) PROVE MetadataComplete'
  <2> USE DEF FullAt, FullGoto
  <2>1. CASE MoveMetadata(v)
    <3>1. \A w \in Versions : full'[w].pc = "move_metadata" =>
             full[w].pc = "move_metadata" /\ staging'[w] = staging[w]
      BY <2>1 DEF MoveMetadata
    <3>2. \A p \in Places : p # v => store'[p] = store[p]
      BY <2>1 DEF MoveMetadata
    <3>3. store'[v].db => {store'[v].chunk, store'[v].ref} \subseteq {v} \cup Updaters
      <4>1. CASE ~staging[v].db
        BY <2>1, <4>1 DEF MoveMetadata
      <4>2. CASE staging[v].db
        <5>1. store'[v] = WithMetadata(store[v], staging[v])
          BY <2>1, <4>2 DEF MoveMetadata
        <5>2. staging[v] \in Store /\ store[v] \in Store
          OBVIOUS
        <5>3. /\ WithMetadata(store[v], staging[v]).chunk = staging[v].chunk
              /\ WithMetadata(store[v], staging[v]).ref = staging[v].ref
          BY <5>2 DEF WithMetadata, Store
        <5>4. store'[v].chunk = staging[v].chunk /\ store'[v].ref = staging[v].ref
          BY <5>1, <5>3
        <5> QED
          BY <2>1, <4>2, <5>4 DEF MoveMetadata
      <4> QED
        BY <4>1, <4>2
    <3>4. \A p \in Places : store'[p].db => {store'[p].chunk, store'[p].ref} \subseteq {p} \cup Updaters
      BY <3>2, <3>3
    <3> QED
      BY <3>1, <3>4
  <2>2. CASE MoveVectors(v)
    <3>1. \A w \in Versions : full'[w].pc = "move_metadata" =>
             full[w].pc = "move_metadata" /\ staging'[w] = staging[w]
      BY <2>2 DEF MoveVectors
    <3>2. \A p \in Places : /\ store'[p].db = store[p].db
                            /\ store'[p].chunk = store[p].chunk
                            /\ store'[p].ref = store[p].ref
      <4>1. \A p \in Places : \/ store'[p] = store[p]
                              \/ p = v /\ store'[v] = [store[v] EXCEPT !.row = staging[v].row]
        BY <2>2 DEF MoveVectors
      <4>2. staging[v] \in Store /\ store[v] \in Store
        OBVIOUS
      <4>3. /\ [store[v] EXCEPT !.row = staging[v].row].db = store[v].db
            /\ [store[v] EXCEPT !.row = staging[v].row].chunk = store[v].chunk
            /\ [store[v] EXCEPT !.row = staging[v].row].ref = store[v].ref
        BY <4>2, StoreFields
      <4> QED
        BY <4>1, <4>3
    <3> QED
      BY <3>1, <3>2
  <2>3. CASE CreateStaging(v) \/ StageChunks(v) \/ StageRows(v) \/ StageRefs(v)
    <3>1. \A w \in Versions : full'[w].pc = "move_metadata" =>
             full[w].pc = "move_metadata" /\ staging'[w] = staging[w]
      BY <2>3 DEF CreateStaging, StageChunks, StageRows, StageRefs
    <3>2. store' = store
      BY <2>3 DEF CreateStaging, StageChunks, StageRows, StageRefs
    <3> QED
      BY <3>1, <3>2
  <2>4. CASE PassValidation(v)
    BY <2>4 DEF PassValidation, StagedConsistent, Built
  <2>5. CASE \/ StartFull(v) \/ MissValidation(v) \/ Activate(v) \/ FinishFull(v)
             \/ FailFull(v) \/ CrashFull(v) \/ CancelFull(v)
    <3>1. /\ store' = store /\ staging' = staging
          /\ \A w \in Versions : full'[w].pc = "move_metadata" => full[w].pc = "move_metadata"
      BY <2>5 DEF StartFull, NoJob, MissValidation, Activate, FinishFull, FailFull, CrashFull, CancelFull
    <3> QED
      BY <3>1
  <2> QED
    BY <1>1, <2>1, <2>2, <2>3, <2>4, <2>5 DEF FullStep
<1>2. ASSUME NEW u \in Updaters, UpdateStep(u) PROVE MetadataComplete'
  <2> USE DEF UpdateState
  <2>1. full' = full /\ staging' = staging
    BY <1>2 DEF UpdateStep, OpenUpdateMetadata, OpenUpdateVectors, StartUpdate, StopUpdate,
         CrashUpdate, UpdateChunks, UpdateRows, UpdateRefs
  <2>2. CASE UpdateChunks(u)
    BY <2>1, <2>2 DEF UpdateChunks, FullAt
  <2>3. CASE UpdateRows(u)
    BY <2>1, <2>3 DEF UpdateRows, FullAt
  <2>4. CASE UpdateRefs(u)
    BY <2>1, <2>4 DEF UpdateRefs, FullAt
  <2>5. CASE store' = store
    BY <2>1, <2>5 DEF FullAt
  <2> QED
    BY <1>2, <2>2, <2>3, <2>4, <2>5
       DEF UpdateStep, OpenUpdateMetadata, OpenUpdateVectors, StartUpdate, StopUpdate, CrashUpdate
<1>3. ASSUME NEW f \in Files, Delete(f) PROVE MetadataComplete'
  <2>1. f.of \in Versions
    BY DEF Files
  <2>2. full' = full
    BY <1>3 DEF Delete, CleanerUnchanged
  <2>3. \A w \in Versions : staging'[w].db => staging[w].db /\ staging'[w].chunk = staging[w].chunk
                                              /\ staging'[w].ref = staging[w].ref
    <3>1. \A w \in Versions : \/ staging'[w] = staging[w] \/ staging'[w] = NoMetadata(staging[w])
                            \/ staging'[w] = NoVectors(staging[w])
      BY <1>3, <2>1 DEF Delete, WithoutFile
    <3>2. ASSUME NEW w \in Versions
          PROVE  /\ NoMetadata(staging[w]).db = FALSE
                 /\ NoVectors(staging[w]).db = staging[w].db
                 /\ NoVectors(staging[w]).chunk = staging[w].chunk
                 /\ NoVectors(staging[w]).ref = staging[w].ref
      <4>1. staging[w] \in Store
        OBVIOUS
      <4> QED
        BY <4>1, StoreFields
    <3> QED
      BY <3>1, <3>2
  <2>4. \A p \in Places : store'[p].db => store[p].db /\ store'[p].chunk = store[p].chunk
                                          /\ store'[p].ref = store[p].ref
    <3>1. \A p \in Places : \/ store'[p] = store[p] \/ store'[p] = NoMetadata(store[p])
                            \/ store'[p] = NoVectors(store[p])
      BY <1>3, <2>1 DEF Delete, WithoutFile
    <3>2. ASSUME NEW p \in Places
          PROVE  /\ NoMetadata(store[p]).db = FALSE
                 /\ NoVectors(store[p]).db = store[p].db
                 /\ NoVectors(store[p]).chunk = store[p].chunk
                 /\ NoVectors(store[p]).ref = store[p].ref
      <4>1. store[p] \in Store
        OBVIOUS
      <4> QED
        BY <4>1, StoreFields
    <3> QED
      BY <3>1, <3>2
  <2> QED
    BY <2>2, <2>3, <2>4 DEF FullAt
<1>4. CASE UNCHANGED <<store, staging, full>>
  BY <1>4 DEF FullAt
<1> QED
  BY <1>1, <1>2, <1>3, <1>4
     DEF Next, vars, ReaderStep, OpenMetadata, OpenVectors, ReaderUnchanged, CleanStep,
         ListStaging, ListVersions, RetainCurrent, CleanerUnchanged, LockTimesOut

\* No reader ever opens a half-built index.
THEOREM NoHalfBuild == Spec => []ReaderSeesNoHalfBuild
<1>1. Init => MetadataComplete
  BY ConstantsAssumption DEF Init, MetadataComplete, Empty, Places, FullAt, NoJob
<1>2. TypeOK /\ MetadataComplete /\ [Next]_vars => MetadataComplete'
  BY MetadataStayComplete
<1>3. TypeOK /\ MetadataComplete => ReaderSeesNoHalfBuild
  BY DEF ReaderSeesNoHalfBuild, MetadataComplete, TypeOK, ReaderState
<1> QED
  BY <1>1, <1>2, <1>3, TypeCorrect, PTL DEF Spec

-----------------------------------------------------------------------------
(* While nobody cancels a full index that runs.                            *)

\* Every job that writes holds the lock, until it ends.
LEMMA WritersKeepLock ==
  ASSUME TypeOK, WritersHoldLock, [Next]_vars, NoneCancelled'
  PROVE  WritersHoldLock'
<1> USE DEF TypeOK, WritersHoldLock, FullRunning, UpdateWriting, FullState, UpdateState, ReleaseLock
<1>1. ASSUME NEW v \in Versions, FullStep(v) PROVE WritersHoldLock'
  <2> USE DEF FullAt, FullGoto
  <2>1. CASE StartFull(v)
    BY <2>1, ConstantsAssumption DEF StartFull
  <2>2. CASE CreateStaging(v) \/ StageChunks(v) \/ StageRows(v) \/ StageRefs(v)
    BY <2>2 DEF CreateStaging, StageChunks, StageRows, StageRefs
  <2>3. CASE PassValidation(v) \/ MoveMetadata(v) \/ MoveVectors(v) \/ Activate(v) \/ CrashFull(v)
    BY <2>3 DEF PassValidation, MoveMetadata, MoveVectors, Activate, CrashFull
  <2>4. CASE MissValidation(v) \/ FinishFull(v) \/ FailFull(v)
    BY <2>4, ConstantsAssumption DEF MissValidation, FinishFull, FailFull
  <2>5. CASE CancelFull(v)
    BY <2>5 DEF CancelFull, NoneCancelled
  <2> QED
    BY <1>1, <2>1, <2>2, <2>3, <2>4, <2>5 DEF FullStep
<1>2. ASSUME NEW u \in Updaters, UpdateStep(u) PROVE WritersHoldLock'
  <2> USE DEF UpdateAt, UpdateGoto, EndUpdate
  <2>1. CASE StartUpdate(u)
    BY <2>1, ConstantsAssumption DEF StartUpdate
  <2>2. CASE OpenUpdateMetadata(u) \/ OpenUpdateVectors(u) \/ UpdateChunks(u) \/ UpdateRows(u)
    BY <2>2 DEF OpenUpdateMetadata, OpenUpdateVectors, UpdateChunks, UpdateRows
  <2>3. CASE UpdateRefs(u) \/ StopUpdate(u)
    BY <2>3, ConstantsAssumption DEF UpdateRefs, StopUpdate
  <2>4. CASE CrashUpdate(u)
    BY <2>4 DEF CrashUpdate
  <2> QED
    BY <1>2, <2>1, <2>2, <2>3, <2>4 DEF UpdateStep
<1>3. CASE LockTimesOut
  BY <1>3, ConstantsAssumption DEF LockTimesOut
<1>4. CASE UNCHANGED <<full, update, lock>>
  BY <1>4
<1> QED
  BY <1>1, <1>2, <1>3, <1>4
     DEF Next, vars, ReaderStep, OpenMetadata, OpenVectors, ReaderUnchanged, CleanStep,
         ListStaging, ListVersions, RetainCurrent, Delete, CleanerUnchanged

\* At most one job writes.
LEMMA OneWriter ==
  ASSUME WritersHoldLock
  PROVE  /\ \A v, w \in Versions : FullRunning(v) /\ FullRunning(w) => v = w
         /\ \A v \in Versions, u \in Updaters : ~(FullRunning(v) /\ UpdateWriting(u))
BY ConstantsAssumption DEF WritersHoldLock

\* No update and no other build touches a version while it is built.
LEMMA NewestStayNewest ==
  ASSUME TypeOK, WritersHoldLock, BuildIsNewest, [Next]_vars
  PROVE  BuildIsNewest'
<1> USE DEF TypeOK, BuildIsNewest, FullRunning, FullState, FullAt, FullGoto
<1>1. ASSUME NEW v \in Versions, FullStep(v) PROVE BuildIsNewest'
  <2>1. CASE CreateStaging(v) \/ StageChunks(v) \/ StageRows(v) \/ StageRefs(v)
    <3>1. /\ FullRunning(v)
          /\ newer' = {e \in newer : e[2] # v} \cup ({v} \X (Versions \ {v}))
          /\ \A w \in Versions : w # v => full'[w] = full[w]
      BY <2>1, ConstantsAssumption DEF CreateStaging, StageChunks, StageRows, StageRefs, Touch
    <3>2. \A w \in Versions : w # v => ~FullRunning(w)
      BY <3>1, OneWriter
    <3>3. \A w \in Versions : <<w, v>> \notin newer'
      BY <3>1
    <3> QED
      BY <3>1, <3>2, <3>3
  <2>2. CASE ~(CreateStaging(v) \/ StageChunks(v) \/ StageRows(v) \/ StageRefs(v))
    <3>1. newer' = newer
      BY <1>1, <2>2 DEF FullStep, StartFull, PassValidation, MissValidation, MoveMetadata,
           MoveVectors, Activate, FinishFull, FailFull, CrashFull, CancelFull
    <3>2. \A w \in Versions : FullRunning(w)' /\ full'[w].pc \notin {"scan", "finish"}
             => FullRunning(w) /\ full[w].pc \notin {"scan", "finish"}
      BY <1>1, <2>2 DEF FullStep, StartFull, PassValidation, MissValidation, MoveMetadata,
           MoveVectors, Activate, FinishFull, FailFull, CrashFull, CancelFull
    <3> QED
      BY <3>1, <3>2
  <2> QED
    BY <2>1, <2>2
<1>2. ASSUME NEW u \in Updaters, UpdateStep(u) PROVE BuildIsNewest'
  <2>1. full' = full
    BY <1>2 DEF UpdateStep, OpenUpdateMetadata, OpenUpdateVectors, StartUpdate, StopUpdate,
         CrashUpdate, UpdateChunks, UpdateRows, UpdateRefs
  <2>2. CASE UpdateWriting(u)
    BY <2>1, <2>2, OneWriter
  <2>3. CASE ~UpdateWriting(u)
    BY <1>2, <2>1, <2>3
       DEF UpdateWriting, UpdateAt, UpdateStep, OpenUpdateMetadata, OpenUpdateVectors, StartUpdate,
           StopUpdate, CrashUpdate, UpdateChunks, UpdateRows, UpdateRefs
  <2> QED
    BY <2>2, <2>3
<1>3. CASE UNCHANGED <<full, newer>>
  BY <1>3
<1> QED
  BY <1>1, <1>2, <1>3
     DEF Next, vars, ReaderStep, OpenMetadata, OpenVectors, ReaderUnchanged, CleanStep,
         ListStaging, ListVersions, RetainCurrent, Delete, CleanerUnchanged, LockTimesOut

\* Stores with the same parts are the same.
LEMMA SameStore ==
  ASSUME NEW s \in Store, NEW t \in Store,
         s.db = t.db, s.chunk = t.chunk, s.ref = t.ref, s.row = t.row
  PROVE  s = t
BY DEF Store

\* Moving the metadata, then the vectors, of a build moves the build.
LEMMA BuildMoves ==
  ASSUME NEW v \in Versions
  PROVE  /\ WithMetadata(Empty, Built(v)) = NoVectors(Built(v))
         /\ [NoVectors(Built(v)) EXCEPT !.row = v] = Built(v)
         /\ NoMetadata(Built(v)).row = v
         /\ Built(v).db /\ Built(v).row = v
<1> DEFINE m == [db |-> TRUE, chunk |-> v, ref |-> v, row |-> None]
<1>1. Built(v) \in Store /\ Empty \in Store /\ m \in Store
  BY DEF Store, Built, Empty, Generations
<1>2. NoVectors(Built(v)) = m
  <2>1. NoVectors(Built(v)) \in Store
    BY <1>1, StoreParts
  <2>2. /\ NoVectors(Built(v)).db = m.db /\ NoVectors(Built(v)).chunk = m.chunk
        /\ NoVectors(Built(v)).ref = m.ref /\ NoVectors(Built(v)).row = m.row
    BY DEF NoVectors, Built
  <2> QED
    BY <1>1, <2>1, <2>2, SameStore
<1>3. WithMetadata(Empty, Built(v)) = m
  <2>1. WithMetadata(Empty, Built(v)) \in Store
    BY <1>1, StoreParts
  <2>2. /\ WithMetadata(Empty, Built(v)).db = m.db /\ WithMetadata(Empty, Built(v)).chunk = m.chunk
        /\ WithMetadata(Empty, Built(v)).ref = m.ref /\ WithMetadata(Empty, Built(v)).row = m.row
    BY DEF WithMetadata, Built, Empty
  <2> QED
    BY <1>1, <2>1, <2>2, SameStore
<1>4. [NoVectors(Built(v)) EXCEPT !.row = v] = Built(v)
  <2>1. [m EXCEPT !.row = v] \in Store
    BY <1>1, StoreParts DEF Generations
  <2>2. /\ [m EXCEPT !.row = v].db = Built(v).db /\ [m EXCEPT !.row = v].chunk = Built(v).chunk
        /\ [m EXCEPT !.row = v].ref = Built(v).ref /\ [m EXCEPT !.row = v].row = Built(v).row
    BY DEF Built
  <2>3. [m EXCEPT !.row = v] = Built(v)
    BY <1>1, <2>1, <2>2, SameStore
  <2> QED
    BY <1>2, <2>3
<1>5. NoMetadata(Built(v)).row = v /\ Built(v).db /\ Built(v).row = v
  BY DEF NoMetadata, Built
<1> QED
  BY <1>2, <1>3, <1>4, <1>5

\* The files of a version under way are its own: nobody else moves, writes or
\* deletes them.
LEMMA BuildStaysInPlace ==
  ASSUME TypeOK, NamedAreSettled, StaleAreDone, BuildInPlace, [Next]_vars
  PROVE  BuildInPlace'
<1> USE DEF BuildInPlace, Settled, FullAt
<1>1. ASSUME NEW v \in Versions, FullStep(v) PROVE BuildInPlace'
  <2> USE DEF TypeOK, FullState, FullGoto, Places
  <2>1. CASE MoveMetadata(v)
    <3>a. staging[v] = Built(v) /\ staging[v].db /\ store[v] = Empty
      <4>1. full[v].pc = "move_metadata"
        BY <2>1 DEF MoveMetadata
      <4>2. staging[v] = Built(v) /\ store[v] = Empty
        BY <4>1
      <4> QED
        BY <4>2, BuildMoves
    <3>1. /\ staging[v] = Built(v) /\ store[v] = Empty
          /\ full' = [full EXCEPT ![v].pc = "move_vectors"]
          /\ store' = [store EXCEPT ![v] = WithMetadata(store[v], staging[v])]
          /\ staging' = [staging EXCEPT ![v] = NoMetadata(staging[v])]
      BY <2>1, <3>a DEF MoveMetadata
    <3>2. WithMetadata(Empty, Built(v)) = NoVectors(Built(v))
      BY BuildMoves
    <3>3. NoMetadata(Built(v)).row = v
      BY BuildMoves
    <3>4. /\ full'[v].pc = "move_vectors" /\ staging'[v].row = v
          /\ store'[v] = NoVectors(Built(v))
      BY <3>1, <3>2, <3>3
    <3>5. \A w \in Versions : w # v => full'[w] = full[w] /\ store'[w] = store[w] /\ staging'[w] = staging[w]
      BY <3>1
    <3> QED
      BY <3>4, <3>5
  <2>2. CASE MoveVectors(v)
    <3>1. /\ staging[v].row = v /\ store[v] = NoVectors(Built(v)) /\ FullAt(v, "move_vectors")
          /\ full' = [full EXCEPT ![v].pc = "activate"]
          /\ store' = [store EXCEPT ![v].row = v]
          /\ staging' = [staging EXCEPT ![v] = NoVectors(staging[v])]
      BY <2>2, ConstantsAssumption DEF MoveVectors
    <3>2. [NoVectors(Built(v)) EXCEPT !.row = v] = Built(v)
      BY BuildMoves
    <3>3. full'[v].pc = "activate" /\ store'[v] = Built(v)
      BY <3>1, <3>2
    <3>4. \A w \in Versions : w # v => full'[w] = full[w] /\ store'[w] = store[w] /\ staging'[w] = staging[w]
      BY <3>1
    <3> QED
      BY <3>3, <3>4
  <2>3. CASE CreateStaging(v) \/ StageChunks(v) \/ StageRows(v) \/ StageRefs(v)
    <3>1. /\ store' = store
          /\ full[v].pc \in {"scan", "chunks", "rows", "refs"}
          /\ full'[v].pc \in {"chunks", "rows", "refs", "validate"}
          /\ \A w \in Versions : w # v => full'[w] = full[w] /\ staging'[w] = staging[w]
      BY <2>3 DEF CreateStaging, StageChunks, StageRows, StageRefs
    <3> QED
      BY <3>1
  <2>4. CASE PassValidation(v)
    BY <2>4 DEF PassValidation, StagedConsistent
  <2>5. CASE Activate(v)
    BY <2>5 DEF Activate
  <2>6. CASE StartFull(v) \/ CancelFull(v)
    <3>1. /\ store' = store /\ staging' = staging
          /\ (full[v].pc = "idle" /\ full'[v].pc = "scan") \/ full'[v].pc = full[v].pc
          /\ \A w \in Versions : w # v => full'[w] = full[w]
      BY <2>6 DEF StartFull, NoJob, CancelFull
    <3> QED
      BY <3>1
  <2>7. CASE MissValidation(v) \/ FinishFull(v) \/ FailFull(v) \/ CrashFull(v)
    <3>1. /\ store' = store /\ staging' = staging
          /\ full'[v].pc \in {"done", "dead"}
          /\ \A w \in Versions : w # v => full'[w] = full[w]
      BY <2>7 DEF MissValidation, FinishFull, FailFull, CrashFull
    <3> QED
      BY <3>1
  <2> QED
    BY <1>1, <2>1, <2>2, <2>3, <2>4, <2>5, <2>6, <2>7 DEF FullStep
<1>2. ASSUME NEW u \in Updaters, UpdateStep(u) PROVE BuildInPlace'
  <2>1. full' = full /\ staging' = staging
    BY <1>2 DEF UpdateStep, OpenUpdateMetadata, OpenUpdateVectors, StartUpdate, StopUpdate,
         CrashUpdate, UpdateChunks, UpdateRows, UpdateRefs
  <2>2. \A p \in Places : p # update[u].metadata /\ p # update[u].vectors => store'[p] = store[p]
    BY <1>2 DEF TypeOK, UpdateStep, OpenUpdateMetadata, OpenUpdateVectors, StartUpdate, StopUpdate,
         CrashUpdate, UpdateChunks, UpdateRows, UpdateRefs
  <2>3. \A v \in Versions : ~Settled(v) => store'[v] = store[v]
    BY <2>2 DEF NamedAreSettled, Places
  <2> QED
    BY <2>1, <2>3
<1>3. ASSUME NEW f \in Files, Delete(f) PROVE BuildInPlace'
  <2>1. full' = full
    BY <1>3 DEF Delete, CleanerUnchanged
  <2>2. Settled(f.of)
    BY <1>3 DEF Delete, StaleAreDone, Files
  <2>3. \A v \in Versions : ~Settled(v) => store'[v] = store[v] /\ staging'[v] = staging[v]
    BY <1>3, <2>2 DEF Delete, TypeOK, Places
  <2> QED
    BY <2>1, <2>3
<1>4. CASE UNCHANGED <<full, store, staging>>
  BY <1>4
<1> QED
  BY <1>1, <1>2, <1>3, <1>4
     DEF Next, vars, ReaderStep, OpenMetadata, OpenVectors, ReaderUnchanged, CleanStep,
         ListStaging, ListVersions, RetainCurrent, CleanerUnchanged, LockTimesOut

\* A version under way has no files clean would list, or is the newest of all.
LEMMA ListedAreSettled ==
  ASSUME TypeOK, Keep # 0, BuildInPlace, BuildIsNewest,
         NEW f \in PublishedFiles, f.of \notin Newest
  PROVE  Settled(f.of)
<1> SUFFICES ASSUME ~Settled(f.of) PROVE FALSE
  OBVIOUS
<1>1. f.of \in Versions /\ (store[f.of].db \/ store[f.of].row # None)
  BY DEF PublishedFiles
<1>2. full[f.of].pc \in {"move_vectors", "activate"}
  BY <1>1 DEF BuildInPlace, Empty
<1>3. \A w \in Versions : <<w, f.of>> \notin newer
  BY <1>1, <1>2 DEF BuildIsNewest, FullRunning
<1>4. {w \in {g.of : g \in PublishedFiles} : <<w, f.of>> \in newer} = {}
  BY <1>3 DEF PublishedFiles
<1>5. Cardinality({w \in {g.of : g \in PublishedFiles} : <<w, f.of>> \in newer}) < Keep
  <2>1. Cardinality({}) = 0
    BY FS_EmptySet
  <2>2. 0 < Keep
    BY ConstantsAssumption
  <2> QED
    BY <1>4, <2>1, <2>2
<1> QED
  BY <1>5 DEF Newest

\* Clean deletes no file of a job that runs, nor any of the version in use.
LEMMA StaleStayDone ==
  ASSUME TypeOK, Keep # 0, NoneCancelled, NoneCancelled',
         StaleAreDone, BuildInPlace, BuildIsNewest, [Next]_vars
  PROVE  StaleAreDone'
<1> USE DEF StaleAreDone
<1>1. ASSUME NEW v \in Versions, FullStep(v) PROVE StaleAreDone'
  <2>1. \A w \in Versions : full'[w].status \in {"failed", "partial_ready"} => FullAt(w, "done")'
    BY <1>1 DEF FullAt, FullGoto, TypeOK, FullState, NoJob, NoneCancelled, FullStep, StartFull, CreateStaging,
         StageChunks, StageRows, StageRefs, PassValidation, MissValidation, MoveMetadata,
         MoveVectors, Activate, FinishFull, FailFull, CrashFull, CancelFull, FullRunning
  <2>2. cleaner' = cleaner /\ cleaner.todo \subseteq Files
    BY <1>1 DEF TypeOK, CleanerState, FullStep, StartFull, CreateStaging,
         StageChunks, StageRows, StageRefs, PassValidation, MissValidation, MoveMetadata,
         MoveVectors, Activate, FinishFull, FailFull, CrashFull, CancelFull
  <2>3. pointer' = pointer \/ (pointer' = v /\ ~Settled(v))
    <3>1. CASE Activate(v)
      BY <3>1 DEF Activate, FullAt, Settled
    <3>2. ASSUME ~Activate(v) PROVE pointer' = pointer
      BY <1>1, <3>2 DEF FullStep, StartFull, CreateStaging, StageChunks, StageRows, StageRefs,
         PassValidation, MissValidation, MoveMetadata, MoveVectors, FinishFull, FailFull,
         CrashFull, CancelFull
    <3> QED
      BY <3>1, <3>2
  <2> QED
    BY <2>1, <2>2, <2>3, JobsMoveOn DEF Files
<1>2. CASE ListStaging
  <2>1. full' = full /\ cleaner'.todo = [where: {"staging"}, part: {"metadata", "vectors"}, of: StaleStaging]
    BY <1>2 DEF ListStaging, CleanerUnchanged
  <2>2. \A v \in StaleStaging : FullAt(v, "done")
    BY DEF StaleStaging, NoneCancelled
  <2> QED
    BY <2>1, <2>2 DEF FullAt
<1>3. CASE ListVersions
  <2>1. full' = full /\ cleaner' = [pc |-> "retain", todo |-> {f \in PublishedFiles : f.of \notin Newest}]
    BY <1>3 DEF ListVersions, CleanerUnchanged
  <2>2. \A f \in PublishedFiles : f.where = "store"
    BY DEF PublishedFiles
  <2> QED
    BY <2>1, <2>2, ListedAreSettled DEF FullAt, Settled
<1>4. CASE RetainCurrent \/ \E f \in Files : Delete(f)
  <2>1. CASE RetainCurrent
    <3>1. /\ UNCHANGED <<full, pointer>>
          /\ cleaner'.todo = {f \in cleaner.todo : f.of # pointer}
      BY <2>1 DEF RetainCurrent, CleanerUnchanged
    <3> QED
      BY <3>1 DEF FullAt, Settled
  <2>2. ASSUME NEW f \in Files, Delete(f) PROVE StaleAreDone'
    <3>1. /\ UNCHANGED <<full, pointer>>
          /\ cleaner.pc = "delete" /\ cleaner'.todo = cleaner.todo \ {f}
      BY <2>2 DEF Delete, CleanerUnchanged
    <3> QED
      BY <3>1 DEF FullAt, Settled
  <2> QED
    BY <1>4, <2>1, <2>2
<1>5. CASE UNCHANGED <<full, pointer, cleaner>>
  BY <1>5 DEF FullAt, Settled
<1> QED
  BY <1>1, <1>2, <1>3, <1>4, <1>5
     DEF Next, vars, UpdateStep, OpenUpdateMetadata, OpenUpdateVectors, StartUpdate, StopUpdate,
         CrashUpdate, UpdateChunks, UpdateRows, UpdateRefs, ReaderStep, OpenMetadata, OpenVectors,
         ReaderUnchanged, CleanStep, LockTimesOut

-----------------------------------------------------------------------------
(* What follows for whoever uses the index.                                *)

\* The pointer switches only while its full index is the one job that writes
\* (run_full_index holds the lock from before staging until after activation).
THEOREM SwitchesAlone == Spec => NoSwitchUnderWriter
<1> DEFINE I == NoneCancelled => WritersHoldLock
           Step == pointer' # pointer /\ NoneCancelled' =>
                     /\ \A w \in Versions \ {pointer'} : ~FullRunning(w)
                     /\ \A u \in Updaters : ~UpdateWriting(u)
<1>1. Init => I
  BY DEF Init, NoJob, WritersHoldLock, FullRunning, UpdateWriting
<1>2. TypeOK /\ I /\ [Next]_vars => I'
  BY NoneCancelledBefore, WritersKeepLock
<1>3. TypeOK /\ I /\ [Next]_vars => [Step]_vars
  <2> SUFFICES ASSUME TypeOK, I, [Next]_vars, pointer' # pointer, NoneCancelled'
               PROVE  /\ \A w \in Versions \ {pointer'} : ~FullRunning(w)
                      /\ \A u \in Updaters : ~UpdateWriting(u)
    OBVIOUS
  <2>1. PICK v \in Versions : Activate(v)
    <3>1. ASSUME NEW v \in Versions, FullStep(v), ~Activate(v) PROVE pointer' = pointer
      BY <3>1 DEF FullStep, StartFull, CreateStaging, StageChunks, StageRows, StageRefs,
         PassValidation, MissValidation, MoveMetadata, MoveVectors, FinishFull, FailFull,
         CrashFull, CancelFull
    <3> QED
      BY <3>1 DEF Next, vars, UpdateStep, OpenUpdateMetadata, OpenUpdateVectors, StartUpdate,
         StopUpdate, CrashUpdate, UpdateChunks, UpdateRows, UpdateRefs, ReaderStep, OpenMetadata,
         OpenVectors, ReaderUnchanged, CleanStep, ListStaging, ListVersions, RetainCurrent,
         Delete, CleanerUnchanged, LockTimesOut
  <2>2. FullRunning(v) /\ pointer' = v
    BY <2>1 DEF Activate, FullAt, FullRunning
  <2>3. WritersHoldLock
    BY NoneCancelledBefore
  <2> QED
    BY <2>2, <2>3, OneWriter
<1> QED
  <2>1. NoSwitchUnderWriter <=> [][Step]_vars
    BY DEF NoSwitchUnderWriter
  <2> QED
    BY <1>1, <1>2, <1>3, <2>1, TypeCorrect, PTL DEF Spec

\* A build changes neither the version in use nor the pointer before it goes live.
LEMMA VersionsInUseAreLeftAlone ==
  ASSUME TypeOK, NamedAreSettled, NEW v \in Versions, FullStep(v), ~Activate(v)
  PROVE  pointer' = pointer /\ store'[pointer] = store[pointer]
<1>1. pointer' = pointer
  BY DEF FullStep, StartFull, CreateStaging, StageChunks, StageRows, StageRefs,
     PassValidation, MissValidation, MoveMetadata, MoveVectors, FinishFull, FailFull,
     CrashFull, CancelFull
<1>2. CASE MoveMetadata(v) \/ MoveVectors(v)
  <2>1. pointer # v
    BY <1>2 DEF MoveMetadata, MoveVectors, FullAt, NamedAreSettled, Settled
  <2> QED
    BY <1>1, <1>2, <2>1 DEF MoveMetadata, MoveVectors, TypeOK
<1>3. CASE ~(MoveMetadata(v) \/ MoveVectors(v))
  BY <1>1, <1>3 DEF FullStep, StartFull, CreateStaging, StageChunks, StageRows, StageRefs,
     PassValidation, MissValidation, FinishFull, FailFull, CrashFull, CancelFull
<1> QED
  BY <1>2, <1>3

\* A step leaves the version in use whole.
LEMMA LiveStaysWhole ==
  ASSUME TypeOK, NamedAreSettled, StaleAreDone, BuildInPlace, LiveWhole,
         NoneCancelled, [Next]_vars
  PROVE  LiveWhole'
<1>1. ASSUME NEW v \in Versions, Activate(v) PROVE LiveWhole'
  <2>1. store[v] = Built(v) /\ store' = store /\ pointer' = v
    BY <1>1 DEF Activate, BuildInPlace
  <2> QED
    BY <2>1 DEF LiveWhole, Built
<1>2. ASSUME NEW v \in Versions, FullStep(v), ~Activate(v) PROVE LiveWhole'
  <2>1. pointer' = pointer /\ store'[pointer] = store[pointer]
    BY <1>2, VersionsInUseAreLeftAlone
  <2> QED
    BY <2>1 DEF LiveWhole
<1>3. ASSUME NEW u \in Updaters, UpdateStep(u) PROVE LiveWhole'
  <2>1. pointer' = pointer
    BY <1>3 DEF UpdateStep, OpenUpdateMetadata, OpenUpdateVectors, StartUpdate, StopUpdate,
         CrashUpdate, UpdateChunks, UpdateRows, UpdateRefs
  <2>2. /\ store'[pointer].db = store[pointer].db
        /\ store'[pointer].chunk \in {store[pointer].chunk, u}
        /\ store'[pointer].ref \in {store[pointer].ref, u}
        /\ store'[pointer].row \in {store[pointer].row, u}
    <3> store[pointer] \in Store
      BY DEF TypeOK
    <3>1. CASE UpdateChunks(u)
      BY <3>1 DEF UpdateChunks, TypeOK, Store
    <3>2. CASE UpdateRows(u)
      BY <3>2 DEF UpdateRows, TypeOK, Store
    <3>3. CASE UpdateRefs(u)
      BY <3>3 DEF UpdateRefs, TypeOK, Store
    <3>4. CASE store' = store
      BY <3>4
    <3> QED
      BY <1>3, <3>1, <3>2, <3>3, <3>4
         DEF UpdateStep, OpenUpdateMetadata, OpenUpdateVectors, StartUpdate, StopUpdate, CrashUpdate
  <2> QED
    BY <2>1, <2>2 DEF LiveWhole
<1>4. ASSUME NEW f \in Files, Delete(f) PROVE LiveWhole'
  <2>1. pointer' = pointer
    BY <1>4 DEF Delete, CleanerUnchanged
  <2>2. f.where # "staging" => f.of # pointer
    BY <1>4 DEF Delete, StaleAreDone, Files
  <2>3. store'[pointer] = store[pointer]
    BY <1>4, <2>2 DEF Delete, TypeOK, Places, Files
  <2> QED
    BY <2>1, <2>3 DEF LiveWhole
<1>5. CASE UNCHANGED <<pointer, store>>
  BY <1>5 DEF LiveWhole
<1> QED
  BY <1>1, <1>2, <1>3, <1>4, <1>5
     DEF Next, vars, ReaderStep, OpenMetadata, OpenVectors, ReaderUnchanged, CleanStep,
         ListStaging, ListVersions, RetainCurrent, CleanerUnchanged, LockTimesOut

LEMMA InvariantHolds ==
  ASSUME Keep # 0
  PROVE  Spec => []IInv
<1>1. Init => IInv
  <2>1. ASSUME Init PROVE NamedAreSettled /\ MetadataComplete
    BY <2>1, ConstantsAssumption
       DEF Init, NamedAreSettled, MetadataComplete, Empty, Places, FullAt, NoJob
  <2>2. ASSUME Init PROVE WritersHoldLock /\ StaleAreDone /\ BuildInPlace
    BY <2>2, ConstantsAssumption
       DEF Init, NoJob, WritersHoldLock, FullRunning, UpdateWriting, StaleAreDone, BuildInPlace,
           Settled, FullAt, Places
  <2>3. ASSUME Init PROVE BuildIsNewest /\ LiveWhole
    BY <2>3, ConstantsAssumption DEF Init, BuildIsNewest, LiveWhole
  <2>4. ASSUME Init PROVE TypeOK
    BY <2>4, ConstantsAssumption
       DEF Init, TypeOK, NoJob, Places, Generations, Store, Empty, FullState, FullPc, JobStatus,
           UpdateState, UpdatePc, ReaderState, ReaderPc, Closed, CleanerState
  <2> QED
    BY <2>1, <2>2, <2>3, <2>4 DEF IInv, Safe
<1>2. TypeOK /\ TypeOK' /\ IInv /\ [Next]_vars => IInv'
  <2> SUFFICES ASSUME TypeOK, TypeOK', IInv, [Next]_vars PROVE IInv'
    OBVIOUS
  <2>1. NamedAreSettled' /\ MetadataComplete'
    BY NamedStaySettled, MetadataStayComplete DEF IInv
  <2>2. ASSUME NoneCancelled' PROVE Safe'
    <3>1. NoneCancelled /\ Safe
      BY <2>2, NoneCancelledBefore DEF IInv
    <3>2. WritersHoldLock' /\ BuildIsNewest'
      BY <2>2, <3>1, WritersKeepLock, NewestStayNewest DEF Safe
    <3>3. BuildInPlace' /\ StaleAreDone'
      BY <2>2, <3>1, BuildStaysInPlace, StaleStayDone DEF Safe, IInv
    <3>4. LiveWhole'
      BY <3>1, LiveStaysWhole DEF Safe, IInv
    <3> QED
      BY <3>2, <3>3, <3>4 DEF Safe
  <2> QED
    BY <2>1, <2>2 DEF IInv
<1> QED
  BY <1>1, <1>2, TypeCorrect, PTL DEF Spec

\* The version in use is whole, whatever crashed, failed or was cleaned up, as long as
\* clean keeps a version (materialize_published_storage, clean_old_published_versions).
THEOREM LiveIsWhole ==
  ASSUME Keep # 0
  PROVE  Spec => []LiveWhole
<1>1. IInv => LiveWhole
  BY DEF IInv, Safe, LiveWhole
<1> QED
  BY <1>1, InvariantHolds, PTL

\* A document as a reader would find it now.
Live == [chunk |-> store[pointer].chunk, ref |-> store[pointer].ref, row |-> store[pointer].row]

\* Publishing is atomic: staging, moves, faults and clean-ups do not show
\* (run_full_index, storage/publish.py).
THEOREM PublishingIsAtomic ==
  ASSUME Keep # 0
  PROVE  Spec => RefinesLiveStore
<1>1. Init => LS!Init
  <2> SUFFICES ASSUME Init PROVE LS!Init
    OBVIOUS
  <2>1. store[pointer] = [db |-> TRUE, chunk |-> Anchor, ref |-> Anchor, row |-> Anchor]
    BY DEF Init, Places
  <2>2. NoneCancelled
    BY DEF Init, NoneCancelled, NoJob
  <2> QED
    BY <2>1, <2>2 DEF LS!Init, LS!Built
<1>2. IInv /\ [Next]_vars => [LS!Next]_<<Live, ~NoneCancelled>>
  <2> SUFFICES ASSUME IInv, [Next]_vars PROVE LS!Next \/ UNCHANGED <<Live, ~NoneCancelled>>
    BY DEF Live
  <2>0. TypeOK /\ NamedAreSettled
    BY DEF IInv
  <2>1. CASE ~NoneCancelled
    <3>1. ~NoneCancelled'
      BY <2>0, <2>1, NoneCancelledBefore
    <3> QED
      BY <2>1, <3>1 DEF LS!Next
  <2>2. ASSUME NoneCancelled, ~NoneCancelled' PROVE LS!Disown
    <3>2. PICK v \in Versions : full[v].status # "cancelled" /\ full'[v].status = "cancelled"
      BY <2>2 DEF NoneCancelled
    <3>3. \E w \in Versions : CancelFull(w)
      <4>1. ASSUME NEW w \in Versions, FullStep(w), ~CancelFull(w) PROVE FALSE
        BY <2>0, <3>2, <4>1 DEF TypeOK, FullState, NoJob, FullGoto, FullStep, StartFull, CreateStaging,
           StageChunks, StageRows, StageRefs, PassValidation, MissValidation, MoveMetadata,
           MoveVectors, Activate, FinishFull, FailFull, CrashFull
      <4>2. full' # full
        BY <3>2
      <4> QED
        BY <4>1, <4>2 DEF Next, vars, UpdateStep, OpenUpdateMetadata, OpenUpdateVectors,
           StartUpdate, StopUpdate, CrashUpdate, UpdateChunks, UpdateRows, UpdateRefs, ReaderStep,
           OpenMetadata, OpenVectors, ReaderUnchanged, CleanStep, ListStaging, ListVersions,
           RetainCurrent, Delete, CleanerUnchanged, LockTimesOut
    <3>4. UNCHANGED <<store, pointer>>
      BY <3>3 DEF CancelFull
    <3> QED
      BY <2>2, <3>4 DEF LS!Disown
  <2>3. CASE NoneCancelled /\ NoneCancelled'
    <3>0. Safe
      BY <2>3 DEF IInv
    <3>1. ASSUME NEW v \in Versions, Activate(v) PROVE LS!Replace
      <4>1. store[v] = Built(v) /\ store' = store /\ pointer' = v
        BY <3>0, <3>1 DEF Activate, Safe, BuildInPlace
      <4> QED
        BY <2>3, <4>1 DEF LS!Replace, LS!Built, Built
    <3>2. ASSUME NEW v \in Versions, FullStep(v), ~Activate(v) PROVE UNCHANGED Live
      <4>1. pointer' = pointer /\ store'[pointer] = store[pointer]
        BY <2>0, <3>2, VersionsInUseAreLeftAlone
      <4> QED
        BY <4>1 DEF Live
    <3>3. ASSUME NEW u \in Updaters, UpdateStep(u) PROVE LS!Update \/ UNCHANGED Live
      <4>1. pointer' = pointer
        BY <3>3 DEF UpdateStep, OpenUpdateMetadata, OpenUpdateVectors, StartUpdate, StopUpdate,
           CrashUpdate, UpdateChunks, UpdateRows, UpdateRefs
      <4> store[pointer] \in Store
        BY <2>0 DEF TypeOK
      <4>2. CASE UpdateChunks(u)
        <5>1. \/ store'[pointer] = store[pointer]
              \/ store'[pointer] = [store[pointer] EXCEPT !.chunk = u]
          BY <2>0, <4>2 DEF UpdateChunks, TypeOK
        <5>2. \/ store'[pointer] = store[pointer]
              \/ /\ store'[pointer].chunk = u /\ store'[pointer].ref = store[pointer].ref
                 /\ store'[pointer].row = store[pointer].row
          BY <5>1 DEF Store
        <5> QED
          BY <2>3, <4>1, <5>2 DEF LS!Update, Live
      <4>3. CASE UpdateRows(u)
        <5>1. \/ store'[pointer] = store[pointer]
              \/ store'[pointer] = [store[pointer] EXCEPT !.row = u]
          BY <2>0, <4>3 DEF UpdateRows, TypeOK
        <5>2. \/ store'[pointer] = store[pointer]
              \/ /\ store'[pointer].chunk = store[pointer].chunk
                 /\ store'[pointer].ref = store[pointer].ref /\ store'[pointer].row = u
          BY <5>1 DEF Store
        <5> QED
          BY <2>3, <4>1, <5>2 DEF LS!Update, Live
      <4>4. CASE UpdateRefs(u)
        <5>1. \/ store'[pointer] = store[pointer]
              \/ store'[pointer] = [store[pointer] EXCEPT !.ref = u]
          BY <2>0, <4>4 DEF UpdateRefs, TypeOK
        <5>2. \/ store'[pointer] = store[pointer]
              \/ /\ store'[pointer].chunk = store[pointer].chunk /\ store'[pointer].ref = u
                 /\ store'[pointer].row = store[pointer].row
          BY <5>1 DEF Store
        <5> QED
          BY <2>3, <4>1, <5>2 DEF LS!Update, Live
      <4>5. CASE store' = store
        BY <4>1, <4>5 DEF Live
      <4> QED
        BY <3>3, <4>2, <4>3, <4>4, <4>5
           DEF UpdateStep, OpenUpdateMetadata, OpenUpdateVectors, StartUpdate, StopUpdate, CrashUpdate
    <3>4. ASSUME NEW f \in Files, Delete(f) PROVE UNCHANGED Live
      <4>1. pointer' = pointer
        BY <3>4 DEF Delete, CleanerUnchanged
      <4>2. f.where # "staging" => f.of # pointer
        BY <3>0, <3>4 DEF Safe, Delete, StaleAreDone, Files
      <4>3. store'[pointer] = store[pointer]
        BY <2>0, <3>4, <4>2 DEF Delete, TypeOK, Places, Files
      <4> QED
        BY <4>1, <4>3 DEF Live
    <3>5. CASE UNCHANGED <<pointer, store>>
      BY <2>3, <3>5 DEF Live
    <3> QED
      BY <2>3, <3>1, <3>2, <3>3, <3>4, <3>5
         DEF LS!Next, Next, vars, ReaderStep, OpenMetadata, OpenVectors, ReaderUnchanged, CleanStep,
             ListStaging, ListVersions, RetainCurrent, CleanerUnchanged, LockTimesOut
  <2> QED
    BY <2>1, <2>2, <2>3 DEF LS!Next
<1> QED
  BY <1>1, <1>2, InvariantHolds, PTL DEF Spec, RefinesLiveStore, LS!Spec, Live
=============================================================================
