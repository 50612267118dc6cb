-------------------------- MODULE SharedFilesProofs --------------------------
(***************************************************************************)
(* Theorems about three kinds of file that several processes share: the    *)
(* entries of the embedding cache (EmbeddingCache), for any number of      *)
(* processes, whatever they are configured with, any texts and any batch   *)
(* size; the databases whose schema is migrated (SchemaMigration), for any *)
(* number of processes and faults; and the snapshot of the metrics         *)
(* (Observability), for any number of calls, however they overlap and      *)
(* wherever they are killed.                                               *)
(***************************************************************************)
EXTENDS EmbeddingCache, SchemaMigration, Observability, DataFacts

-----------------------------------------------------------------------------
(* The embedding cache.                                                    *)

CacheSpec == CacheInit /\ [][CacheNext]_cacheVars

-----------------------------------------------------------------------------
(* Types.                                                                  *)

Values  == {Resolution(c, t) : c \in Configs, t \in Texts}
Results == UNION {[S -> Values] : S \in SUBSET Texts}

EmbedderState ==
  [pc: {"lookup", "save", "write", "replace", "done", "dead"}, cfg: Configs,
   todo: SUBSET Texts, pending: SUBSET Texts, saving: SUBSET Texts, result: Results,
   text: Texts \cup {"none"}, fd: Inodes \cup {NoInode}]

Payloads == {Payload(c, t) : c \in Configs, t \in Texts}
Files == [content: Payloads \cup {Torn}, writers: SUBSET Embedders]

CacheType ==
  /\ names \in [Keys -> [file: Inodes \cup {NoInode}, temp: Inodes \cup {NoInode}]]
  /\ inodes \in [Inodes -> Files]
  /\ embed \in [Embedders -> EmbedderState]
  /\ \A p \in Embedders :
       /\ embed[p].pc \in {"write", "replace"} => embed[p].text \in Texts
       /\ embed[p].pc = "write" => embed[p].fd \in Inodes

CacheInv == CacheType /\ CacheTellsTruth

\* What is in a file is torn, or the whole entry some process made: the name
\* it is found under does not matter, the key in it does.
LEMMA PayloadFacts ==
  ASSUME NEW content \in Payloads \cup {Torn}, content.whole
  PROVE  \E c \in Configs, t \in Texts :
           content.key = Key(c, t) /\ content.value = Resolution(c, t)
BY DEF Payloads, Payload, Torn

\* Processes whose keys agree resolve the text alike: the key tells the
\* provider, the model and whether texts are scanned.
LEMMA KeyTellsResolution ==
  ASSUME NEW c \in Configs, NEW d \in Configs, NEW t, NEW u, Key(c, t) = Key(d, u)
  PROVE  Resolution(c, t) = Resolution(d, u)
<1>1. c.provider = d.provider /\ c.model = d.model /\ t = u
  BY DEF Key
<1>2. c.scanned = d.scanned
  BY CacheAssumption DEF CacheAssumption, Key
<1> QED BY <1>1, <1>2 DEF Resolution

LEMMA UsableTells ==
  ASSUME CacheType, NEW p \in Embedders, NEW t \in Texts, Usable(Key(embed[p].cfg, t))
  PROVE  Loaded(Key(embed[p].cfg, t)) = Resolution(embed[p].cfg, t)
<1> DEFINE k == Key(embed[p].cfg, t)
           found == inodes[names[k].file].content
<1>1. embed[p].cfg \in Configs /\ k \in Keys
  BY DEF CacheType, EmbedderState, Keys
<1>2. names[k].file \in Inodes
  BY <1>1 DEF CacheType, Usable, Holds
<1>3. found \in Payloads \cup {Torn} /\ found.whole /\ found.key = k
  BY <1>2 DEF CacheType, Files, Usable
<1>4. PICK c \in Configs, u \in Texts : found.key = Key(c, u) /\ found.value = Resolution(c, u)
  BY <1>3, PayloadFacts
<1>5. Key(embed[p].cfg, t) = Key(c, u)
  BY <1>3, <1>4
<1>6. Resolution(embed[p].cfg, t) = Resolution(c, u)
  BY ONLY <1>1, <1>5, KeyTellsResolution
<1>7. Loaded(k) = found.value
  BY <1>3 DEF Loaded
<1> QED BY <1>4, <1>6, <1>7

\* What a process adds to its results.
LEMMA ResultGrows ==
  ASSUME NEW c \in Configs, NEW r \in Results, \A t \in DOMAIN r : r[t] = Resolution(c, t),
         NEW S, S \subseteq Texts, NEW f, f = [t \in S |-> Resolution(c, t)]
  PROVE  /\ Learn(r, f) \in Results
         /\ \A t \in DOMAIN Learn(r, f) : Learn(r, f)[t] = Resolution(c, t)
<1>1. PICK T \in SUBSET Texts : r \in [T -> Values]
  BY DEF Results
<1>2. Learn(r, f) = [t \in S \cup T |-> Resolution(c, t)]
  BY <1>1 DEF Learn
<1>3. Learn(r, f) \in [S \cup T -> Values] /\ S \cup T \in SUBSET Texts
  BY <1>1, <1>2 DEF Values
<1> QED BY <1>2, <1>3 DEF Results

LEMMA InitCacheInv == CacheInit => CacheInv
<1> SUFFICES ASSUME CacheInit PROVE CacheInv
  OBVIOUS
<1>1. PICK cfgs \in [Embedders -> Configs] : embed = [p \in Embedders |-> IdleEmbedder(cfgs[p])]
  BY DEF CacheInit
<1>2. <<>> \in [{} -> Values]
  OBVIOUS
<1>3. <<>> \in Results
  BY <1>2 DEF Results
<1>4. \A c \in Configs : IdleEmbedder(c) \in EmbedderState
  BY <1>3 DEF IdleEmbedder, EmbedderState
<1>5. names \in [Keys -> [file: Inodes \cup {NoInode}, temp: Inodes \cup {NoInode}]]
  BY DEF CacheInit
<1>6. inodes \in [Inodes -> Files]
  BY DEF CacheInit, Files
<1>7. CacheType
  BY <1>1, <1>4, <1>5, <1>6 DEF CacheType, IdleEmbedder
<1>8. CacheTellsTruth
  BY <1>1 DEF CacheTellsTruth, IdleEmbedder
<1> QED BY <1>7, <1>8 DEF CacheInv

\* A step of process p changes what p has; p is configured once.
LEMMA EmbedderStep ==
  ASSUME CacheInv, NEW p \in Embedders, NEW e \in EmbedderState,
         embed' = [embed EXCEPT ![p] = e], e.cfg = embed[p].cfg,
         e.pc \in {"write", "replace"} => e.text \in Texts,
         e.pc = "write" => e.fd \in Inodes,
         \A t \in DOMAIN e.result : e.result[t] = Resolution(e.cfg, t),
         names' \in [Keys -> [file: Inodes \cup {NoInode}, temp: Inodes \cup {NoInode}]],
         inodes' \in [Inodes -> Files]
  PROVE  CacheInv'
BY DEF CacheInv, CacheType, CacheTellsTruth

LEMMA LookupKeeps ==
  ASSUME CacheInv, NEW p \in Embedders, Lookup(p)
  PROVE  CacheInv'
<1>1. PICK t \in embed[p].todo :
        embed' = [embed EXCEPT
          ![p].todo = @ \ {t},
          ![p].pending = IF Usable(Key(embed[p].cfg, t)) THEN @ ELSE @ \cup {t},
          ![p].result = IF Usable(Key(embed[p].cfg, t))
                        THEN Learn(@, [u \in {t} |-> Loaded(Key(embed[p].cfg, t))]) ELSE @]
  BY DEF Lookup
<1> DEFINE k == Key(embed[p].cfg, t)
           new == [u \in {t} |-> Loaded(k)]
           result == IF Usable(k) THEN Learn(embed[p].result, new) ELSE embed[p].result
           e == [embed[p] EXCEPT !.todo = @ \ {t},
                                 !.pending = IF Usable(k) THEN @ ELSE @ \cup {t},
                                 !.result = result]
<1>m. /\ CacheType /\ embed \in [Embedders -> EmbedderState] /\ embed[p] \in EmbedderState
      /\ t \in Texts /\ embed[p].cfg \in Configs /\ embed[p].result \in Results
      /\ embed[p].pc = "lookup" /\ UNCHANGED <<names, inodes>>
  BY DEF CacheInv, CacheType, EmbedderState, Lookup
<1>2. embed' = [embed EXCEPT ![p] = e]
  BY <1>1, <1>m
<1>3. result \in Results /\ \A u \in DOMAIN result : result[u] = Resolution(embed[p].cfg, u)
  <2>1. CASE ~Usable(k)
    BY <1>m, <2>1 DEF CacheInv, CacheTellsTruth
  <2>2. CASE Usable(k)
    <3>1. Loaded(k) = Resolution(embed[p].cfg, t)
      BY <1>m, <2>2, UsableTells
    <3>2. new = [u \in {t} |-> Resolution(embed[p].cfg, u)]
      BY <3>1
    <3> DEFINE one == {t}
    <3>3. one \subseteq Texts /\ new = [u \in one |-> Resolution(embed[p].cfg, u)]
      BY <1>m, <3>2
    <3>4. \A u \in DOMAIN embed[p].result : embed[p].result[u] = Resolution(embed[p].cfg, u)
      BY DEF CacheInv, CacheTellsTruth
    <3>5. result = Learn(embed[p].result, new)
      BY <2>2
    <3> HIDE DEF new, k, one, result
    <3>6. /\ Learn(embed[p].result, new) \in Results
          /\ \A u \in DOMAIN Learn(embed[p].result, new) :
               Learn(embed[p].result, new)[u] = Resolution(embed[p].cfg, u)
      BY <1>m, <3>3, <3>4, ResultGrows
    <3> QED BY <3>5, <3>6
  <2> QED BY <2>1, <2>2
<1> HIDE DEF k, result
<1>4. /\ e \in EmbedderState /\ e.cfg = embed[p].cfg /\ e.pc = "lookup" /\ e.result = result
  BY <1>m, <1>3 DEF EmbedderState
<1> HIDE DEF e
<1>5. \A u \in DOMAIN e.result : e.result[u] = Resolution(e.cfg, u)
  BY <1>3, <1>4
<1>6. /\ names' \in [Keys -> [file: Inodes \cup {NoInode}, temp: Inodes \cup {NoInode}]]
      /\ inodes' \in [Inodes -> Files]
  BY <1>m DEF CacheType
<1> QED BY <1>2, <1>4, <1>5, <1>6, EmbedderStep

LEMMA ResolveKeeps ==
  ASSUME CacheInv, NEW p \in Embedders, Resolve(p)
  PROVE  CacheInv'
<1> DEFINE cfg == embed[p].cfg
           skipped == {t \in embed[p].pending : Resolution(cfg, t) = Skip}
<1>1. PICK batch \in (IF skipped # {} THEN {{t} : t \in skipped} ELSE SUBSET embed[p].pending) :
        embed' = [embed EXCEPT ![p].pc = "save", ![p].pending = @ \ batch, ![p].saving = batch,
                    ![p].result = Learn(@, [t \in batch |-> Resolution(cfg, t)])]
  BY DEF Resolve
<1> DEFINE new == [t \in batch |-> Resolution(cfg, t)]
           result == Learn(embed[p].result, new)
           e == [embed[p] EXCEPT !.pc = "save", !.pending = @ \ batch, !.saving = batch,
                                 !.result = result]
<1>m. /\ CacheType /\ embed \in [Embedders -> EmbedderState] /\ embed[p] \in EmbedderState
      /\ cfg \in Configs /\ embed[p].result \in Results /\ embed[p].pending \subseteq Texts
      /\ UNCHANGED <<names, inodes>>
  BY DEF CacheInv, CacheType, EmbedderState, Resolve
<1>2. batch \in SUBSET Texts
  BY <1>1, <1>m
<1>3. embed' = [embed EXCEPT ![p] = e]
  BY <1>1, <1>m
<1>4. \A t \in DOMAIN embed[p].result : embed[p].result[t] = Resolution(cfg, t)
  BY DEF CacheInv, CacheTellsTruth
<1>5. result \in Results /\ \A t \in DOMAIN result : result[t] = Resolution(cfg, t)
  BY <1>m, <1>2, <1>4, ResultGrows
<1> HIDE DEF result
<1>6. e \in EmbedderState /\ e.cfg = cfg /\ e.pc = "save" /\ e.result = result
  BY <1>m, <1>2, <1>5 DEF EmbedderState
<1> HIDE DEF e
<1> QED BY <1>m, <1>3, <1>5, <1>6, EmbedderStep DEF CacheType

\* Steps on the files, and steps that end a process, leave its results alone.
LEMMA WriteKeeps ==
  ASSUME CacheInv, NEW p \in Embedders,
         \/ OpenTemporary(p) \/ WriteTemporary(p) \/ ReplaceEntry(p)
         \/ EndEmbedding(p) \/ CrashEmbedder(p)
  PROVE  CacheInv'
<1>m. /\ CacheType /\ embed \in [Embedders -> EmbedderState] /\ embed[p] \in EmbedderState
      /\ names \in [Keys -> [file: Inodes \cup {NoInode}, temp: Inodes \cup {NoInode}]]
      /\ inodes \in [Inodes -> Files]
      /\ embed[p].cfg \in Configs /\ embed[p].saving \subseteq Texts
      /\ \A t \in DOMAIN embed[p].result : embed[p].result[t] = Resolution(embed[p].cfg, t)
  BY DEF CacheInv, CacheType, EmbedderState, CacheTellsTruth
<1>k. \A t \in Texts : Key(embed[p].cfg, t) \in Keys
  BY <1>m DEF Keys
<1>1. CASE OpenTemporary(p)
  <2>1. PICK t \in embed[p].saving :
          LET k == Key(embed[p].cfg, t)
              inode == IF names[k].temp = NoInode THEN <<p, k>> ELSE names[k].temp
              writers == IF names[k].temp = NoInode THEN {p} ELSE inodes[inode].writers \cup {p}
          IN /\ names' = [names EXCEPT ![k].temp = inode]
             /\ inodes' = [inodes EXCEPT ![inode] = [content |-> Torn, writers |-> writers]]
             /\ embed' = [embed EXCEPT ![p].pc = "write", ![p].text = t, ![p].fd = inode]
    BY <1>1 DEF OpenTemporary
  <2> DEFINE k == Key(embed[p].cfg, t)
             inode == IF names[k].temp = NoInode THEN <<p, k>> ELSE names[k].temp
             writers == IF names[k].temp = NoInode THEN {p} ELSE inodes[inode].writers \cup {p}
             file == [content |-> Torn, writers |-> writers]
             e == [embed[p] EXCEPT !.pc = "write", !.text = t, !.fd = inode]
  <2>2. /\ names' = [names EXCEPT ![k].temp = inode]
        /\ inodes' = [inodes EXCEPT ![inode] = file]
        /\ embed' = [embed EXCEPT ![p] = e]
    BY <1>m, <2>1
  <2>3. k \in Keys /\ t \in Texts
    BY <1>m, <1>k
  <2> HIDE DEF k
  <2>4. inode \in Inodes
    BY <1>m, <2>3 DEF Inodes
  <2> HIDE DEF inode
  <2>5. file \in Files
    BY <1>m, <2>4 DEF Files
  <2>6. e \in EmbedderState /\ e.cfg = embed[p].cfg /\ e.result = embed[p].result
        /\ e.text = t /\ e.fd = inode
    BY <1>m, <2>3, <2>4 DEF EmbedderState
  <2> HIDE DEF e, file
  <2>7. /\ names' \in [Keys -> [file: Inodes \cup {NoInode}, temp: Inodes \cup {NoInode}]]
        /\ inodes' \in [Inodes -> Files]
    BY <1>m, <2>2, <2>3, <2>4, <2>5
  <2> QED BY <1>m, <2>2, <2>3, <2>4, <2>6, <2>7, EmbedderStep
<1>2. CASE WriteTemporary(p)
  <2> DEFINE file == inodes[embed[p].fd]
             own == Payload(embed[p].cfg, embed[p].text)
             e == [embed[p] EXCEPT !.pc = "replace", !.fd = NoInode]
  <2>1. PICK content \in {own} \cup (IF file.writers = {p} THEN {} ELSE {Torn}) :
          inodes' = [inodes EXCEPT ![embed[p].fd].content = content]
    BY <1>2 DEF WriteTemporary
  <2>2. embed[p].pc = "write" /\ embed[p].fd \in Inodes /\ embed[p].text \in Texts
    BY <1>m, <1>2 DEF CacheType, WriteTemporary
  <2>3. content \in Payloads \cup {Torn}
    BY <1>m, <2>1, <2>2 DEF Payloads
  <2>4. inodes' \in [Inodes -> Files]
    BY <1>m, <2>1, <2>2, <2>3 DEF Files
  <2>5. embed' = [embed EXCEPT ![p] = e]
    BY <1>m, <1>2 DEF WriteTemporary
  <2>6. /\ e \in EmbedderState /\ e.cfg = embed[p].cfg /\ e.result = embed[p].result
        /\ e.text = embed[p].text /\ e.pc = "replace"
    BY <1>m DEF EmbedderState
  <2> HIDE DEF e
  <2>7. /\ names' \in [Keys -> [file: Inodes \cup {NoInode}, temp: Inodes \cup {NoInode}]]
        /\ inodes' \in [Inodes -> Files]
    BY <1>m, <1>2, <2>4 DEF WriteTemporary
  <2>8. \A t \in DOMAIN e.result : e.result[t] = Resolution(e.cfg, t)
    BY <1>m, <2>6
  <2> QED BY <2>2, <2>5, <2>6, <2>7, <2>8, EmbedderStep
<1>3. CASE ReplaceEntry(p)
  <2> DEFINE k == Key(embed[p].cfg, embed[p].text)
             pc == IF embed[p].saving = {embed[p].text} THEN "lookup" ELSE "save"
             e == [embed[p] EXCEPT !.saving = @ \ {embed[p].text}, !.text = "none", !.pc = pc]
  <2>1. k \in Keys
    BY <1>m, <1>k, <1>3 DEF CacheType, ReplaceEntry
  <2>2. names' = IF names[k].temp = NoInode THEN names
                 ELSE [names EXCEPT ![k] = [file |-> names[k].temp, temp |-> NoInode]]
    BY <1>3 DEF ReplaceEntry
  <2> HIDE DEF k
  <2>3. names' \in [Keys -> [file: Inodes \cup {NoInode}, temp: Inodes \cup {NoInode}]]
    BY <1>m, <2>1, <2>2
  <2>4. embed' = [embed EXCEPT ![p] = e]
    BY <1>m, <1>3 DEF ReplaceEntry
  <2>5. pc \in {"lookup", "save"}
    OBVIOUS
  <2> HIDE DEF pc
  <2>6. e \in EmbedderState /\ e.cfg = embed[p].cfg /\ e.result = embed[p].result /\ e.pc = pc
    BY <1>m, <2>5 DEF EmbedderState
  <2> HIDE DEF e
  <2>7. /\ names' \in [Keys -> [file: Inodes \cup {NoInode}, temp: Inodes \cup {NoInode}]]
        /\ inodes' \in [Inodes -> Files]
    BY <1>m, <1>3, <2>3 DEF ReplaceEntry
  <2>8. \A t \in DOMAIN e.result : e.result[t] = Resolution(e.cfg, t)
    BY <1>m, <2>6
  <2> QED BY <2>4, <2>5, <2>6, <2>7, <2>8, EmbedderStep
<1>4. CASE EndEmbedding(p)
  <2> DEFINE e == [embed[p] EXCEPT !.pc = "done"]
  <2>1. embed' = [embed EXCEPT ![p] = e]
    BY <1>m, <1>4 DEF EndEmbedding
  <2>2. e \in EmbedderState /\ e.cfg = embed[p].cfg /\ e.result = embed[p].result /\ e.pc = "done"
    BY <1>m DEF EmbedderState
  <2> HIDE DEF e
  <2>3. /\ names' \in [Keys -> [file: Inodes \cup {NoInode}, temp: Inodes \cup {NoInode}]]
        /\ inodes' \in [Inodes -> Files]
    BY <1>m, <1>4 DEF EndEmbedding
  <2>4. \A t \in DOMAIN e.result : e.result[t] = Resolution(e.cfg, t)
    BY <1>m, <2>2
  <2> QED BY <2>1, <2>2, <2>3, <2>4, EmbedderStep
<1>5. CASE CrashEmbedder(p)
  <2> DEFINE e == [embed[p] EXCEPT !.pc = "dead", !.fd = NoInode]
  <2>1. embed' = [embed EXCEPT ![p] = e]
    BY <1>m, <1>5 DEF CrashEmbedder
  <2>2. e \in EmbedderState /\ e.cfg = embed[p].cfg /\ e.result = embed[p].result /\ e.pc = "dead"
    BY <1>m DEF EmbedderState
  <2> HIDE DEF e
  <2>3. /\ names' \in [Keys -> [file: Inodes \cup {NoInode}, temp: Inodes \cup {NoInode}]]
        /\ inodes' \in [Inodes -> Files]
    BY <1>m, <1>5 DEF CrashEmbedder
  <2>4. \A t \in DOMAIN e.result : e.result[t] = Resolution(e.cfg, t)
    BY <1>m, <2>2
  <2> QED BY <2>1, <2>2, <2>3, <2>4, EmbedderStep
<1> QED BY <1>1, <1>2, <1>3, <1>4, <1>5

\* Any number of processes of any configurations, that open, tear, replace and
\* abandon one another's files at any step: what a process takes from the
\* cache for a text is what its own scanner and its own model make of it.
THEOREM CacheIsTrue == CacheSpec => []CacheTellsTruth
<1>1. CacheInv /\ [CacheNext]_cacheVars => CacheInv'
  <2> SUFFICES ASSUME CacheInv, [CacheNext]_cacheVars PROVE CacheInv'
    OBVIOUS
  <2>1. CASE UNCHANGED cacheVars
    BY <2>1 DEF cacheVars, CacheInv, CacheType, CacheTellsTruth
  <2> QED BY <2>1, LookupKeeps, ResolveKeeps, WriteKeeps DEF CacheNext
<1>2. CacheInv => CacheTellsTruth
  BY DEF CacheInv
<1> QED BY <1>1, <1>2, InitCacheInv, PTL DEF CacheSpec

-----------------------------------------------------------------------------
(* The schema of a database.                                               *)

MigrationSpec == MigrationInit /\ [][MigrationNext]_migrationVars

-----------------------------------------------------------------------------
(* A store that began without a file never has one of version 1.0.0, and   *)
(* one that began with that version is never removed: nobody believes to   *)
(* have made it.  So no step planned for one kind meets a file of the      *)
(* other.                                                                  *)

Origins == {NoVersion, "1.0.0"}
PartsAt(origin) == IF origin = NoVersion THEN {} ELSE {"tables"}

\* The files a store of that origin ever names: not migrated, and migrated.
FilesFrom(origin) ==
  {[exists |-> TRUE, version |-> origin, parts |-> PartsAt(origin)],
   [exists |-> TRUE, version |-> Latest, parts |-> Schema(store.target)]}

StepsFrom(origin) == {s \in Steps(store.target) : origin \in s.from}

\* Who may believe to have made the file.
CreatedFrom(origin) == IF origin = NoVersion THEN BOOLEAN ELSE {FALSE}

MigratorState(origin) ==
  [pc: {"idle", "planned", "checked", "connected", "locked"},
   steps: SUBSET StepsFrom(origin), created: CreatedFrom(origin), file: Nat,
   work: FilesFrom(origin) \cup {Empty}]

StoreOf(origin) ==
  /\ store = [target |-> store.target, files |-> store.files, current |-> store.current,
              faults |-> store.faults]
  /\ store.target \in Targets
  /\ store.files \in Seq(FilesFrom(origin))
  /\ store.current \in 0..Len(store.files)
  /\ origin # NoVersion => Len(store.files) = 1 /\ store.current = 1

\* What a process holds is one of those files, and it works on a migrated one
\* or on one that the store began with.
HoldsFile(origin, m) ==
  /\ m.pc \in {"connected", "locked"} => m.file \in 1..Len(store.files)
  /\ m.pc = "locked" => m.work \in FilesFrom(origin)

Began(origin) ==
  /\ StoreOf(origin)
  /\ migrator \in [Migrators -> MigratorState(origin)]
  /\ \A p \in Migrators : HoldsFile(origin, migrator[p])

MigrationInv == \E origin \in Origins : Began(origin)

\* Every step leads from its origin to a migrated file, and leaves that as it is.
LEMMA StepFacts ==
  ASSUME store.target \in Targets, NEW origin \in Origins, NEW s \in StepsFrom(origin),
         NEW f \in FilesFrom(origin)
  PROVE  s.to = Latest /\ f.parts \cup s.creates = Schema(store.target) /\ f.exists
BY DEF Targets, Origins, StepsFrom, Steps, FilesFrom, PartsAt, Schema, NoVersion, Latest

LEMMA PendingFacts ==
  ASSUME NEW origin \in Origins, Began(origin)
  PROVE  /\ Current \in FilesFrom(origin) \cup {Absent}
         /\ Pending(store.target, Current) \subseteq StepsFrom(origin)
         /\ store.current # 0 => Current \in FilesFrom(origin) /\ Current.exists = TRUE
<1>1. CASE store.current = 0
  <2>1. Current = Absent /\ origin = NoVersion
    BY <1>1 DEF Began, StoreOf, Current
  <2> QED BY <1>1, <2>1 DEF Pending, Absent, StepsFrom
<1>2. CASE store.current # 0
  <2>1. Current \in FilesFrom(origin)
    BY <1>2 DEF Began, StoreOf, Current
  <2>2. Current.exists /\ Current.version \in {origin, Latest}
    BY <2>1 DEF FilesFrom
  <2> QED BY <1>2, <2>1, <2>2 DEF Pending, StepsFrom
<1> QED BY <1>1, <1>2

LEMMA EmptyFile == Empty = [exists |-> TRUE, version |-> NoVersion, parts |-> {}]
<1>1. Absent \in [exists: BOOLEAN, version: {NoVersion}, parts: {{}}]
  BY DEF Absent
<1>2. Empty \in [exists: BOOLEAN, version: {NoVersion}, parts: {{}}] /\ Empty.exists = TRUE
  BY <1>1 DEF Empty
<1> QED BY <1>2

LEMMA IdleType ==
  ASSUME NEW origin
  PROVE  IdleMigrator \in MigratorState(origin) /\ IdleMigrator.pc = "idle"
BY DEF IdleMigrator, MigratorState, CreatedFrom

LEMMA InitMigrationInv == MigrationInit => MigrationInv
<1> SUFFICES ASSUME MigrationInit PROVE MigrationInv
  OBVIOUS
<1> DEFINE old == [exists |-> TRUE, version |-> "1.0.0", parts |-> {"tables"}]
<1>1. PICK target \in Targets, file \in {Absent, old} :
        store = [target |-> target, files |-> IF file.exists THEN <<file>> ELSE <<>>,
                 current |-> IF file.exists THEN 1 ELSE 0, faults |-> 0]
  BY DEF MigrationInit
<1>m. \A origin \in Origins : /\ migrator \in [Migrators -> MigratorState(origin)]
                              /\ \A p \in Migrators : migrator[p].pc = "idle"
  BY IdleType DEF MigrationInit
<1>2. CASE file = Absent
  <2>1. store = [target |-> target, files |-> <<>>, current |-> 0, faults |-> 0]
    BY <1>1, <1>2 DEF Absent
  <2>2. Began(NoVersion)
    BY <1>m, <2>1 DEF Began, StoreOf, HoldsFile, Origins
  <2> QED BY <2>2 DEF MigrationInv, Origins
<1>3. CASE file = old
  <2>1. store = [target |-> target, files |-> <<old>>, current |-> 1, faults |-> 0]
    BY <1>1, <1>3
  <2>2. old \in FilesFrom("1.0.0")
    BY DEF FilesFrom, PartsAt, NoVersion
  <2> HIDE DEF old
  <2>3. Began("1.0.0")
    BY <1>m, <2>1, <2>2 DEF Began, StoreOf, HoldsFile, Origins
  <2> QED BY <2>3 DEF MigrationInv, Origins
<1> QED BY <1>1, <1>2, <1>3

LEMMA NextMigrationInv == MigrationInv /\ [MigrationNext]_migrationVars => MigrationInv'
<1> SUFFICES ASSUME NEW origin \in Origins, Began(origin), [MigrationNext]_migrationVars
             PROVE  Began(origin)'
  BY DEF MigrationInv
<1>m. /\ migrator \in [Migrators -> MigratorState(origin)]
      /\ store = [target |-> store.target, files |-> store.files, current |-> store.current,
                  faults |-> store.faults]
      /\ store.target \in Targets /\ store.files \in Seq(FilesFrom(origin))
      /\ store.current \in 0..Len(store.files) /\ Len(store.files) \in Nat
      /\ origin # NoVersion => Len(store.files) = 1 /\ store.current = 1
  BY DEF Began, StoreOf
<1>w. \A p \in Migrators :
        /\ migrator[p].pc \in {"connected", "locked"} => migrator[p].file \in 1..Len(store.files)
        /\ migrator[p].pc = "locked" => migrator[p].work \in FilesFrom(origin)
  BY DEF Began, HoldsFile
<1>c. /\ Current \in FilesFrom(origin) \cup {Absent}
      /\ Pending(store.target, Current) \subseteq StepsFrom(origin)
      /\ store.current # 0 => Current \in FilesFrom(origin) /\ Current.exists
  BY PendingFacts, Zenon
<1>e. /\ ~Current.exists => origin = NoVersion
      /\ Current.exists => store.current # 0
  BY <1>m, <1>c DEF Current, Absent
<1>t. store'.target = store.target =>
        /\ FilesFrom(origin)' = FilesFrom(origin)
        /\ MigratorState(origin)' = MigratorState(origin)
  BY DEF FilesFrom, StepsFrom, MigratorState
\* A step of process p changes what p has, and files may be added.
<1>s. ASSUME NEW p \in Migrators, NEW m \in MigratorState(origin),
             migrator' = [migrator EXCEPT ![p] = m],
             store'.target = store.target, StoreOf(origin)',
             Len(store.files) <= Len(store'.files),
             m.pc \in {"connected", "locked"} => m.file \in 1..Len(store'.files),
             m.pc = "locked" => m.work \in FilesFrom(origin)
      PROVE  Began(origin)'
  <2>2. migrator' \in [Migrators -> MigratorState(origin)]
    BY <1>m, <1>s
  <2>3. Len(store.files) \in Nat /\ Len(store'.files) \in Nat
    BY <1>m, <1>s DEF StoreOf
  <2>4. ASSUME NEW q \in Migrators
        PROVE  /\ migrator'[q].pc \in {"connected", "locked"} =>
                    migrator'[q].file \in 1..Len(store'.files)
               /\ migrator'[q].pc = "locked" => migrator'[q].work \in FilesFrom(origin)
    <3>1. CASE q = p
      BY <1>m, <1>s, <3>1
    <3>2. CASE q # p
      <4>1. migrator'[q] = migrator[q]
        BY <1>m, <1>s, <3>2
      <4> QED BY <1>s, <1>w, <2>3, <4>1
    <3> QED BY <3>1, <3>2
  <2>5. \A q \in Migrators : HoldsFile(origin, migrator[q])'
    BY <1>t, <1>s, <2>4 DEF HoldsFile
  <2> QED BY <1>t, <1>s, <2>2, <2>5 DEF Began
\* Such a step that leaves the store alone.
<1>q. ASSUME UNCHANGED store, NEW p \in Migrators, NEW m \in MigratorState(origin),
             migrator' = [migrator EXCEPT ![p] = m],
             m.pc \in {"connected", "locked"} => m.file \in 1..Len(store.files),
             m.pc = "locked" => m.work \in FilesFrom(origin)
      PROVE  Began(origin)'
  <2>1. store'.target = store.target /\ StoreOf(origin)'
    BY <1>q DEF Began, StoreOf, FilesFrom
  <2>2. Len(store.files) <= Len(store'.files)
    BY <1>m, <1>q
  <2>3. m.pc \in {"connected", "locked"} => m.file \in 1..Len(store'.files)
    BY <1>q
  <2> QED BY <1>q, <1>s, <2>1, <2>2, <2>3
<1>1. ASSUME NEW p \in Migrators, PlanMigration(p)
      PROVE  Began(origin)'
  <2> DEFINE m == [migrator[p] EXCEPT !.pc = "planned", !.steps = Pending(store.target, Current)]
  <2>1. migrator' = [migrator EXCEPT ![p] = m] /\ UNCHANGED store
    BY <1>m, <1>1 DEF PlanMigration
  <2>2. Pending(store.target, Current) \in SUBSET StepsFrom(origin)
    BY <1>c
  <2>3. m \in MigratorState(origin) /\ m.pc = "planned"
    BY <1>m, <2>2 DEF MigratorState
  <2> HIDE DEF m
  <2> QED BY <1>q, <2>1, <2>3
<1>2. ASSUME NEW p \in Migrators, CheckCreated(p)
      PROVE  Began(origin)'
  <2> DEFINE created == ~Current.exists
             m == [migrator[p] EXCEPT !.pc = "checked", !.created = created]
  <2>1. migrator' = [migrator EXCEPT ![p] = m] /\ UNCHANGED store
    BY <1>m, <1>2 DEF CheckCreated
  <2>2. created \in CreatedFrom(origin)
    BY <1>e DEF CreatedFrom
  <2> HIDE DEF created
  <2>3. m \in MigratorState(origin) /\ m.pc = "checked"
    BY <1>m, <2>2 DEF MigratorState
  <2> HIDE DEF m
  <2> QED BY <1>q, <2>1, <2>3
<1>3. ASSUME NEW p \in Migrators, ConnectStore(p)
      PROVE  Began(origin)'
  <2> DEFINE files == IF Current.exists THEN store.files ELSE Append(store.files, Empty)
             file == IF Current.exists THEN store.current ELSE Len(files)
             m == [migrator[p] EXCEPT !.pc = "connected", !.file = file]
  <2>1. /\ store' = [store EXCEPT !.files = files, !.current = file]
        /\ migrator' = [migrator EXCEPT ![p] = m]
    BY <1>m, <1>3 DEF ConnectStore
  <2>2. /\ store' = [target |-> store'.target, files |-> store'.files,
                     current |-> store'.current, faults |-> store'.faults]
        /\ store'.target = store.target /\ store'.files = files /\ store'.current = file
    <3> HIDE DEF files, file
    <3> QED BY <1>m, <2>1
  <2>3. ~Current.exists => Empty \in FilesFrom(origin)
    BY <1>e, EmptyFile DEF FilesFrom, PartsAt
  <2>4. /\ files \in Seq(FilesFrom(origin)) /\ Len(store.files) <= Len(files)
        /\ file \in 1..Len(files)
        /\ origin # NoVersion => Len(files) = 1 /\ file = 1
    BY <1>m, <1>e, <2>3
  <2> HIDE DEF files, file
  <2>5. Len(files) \in Nat /\ file \in Nat
    BY <2>4
  <2>6. m \in MigratorState(origin) /\ m.pc = "connected" /\ m.file = file
    BY <1>m, <2>5 DEF MigratorState
  <2> HIDE DEF m
  <2>7. StoreOf(origin)'
    BY <1>m, <1>t, <2>2, <2>4, <2>5 DEF StoreOf
  <2>8. store'.target = store.target /\ Len(store.files) <= Len(store'.files)
    BY <2>2, <2>4
  <2>9. m.pc \in {"connected", "locked"} => m.file \in 1..Len(store'.files)
    BY <2>2, <2>4, <2>6
  <2>10. m.pc # "locked" /\ m \in MigratorState(origin)
    BY <2>6
  <2> QED BY <1>s, <2>1, <2>7, <2>8, <2>9, <2>10
<1>4. ASSUME NEW p \in Migrators, BeginImmediate(p)
      PROVE  Began(origin)'
  <2> DEFINE work == store.files[migrator[p].file]
             m == [migrator[p] EXCEPT !.pc = "locked", !.work = work]
  <2>1. migrator' = [migrator EXCEPT ![p] = m] /\ UNCHANGED store
    BY <1>m, <1>4 DEF BeginImmediate
  <2>2. migrator[p].file \in 1..Len(store.files)
    BY <1>4, <1>w DEF BeginImmediate
  <2>3. work \in FilesFrom(origin)
    BY <1>m, <2>2
  <2> HIDE DEF work
  <2>4. m \in MigratorState(origin) /\ m.work = work /\ m.file = migrator[p].file
    BY <1>m, <2>3 DEF MigratorState
  <2> HIDE DEF m
  <2> QED BY <1>q, <2>1, <2>2, <2>3, <2>4
<1>5. ASSUME NEW p \in Migrators, ExecuteStep(p)
      PROVE  Began(origin)'
  <2>0. migrator[p].pc = "locked" /\ UNCHANGED store
    BY <1>5 DEF ExecuteStep
  <2>1. PICK s \in migrator[p].steps :
          migrator' = [migrator EXCEPT ![p].steps = @ \ {s},
                         ![p].work.parts = @ \cup s.creates, ![p].work.version = s.to]
    BY <1>5 DEF ExecuteStep
  <2> DEFINE work == [migrator[p].work EXCEPT !.parts = @ \cup s.creates, !.version = s.to]
             m == [migrator[p] EXCEPT !.steps = @ \ {s}, !.work = work]
  <2>2. s \in StepsFrom(origin) /\ migrator[p].work \in FilesFrom(origin)
    BY <1>m, <1>w, <2>0 DEF MigratorState
  <2>3. s.to = Latest /\ migrator[p].work.parts \cup s.creates = Schema(store.target)
    BY <1>m, <2>2, StepFacts
  <2>4. work = [exists |-> TRUE, version |-> Latest, parts |-> Schema(store.target)]
    <3> DEFINE old == migrator[p].work
               parts == old.parts \cup s.creates
               files == [exists: {TRUE}, version: {old.version, s.to}, parts: {old.parts, parts}]
    <3>1. old \in files
      <4>1. PICK v, x : old = [exists |-> TRUE, version |-> v, parts |-> x]
        BY <2>2 DEF FilesFrom
      <4>2. old.version = v /\ old.parts = x
        BY <4>1
      <4> HIDE DEF parts, old
      <4> QED BY <4>1, <4>2
    <3>2. ASSUME NEW f \in files
          PROVE  LET new == [f EXCEPT !.parts = parts, !.version = s.to]
                 IN new \in files /\ new.parts = parts /\ new.version = s.to
      <4> HIDE DEF parts, old
      <4> QED OBVIOUS
    <3>3. work \in files /\ work.parts = parts /\ work.version = s.to
      BY <3>1, <3>2
    <3> HIDE DEF parts, work
    <3>4. work = [exists |-> TRUE, version |-> s.to, parts |-> parts]
      BY <3>3
    <3> QED BY <2>3, <3>4 DEF parts
  <2>5. migrator' = [migrator EXCEPT ![p] = m]
    BY <1>m, <2>1, <2>2 DEF MigratorState, FilesFrom
  <2>6. work \in FilesFrom(origin)
    BY <2>4 DEF FilesFrom
  <2> HIDE DEF work
  <2>7. m \in MigratorState(origin) /\ m.work = work /\ m.file = migrator[p].file
    BY <1>m, <2>6 DEF MigratorState
  <2> HIDE DEF m
  <2> QED BY <1>q, <1>w, <2>0, <2>5, <2>6, <2>7
<1>6. ASSUME NEW p \in Migrators,
             CommitMigration(p) \/ FailMigration(p) \/ DieMigrating(p)
      PROVE  Began(origin)'
  <2>1. migrator' = [migrator EXCEPT ![p] = IdleMigrator]
    BY <1>6 DEF CommitMigration, FailMigration, DieMigrating
  <2>2. IdleMigrator \in MigratorState(origin) /\ IdleMigrator.pc = "idle"
    BY IdleType
  <2>3. CASE CommitMigration(p)
    <3> DEFINE files == [store.files EXCEPT ![migrator[p].file] = migrator[p].work]
    <3>1. /\ migrator[p].file \in 1..Len(store.files)
          /\ migrator[p].work \in FilesFrom(origin)
      BY <1>w, <2>3 DEF CommitMigration
    <3>2. /\ store' = [target |-> store'.target, files |-> store'.files,
                       current |-> store'.current, faults |-> store'.faults]
          /\ store'.target = store.target /\ store'.files = files
          /\ store'.current = store.current
      BY <1>m, <2>3 DEF CommitMigration
    <3>3. files \in Seq(FilesFrom(origin)) /\ Len(files) = Len(store.files)
      BY <1>m, <3>1
    <3> HIDE DEF files
    <3>4. StoreOf(origin)'
      BY <1>m, <1>t, <3>2, <3>3 DEF StoreOf
    <3>5. store'.target = store.target /\ Len(store.files) <= Len(store'.files)
      BY <1>m, <3>2, <3>3
    <3> QED BY <1>s, <2>1, <2>2, <3>4, <3>5
  <2>4. CASE FailMigration(p)
    <3> DEFINE current == IF migrator[p].created THEN 0 ELSE store.current
    <3>1. /\ store' = [target |-> store'.target, files |-> store'.files,
                       current |-> store'.current, faults |-> store'.faults]
          /\ store'.target = store.target /\ store'.files = store.files
          /\ store'.current = current
      BY <1>m, <2>4 DEF FailMigration
    <3>2. origin # NoVersion => ~migrator[p].created
      BY <1>m DEF MigratorState, CreatedFrom
    <3>3. current \in 0..Len(store.files) /\ (origin # NoVersion => current = store.current)
      BY <1>m, <3>2
    <3> HIDE DEF current
    <3>4. StoreOf(origin)'
      BY <1>m, <1>t, <3>1, <3>3 DEF StoreOf
    <3>5. store'.target = store.target /\ Len(store.files) <= Len(store'.files)
      BY <1>m, <3>1, <3>3
    <3> QED BY <1>s, <2>1, <2>2, <3>4, <3>5
  <2>5. CASE DieMigrating(p)
    <3>1. /\ store' = [target |-> store'.target, files |-> store'.files,
                       current |-> store'.current, faults |-> store'.faults]
          /\ store'.target = store.target /\ store'.files = store.files
          /\ store'.current = store.current
      BY <1>m, <2>5 DEF DieMigrating
    <3>4. StoreOf(origin)'
      BY <1>m, <1>t, <3>1 DEF StoreOf
    <3>5. store'.target = store.target /\ Len(store.files) <= Len(store'.files)
      BY <1>m, <3>1
    <3> QED BY <1>s, <2>1, <2>2, <3>4, <3>5
  <2> QED BY <1>6, <2>3, <2>4, <2>5
<1>7. CASE UNCHANGED migrationVars
  BY <1>7 DEF migrationVars, Began, StoreOf, HoldsFile, FilesFrom, MigratorState, StepsFrom
<1> QED BY <1>1, <1>2, <1>3, <1>4, <1>5, <1>6, <1>7 DEF MigrationNext, Migrate

\* Any number of processes that plan, migrate, fail and die beside one
\* another: the version a file tells is the version of what is in it.
THEOREM VersionIsTrue == MigrationSpec => []VersionTellsTables
<1>1. MigrationInv => VersionTellsTables
  <2> SUFFICES ASSUME NEW origin \in Origins, Began(origin), NEW i \in DOMAIN store.files
               PROVE  LET file == store.files[i]
                      IN CASE file.version = NoVersion -> file.parts = {}
                           [] file.version = "1.0.0" -> file.parts = {"tables"}
                           [] file.version = Latest -> file.parts = Schema(store.target)
    BY DEF MigrationInv, VersionTellsTables
  <2>1. store.files[i] \in FilesFrom(origin)
    BY DEF Began, StoreOf
  <2> DEFINE f == store.files[i]
  <2>2. \/ f.version = NoVersion /\ f.parts = {}
        \/ f.version = "1.0.0" /\ f.parts = {"tables"}
        \/ f.version = Latest /\ f.parts = Schema(store.target)
    BY <2>1 DEF FilesFrom, PartsAt, Origins
  <2> HIDE DEF f
  <2>3. (CASE f.version = NoVersion -> f.parts = {}
           [] f.version = "1.0.0" -> f.parts = {"tables"}
           [] f.version = Latest -> f.parts = Schema(store.target))
    BY <2>2 DEF NoVersion, Latest
  <2> QED BY <2>3 DEF f
<1> QED BY <1>1, InitMigrationInv, NextMigrationInv, PTL DEF MigrationSpec


-----------------------------------------------------------------------------
(* The snapshot of the metrics.                                            *)

MetricsSpec == MetricsInit /\ [][MetricsNext]_metricVars

-----------------------------------------------------------------------------
(* The newest calls of a snapshot.                                         *)

LEMMA MinOfTwo ==
  ASSUME NEW a \in Int, NEW b \in Int
  PROVE  Min({a, b}) = IF a <= b THEN a ELSE b
<1> DEFINE m == IF a <= b THEN a ELSE b
<1>1. m \in {a, b} /\ \A y \in {a, b} : m <= y
  OBVIOUS
<1>2. \A x \in {a, b} : (\A y \in {a, b} : x <= y) => x = m
  OBVIOUS
<1> QED BY <1>1, <1>2 DEF Min

LEMMA NewestFacts ==
  ASSUME NEW S, NEW list \in Seq(S)
  PROVE  /\ Newest(list) \in Seq(S)
         /\ Len(Newest(list)) = IF Len(list) <= RecentLimit THEN Len(list) ELSE RecentLimit
         /\ \A i \in DOMAIN Newest(list) : i \in DOMAIN list /\ Newest(list)[i] = list[i]
<1> DEFINE n == Min({Len(list), RecentLimit})
<1>1. n = IF Len(list) <= RecentLimit THEN Len(list) ELSE RecentLimit
  BY MinOfTwo, ObservabilityAssumption
<1>2. n \in Nat /\ n <= Len(list)
  BY <1>1, ObservabilityAssumption
<1> HIDE DEF n
<1>3. SubSeq(list, 1, n) \in Seq(S) /\ Len(SubSeq(list, 1, n)) = n
  BY <1>2
<1>4. \A i \in 1..n : SubSeq(list, 1, n)[i] = list[i]
  BY <1>2
<1>5. Newest(list) = SubSeq(list, 1, n)
  BY DEF Newest, n
<1> QED BY <1>1, <1>2, <1>3, <1>4, <1>5

\* A call that is not in the list yet is put at its head: it is counted once.
LEMMA PrependFacts ==
  ASSUME NEW S, NEW list \in Seq(S), NEW p \in S, IsInjective(list), p \notin ToSet(list)
  PROVE  /\ <<p>> \o list \in Seq(S) /\ Len(<<p>> \o list) = Len(list) + 1
         /\ IsInjective(<<p>> \o list)
         /\ ToSet(<<p>> \o list) \subseteq ToSet(list) \cup {p}
<1> DEFINE new == <<p>> \o list
<1>1. new \in Seq(S) /\ Len(new) = Len(list) + 1
  OBVIOUS
<1>2. new[1] = p /\ \A i \in DOMAIN new : i # 1 => i - 1 \in DOMAIN list /\ new[i] = list[i - 1]
  OBVIOUS
<1> HIDE DEF new
<1>3. \A i \in DOMAIN list : list[i] # p
  BY DEF ToSet
<1>4. DOMAIN new \subseteq Nat
  BY <1>1
<1>5. IsInjective(new)
  BY <1>2, <1>3, <1>4 DEF IsInjective
<1>6. ToSet(new) \subseteq ToSet(list) \cup {p}
  BY <1>2 DEF ToSet
<1> QED BY <1>1, <1>5, <1>6 DEF new

-----------------------------------------------------------------------------
(* Snapshots.                                                              *)

Listed == {"query", "index"}

HasShape(s) ==
  s = [whole |-> s.whole, files |-> s.files, failed |-> s.failed, candidates |-> s.candidates,
       evidence |-> s.evidence, warnings |-> s.warnings, queue |-> s.queue, size |-> s.size,
       times |-> s.times, recent |-> s.recent]

\* A snapshot that was written by calls of S.
SnapshotBy(S, s) ==
  /\ HasShape(s) /\ s.whole = TRUE
  /\ s.times = [k \in Listed |-> s.times[k]]
  /\ \A k \in Listed : s.times[k].count \in Nat
  /\ s.recent \in [Listed -> Seq(S)]
  /\ CountsOnce(s)

LEMMA EmptyIsBy ==
  ASSUME NEW S
  PROVE  SnapshotBy(S, EmptySnapshot)
<1>1. Min({RecentLimit, 0}) = 0
  BY MinOfTwo, ObservabilityAssumption
<1>2. /\ EmptySnapshot.times = [k \in Listed |-> NoTimes]
      /\ EmptySnapshot.recent = [k \in Listed |-> <<>>]
  BY DEF EmptySnapshot, Listed
<1>3. NoTimes.count = 0
  BY DEF NoTimes
<1>4. CountsOnce(EmptySnapshot)
  <2>1. IsInjective(<<>>) /\ Len(<<>>) = 0
    BY DEF IsInjective
  <2>2. \A k \in Listed : EmptySnapshot.recent[k] = <<>> /\ EmptySnapshot.times[k].count = 0
    BY <1>2, <1>3
  <2> QED BY <1>1, <2>1, <2>2 DEF CountsOnce, Listed
<1>5. HasShape(EmptySnapshot) /\ EmptySnapshot.whole = TRUE
  BY DEF EmptySnapshot, HasShape
<1>6. EmptySnapshot.recent \in [Listed -> Seq(S)]
  BY <1>2
<1>7. /\ EmptySnapshot.times = [k \in Listed |-> EmptySnapshot.times[k]]
      /\ \A k \in Listed : EmptySnapshot.times[k].count \in Nat
  BY <1>2, <1>3
<1> QED BY <1>4, <1>5, <1>6, <1>7 DEF SnapshotBy

LEMMA ByMore ==
  ASSUME NEW S, NEW T, S \subseteq T, NEW s, SnapshotBy(S, s)
  PROVE  SnapshotBy(T, s)
<1>1. s.recent \in [Listed -> Seq(T)]
  BY DEF SnapshotBy
<1> QED BY <1>1 DEF SnapshotBy

\* A status request leaves what the calls have recorded.
LEMMA StatusFields ==
  ASSUME NEW s, HasShape(s), NEW p, call[p].kind = "status"
  PROVE  /\ Recorded(s, p).times = s.times /\ Recorded(s, p).recent = s.recent
         /\ Recorded(s, p).whole = s.whole /\ HasShape(Recorded(s, p))
         /\ Recorded(s, p).warnings = s.warnings /\ Recorded(s, p).files = s.files
<1> DEFINE c == call[p]
           r == Recorded(s, p)
<1>1. r = [s EXCEPT !.queue = c.queue, !.size = c.size]
  BY DEF Recorded
<1> HIDE DEF c, r
<1>2. /\ r.times = s.times /\ r.recent = s.recent /\ r.whole = s.whole /\ HasShape(r)
      /\ r.warnings = s.warnings /\ r.files = s.files
  BY <1>1 DEF HasShape
<1> QED BY <1>2 DEF r

\* What a query or a run makes of a snapshot.
LEMMA RecordedFields ==
  ASSUME NEW s, HasShape(s), NEW p, NEW k \in Listed, call[p].kind = k
  PROVE  /\ HasShape(Recorded(s, p)) /\ Recorded(s, p).whole = s.whole
         /\ Recorded(s, p).times = [s.times EXCEPT ![k] = Observed(s.times[k], call[p].time)]
         /\ Recorded(s, p).recent = [s.recent EXCEPT ![k] = Newest(<<p>> \o s.recent[k])]
         /\ Recorded(s, p).warnings = (IF k = "query" THEN s.warnings + call[p].warnings ELSE s.warnings)
         /\ Recorded(s, p).files = (IF k = "index" THEN s.files + call[p].files ELSE s.files)
<1> DEFINE c == call[p]
           r == Recorded(s, p)
           times == [s.times EXCEPT ![k] = Observed(s.times[k], c.time)]
           recent == [s.recent EXCEPT ![k] = Newest(<<p>> \o s.recent[k])]
           kept == [s EXCEPT !.times = times, !.recent = recent]
<1>1. [s EXCEPT !.times[k] = Observed(@, c.time), !.recent[k] = Newest(<<p>> \o @)] = kept
  OBVIOUS
<1>2. \/ k = "query" /\ r = [kept EXCEPT !.candidates = kept.candidates + c.candidates,
                                         !.evidence = kept.evidence + c.evidence,
                                         !.warnings = kept.warnings + c.warnings]
      \/ k = "index" /\ r = [kept EXCEPT !.files = kept.files + c.files,
                                         !.failed = kept.failed + c.failed]
  BY <1>1 DEF Recorded, Listed
<1> HIDE DEF c, r, times, recent
<1>3. /\ kept.times = times /\ kept.recent = recent /\ kept.whole = s.whole
      /\ kept.warnings = s.warnings /\ kept.files = s.files /\ HasShape(kept)
  <2>1. ASSUME NEW a, NEW b, NEW t, t = [s EXCEPT !.times = a, !.recent = b]
        PROVE  /\ t.times = a /\ t.recent = b /\ t.whole = s.whole
               /\ t.warnings = s.warnings /\ t.files = s.files /\ HasShape(t)
    BY <2>1 DEF HasShape
  <2> QED BY <2>1
<1> HIDE DEF kept
<1>4. ASSUME NEW a, NEW b, NEW d, r = [kept EXCEPT !.candidates = a, !.evidence = b, !.warnings = d]
      PROVE  /\ r.times = kept.times /\ r.recent = kept.recent /\ r.whole = kept.whole /\ HasShape(r)
             /\ r.warnings = d /\ r.files = kept.files
  BY <1>3, <1>4 DEF HasShape
<1>5. ASSUME NEW a, NEW b, r = [kept EXCEPT !.files = a, !.failed = b]
      PROVE  /\ r.times = kept.times /\ r.recent = kept.recent /\ r.whole = kept.whole /\ HasShape(r)
             /\ r.warnings = kept.warnings /\ r.files = a
  BY <1>3, <1>5 DEF HasShape
<1>6. CASE k = "query"
  <2> DEFINE d == kept.warnings + c.warnings
  <2>1. \E a, b : r = [kept EXCEPT !.candidates = a, !.evidence = b, !.warnings = d]
    BY <1>2, <1>6
  <2> HIDE DEF d
  <2>2. /\ r.times = kept.times /\ r.recent = kept.recent /\ r.whole = kept.whole /\ HasShape(r)
        /\ r.warnings = d /\ r.files = kept.files
    BY <1>4, <2>1
  <2> QED BY <1>3, <1>6, <2>2 DEF d, r, c, times, recent
<1>7. CASE k = "index"
  <2> DEFINE d == kept.files + c.files
  <2>1. \E b : r = [kept EXCEPT !.files = d, !.failed = b]
    BY <1>2, <1>7
  <2> HIDE DEF d
  <2>2. /\ r.times = kept.times /\ r.recent = kept.recent /\ r.whole = kept.whole /\ HasShape(r)
        /\ r.warnings = kept.warnings /\ r.files = d
    BY <1>5, <2>1
  <2> QED BY <1>3, <1>7, <2>2 DEF d, r, c, times, recent
<1> QED BY <1>6, <1>7 DEF Listed

\* What a call that has not been counted makes of a snapshot.
LEMMA RecordedBy ==
  ASSUME NEW S \in SUBSET Callers, NEW s, SnapshotBy(S, s), NEW p \in Callers, p \notin S,
         call[p].kind \in {"query", "index", "status"}
  PROVE  SnapshotBy(S \cup {p}, Recorded(s, p))
<1> DEFINE c == call[p]
           T == S \cup {p}
<1>1. SnapshotBy(T, s)
  BY ByMore
<1>2. CASE c.kind = "status"
  <2> DEFINE r == Recorded(s, p)
  <2>1. HasShape(s) /\ call[p].kind = "status"
    BY <1>2 DEF SnapshotBy
  <2>2. r.times = s.times /\ r.recent = s.recent /\ r.whole = s.whole /\ HasShape(r)
    BY <2>1, StatusFields
  <2> HIDE DEF r
  <2>3. SnapshotBy(T, r)
    BY <1>1, <2>2 DEF SnapshotBy, CountsOnce
  <2> QED BY <2>3 DEF r
<1>3. CASE c.kind \in Listed
  <2> DEFINE k == c.kind
             h == Observed(s.times[k], c.time)
             list == Newest(<<p>> \o s.recent[k])
             r == Recorded(s, p)
  <2>1. HasShape(s) /\ k \in Listed
    BY <1>3 DEF SnapshotBy
  <2>2. /\ r.times = [s.times EXCEPT ![k] = h] /\ r.recent = [s.recent EXCEPT ![k] = list]
        /\ r.whole = s.whole /\ HasShape(r)
    BY <2>1, RecordedFields
  <2> HIDE DEF r
  <2>3. h.count = s.times[k].count + 1 /\ h.count \in Nat
    BY <1>3 DEF Observed, SnapshotBy
  <2>4. /\ s.recent[k] \in Seq(S) /\ IsInjective(s.recent[k]) /\ p \notin ToSet(s.recent[k])
        /\ Len(s.recent[k]) = Min({RecentLimit, s.times[k].count})
    <3>1. \A j \in Listed : s.recent[j] \in Seq(S)
      BY DEF SnapshotBy
    <3>2. \A list0 \in Seq(S) : p \notin ToSet(list0)
      BY DEF ToSet
    <3>3. \A j \in Listed : /\ IsInjective(s.recent[j])
                            /\ Len(s.recent[j]) = Min({RecentLimit, s.times[j].count})
      BY Zenon DEF SnapshotBy, CountsOnce, Listed
    <3> QED BY <1>3, <3>1, <3>2, <3>3
  <2> DEFINE all == <<p>> \o s.recent[k]
  <2>5. /\ all \in Seq(T) /\ Len(all) = Len(s.recent[k]) + 1 /\ IsInjective(all)
    <3>1. s.recent[k] \in Seq(T) /\ p \in T
      BY <1>1, <1>3 DEF SnapshotBy
    <3> DEFINE old == s.recent[k]
    <3> HIDE DEF old
    <3>2. old \in Seq(T) => <<p>> \o old \in Seq(T) /\ Len(<<p>> \o old) = Len(old) + 1
            /\ (IsInjective(old) /\ p \notin ToSet(old) => IsInjective(<<p>> \o old))
      BY <3>1, PrependFacts
    <3> QED BY <2>4, <3>1, <3>2 DEF old
  <2>6. /\ list \in Seq(T)
        /\ Len(list) = IF Len(all) <= RecentLimit THEN Len(all) ELSE RecentLimit
        /\ \A i \in DOMAIN list : i \in DOMAIN all /\ list[i] = all[i]
    <3> HIDE DEF all
    <3>1. list = Newest(all)
      BY DEF all
    <3> QED BY <2>5, <3>1, NewestFacts
  <2> HIDE DEF all, list, h
  <2>7. IsInjective(list)
    BY <2>5, <2>6 DEF IsInjective
  <2>8. Len(list) = Min({RecentLimit, h.count})
    <3>1. s.times[k].count \in Nat
      BY <1>3 DEF SnapshotBy
    <3>2. /\ Min({RecentLimit, h.count}) = IF RecentLimit <= h.count THEN RecentLimit ELSE h.count
          /\ Min({RecentLimit, s.times[k].count}) =
               IF RecentLimit <= s.times[k].count THEN RecentLimit ELSE s.times[k].count
      BY <2>3, <3>1, MinOfTwo, ObservabilityAssumption
    <3> QED BY <2>3, <2>4, <2>5, <2>6, <3>1, <3>2, ObservabilityAssumption
  <2> HIDE DEF k
  <2>9. /\ r.times = [j \in Listed |-> r.times[j]]
        /\ \A j \in Listed : r.times[j] = IF j = k THEN h ELSE s.times[j]
    BY <1>3, <2>2 DEF SnapshotBy, k
  <2>10. /\ r.recent \in [Listed -> Seq(T)]
         /\ \A j \in Listed : r.recent[j] = IF j = k THEN list ELSE s.recent[j]
    BY <1>1, <1>3, <2>2, <2>6 DEF SnapshotBy, k
  <2>11. CountsOnce(r)
    <3>1. \A j \in Listed : /\ IsInjective(s.recent[j])
                            /\ Len(s.recent[j]) = Min({RecentLimit, s.times[j].count})
      BY Zenon DEF SnapshotBy, CountsOnce, Listed
    <3>2. ASSUME NEW j \in Listed
          PROVE  /\ IsInjective(r.recent[j])
                 /\ Len(r.recent[j]) = Min({RecentLimit, r.times[j].count})
      <4>1. CASE j = k
        <5>1. r.recent[j] = list /\ r.times[j] = h
          BY <2>9, <2>10, <4>1
        <5> QED BY <2>7, <2>8, <5>1
      <4>2. CASE j # k
        <5>1. r.recent[j] = s.recent[j] /\ r.times[j] = s.times[j]
          BY <2>9, <2>10, <4>2
        <5> QED BY <3>1, <5>1
      <4> QED BY <4>1, <4>2
    <3> QED BY <3>2, Zenon DEF CountsOnce, Listed
  <2>12. \A j \in Listed : r.times[j].count \in Nat
    BY <2>3, <2>9 DEF SnapshotBy
  <2>13. SnapshotBy(T, r)
    <3>1. r.whole = TRUE
      BY <2>2 DEF SnapshotBy
    <3> QED BY <2>2, <2>9, <2>10, <2>11, <2>12, <3>1 DEF SnapshotBy
  <2> QED BY <2>13 DEF r
<1> QED BY <1>2, <1>3 DEF Listed

-----------------------------------------------------------------------------
(* What the newest calls add up to, and what a list of calls tells.        *)

LEMMA NewestOfNewest ==
  ASSUME NEW S, NEW list \in Seq(S), NEW p \in S
  PROVE  /\ Newest(<<p>> \o Newest(list)) = Newest(<<p>> \o list)
         /\ Len(list) <= RecentLimit => Newest(list) = list
         /\ LatestOf(Newest(list)) = LatestOf(list)
<1> DEFINE new == Newest(list)
           a == <<p>> \o new
           b == <<p>> \o list
<1>1. /\ new \in Seq(S) /\ Len(new) = (IF Len(list) <= RecentLimit THEN Len(list) ELSE RecentLimit)
      /\ \A i \in 1..Len(new) : i \in 1..Len(list) /\ new[i] = list[i]
  BY NewestFacts
<1>2. Len(list) \in Nat /\ RecentLimit \in Nat \ {0} /\ DOMAIN list = 1..Len(list)
  BY ObservabilityAssumption
<1> HIDE DEF new
<1>3. /\ a \in Seq(S) /\ Len(a) = Len(new) + 1 /\ a[1] = p /\ \A i \in 2..Len(a) : a[i] = new[i - 1]
      /\ b \in Seq(S) /\ Len(b) = Len(list) + 1 /\ b[1] = p /\ \A i \in 2..Len(b) : b[i] = list[i - 1]
  BY <1>1
<1> HIDE DEF a, b
<1>4. \A i \in 1..Len(a) : i \in 1..Len(b) /\ a[i] = b[i]
  <2> SUFFICES ASSUME NEW i \in 1..Len(a) PROVE i \in 1..Len(b) /\ a[i] = b[i]
    OBVIOUS
  <2>1. Len(new) \in Nat /\ Len(new) <= Len(list)
    BY <1>1, <1>2
  <2>2. CASE i = 1
    BY <1>2, <1>3, <2>1, <2>2
  <2>3. CASE i # 1
    <3>1. i \in 2..Len(a) /\ i \in 2..Len(b) /\ i - 1 \in 1..Len(new)
      BY <1>2, <1>3, <2>1, <2>3
    <3>2. a[i] = new[i - 1] /\ b[i] = list[i - 1] /\ new[i - 1] = list[i - 1]
      BY <1>1, <1>3, <3>1
    <3>3. i \in 1..Len(b)
      BY <1>2, <1>3, <3>1
    <3> QED BY <3>2, <3>3
  <2> QED BY <2>2, <2>3
<1>5. Newest(a) = Newest(b)
  <2>1. /\ Newest(a) \in Seq(S) /\ Len(Newest(a)) = (IF Len(a) <= RecentLimit THEN Len(a) ELSE RecentLimit)
        /\ \A i \in 1..Len(Newest(a)) : i \in 1..Len(a) /\ Newest(a)[i] = a[i]
    BY <1>3, NewestFacts
  <2>2. /\ Newest(b) \in Seq(S) /\ Len(Newest(b)) = (IF Len(b) <= RecentLimit THEN Len(b) ELSE RecentLimit)
        /\ \A i \in 1..Len(Newest(b)) : i \in 1..Len(b) /\ Newest(b)[i] = b[i]
    BY <1>3, NewestFacts
  <2>3. Len(Newest(a)) = Len(Newest(b))
    BY <1>1, <1>2, <1>3, <2>1, <2>2
  <2>4. \A i \in 1..Len(Newest(a)) : Newest(a)[i] = Newest(b)[i]
    BY <1>4, <2>1, <2>2, <2>3
  <2> QED BY <2>1, <2>2, <2>3, <2>4, SeqEqual
<1>6. Len(list) <= RecentLimit => new = list
  BY <1>1, SeqEqual
<1>7. LatestOf(new) = LatestOf(list)
  <2>1. CASE Len(list) = 0
    <3>1. Len(list) <= RecentLimit
      BY <1>2, <2>1
    <3> QED BY <1>6, <3>1
  <2>2. CASE Len(list) # 0
    <3>1. Len(new) >= 1 /\ Len(list) >= 1 /\ Len(new) \in Nat /\ new[1] = list[1]
      BY <1>1, <1>2, <2>2
    <3>2. Min({Len(new), 1}) = 1 /\ Min({Len(list), 1}) = 1
      BY <1>2, <3>1, MinOfTwo
    <3>3. SubSeq(new, 1, 1) = SubSeq(list, 1, 1)
      BY <1>1, <3>1
    <3> QED BY <3>2, <3>3 DEF LatestOf
  <2> QED BY <2>1, <2>2
<1> QED BY <1>5, <1>6, <1>7 DEF a, b, new

\* The calls of a kind in a list of calls c, and their amounts.
CallsIn(c, k, list) == FlattenSeq([n \in DOMAIN list |-> IF c[list[n]].kind = k THEN <<list[n]>> ELSE <<>>])
Amount(c, field, list) == SumFunction([n \in DOMAIN list |-> c[list[n]][field]])

LEMMA CallsOfMore ==
  ASSUME NEW c, NEW k, NEW list \in Seq(Callers), NEW p \in Callers
  PROVE  /\ CallsIn(c, k, <<>>) = <<>>
         /\ CallsIn(c, k, list) \in Seq(Callers)
         /\ CallsIn(c, k, <<p>> \o list) = IF c[p].kind = k THEN <<p>> \o CallsIn(c, k, list) ELSE CallsIn(c, k, list)
<1> DEFINE Part(x) == IF c[x].kind = k THEN <<x>> ELSE <<>>
           parts == [n \in DOMAIN list |-> Part(list[n])]
           more == <<p>> \o list
           all == [n \in DOMAIN more |-> Part(more[n])]
<1>1. CallsIn(c, k, <<>>) = <<>>
  <2>1. [n \in DOMAIN <<>> |-> Part(<<>>[n])] = <<>>
    OBVIOUS
  <2>2. FlattenSeq(<<>>) = <<>>
    BY DEF FlattenSeq
  <2> QED BY <2>1, <2>2 DEF CallsIn
<1>2. \A x \in Callers : Part(x) \in Seq(Callers)
  OBVIOUS
<1>3. /\ Len(list) \in Nat /\ DOMAIN list = 1..Len(list) /\ \A n \in 1..Len(list) : list[n] \in Callers
      /\ DOMAIN more = 1..(Len(list) + 1) /\ more[1] = p
      /\ \A n \in 1..(Len(list) + 1) : n # 1 => more[n] = list[n - 1]
  OBVIOUS
<1> HIDE DEF Part, more
<1>4. parts \in Seq(Seq(Callers)) /\ Len(parts) = Len(list) /\ \A n \in 1..Len(list) : parts[n] = Part(list[n])
  BY <1>2, <1>3
<1>5. Part(p) \in Seq(Callers)
  BY <1>2
<1> DEFINE joined == <<Part(p)>> \o parts
<1>6. all = joined
  <2>1. all \in Seq(Seq(Callers)) /\ Len(all) = Len(list) + 1 /\ \A n \in 1..(Len(list) + 1) : all[n] = Part(more[n])
    <3>1. \A n \in 1..(Len(list) + 1) : more[n] \in Callers
      BY <1>3
    <3> QED BY <1>2, <1>3, <3>1
  <2>2. joined \in Seq(Seq(Callers)) /\ Len(joined) = Len(list) + 1
        /\ joined[1] = Part(p) /\ \A n \in 1..(Len(list) + 1) : n # 1 => joined[n] = parts[n - 1]
    <3> HIDE DEF parts
    <3> QED BY <1>4, <1>5
  <2> HIDE DEF all, joined, parts
  <2>3. \A n \in 1..Len(all) : all[n] = joined[n]
    <3> SUFFICES ASSUME NEW n \in 1..(Len(list) + 1) PROVE all[n] = joined[n]
      BY <2>1
    <3>1. CASE n = 1
      BY <1>3, <2>1, <2>2, <3>1
    <3>2. CASE n # 1
      <4>1. n - 1 \in 1..Len(list)
        BY <1>3, <3>2
      <4> QED BY <1>3, <1>4, <2>1, <2>2, <3>2, <4>1
    <3> QED BY <3>1, <3>2
  <2> QED BY <2>1, <2>2, <2>3, SeqEqual
<1>7. CallsIn(c, k, list) = FlattenSeq(parts) /\ CallsIn(c, k, more) = FlattenSeq(all)
  BY DEF CallsIn, Part
<1> HIDE DEF parts, all
<1>8. FlattenSeq(joined) = Part(p) \o FlattenSeq(parts) /\ FlattenSeq(parts) \in Seq(Callers)
  BY <1>4, <1>5, FlattenConsed, FlattenAppended
<1> HIDE DEF joined
<1>9. CallsIn(c, k, list) \in Seq(Callers) /\ CallsIn(c, k, more) = Part(p) \o CallsIn(c, k, list)
  BY <1>6, <1>7, <1>8
<1>10. CallsIn(c, k, more) = IF c[p].kind = k THEN <<p>> \o CallsIn(c, k, list) ELSE CallsIn(c, k, list)
  <2> DEFINE calls == CallsIn(c, k, list)
  <2> HIDE DEF calls
  <2>1. calls \in Seq(Callers) /\ <<>> \o calls = calls
    BY <1>9 DEF calls
  <2> QED BY <1>9, <2>1 DEF calls, Part
<1> QED BY <1>1, <1>9, <1>10 DEF more

LEMMA SumOfMore ==
  ASSUME NEW c, NEW field, NEW E, \A x \in E : c[x][field] \in Int, NEW list \in Seq(E), NEW p \in E
  PROVE  /\ Amount(c, field, <<>>) = 0 /\ Amount(c, field, list) \in Int
         /\ Amount(c, field, <<p>> \o list) = c[p][field] + Amount(c, field, list)
<1> DEFINE w == [x \in E |-> c[x][field]]
<1>1. Weighed(w, E) /\ w[p] = c[p][field]
  BY DEF Weighed
<1>2. ASSUME NEW s \in Seq(E) PROVE Amount(c, field, s) = Weigh(w, s)
  <2>1. \A n \in DOMAIN s : s[n] \in E
    OBVIOUS
  <2>2. [n \in DOMAIN s |-> c[s[n]][field]] = [n \in DOMAIN s |-> w[s[n]]]
    BY <2>1
  <2> QED BY <2>2 DEF Amount, Weigh
<1> HIDE DEF w
<1>3. <<>> \in Seq(E) /\ <<p>> \in Seq(E) /\ <<p>> \o list \in Seq(E) /\ <<p>> = Append(<<>>, p)
  OBVIOUS
<1>4. Weigh(w, <<>>) = 0 /\ Weigh(w, list) \in Int /\ Weigh(w, <<p>>) = 0 + w[p]
  BY <1>1, <1>3, WeightOfAppended
<1>5. Weigh(w, <<p>> \o list) = Weigh(w, <<p>>) + Weigh(w, list)
  BY <1>1, <1>3, WeightOfJoined
<1>6. w[p] \in Int
  BY <1>1
<1>7. /\ Amount(c, field, <<>>) = Weigh(w, <<>>) /\ Amount(c, field, list) = Weigh(w, list)
      /\ Amount(c, field, <<p>> \o list) = Weigh(w, <<p>> \o list)
  BY <1>2, <1>3
<1> QED BY <1>1, <1>4, <1>5, <1>6, <1>7

\* What is known of the calls c from the start.
KnownCalls(c) ==
  \A p \in Callers :
    /\ c[p].kind \in {"query", "index", "status"}
    /\ c[p].kind # "status" => c[p].time \in Nat
    /\ c[p].kind = "query" => c[p].warnings \in Nat
    /\ c[p].kind = "index" => c[p].files \in Nat

\* A snapshot lists calls of the kind, and adds up as long as it lists them all.
SumsUp(c, s) ==
  \A k \in Listed :
    /\ \A n \in DOMAIN s.recent[k] : c[s.recent[k][n]].kind = k
    /\ s.times[k].count <= RecentLimit =>
         /\ s.times[k].sum = Amount(c, "time", s.recent[k])
         /\ k = "query" => s.warnings = Amount(c, "warnings", s.recent[k])
         /\ k = "index" => s.files = Amount(c, "files", s.recent[k])

\* A snapshot tells a list of calls.
Tells(c, s, list) ==
  \A k \in Listed :
    /\ s.recent[k] = Newest(CallsIn(c, k, list))
    /\ s.times[k].count = Len(CallsIn(c, k, list))

LEMMA EmptyTells ==
  ASSUME NEW c
  PROVE  SumsUp(c, EmptySnapshot) /\ Tells(c, EmptySnapshot, <<>>)
<1>1. ASSUME NEW field PROVE Amount(c, field, <<>>) = 0
  <2> DEFINE w == [x \in {0} |-> 0]
  <2>1. Weigh(w, <<>>) = 0
    <3>1. Weighed(w, {0}) /\ <<>> \in Seq({0}) /\ 0 \in {0}
      BY DEF Weighed
    <3> HIDE DEF w
    <3> QED BY <3>1, WeightOfAppended
  <2>2. [n \in DOMAIN <<>> |-> c[<<>>[n]][field]] = [n \in DOMAIN <<>> |-> w[<<>>[n]]]
    OBVIOUS
  <2> HIDE DEF w
  <2> QED BY <2>1, <2>2 DEF Amount, Weigh
<1>2. ASSUME NEW k PROVE CallsIn(c, k, <<>>) = <<>>
  <2>1. [n \in DOMAIN <<>> |-> IF c[<<>>[n]].kind = k THEN <<<<>>[n]>> ELSE <<>>] = <<>>
    OBVIOUS
  <2> QED BY <2>1 DEF CallsIn, FlattenSeq
<1>3. Newest(<<>>) = <<>>
  <2>1. Min({Len(<<>>), RecentLimit}) = 0
    BY MinOfTwo, ObservabilityAssumption
  <2> QED BY <2>1 DEF Newest
<1>4. /\ \A k \in Listed : EmptySnapshot.recent[k] = <<>> /\ EmptySnapshot.times[k].count = 0
                           /\ EmptySnapshot.times[k].sum = 0
      /\ EmptySnapshot.warnings = 0 /\ EmptySnapshot.files = 0
  BY DEF EmptySnapshot, NoTimes, Listed
<1> QED BY <1>1, <1>2, <1>3, <1>4 DEF SumsUp, Tells

LEMMA SumsGrow ==
  ASSUME NEW S \in SUBSET Callers, NEW s, SnapshotBy(S, s), NEW p \in Callers,
         KnownCalls(call), SumsUp(call, s)
  PROVE  SumsUp(call, Recorded(s, p))
<1> DEFINE r == Recorded(s, p)
<1>1. HasShape(s)
  BY DEF SnapshotBy
<1>2. CASE call[p].kind = "status"
  <2>1. r.times = s.times /\ r.recent = s.recent /\ r.warnings = s.warnings /\ r.files = s.files
    BY <1>1, <1>2, StatusFields
  <2> HIDE DEF r
  <2>2. SumsUp(call, r)
    BY <2>1 DEF SumsUp
  <2> QED BY <2>2 DEF r
<1>3. CASE call[p].kind # "status"
  <2> DEFINE k == call[p].kind
             h == Observed(s.times[k], call[p].time)
             old == s.recent[k]
             E == {x \in Callers : call[x].kind = k}
  <2>1. k \in Listed
    BY <1>3 DEF KnownCalls, Listed
  <2>2. /\ r.times = [s.times EXCEPT ![k] = h] /\ r.recent = [s.recent EXCEPT ![k] = Newest(<<p>> \o old)]
        /\ r.warnings = (IF k = "query" THEN s.warnings + call[p].warnings ELSE s.warnings)
        /\ r.files = (IF k = "index" THEN s.files + call[p].files ELSE s.files)
    BY <1>1, <2>1, RecordedFields
  <2>3. h.count = s.times[k].count + 1 /\ h.sum = s.times[k].sum + call[p].time
    BY DEF Observed
  <2> HIDE DEF r, h
  <2>4. /\ \A j \in Listed : r.times[j] = (IF j = k THEN h ELSE s.times[j])
        /\ \A j \in Listed : r.recent[j] = (IF j = k THEN Newest(<<p>> \o old) ELSE s.recent[j])
    <3>1. s.times = [j \in Listed |-> s.times[j]] /\ s.recent = [j \in Listed |-> s.recent[j]]
      BY DEF SnapshotBy
    <3> HIDE DEF k, old
    <3> QED BY <2>1, <2>2, <3>1
  <2>5. /\ old \in Seq(E) /\ p \in E /\ s.times[k].count \in Nat
        /\ Len(old) = Min({RecentLimit, s.times[k].count})
    <3>1. old \in Seq(S) /\ \A n \in DOMAIN old : call[old[n]].kind = k
      BY <2>1 DEF SnapshotBy, SumsUp
    <3>2. old \in Seq(E)
      <4> HIDE DEF old
      <4>1. Len(old) \in Nat /\ DOMAIN old = 1..Len(old) /\ \A n \in 1..Len(old) : old[n] \in E
        BY <3>1
      <4> HIDE DEF E
      <4> QED BY <3>1, <4>1
    <3>3. s.times[k].count \in Nat /\ Len(old) = Min({RecentLimit, s.times[k].count})
      BY <2>1, Zenon DEF SnapshotBy, CountsOnce, Listed
    <3> QED BY <3>2, <3>3
  <2>6. /\ \A x \in E : call[x].time \in Int /\ call[x].kind = k
        /\ k = "query" => \A x \in E : call[x].warnings \in Int
        /\ k = "index" => \A x \in E : call[x].files \in Int
    BY <1>3 DEF KnownCalls
  <2>7. ASSUME NEW field, \A x \in E : call[x][field] \in Int
        PROVE  /\ Amount(call, field, old) \in Int /\ call[p][field] \in Int
               /\ Amount(call, field, <<p>> \o old) = call[p][field] + Amount(call, field, old)
    <3> HIDE DEF old, E
    <3> QED BY <2>5, <2>7, SumOfMore
  <2>8. /\ Newest(<<p>> \o old) \in Seq(E)
        /\ h.count <= RecentLimit => /\ Newest(<<p>> \o old) = <<p>> \o old
                                     /\ s.times[k].count <= RecentLimit
    <3> DEFINE new == <<p>> \o old
    <3>1. new \in Seq(E) /\ Len(new) = Len(old) + 1
      <4> HIDE DEF old, E
      <4> QED BY <2>5
    <3> HIDE DEF new, E
    <3>2. Newest(new) \in Seq(E) /\ (Len(new) <= RecentLimit => Newest(new) = new)
      BY <2>5, <3>1, NewestFacts, NewestOfNewest
    <3>3. h.count <= RecentLimit => Len(new) <= RecentLimit /\ s.times[k].count <= RecentLimit
      <4>1. RecentLimit \in Nat
        BY ObservabilityAssumption
      <4>2. Len(old) = IF RecentLimit <= s.times[k].count THEN RecentLimit ELSE s.times[k].count
        BY <2>5, <4>1, MinOfTwo
      <4> DEFINE count == s.times[k].count
      <4>3. count \in Nat /\ h.count = count + 1 /\ Len(old) = IF RecentLimit <= count THEN RecentLimit ELSE count
        BY <2>3, <2>5, <4>2
      <4> HIDE DEF old, count
      <4>4. h.count <= RecentLimit => Len(new) <= RecentLimit /\ count <= RecentLimit
        BY <3>1, <4>1, <4>3
      <4> QED BY <4>4 DEF count
    <3> QED BY <3>2, <3>3 DEF new
  <2>9. ASSUME NEW j \in Listed
        PROVE  /\ \A n \in DOMAIN r.recent[j] : call[r.recent[j][n]].kind = j
               /\ r.times[j].count <= RecentLimit =>
                    /\ r.times[j].sum = Amount(call, "time", r.recent[j])
                    /\ j = "query" => r.warnings = Amount(call, "warnings", r.recent[j])
                    /\ j = "index" => r.files = Amount(call, "files", r.recent[j])
    <3>1. /\ \A n \in DOMAIN s.recent[j] : call[s.recent[j][n]].kind = j
          /\ s.times[j].count <= RecentLimit =>
               /\ s.times[j].sum = Amount(call, "time", s.recent[j])
               /\ j = "query" => s.warnings = Amount(call, "warnings", s.recent[j])
               /\ j = "index" => s.files = Amount(call, "files", s.recent[j])
      BY DEF SumsUp
    <3>2. CASE j # k
      <4>1. r.times[j] = s.times[j] /\ r.recent[j] = s.recent[j]
        BY <2>4, <3>2
      <4>2. (j = "query" => r.warnings = s.warnings) /\ (j = "index" => r.files = s.files)
        BY <2>2, <3>2
      <4> QED BY <3>1, <4>1, <4>2
    <3>3. CASE j = k
      <4> DEFINE new == Newest(<<p>> \o old)
      <4>1. r.times[j] = h /\ r.recent[j] = new
        BY <2>4, <3>3
      <4>2. \A n \in DOMAIN new : new[n] \in E
        <5> HIDE DEF E, old
        <5> QED BY <2>8
      <4>3. \A n \in DOMAIN r.recent[j] : call[r.recent[j][n]].kind = j
        BY <3>3, <4>1, <4>2
      <4>4. ASSUME h.count <= RecentLimit
            PROVE  /\ h.sum = Amount(call, "time", new)
                   /\ j = "query" => r.warnings = Amount(call, "warnings", new)
                   /\ j = "index" => r.files = Amount(call, "files", new)
        <5>1. new = <<p>> \o old /\ s.times[k].count <= RecentLimit
          BY <2>8, <4>4
        <5> HIDE DEF new
        <5>2. /\ s.times[k].sum = Amount(call, "time", old)
              /\ k = "query" => s.warnings = Amount(call, "warnings", old)
              /\ k = "index" => s.files = Amount(call, "files", old)
          BY <3>1, <3>3, <5>1
        <5>3. p \in E
          BY <2>5
        <5> HIDE DEF E, k, old
        <5>4. h.sum = Amount(call, "time", new)
          <6>1. \A x \in E : call[x]["time"] \in Int
            BY <2>6
          <6>2. /\ Amount(call, "time", old) \in Int /\ call[p].time \in Int
                /\ Amount(call, "time", <<p>> \o old) = call[p].time + Amount(call, "time", old)
            BY <2>7, <6>1, Zenon
          <6> QED BY <2>3, <5>1, <5>2, <6>2
        <5>5. k = "query" => r.warnings = Amount(call, "warnings", new)
          <6> SUFFICES ASSUME k = "query" PROVE r.warnings = Amount(call, "warnings", new)
            OBVIOUS
          <6>1. \A x \in E : call[x]["warnings"] \in Int
            BY <2>6
          <6>2. /\ Amount(call, "warnings", old) \in Int /\ call[p].warnings \in Int
                /\ Amount(call, "warnings", <<p>> \o old) = call[p].warnings + Amount(call, "warnings", old)
            BY <2>7, <6>1, Zenon
          <6> QED BY <2>2, <5>1, <5>2, <6>2
        <5>6. k = "index" => r.files = Amount(call, "files", new)
          <6> SUFFICES ASSUME k = "index" PROVE r.files = Amount(call, "files", new)
            OBVIOUS
          <6>1. \A x \in E : call[x]["files"] \in Int
            BY <2>6
          <6>2. /\ Amount(call, "files", old) \in Int /\ call[p].files \in Int
                /\ Amount(call, "files", <<p>> \o old) = call[p].files + Amount(call, "files", old)
            BY <2>7, <6>1, Zenon
          <6> QED BY <2>2, <5>1, <5>2, <6>2
        <5> QED BY <3>3, <5>4, <5>5, <5>6
      <4> HIDE DEF new
      <4> QED BY <4>1, <4>3, <4>4
    <3> QED BY <3>2, <3>3
  <2>10. SumsUp(call, r)
    BY <2>9, Zenon DEF SumsUp
  <2> QED BY <2>10 DEF r
<1> QED BY <1>2, <1>3

LEMMA TellsMore ==
  ASSUME NEW S \in SUBSET Callers, NEW s, SnapshotBy(S, s), NEW p \in Callers,
         KnownCalls(call), NEW list \in Seq(Callers), Tells(call, s, list)
  PROVE  Tells(call, Recorded(s, p), <<p>> \o list)
<1> DEFINE r == Recorded(s, p)
           k == call[p].kind
           calls(j) == CallsIn(call, j, list)
           more(j) == CallsIn(call, j, <<p>> \o list)
<1>1. HasShape(s) /\ k \in {"query", "index", "status"}
  BY DEF SnapshotBy, KnownCalls
<1>2. \A j \in Listed : /\ calls(j) \in Seq(Callers) /\ more(j) = (IF k = j THEN <<p>> \o calls(j) ELSE calls(j))
                        /\ s.recent[j] = Newest(calls(j)) /\ s.times[j].count = Len(calls(j))
  BY CallsOfMore DEF Tells
<1> HIDE DEF calls, more
<1>3. \A j \in Listed : k # j => r.times[j] = s.times[j] /\ r.recent[j] = s.recent[j]
  <2>1. CASE k = "status"
    <3>1. r.times = s.times /\ r.recent = s.recent
      BY <1>1, <2>1, StatusFields
    <3> HIDE DEF r
    <3> QED BY <3>1
  <2>2. CASE k # "status"
    <3>1. k \in Listed
      BY <1>1, <2>2 DEF Listed
    <3> DEFINE h == Observed(s.times[k], call[p].time)
               new == Newest(<<p>> \o s.recent[k])
    <3>2. r.times = [s.times EXCEPT ![k] = h] /\ r.recent = [s.recent EXCEPT ![k] = new]
      BY <1>1, <3>1, RecordedFields
    <3>3. s.times = [j \in Listed |-> s.times[j]] /\ s.recent = [j \in Listed |-> s.recent[j]]
      BY DEF SnapshotBy
    <3> HIDE DEF r, h, new, k
    <3> QED BY <3>1, <3>2, <3>3
  <2> QED BY <2>1, <2>2
<1>4. ASSUME NEW j \in Listed, k = j
      PROVE  r.recent[j] = Newest(more(j)) /\ r.times[j].count = Len(more(j))
  <2> DEFINE h == Observed(s.times[j], call[p].time)
             new == Newest(<<p>> \o s.recent[j])
             old == calls(j)
  <2>1. r.times = [s.times EXCEPT ![j] = h] /\ r.recent = [s.recent EXCEPT ![j] = new]
    BY <1>1, <1>4, RecordedFields
  <2>2. h.count = s.times[j].count + 1
    BY DEF Observed
  <2>3. s.times = [i \in Listed |-> s.times[i]] /\ s.recent = [i \in Listed |-> s.recent[i]]
    BY DEF SnapshotBy
  <2> HIDE DEF r, h, new
  <2>4. r.times[j] = h /\ r.recent[j] = new
    BY <2>1, <2>3
  <2>5. old \in Seq(Callers) /\ more(j) = <<p>> \o old /\ s.recent[j] = Newest(old) /\ s.times[j].count = Len(old)
    BY <1>2, <1>4
  <2> HIDE DEF old
  <2>6. Newest(<<p>> \o Newest(old)) = Newest(<<p>> \o old) /\ Len(<<p>> \o old) = Len(old) + 1
    BY <2>5, NewestOfNewest
  <2> QED BY <2>2, <2>4, <2>5, <2>6 DEF new
<1>5. \A j \in Listed : r.recent[j] = Newest(more(j)) /\ r.times[j].count = Len(more(j))
  <2> HIDE DEF r, k
  <2>1. \A j \in Listed : k # j => /\ r.times[j] = s.times[j] /\ r.recent[j] = s.recent[j]
                                  /\ more(j) = calls(j)
    BY <1>2, <1>3
  <2> QED BY <1>2, <1>4, <2>1
<1> QED BY <1>5, Zenon DEF Tells, more

-----------------------------------------------------------------------------
(* The calls.  Whatever a process has loaded, and whatever can be read of  *)
(* the files, is a snapshot of calls that have begun.                      *)

Started == {p \in Callers : caller[p].pc # "load"}

MetricsFiles == SnapshotFiles \cup {NoSnapshot}

CallerShape(p) ==
  /\ caller[p] = [pc |-> caller[p].pc, snapshot |-> caller[p].snapshot, fd |-> caller[p].fd]
  /\ SnapshotBy(Started, caller[p].snapshot)

MetricsType ==
  /\ \A p \in Callers : call[p].kind \in {"query", "index", "status"}
  /\ caller = [p \in Callers |-> caller[p]]
  /\ \A p \in Callers : CallerShape(p)
  /\ snapshots = [live |-> snapshots.live, temp |-> snapshots.temp]
  /\ snapshots.live \in MetricsFiles /\ snapshots.temp \in MetricsFiles
  /\ contents = [i \in SnapshotFiles |-> contents[i]]
  /\ \A i \in SnapshotFiles : contents[i] = Broken \/ SnapshotBy(Started, contents[i])

\* Without overlaps only one call is under way, and the temporary file it has
\* opened is there until it moves it.
Alone ==
  /\ overlapped \in BOOLEAN
  /\ recorded \in Seq(Callers)
  /\ ~overlapped =>
       /\ \A p, q \in UnderWay : p = q
       /\ \A p \in Callers : caller[p].pc \in {"write", "replace"} => snapshots.temp # NoSnapshot
       /\ CallsReturn

MetricsInv == MetricsType /\ Alone

LEMMA InitMetricsInv == MetricsInit => MetricsInv
<1> SUFFICES ASSUME MetricsInit PROVE MetricsInv
  OBVIOUS
<1>1. \A p \in Callers : call[p].kind \in {"query", "index", "status"}
  BY ObservabilityAssumption DEF MetricsInit
<1>2. \A p \in Callers : caller[p] = Waiting /\ caller[p].pc = "load"
  BY DEF MetricsInit, Waiting
<1>3. \A p \in Callers : CallerShape(p)
  BY <1>2, EmptyIsBy DEF CallerShape, Waiting
<1>4. MetricsType
  BY <1>1, <1>3 DEF MetricsInit, MetricsType, MetricsFiles
<1>5. Alone
  <2>1. recorded \in Seq(Callers) /\ overlapped = FALSE
    BY DEF MetricsInit
  <2>2. UnderWay = {}
    BY <1>2 DEF UnderWay
  <2>3. CallsReturn /\ \A p \in Callers : caller[p].pc \notin {"write", "replace"}
    BY <1>2 DEF CallsReturn
  <2> QED BY <2>1, <2>2, <2>3 DEF Alone
<1> QED BY <1>4, <1>5 DEF MetricsInv

\* What a process reads.
LEMMA ReadIsBy ==
  ASSUME MetricsType
  PROVE  SnapshotBy(Started, SnapshotIn("live"))
<1>1. CASE snapshots.live = NoSnapshot
  BY <1>1, EmptyIsBy DEF SnapshotIn
<1>2. CASE snapshots.live # NoSnapshot
  <2>1. snapshots["live"] \in SnapshotFiles /\ snapshots["live"] # NoSnapshot
    BY <1>2 DEF MetricsType, MetricsFiles
  <2> DEFINE c == contents[snapshots["live"]]
  <2>2. c = Broken \/ SnapshotBy(Started, c)
    BY <2>1 DEF MetricsType
  <2>3. Broken.whole = FALSE
    BY DEF Broken
  <2> QED BY <2>1, <2>2, <2>3, EmptyIsBy DEF SnapshotIn
<1> QED BY <1>1, <1>2

\* A call goes on to pc, and nobody else does.
GoesTo(p, pc, s, fd) ==
  /\ caller' = [q \in Callers |-> caller'[q]]
  /\ caller'[p] = [pc |-> pc, snapshot |-> s, fd |-> fd]
  /\ \A q \in Callers : q # p => caller'[q] = caller[q]

LEMMA GoesOnBy ==
  ASSUME MetricsType, NEW p \in Callers, NEW pc, NEW x
  PROVE  /\ caller' = [caller EXCEPT ![p].pc = pc] => GoesTo(p, pc, caller[p].snapshot, caller[p].fd)
         /\ caller' = [caller EXCEPT ![p].pc = pc, ![p].snapshot = x] => GoesTo(p, pc, x, caller[p].fd)
         /\ caller' = [caller EXCEPT ![p].pc = pc, ![p].fd = x] => GoesTo(p, pc, caller[p].snapshot, x)
<1>1. caller = [q \in Callers |-> caller[q]]
  BY DEF MetricsType
<1>2. caller[p] = [pc |-> caller[p].pc, snapshot |-> caller[p].snapshot, fd |-> caller[p].fd]
  BY DEF MetricsType, CallerShape
<1>3. ASSUME caller' = [caller EXCEPT ![p].pc = pc]
      PROVE  GoesTo(p, pc, caller[p].snapshot, caller[p].fd)
  <2>1. caller'[p] = [caller[p] EXCEPT !.pc = pc]
    BY <1>1, <1>3
  <2>2. caller'[p] = [pc |-> pc, snapshot |-> caller[p].snapshot, fd |-> caller[p].fd]
    BY <1>2, <2>1
  <2> QED BY <1>1, <1>3, <2>2 DEF GoesTo
<1>4. ASSUME caller' = [caller EXCEPT ![p].pc = pc, ![p].snapshot = x]
      PROVE  GoesTo(p, pc, x, caller[p].fd)
  <2>1. caller'[p] = [caller[p] EXCEPT !.pc = pc, !.snapshot = x]
    BY <1>1, <1>4
  <2>2. caller'[p] = [pc |-> pc, snapshot |-> x, fd |-> caller[p].fd]
    BY <1>2, <2>1
  <2> QED BY <1>1, <1>4, <2>2 DEF GoesTo
<1>5. ASSUME caller' = [caller EXCEPT ![p].pc = pc, ![p].fd = x]
      PROVE  GoesTo(p, pc, caller[p].snapshot, x)
  <2>1. caller'[p] = [caller[p] EXCEPT !.pc = pc, !.fd = x]
    BY <1>1, <1>5
  <2>2. caller'[p] = [pc |-> pc, snapshot |-> caller[p].snapshot, fd |-> x]
    BY <1>2, <2>1
  <2> QED BY <1>1, <1>5, <2>2 DEF GoesTo
<1> QED BY <1>3, <1>4, <1>5

\* What is begun then, and what is loaded.
LEMMA GoesOn ==
  ASSUME MetricsType, NEW p \in Callers, NEW pc, pc # "load", NEW s, NEW fd,
         GoesTo(p, pc, s, fd), SnapshotBy(Started \cup {p}, s)
  PROVE  /\ caller' = [q \in Callers |-> caller'[q]]
         /\ Started' = Started \cup {p}
         /\ \A q \in Callers : caller'[q].pc = IF q = p THEN pc ELSE caller[q].pc
         /\ \A q \in Callers : CallerShape(q)'
<1>1. \A q \in Callers : caller'[q] = IF q = p THEN [pc |-> pc, snapshot |-> s, fd |-> fd] ELSE caller[q]
  BY DEF GoesTo
<1>2. caller' = [q \in Callers |-> caller'[q]]
  BY DEF GoesTo
<1>3. Started' = Started \cup {p}
  BY <1>1 DEF Started
<1>4. \A q \in Callers : caller'[q].pc = IF q = p THEN pc ELSE caller[q].pc
  BY <1>1
<1>5. ASSUME NEW q \in Callers
      PROVE  CallerShape(q)'
  <2>1. CASE q = p
    <3>1. caller'[q] = [pc |-> pc, snapshot |-> s, fd |-> fd]
      BY <1>1, <2>1
    <3> QED BY <1>3, <3>1 DEF CallerShape
  <2>2. CASE q # p
    <3>1. caller'[q] = caller[q]
      BY <1>1, <2>2
    <3>2. CallerShape(q)
      BY DEF MetricsType
    <3>3. SnapshotBy(Started \cup {p}, caller[q].snapshot)
      BY <3>2, ByMore DEF CallerShape
    <3> QED BY <1>3, <3>1, <3>2, <3>3 DEF CallerShape
  <2> QED BY <2>1, <2>2
<1> QED BY <1>2, <1>3, <1>4, <1>5

\* Of the calls under way, p goes on: with no overlap it is the only one.
LEMMA AloneGoesOn ==
  ASSUME Alone, NEW p \in UnderWay, NEW pc,
         \A q \in Callers : caller'[q].pc = IF q = p THEN pc ELSE caller[q].pc,
         overlapped' = overlapped, recorded' \in Seq(Callers),
         ToSet(recorded) \subseteq ToSet(recorded'),
         ~overlapped => /\ pc # "failed" /\ (pc = "done" => p \in ToSet(recorded'))
                        /\ pc \in {"write", "replace"} => snapshots'.temp # NoSnapshot
  PROVE  Alone'
<1>1. p \in Callers /\ UnderWay' \subseteq UnderWay
  BY DEF UnderWay
<1>2. ASSUME ~overlapped
      PROVE  /\ \A q, r \in UnderWay : q = r
             /\ \A q \in Callers : q # p => caller[q].pc \notin {"write", "replace"}
             /\ CallsReturn
  BY <1>1, <1>2 DEF Alone, UnderWay
<1>3. ASSUME ~overlapped
      PROVE  CallsReturn'
  <2>1. \A q \in Callers : caller[q].pc # "failed" /\ (caller[q].pc = "done" => q \in ToSet(recorded))
    BY <1>2, <1>3 DEF CallsReturn
  <2> QED BY <1>3, <2>1 DEF CallsReturn
<1>4. ASSUME ~overlapped
      PROVE  \A q \in Callers : caller'[q].pc \in {"write", "replace"} => snapshots'.temp # NoSnapshot
  BY <1>2, <1>4
<1>5. ASSUME ~overlapped
      PROVE  \A q, r \in UnderWay' : q = r
  BY <1>1, <1>2, <1>5
<1>6. overlapped' \in BOOLEAN
  BY DEF Alone
<1> QED BY <1>3, <1>4, <1>5, <1>6 DEF Alone

\* What a step writes of the files.
LEMMA FilesGoOn ==
  ASSUME MetricsType, NEW i, NEW c, c = Broken \/ SnapshotBy(Started, c), NEW S, Started \subseteq S,
         contents' = contents \/ contents' = [contents EXCEPT ![i] = c]
  PROVE  /\ contents' = [j \in SnapshotFiles |-> contents'[j]]
         /\ \A j \in SnapshotFiles : contents'[j] = Broken \/ SnapshotBy(S, contents'[j])
<1>1. contents = [j \in SnapshotFiles |-> contents[j]]
  BY DEF MetricsType
<1>2. contents' = [j \in SnapshotFiles |-> contents'[j]]
  BY <1>1
<1>3. \A j \in SnapshotFiles : contents'[j] \in {contents[j], c}
  BY <1>1
<1>4. \A j \in SnapshotFiles : contents[j] = Broken \/ SnapshotBy(Started, contents[j])
  BY DEF MetricsType
<1>5. ASSUME NEW j \in SnapshotFiles
      PROVE  contents'[j] = Broken \/ SnapshotBy(S, contents'[j])
  <2>1. contents'[j] = Broken \/ SnapshotBy(Started, contents'[j])
    BY <1>3, <1>4
  <2> QED BY <2>1, ByMore
<1> QED BY <1>2, <1>5

LEMMA LoadKeepsInv ==
  ASSUME MetricsInv, NEW p \in Callers, Load(p)
  PROVE  MetricsInv'
<1> DEFINE s == Recorded(SnapshotIn("live"), p)
<1>1. MetricsType /\ Alone /\ CallerShape(p) /\ p \notin Started /\ Started \in SUBSET Callers
      /\ call[p].kind \in {"query", "index", "status"}
  BY DEF MetricsInv, MetricsType, Load, Started
<1>2. SnapshotBy(Started \cup {p}, s)
  <2>1. SnapshotBy(Started, SnapshotIn("live"))
    BY <1>1, ReadIsBy
  <2> QED BY <1>1, <2>1, RecordedBy
<1> HIDE DEF s
<1>3. GoesTo(p, "open", s, caller[p].fd)
  <2>1. caller' = [caller EXCEPT ![p].pc = "open", ![p].snapshot = s]
    BY DEF Load, s
  <2> QED BY <1>1, <2>1, GoesOnBy
<1>4. /\ caller' = [q \in Callers |-> caller'[q]] /\ Started' = Started \cup {p}
      /\ \A q \in Callers : caller'[q].pc = IF q = p THEN "open" ELSE caller[q].pc
      /\ \A q \in Callers : CallerShape(q)'
  BY <1>1, <1>2, <1>3, GoesOn
<1>5. MetricsType'
  <2>1. /\ contents' = [j \in SnapshotFiles |-> contents'[j]]
        /\ \A j \in SnapshotFiles : contents'[j] = Broken \/ SnapshotBy(Started', contents'[j])
    <3>1. contents' = contents /\ Started \subseteq Started'
      BY <1>4 DEF Load
    <3> QED BY <1>1, <3>1, FilesGoOn, Zenon
  <2>2. UNCHANGED <<call, snapshots>>
    BY DEF Load
  <2> QED BY <1>1, <1>4, <2>1, <2>2 DEF MetricsType
<1>6. Alone'
  <2>1. overlapped' = (overlapped \/ UnderWay # {}) /\ UNCHANGED <<snapshots, recorded>> /\ caller[p].pc = "load"
    BY DEF Load
  <2>2. ASSUME ~overlapped'
        PROVE  /\ \A q, r \in UnderWay' : q = r
               /\ \A q \in Callers : caller'[q].pc \in {"write", "replace"} => snapshots'.temp # NoSnapshot
               /\ CallsReturn'
    <3>1. ~overlapped /\ UnderWay = {}
      BY <2>1, <2>2
    <3>2. UnderWay' \subseteq {p}
      BY <1>4, <3>1 DEF UnderWay
    <3>3. \A q \in Callers : caller'[q].pc \notin {"write", "replace"}
      BY <1>4, <3>1 DEF UnderWay
    <3>4. \A q \in Callers : caller[q].pc # "failed" /\ (caller[q].pc = "done" => q \in ToSet(recorded))
      BY <1>1, <3>1 DEF Alone, CallsReturn
    <3>5. CallsReturn'
      BY <1>4, <2>1, <3>4 DEF CallsReturn
    <3> QED BY <3>2, <3>3, <3>5
  <2>3. overlapped' \in BOOLEAN /\ recorded' \in Seq(Callers)
    BY <1>1, <2>1 DEF Alone
  <2> QED BY <2>2, <2>3 DEF Alone
<1> QED BY <1>5, <1>6 DEF MetricsInv

\* A call under way goes on from step to step.
LEMMA StepKeepsInv ==
  ASSUME MetricsInv, NEW p \in Callers,
         OpenSnapshot(p) \/ WriteSnapshot(p) \/ ReplaceSnapshot(p) \/ ReplaceFails(p) \/ Die(p)
  PROVE  MetricsInv'
<1> DEFINE s == caller[p].snapshot
<1>1. /\ MetricsType /\ Alone /\ p \in UnderWay /\ p \in Started
      /\ caller[p] = [pc |-> caller[p].pc, snapshot |-> s, fd |-> caller[p].fd] /\ SnapshotBy(Started, s)
  BY DEF MetricsInv, MetricsType, CallerShape, Started, UnderWay, OpenSnapshot, WriteSnapshot, ReplaceSnapshot,
         ReplaceFails, Die
<1> HIDE DEF s
<1>2. UNCHANGED <<call, overlapped>>
  BY DEF OpenSnapshot, WriteSnapshot, ReplaceSnapshot, ReplaceFails, Die
<1>3. \E pc, fd :
        /\ GoesTo(p, pc, s, fd)
        /\ pc # "load"
        /\ ~overlapped => /\ pc # "failed" /\ (pc = "done" => p \in ToSet(recorded'))
                          /\ pc \in {"write", "replace"} => snapshots'.temp # NoSnapshot
  <2>1. ASSUME NEW pc, caller' = [caller EXCEPT ![p].pc = pc]
        PROVE  GoesTo(p, pc, s, caller[p].fd)
    BY <1>1, <2>1, GoesOnBy DEF s
  <2>2. CASE OpenSnapshot(p)
    <3> DEFINE inode == IF snapshots[TempName] = NoSnapshot THEN <<p>> ELSE snapshots[TempName]
    <3>1. /\ snapshots' = [snapshots EXCEPT ![TempName] = inode]
          /\ caller' = [caller EXCEPT ![p].pc = "write", ![p].fd = inode]
      BY <2>2 DEF OpenSnapshot
    <3>2. inode # NoSnapshot
      BY DEF NoSnapshot
    <3> HIDE DEF inode
    <3>3. GoesTo(p, "write", s, inode)
      BY <1>1, <3>1, GoesOnBy DEF s
    <3>4. snapshots'.temp # NoSnapshot
      BY <1>1, <3>1, <3>2 DEF MetricsType, TempName
    <3> QED BY <3>3, <3>4
  <2>3. CASE WriteSnapshot(p)
    <3>1. caller[p].pc = "write" /\ UNCHANGED snapshots /\ caller' = [caller EXCEPT ![p].pc = "replace"]
      BY <2>3 DEF WriteSnapshot
    <3>2. ~overlapped => snapshots.temp # NoSnapshot
      BY <1>1, <3>1 DEF Alone
    <3>3. GoesTo(p, "replace", s, caller[p].fd)
      BY <2>1, <3>1
    <3> QED BY <3>1, <3>2, <3>3
  <2>4. CASE ReplaceSnapshot(p)
    <3>1. recorded' = <<p>> \o recorded /\ caller' = [caller EXCEPT ![p].pc = "done"]
      BY <2>4 DEF ReplaceSnapshot
    <3>2. p \in ToSet(recorded')
      <4>1. recorded \in Seq(Callers)
        BY <1>1 DEF Alone
      <4>2. 1 \in DOMAIN (<<p>> \o recorded) /\ (<<p>> \o recorded)[1] = p
        BY <4>1
      <4> QED BY <3>1, <4>2 DEF ToSet
    <3>3. GoesTo(p, "done", s, caller[p].fd)
      BY <2>1, <3>1
    <3> QED BY <3>2, <3>3
  <2>5. CASE ReplaceFails(p)
    <3>1. caller[p].pc = "replace" /\ snapshots.temp = NoSnapshot
      BY <2>5 DEF ReplaceFails, TempName
    <3>2. overlapped
      BY <1>1, <3>1 DEF Alone
    <3> DEFINE pc == IF call[p].kind = "index" THEN "done" ELSE "failed"
    <3>3. caller' = [caller EXCEPT ![p].pc = pc]
      BY <2>5 DEF ReplaceFails
    <3>4. pc # "load"
      OBVIOUS
    <3> HIDE DEF pc
    <3>5. GoesTo(p, pc, s, caller[p].fd)
      BY <2>1, <3>3
    <3> QED BY <3>2, <3>4, <3>5
  <2>6. CASE Die(p)
    <3>1. caller' = [caller EXCEPT ![p].pc = "dead"]
      BY <2>6 DEF Die
    <3>2. GoesTo(p, "dead", s, caller[p].fd)
      BY <2>1, <3>1
    <3> QED BY <3>2
  <2> QED BY <2>2, <2>3, <2>4, <2>5, <2>6
<1>4. PICK pc, fd :
        /\ GoesTo(p, pc, s, fd)
        /\ pc # "load"
        /\ ~overlapped => /\ pc # "failed" /\ (pc = "done" => p \in ToSet(recorded'))
                          /\ pc \in {"write", "replace"} => snapshots'.temp # NoSnapshot
  BY <1>3
<1>5. /\ caller' = [q \in Callers |-> caller'[q]] /\ Started' = Started
      /\ \A q \in Callers : caller'[q].pc = IF q = p THEN pc ELSE caller[q].pc
      /\ \A q \in Callers : CallerShape(q)'
  <2>1. Started \cup {p} = Started
    BY <1>1
  <2> QED BY <1>1, <1>4, <2>1, GoesOn
<1>6. /\ contents' = [j \in SnapshotFiles |-> contents'[j]]
      /\ \A j \in SnapshotFiles : contents'[j] = Broken \/ SnapshotBy(Started, contents'[j])
  <2>1. \E i, c : /\ c = Broken \/ SnapshotBy(Started, c)
                  /\ contents' = contents \/ contents' = [contents EXCEPT ![i] = c]
    <3>1. CASE OpenSnapshot(p)
      BY <3>1 DEF OpenSnapshot
    <3>2. CASE WriteSnapshot(p)
      <4>1. \E c \in {s, Broken} : contents' = [contents EXCEPT ![caller[p].fd] = c]
        BY <3>2 DEF WriteSnapshot, s
      <4> QED BY <1>1, <4>1
    <3>3. CASE ReplaceSnapshot(p) \/ ReplaceFails(p) \/ Die(p)
      BY <3>3 DEF ReplaceSnapshot, ReplaceFails, Die
    <3> QED BY <3>1, <3>2, <3>3
  <2>2. Started \subseteq Started
    OBVIOUS
  <2> QED BY <1>1, <2>1, <2>2, FilesGoOn, Zenon
<1>7. /\ snapshots' = [live |-> snapshots'.live, temp |-> snapshots'.temp]
      /\ snapshots'.live \in MetricsFiles /\ snapshots'.temp \in MetricsFiles
  <2>1. /\ snapshots = [live |-> snapshots.live, temp |-> snapshots.temp]
        /\ snapshots.live \in MetricsFiles /\ snapshots.temp \in MetricsFiles
    BY <1>1 DEF MetricsType
  <2>2. <<p>> \in MetricsFiles /\ NoSnapshot \in MetricsFiles
    BY DEF MetricsFiles, SnapshotFiles
  <2>3. CASE OpenSnapshot(p)
    BY <2>1, <2>2, <2>3 DEF OpenSnapshot, TempName
  <2>4. CASE ReplaceSnapshot(p)
    BY <2>1, <2>2, <2>4 DEF ReplaceSnapshot, TempName
  <2>5. CASE WriteSnapshot(p) \/ ReplaceFails(p) \/ Die(p)
    BY <2>1, <2>5 DEF WriteSnapshot, ReplaceFails, Die
  <2> QED BY <2>3, <2>4, <2>5
<1>8. recorded' \in Seq(Callers) /\ ToSet(recorded) \subseteq ToSet(recorded')
  <2>1. recorded \in Seq(Callers)
    BY <1>1 DEF Alone
  <2>2. CASE ReplaceSnapshot(p)
    <3> DEFINE new == <<p>> \o recorded
    <3>1. new \in Seq(Callers) /\ \A i \in DOMAIN recorded : i + 1 \in DOMAIN new /\ new[i + 1] = recorded[i]
      BY <2>1
    <3>2. recorded' = new
      BY <2>2 DEF ReplaceSnapshot
    <3> QED BY <3>1, <3>2 DEF ToSet
  <2>3. CASE ~ReplaceSnapshot(p)
    BY <2>1, <2>3 DEF OpenSnapshot, WriteSnapshot, ReplaceFails, Die
  <2> QED BY <2>2, <2>3
<1>9. Alone'
  BY <1>1, <1>2, <1>4, <1>5, <1>8, AloneGoesOn
<1>10. MetricsType'
  BY <1>1, <1>2, <1>5, <1>6, <1>7 DEF MetricsType
<1> QED BY <1>9, <1>10 DEF MetricsInv

LEMMA MetricsInvHolds == MetricsSpec => []MetricsInv
<1>1. MetricsInv /\ [MetricsNext]_metricVars => MetricsInv'
  <2> SUFFICES ASSUME MetricsInv, [MetricsNext]_metricVars PROVE MetricsInv'
    OBVIOUS
  <2>1. CASE MetricsNext
    <3>1. PICK p \in Callers : \/ Load(p) \/ OpenSnapshot(p) \/ WriteSnapshot(p)
                               \/ ReplaceSnapshot(p) \/ ReplaceFails(p) \/ Die(p)
      BY <2>1 DEF MetricsNext
    <3> QED BY <3>1, LoadKeepsInv, StepKeepsInv
  <2>2. CASE UNCHANGED metricVars
    BY <2>2 DEF metricVars, MetricsInv, MetricsType, Alone, CallerShape, Started, UnderWay, CallsReturn
  <2> QED BY <2>1, <2>2
<1> QED BY <1>1, InitMetricsInv, PTL DEF MetricsSpec

-----------------------------------------------------------------------------
\* Whatever writes over whatever: a snapshot that can be read lists no call
\* twice, and as many as it counts, up to the limit (record_query_run and
\* record_index_run over load_snapshot and save_snapshot, which take no lock).
THEOREM NoneCountedTwice ==
  MetricsSpec => [](\A i \in SnapshotFiles : contents[i].whole => CountsOnce(contents[i]))
<1>1. MetricsInv => \A i \in SnapshotFiles : contents[i].whole => CountsOnce(contents[i])
  <2> SUFFICES ASSUME MetricsInv, NEW i \in SnapshotFiles, contents[i].whole
               PROVE  CountsOnce(contents[i])
    OBVIOUS
  <2>1. contents[i] = Broken \/ SnapshotBy(Started, contents[i])
    BY DEF MetricsInv, MetricsType
  <2>2. ~Broken.whole
    BY DEF Broken
  <2> QED BY <2>1, <2>2 DEF SnapshotBy
<1> QED BY <1>1, MetricsInvHolds, PTL

\* While no two calls overlap, wherever one is killed: none fails over the
\* temporary file, and the snapshot of each that returned was put in place.
THEOREM AloneIsRecorded == MetricsSpec => []CallsReturn
<1>1. MetricsInv => CallsReturn
  BY DEF MetricsInv, Alone, CallsReturn
<1> QED BY <1>1, MetricsInvHolds, PTL

-----------------------------------------------------------------------------
(* What the snapshots add up to, and what status requests are told.        *)

\* Wherever it is read: what a snapshot adds up to.
SumsHold ==
  /\ KnownCalls(call)
  /\ \A p \in Callers : SumsUp(call, caller[p].snapshot)
  /\ \A i \in SnapshotFiles : contents[i].whole => SumsUp(call, contents[i])

\* No file is both in place and temporary, and none is called as one that has
\* yet to be made.
FilesApart ==
  /\ snapshots.temp # NoSnapshot => snapshots.temp # snapshots.live
  /\ \A p \in Callers :
       caller[p].pc \in {"load", "open"} => snapshots.live # <<p>> /\ snapshots.temp # <<p>>

RecordedOnce ==
  /\ IsInjective(recorded)
  /\ \A p \in Callers : p \in ToSet(recorded) => caller[p].pc = "done"

\* Without overlaps the snapshot tells the calls recorded, and the one call
\* under way has loaded that and added itself; the temporary file is its own.
LiveTells ==
  ~overlapped =>
    /\ Tells(call, SnapshotIn("live"), recorded)
    /\ \A p \in UnderWay : Tells(call, caller[p].snapshot, <<p>> \o recorded)
    /\ \A p \in Callers :
         /\ caller[p].pc = "write" => caller[p].fd = snapshots.temp /\ ~contents[snapshots.temp].whole
         /\ caller[p].pc = "replace" => contents[snapshots.temp] = caller[p].snapshot

\* The calls recorded up to p, newest first.
Since(list, p) == SubSeq(list, CHOOSE i \in DOMAIN list : list[i] = p, Len(list))

ToldTruth ==
  /\ told = [p \in Callers |-> told[p]]
  /\ ~overlapped => \A p \in Callers : told[p] # "nothing" =>
       /\ p \in ToSet(recorded)
       /\ told[p] = Health(CallsIn(call, "query", Since(recorded, p)), CallsIn(call, "index", Since(recorded, p)), p)

TellInv == SumsHold /\ FilesApart /\ RecordedOnce /\ LiveTells /\ ToldTruth

LEMMA SinceFacts ==
  ASSUME NEW list \in Seq(Callers), IsInjective(list), NEW p \in Callers, p \notin ToSet(list)
  PROVE  /\ <<p>> \o list \in Seq(Callers) /\ IsInjective(<<p>> \o list)
         /\ ToSet(<<p>> \o list) = ToSet(list) \cup {p}
         /\ Since(<<p>> \o list, p) = <<p>> \o list
         /\ \A q \in ToSet(list) : Since(<<p>> \o list, q) = Since(list, q)
<1> DEFINE new == <<p>> \o list
           n == Len(list)
<1>1. /\ new \in Seq(Callers) /\ Len(new) = n + 1 /\ n \in Nat /\ DOMAIN new = 1..(n + 1) /\ DOMAIN list = 1..n
      /\ new[1] = p /\ \A i \in 1..n : new[i + 1] = list[i] /\ list[i] \in Callers
  OBVIOUS
<1>2. IsInjective(new) /\ ToSet(new) \subseteq ToSet(list) \cup {p}
  BY PrependFacts
<1> HIDE DEF new, n
<1>3. ToSet(list) \cup {p} \subseteq ToSet(new)
  <2>1. 1 \in 1..(n + 1) /\ \A i \in 1..n : i + 1 \in 1..(n + 1)
    BY <1>1
  <2> QED BY <1>1, <2>1 DEF ToSet
<1>4. Since(new, p) = new
  <2>1. \A i \in 1..(n + 1) : new[i] = p => i = 1
    BY <1>1, <1>2 DEF IsInjective
  <2>2. 1 \in 1..(n + 1)
    BY <1>1
  <2>3. (CHOOSE i \in DOMAIN new : new[i] = p) = 1
    BY <1>1, <2>1, <2>2
  <2>4. SubSeq(new, 1, Len(new)) = new
    BY <1>1
  <2> QED BY <2>3, <2>4 DEF Since
<1>5. ASSUME NEW q \in ToSet(list) PROVE Since(new, q) = Since(list, q)
  <2>1. PICK k \in 1..n : list[k] = q
    BY <1>1 DEF ToSet
  <2>2. \A i \in 1..n : list[i] = q => i = k
    BY <1>1, <2>1 DEF IsInjective
  <2>3. k + 1 \in 1..(n + 1) /\ new[k + 1] = q
    BY <1>1, <2>1
  <2>4. \A i \in 1..(n + 1) : new[i] = q => i = k + 1
    BY <1>1, <1>2, <2>3 DEF IsInjective
  <2>5. (CHOOSE i \in DOMAIN list : list[i] = q) = k /\ (CHOOSE i \in DOMAIN new : new[i] = q) = k + 1
    BY <1>1, <2>1, <2>2, <2>3, <2>4
  <2> DEFINE a == SubSeq(list, k, n)
             b == SubSeq(new, k + 1, n + 1)
  <2>6. /\ a \in Seq(Callers) /\ Len(a) = n - k + 1 /\ \A j \in 1..(n - k + 1) : a[j] = list[k + j - 1]
        /\ b \in Seq(Callers) /\ Len(b) = n - k + 1 /\ \A j \in 1..(n - k + 1) : b[j] = new[k + j]
    <3>1. k \in Nat /\ 1 <= k /\ k <= n /\ Len(list) = n
      BY <1>1, <2>1 DEF n
    <3> QED BY <1>1, <3>1
  <2> HIDE DEF a, b
  <2>7. \A j \in 1..(n - k + 1) : a[j] = b[j]
    <3> SUFFICES ASSUME NEW j \in 1..(n - k + 1) PROVE a[j] = b[j]
      OBVIOUS
    <3>1. k + j - 1 \in 1..n /\ (k + j - 1) + 1 = k + j
      BY <1>1, <2>1
    <3>2. new[(k + j - 1) + 1] = list[k + j - 1]
      BY <1>1, <3>1
    <3> QED BY <2>6, <3>1, <3>2
  <2>8. a = b
    BY <2>6, <2>7, SeqEqual
  <2>9. Since(list, q) = a /\ Since(new, q) = b
    BY <1>1, <2>5 DEF Since, a, b, n
  <2> QED BY <2>8, <2>9
<1> QED BY <1>1, <1>2, <1>3, <1>4, <1>5 DEF new

\* Health goes by the newest calls alone.
LEMMA HealthOfNewest ==
  ASSUME NEW queries \in Seq(Callers), NEW runs \in Seq(Callers), NEW p \in Callers
  PROVE  Health(Newest(queries), Newest(runs), p) = Health(queries, runs, p)
<1>1. LatestOf(Newest(queries)) = LatestOf(queries) /\ LatestOf(Newest(runs)) = LatestOf(runs)
  BY NewestOfNewest
<1> QED BY <1>1 DEF Health

LEMMA HealthStays ==
  ASSUME call' = call, NEW queries, NEW runs, NEW p
  PROVE  Health(queries, runs, p)' = Health(queries, runs, p)
<1>1. ASSUME NEW latest PROVE QueryHealth(latest)' = QueryHealth(latest)
  BY DEF QueryHealth
<1>2. ASSUME NEW latest, NEW live PROVE IndexHealth(latest, live)' = IndexHealth(latest, live)
  BY DEF IndexHealth
<1> QED BY <1>1, <1>2 DEF Health

\* The file a call opens.
Opened(p) == IF snapshots.temp = NoSnapshot THEN <<p>> ELSE snapshots.temp

\* What each step does to the call and to the files.
LEMMA StepEffects ==
  ASSUME MetricsType, NEW p \in Callers
  PROVE  /\ Load(p) =>
              /\ GoesTo(p, "open", Recorded(SnapshotIn("live"), p), caller[p].fd)
              /\ UNCHANGED <<snapshots, contents, told, recorded>>
         /\ OpenSnapshot(p) =>
              /\ GoesTo(p, "write", caller[p].snapshot, Opened(p))
              /\ Opened(p) \in SnapshotFiles /\ snapshots'.live = snapshots.live /\ snapshots'.temp = Opened(p)
              /\ contents'[Opened(p)] = Broken
              /\ \A i \in SnapshotFiles : i # Opened(p) => contents'[i] = contents[i]
              /\ UNCHANGED <<told, recorded, overlapped>>
         /\ WriteSnapshot(p) =>
              /\ GoesTo(p, "replace", caller[p].snapshot, caller[p].fd)
              /\ \A i \in SnapshotFiles :
                   /\ i # caller[p].fd => contents'[i] = contents[i]
                   /\ i = caller[p].fd => contents'[i] \in {caller[p].snapshot, Broken}
                   /\ i = caller[p].fd /\ ~contents[i].whole => contents'[i] = caller[p].snapshot
              /\ UNCHANGED <<snapshots, told, recorded, overlapped>>
         /\ ReplaceSnapshot(p) =>
              /\ GoesTo(p, "done", caller[p].snapshot, caller[p].fd)
              /\ snapshots'.live = snapshots.temp /\ snapshots'.temp = NoSnapshot
              /\ recorded' = <<p>> \o recorded /\ UNCHANGED <<contents, overlapped>>
         /\ ReplaceFails(p) =>
              /\ \E pc \in {"done", "failed"} : GoesTo(p, pc, caller[p].snapshot, caller[p].fd)
              /\ snapshots.temp = NoSnapshot /\ UNCHANGED <<snapshots, contents, told, recorded, overlapped>>
         /\ Die(p) =>
              /\ GoesTo(p, "dead", caller[p].snapshot, caller[p].fd)
              /\ UNCHANGED <<snapshots, contents, told, recorded, overlapped>>
<1> DEFINE s == caller[p].snapshot
           fd == caller[p].fd
<1>0. /\ snapshots = [live |-> snapshots.live, temp |-> snapshots.temp]
      /\ snapshots.live \in MetricsFiles /\ snapshots.temp \in MetricsFiles
      /\ contents = [i \in SnapshotFiles |-> contents[i]]
  BY DEF MetricsType
<1>1. ASSUME Load(p)
      PROVE  /\ GoesTo(p, "open", Recorded(SnapshotIn("live"), p), fd)
             /\ UNCHANGED <<snapshots, contents, told, recorded>>
  <2> DEFINE r == Recorded(SnapshotIn("live"), p)
  <2>1. caller' = [caller EXCEPT ![p].pc = "open", ![p].snapshot = r] /\ UNCHANGED <<snapshots, contents, told, recorded>>
    BY <1>1 DEF Load
  <2> HIDE DEF r
  <2>2. GoesTo(p, "open", r, fd)
    BY <2>1, GoesOnBy
  <2> QED BY <2>1, <2>2 DEF r
<1>2. ASSUME OpenSnapshot(p)
      PROVE  /\ GoesTo(p, "write", s, Opened(p))
             /\ Opened(p) \in SnapshotFiles /\ snapshots'.live = snapshots.live /\ snapshots'.temp = Opened(p)
             /\ contents'[Opened(p)] = Broken
             /\ \A i \in SnapshotFiles : i # Opened(p) => contents'[i] = contents[i]
             /\ UNCHANGED <<told, recorded, overlapped>>
  <2>1. Opened(p) \in SnapshotFiles
    BY <1>0 DEF Opened, MetricsFiles, SnapshotFiles
  <2>2. /\ snapshots' = [snapshots EXCEPT !.temp = Opened(p)]
        /\ contents' = [contents EXCEPT ![Opened(p)] = Broken]
        /\ caller' = [caller EXCEPT ![p].pc = "write", ![p].fd = Opened(p)]
        /\ UNCHANGED <<told, recorded, overlapped>>
    BY <1>2 DEF OpenSnapshot, Opened, TempName
  <2> DEFINE inode == Opened(p)
  <2> HIDE DEF inode
  <2>3. /\ inode \in SnapshotFiles /\ snapshots' = [snapshots EXCEPT !.temp = inode]
        /\ contents' = [contents EXCEPT ![inode] = Broken]
        /\ caller' = [caller EXCEPT ![p].pc = "write", ![p].fd = inode]
    BY <2>1, <2>2 DEF inode
  <2>4. GoesTo(p, "write", s, inode)
    BY <2>3, GoesOnBy
  <2>5. /\ snapshots'.live = snapshots.live /\ snapshots'.temp = inode
        /\ contents'[inode] = Broken /\ \A i \in SnapshotFiles : i # inode => contents'[i] = contents[i]
    BY <1>0, <2>3
  <2> QED BY <2>2, <2>3, <2>4, <2>5 DEF inode
<1>3. ASSUME WriteSnapshot(p)
      PROVE  /\ GoesTo(p, "replace", s, fd)
             /\ \A i \in SnapshotFiles :
                  /\ i # fd => contents'[i] = contents[i]
                  /\ i = fd => contents'[i] \in {s, Broken}
                  /\ i = fd /\ ~contents[i].whole => contents'[i] = s
             /\ UNCHANGED <<snapshots, told, recorded, overlapped>>
  <2>1. PICK left \in {s} \cup (IF contents[fd].whole THEN {Broken} ELSE {}) :
          contents' = [contents EXCEPT ![fd] = left]
    BY <1>3 DEF WriteSnapshot
  <2>2. left \in {s, Broken} /\ (~contents[fd].whole => left = s)
    OBVIOUS
  <2>3. GoesTo(p, "replace", s, fd)
    BY <1>3, GoesOnBy DEF WriteSnapshot
  <2>4. UNCHANGED <<snapshots, told, recorded, overlapped>>
    BY <1>3 DEF WriteSnapshot
  <2> HIDE DEF s, fd
  <2>5. \A i \in SnapshotFiles : contents'[i] = IF i = fd THEN left ELSE contents[i]
    BY <1>0, <2>1
  <2> QED BY <2>2, <2>3, <2>4, <2>5
<1>4. ASSUME ReplaceSnapshot(p)
      PROVE  /\ GoesTo(p, "done", s, fd)
             /\ snapshots'.live = snapshots.temp /\ snapshots'.temp = NoSnapshot
             /\ recorded' = <<p>> \o recorded /\ UNCHANGED <<contents, overlapped>>
  <2>1. /\ snapshots' = [snapshots EXCEPT !.live = snapshots.temp, !.temp = NoSnapshot]
        /\ recorded' = <<p>> \o recorded /\ UNCHANGED <<contents, overlapped>>
        /\ caller' = [caller EXCEPT ![p].pc = "done"]
    BY <1>4 DEF ReplaceSnapshot, TempName
  <2>2. snapshots'.live = snapshots.temp /\ snapshots'.temp = NoSnapshot
    BY <1>0, <2>1
  <2>3. GoesTo(p, "done", s, fd)
    BY <2>1, GoesOnBy
  <2> QED BY <2>1, <2>2, <2>3
<1>5. ASSUME ReplaceFails(p)
      PROVE  /\ \E pc \in {"done", "failed"} : GoesTo(p, pc, s, fd)
             /\ snapshots.temp = NoSnapshot /\ UNCHANGED <<snapshots, contents, told, recorded, overlapped>>
  <2> DEFINE pc == IF call[p].kind = "index" THEN "done" ELSE "failed"
  <2>1. /\ caller' = [caller EXCEPT ![p].pc = pc] /\ snapshots.temp = NoSnapshot
        /\ UNCHANGED <<snapshots, contents, told, recorded, overlapped>>
    BY <1>5 DEF ReplaceFails, TempName
  <2>2. pc \in {"done", "failed"}
    OBVIOUS
  <2> HIDE DEF pc
  <2>3. GoesTo(p, pc, s, fd)
    BY <2>1, GoesOnBy
  <2> QED BY <2>1, <2>2, <2>3
<1>6. ASSUME Die(p)
      PROVE  GoesTo(p, "dead", s, fd) /\ UNCHANGED <<snapshots, contents, told, recorded, overlapped>>
  BY <1>6, GoesOnBy DEF Die
<1> QED BY <1>1, <1>2, <1>3, <1>4, <1>5, <1>6

LEMMA SumsHoldOn ==
  ASSUME MetricsInv, SumsHold, NEW p \in Callers,
         \/ Load(p) \/ OpenSnapshot(p) \/ WriteSnapshot(p)
         \/ ReplaceSnapshot(p) \/ ReplaceFails(p) \/ Die(p)
  PROVE  SumsHold'
<1>1. MetricsType /\ call' = call
  BY DEF MetricsInv, Load, OpenSnapshot, WriteSnapshot, ReplaceSnapshot, ReplaceFails, Die
<1>2. SumsUp(call, SnapshotIn("live"))
  <2>1. CASE snapshots["live"] = NoSnapshot \/ ~contents[snapshots["live"]].whole
    BY <2>1, EmptyTells DEF SnapshotIn
  <2>2. CASE ~(snapshots["live"] = NoSnapshot \/ ~contents[snapshots["live"]].whole)
    <3>1. snapshots["live"] \in SnapshotFiles /\ SnapshotIn("live") = contents[snapshots["live"]]
      BY <1>1, <2>2 DEF MetricsType, MetricsFiles, SnapshotIn
    <3> QED BY <2>2, <3>1 DEF SumsHold
  <2> QED BY <2>1, <2>2
<1>3. \E pc, s, fd : GoesTo(p, pc, s, fd) /\ SumsUp(call, s)
  <2>1. CASE Load(p)
    <3> DEFINE r == Recorded(SnapshotIn("live"), p)
    <3>1. SumsUp(call, r)
      <4>1. SnapshotBy(Started, SnapshotIn("live")) /\ Started \in SUBSET Callers
        BY <1>1, ReadIsBy DEF Started
      <4> QED BY <1>2, <4>1, SumsGrow DEF SumsHold
    <3>2. GoesTo(p, "open", r, caller[p].fd)
      BY <1>1, <2>1, StepEffects
    <3> HIDE DEF r
    <3> QED BY <3>1, <3>2
  <2>2. CASE ~Load(p)
    <3>1. SumsUp(call, caller[p].snapshot)
      BY DEF SumsHold
    <3>2. \E pc, fd : GoesTo(p, pc, caller[p].snapshot, fd)
      BY <1>1, <2>2, StepEffects
    <3> QED BY <3>1, <3>2
  <2> QED BY <2>1, <2>2
<1>4. \A q \in Callers : SumsUp(call, caller'[q].snapshot)
  <2>1. PICK pc, s, fd : GoesTo(p, pc, s, fd) /\ SumsUp(call, s)
    BY <1>3
  <2>2. \A q \in Callers : caller'[q].snapshot = IF q = p THEN s ELSE caller[q].snapshot
    BY <2>1 DEF GoesTo
  <2> QED BY <2>1, <2>2 DEF SumsHold
<1>5. ASSUME NEW i \in SnapshotFiles, contents'[i].whole
      PROVE  SumsUp(call, contents'[i])
  <2>1. contents'[i] \in {contents[i], Broken, caller[p].snapshot}
    BY <1>1, StepEffects
  <2>2. ~Broken.whole
    BY DEF Broken
  <2> QED BY <1>5, <2>1, <2>2 DEF SumsHold
<1> QED BY <1>1, <1>4, <1>5 DEF SumsHold

LEMMA FilesStayApart ==
  ASSUME MetricsInv, FilesApart, NEW p \in Callers,
         \/ Load(p) \/ OpenSnapshot(p) \/ WriteSnapshot(p)
         \/ ReplaceSnapshot(p) \/ ReplaceFails(p) \/ Die(p)
  PROVE  FilesApart'
<1>1. MetricsType
  BY DEF MetricsInv
<1>2. CASE Load(p) \/ WriteSnapshot(p) \/ ReplaceFails(p) \/ Die(p)
  <2>1. /\ snapshots' = snapshots
        /\ \A q \in Callers : caller'[q].pc \in {"load", "open"} => caller[q].pc \in {"load", "open"}
    <3>1. Load(p) => caller[p].pc = "load"
      BY DEF Load
    <3>2. /\ snapshots' = snapshots
          /\ \E pc, s, fd : GoesTo(p, pc, s, fd) /\ (pc \in {"load", "open"} => Load(p))
      <4>1. ASSUME Load(p)
            PROVE  snapshots' = snapshots /\ \E s, fd : GoesTo(p, "open", s, fd)
        BY <1>1, <4>1, StepEffects
      <4>2. ASSUME WriteSnapshot(p)
            PROVE  snapshots' = snapshots /\ \E s, fd : GoesTo(p, "replace", s, fd)
        BY <1>1, <4>2, StepEffects
      <4>3. ASSUME ReplaceFails(p)
            PROVE  snapshots' = snapshots /\ \E pc \in {"done", "failed"} : \E s, fd : GoesTo(p, pc, s, fd)
        <5>1. snapshots' = snapshots /\ \E pc \in {"done", "failed"} : GoesTo(p, pc, caller[p].snapshot, caller[p].fd)
          BY <1>1, <4>3, StepEffects
        <5> QED BY <5>1
      <4>4. ASSUME Die(p)
            PROVE  snapshots' = snapshots /\ \E s, fd : GoesTo(p, "dead", s, fd)
        BY <1>1, <4>4, StepEffects
      <4> QED BY <1>2, <4>1, <4>2, <4>3, <4>4
    <3>3. PICK pc, s, fd : GoesTo(p, pc, s, fd) /\ (pc \in {"load", "open"} => Load(p))
      BY <3>2
    <3>4. caller'[p].pc = pc /\ \A q \in Callers : q # p => caller'[q] = caller[q]
      BY <3>3 DEF GoesTo
    <3> QED BY <3>1, <3>2, <3>3, <3>4
  <2> QED BY <2>1 DEF FilesApart
<1>3. CASE OpenSnapshot(p)
  <2>1. /\ snapshots'.live = snapshots.live /\ snapshots'.temp = Opened(p)
        /\ caller'[p].pc = "write" /\ \A q \in Callers : q # p => caller'[q] = caller[q]
    <3>1. /\ snapshots'.live = snapshots.live /\ snapshots'.temp = Opened(p)
          /\ GoesTo(p, "write", caller[p].snapshot, Opened(p))
      BY <1>1, <1>3, StepEffects
    <3> QED BY <3>1 DEF GoesTo
  <2>2. caller[p].pc = "open"
    BY <1>3 DEF OpenSnapshot
  <2>3. Opened(p) # snapshots.live
    BY <2>2 DEF FilesApart, Opened
  <2>4. ASSUME NEW q \in Callers, caller'[q].pc \in {"load", "open"}
        PROVE  snapshots'.live # <<q>> /\ snapshots'.temp # <<q>>
    <3>1. q # p /\ caller[q].pc \in {"load", "open"}
      BY <2>1, <2>4
    <3>2. <<p>> # <<q>>
      BY <3>1
    <3> QED BY <2>1, <3>1, <3>2 DEF FilesApart, Opened
  <2> QED BY <2>1, <2>3, <2>4 DEF FilesApart
<1>4. CASE ReplaceSnapshot(p)
  <2>1. /\ snapshots'.live = snapshots.temp /\ snapshots'.temp = NoSnapshot
        /\ caller'[p].pc = "done" /\ \A q \in Callers : q # p => caller'[q] = caller[q]
    <3>1. /\ snapshots'.live = snapshots.temp /\ snapshots'.temp = NoSnapshot
          /\ GoesTo(p, "done", caller[p].snapshot, caller[p].fd)
      BY <1>1, <1>4, StepEffects
    <3> QED BY <3>1 DEF GoesTo
  <2>2. \A q : NoSnapshot # <<q>>
    BY DEF NoSnapshot
  <2> QED BY <2>1, <2>2 DEF FilesApart
<1> QED BY <1>2, <1>3, <1>4

LEMMA RecordedOnceOn ==
  ASSUME MetricsInv, RecordedOnce, NEW p \in Callers,
         \/ Load(p) \/ OpenSnapshot(p) \/ WriteSnapshot(p)
         \/ ReplaceSnapshot(p) \/ ReplaceFails(p) \/ Die(p)
  PROVE  RecordedOnce'
<1>1. MetricsType /\ recorded \in Seq(Callers)
  BY DEF MetricsInv, Alone
<1>2. caller[p].pc # "done" /\ p \notin ToSet(recorded)
  <2>1. caller[p].pc # "done"
    BY DEF Load, OpenSnapshot, WriteSnapshot, ReplaceSnapshot, ReplaceFails, Die, UnderWay
  <2> QED BY <2>1 DEF RecordedOnce
<1>3. CASE ReplaceSnapshot(p)
  <2>1. recorded' = <<p>> \o recorded /\ GoesTo(p, "done", caller[p].snapshot, caller[p].fd)
    BY <1>1, <1>3, StepEffects
  <2>2. caller'[p].pc = "done" /\ \A q \in Callers : q # p => caller'[q] = caller[q]
    BY <2>1 DEF GoesTo
  <2>3. IsInjective(recorded') /\ ToSet(recorded') = ToSet(recorded) \cup {p}
    BY <1>1, <1>2, <2>1, SinceFacts DEF RecordedOnce
  <2> QED BY <2>2, <2>3 DEF RecordedOnce
<1>4. CASE ~ReplaceSnapshot(p)
  <2>1. recorded' = recorded
    BY <1>4 DEF Load, OpenSnapshot, WriteSnapshot, ReplaceFails, Die
  <2>2. \A q \in Callers : q # p => caller'[q] = caller[q]
    BY <1>1, <1>4 DEF MetricsType, Load, OpenSnapshot, WriteSnapshot, ReplaceFails, Die
  <2> QED BY <1>2, <2>1, <2>2 DEF RecordedOnce
<1> QED BY <1>3, <1>4

LEMMA ToldStaysTrue ==
  ASSUME MetricsInv, RecordedOnce, LiveTells, ToldTruth, NEW p \in Callers,
         \/ Load(p) \/ OpenSnapshot(p) \/ WriteSnapshot(p)
         \/ ReplaceSnapshot(p) \/ ReplaceFails(p) \/ Die(p)
  PROVE  ToldTruth'
<1> DEFINE HealthAt(list, q) == Health(CallsIn(call, "query", Since(list, q)), CallsIn(call, "index", Since(list, q)), q)
<1>1. /\ MetricsType /\ recorded \in Seq(Callers) /\ call' = call /\ (overlapped => overlapped')
      /\ told = [q \in Callers |-> told[q]]
  BY DEF MetricsInv, Alone, ToldTruth, Load, OpenSnapshot, WriteSnapshot, ReplaceSnapshot, ReplaceFails, Die
<1>2. ~overlapped => \A q \in Callers : told[q] # "nothing" => q \in ToSet(recorded) /\ told[q] = HealthAt(recorded, q)
  BY DEF ToldTruth
<1>3. SUFFICES /\ told' = [q \in Callers |-> told'[q]]
               /\ ~overlapped' => \A q \in Callers : told'[q] # "nothing" =>
                    q \in ToSet(recorded') /\ told'[q] = HealthAt(recorded', q)
  BY <1>1, HealthStays DEF ToldTruth
<1> HIDE DEF HealthAt
<1>4. CASE ~ReplaceSnapshot(p)
  <2>1. UNCHANGED <<told, recorded>>
    BY <1>4 DEF Load, OpenSnapshot, WriteSnapshot, ReplaceFails, Die
  <2> QED BY <1>1, <1>2, <2>1
<1>5. CASE ReplaceSnapshot(p)
  <2> DEFINE s == caller[p].snapshot
             h == IF call[p].kind # "status" THEN told[p] ELSE Health(s.recent.query, s.recent.index, p)
  <2>1. /\ recorded' = <<p>> \o recorded /\ overlapped' = overlapped /\ caller[p].pc = "replace"
        /\ told' = [told EXCEPT ![p] = h]
    BY <1>5 DEF ReplaceSnapshot
  <2>2. told' = [q \in Callers |-> told'[q]] /\ \A q \in Callers : told'[q] = IF q = p THEN h ELSE told[q]
    <3> HIDE DEF h
    <3> QED BY <1>1, <2>1
  <2>3. p \notin ToSet(recorded)
    BY <2>1 DEF RecordedOnce
  <2>4. /\ recorded' \in Seq(Callers) /\ ToSet(recorded') = ToSet(recorded) \cup {p}
        /\ Since(recorded', p) = recorded'
        /\ \A q \in ToSet(recorded) : Since(recorded', q) = Since(recorded, q)
    BY <1>1, <2>1, <2>3, SinceFacts DEF RecordedOnce
  <2>5. ASSUME ~overlapped, h # "nothing"
        PROVE  h = HealthAt(recorded', p)
    <3>1. call[p].kind = "status"
      BY <1>2, <2>3, <2>5
    <3>2. p \in UnderWay
      BY <2>1 DEF UnderWay
    <3> DEFINE queries == CallsIn(call, "query", recorded')
               runs == CallsIn(call, "index", recorded')
    <3>3. s.recent["query"] = Newest(queries) /\ s.recent["index"] = Newest(runs)
      BY <2>1, <2>5, <3>2 DEF LiveTells, Tells, Listed
    <3>4. queries \in Seq(Callers) /\ runs \in Seq(Callers)
      BY <2>4, CallsOfMore
    <3>5. h = Health(Newest(queries), Newest(runs), p)
      BY <3>1, <3>3
    <3> HIDE DEF h, queries, runs
    <3>6. h = Health(queries, runs, p)
      BY <3>4, <3>5, HealthOfNewest
    <3> QED BY <2>4, <3>6 DEF HealthAt, queries, runs
  <2>6. ASSUME ~overlapped, NEW q \in Callers, q # p, told[q] # "nothing"
        PROVE  q \in ToSet(recorded') /\ told[q] = HealthAt(recorded', q)
    <3>1. q \in ToSet(recorded) /\ told[q] = HealthAt(recorded, q)
      BY <1>2, <2>6
    <3>2. HealthAt(recorded', q) = HealthAt(recorded, q)
      BY <2>4, <3>1 DEF HealthAt
    <3> QED BY <2>4, <3>1, <3>2
  <2> HIDE DEF h
  <2> QED BY <2>1, <2>2, <2>4, <2>5, <2>6
<1> QED BY <1>4, <1>5

LEMMA LiveTellsOn ==
  ASSUME MetricsInv, SumsHold, FilesApart, LiveTells, NEW p \in Callers,
         \/ Load(p) \/ OpenSnapshot(p) \/ WriteSnapshot(p)
         \/ ReplaceSnapshot(p) \/ ReplaceFails(p) \/ Die(p)
  PROVE  LiveTells'
<1> SUFFICES ASSUME ~overlapped'
             PROVE  /\ Tells(call, SnapshotIn("live")', recorded')
                    /\ \A q \in UnderWay' : Tells(call, caller'[q].snapshot, <<q>> \o recorded')
                    /\ \A q \in Callers :
                         /\ caller'[q].pc = "write" =>
                              caller'[q].fd = snapshots'.temp /\ ~contents'[snapshots'.temp].whole
                         /\ caller'[q].pc = "replace" => contents'[snapshots'.temp] = caller'[q].snapshot
  <2>1. call' = call
    BY DEF Load, OpenSnapshot, WriteSnapshot, ReplaceSnapshot, ReplaceFails, Die
  <2> QED BY <2>1 DEF LiveTells
<1>1. /\ MetricsType /\ recorded \in Seq(Callers) /\ ~overlapped
      /\ \A q, r \in UnderWay : q = r
      /\ \A q \in Callers : caller[q].pc \in {"write", "replace"} => snapshots.temp # NoSnapshot
  <2>1. ~overlapped
    BY DEF Load, OpenSnapshot, WriteSnapshot, ReplaceSnapshot, ReplaceFails, Die
  <2> QED BY <2>1 DEF MetricsInv, Alone
<1>2. /\ Tells(call, SnapshotIn("live"), recorded)
      /\ \A q \in UnderWay : Tells(call, caller[q].snapshot, <<q>> \o recorded)
      /\ \A q \in Callers :
           /\ caller[q].pc = "write" => caller[q].fd = snapshots.temp /\ ~contents[snapshots.temp].whole
           /\ caller[q].pc = "replace" => contents[snapshots.temp] = caller[q].snapshot
  BY <1>1 DEF LiveTells
<1>3. /\ snapshots.live \in MetricsFiles /\ snapshots.temp \in MetricsFiles
      /\ snapshots.temp # NoSnapshot => snapshots.temp \in SnapshotFiles /\ snapshots.temp # snapshots.live
  BY <1>1 DEF MetricsType, MetricsFiles, FilesApart
\* The snapshot in place is as it was.
<1>4. ASSUME snapshots'.live = snapshots.live,
             snapshots.live \in SnapshotFiles => contents'[snapshots.live] = contents[snapshots.live]
      PROVE  SnapshotIn("live")' = SnapshotIn("live")
  <2>1. snapshots["live"] = NoSnapshot \/ snapshots["live"] \in SnapshotFiles
    BY <1>3 DEF MetricsFiles
  <2> QED BY <1>4, <2>1 DEF SnapshotIn
\* The only call under way is p.
<1>5. ASSUME NEW pc, NEW s, NEW fd, GoesTo(p, pc, s, fd), p \in UnderWay
      PROVE  /\ caller'[p].pc = pc /\ caller'[p].snapshot = s /\ caller'[p].fd = fd
             /\ \A q \in Callers : q # p => caller'[q].pc \notin {"write", "replace"}
             /\ UnderWay' = IF pc \in {"load", "done", "failed", "dead"} THEN {} ELSE {p}
  <2>1. /\ caller'[p].pc = pc /\ caller'[p].snapshot = s /\ caller'[p].fd = fd
        /\ \A q \in Callers : q # p => caller'[q] = caller[q]
    BY <1>5 DEF GoesTo
  <2>2. \A q \in Callers : q # p => caller[q].pc \in {"load", "done", "failed", "dead"}
    BY <1>1, <1>5 DEF UnderWay
  <2> QED BY <2>1, <2>2 DEF UnderWay
<1>6. CASE Load(p)
  <2> DEFINE r == Recorded(SnapshotIn("live"), p)
  <2>1. UnderWay = {} /\ caller[p].pc = "load"
    BY <1>6 DEF Load
  <2>2. GoesTo(p, "open", r, caller[p].fd) /\ UNCHANGED <<snapshots, contents, recorded>>
    BY <1>1, <1>6, StepEffects
  <2>3. Tells(call, r, <<p>> \o recorded)
    <3>1. SnapshotBy(Started, SnapshotIn("live")) /\ Started \in SUBSET Callers /\ KnownCalls(call)
      BY <1>1, ReadIsBy DEF Started, SumsHold
    <3> QED BY <1>1, <1>2, <3>1, TellsMore
  <2> HIDE DEF r
  <2>4. /\ caller'[p].pc = "open" /\ caller'[p].snapshot = r
        /\ \A q \in Callers : q # p => caller'[q] = caller[q]
    BY <2>2 DEF GoesTo
  <2>5. /\ \A q \in Callers : caller'[q].pc \notin {"write", "replace"}
        /\ UnderWay' \subseteq {p}
    BY <2>1, <2>4 DEF UnderWay
  <2>6. SnapshotIn("live")' = SnapshotIn("live")
    BY <1>4, <2>2
  <2> QED BY <1>2, <2>2, <2>3, <2>4, <2>5, <2>6
<1>7. CASE OpenSnapshot(p)
  <2> DEFINE s == caller[p].snapshot
  <2>1. /\ GoesTo(p, "write", s, Opened(p)) /\ p \in UnderWay
        /\ snapshots'.live = snapshots.live /\ snapshots'.temp = Opened(p)
        /\ contents'[Opened(p)] = Broken
        /\ \A i \in SnapshotFiles : i # Opened(p) => contents'[i] = contents[i]
        /\ recorded' = recorded
    BY <1>1, <1>7, StepEffects DEF OpenSnapshot, UnderWay
  <2>2. Opened(p) # snapshots.live
    BY <1>3, <1>7 DEF Opened, OpenSnapshot, FilesApart
  <2>3. SnapshotIn("live")' = SnapshotIn("live")
    BY <1>4, <2>1, <2>2
  <2> HIDE DEF s
  <2>4. /\ caller'[p].pc = "write" /\ caller'[p].snapshot = s /\ caller'[p].fd = Opened(p)
        /\ \A q \in Callers : q # p => caller'[q].pc \notin {"write", "replace"}
        /\ UnderWay' = {p}
    BY <1>5, <2>1
  <2>5. ~Broken.whole
    BY DEF Broken
  <2> QED BY <1>2, <2>1, <2>3, <2>4, <2>5 DEF s
<1>8. CASE WriteSnapshot(p)
  <2> DEFINE s == caller[p].snapshot
             fd == caller[p].fd
  <2>1. caller[p].pc = "write" /\ p \in UnderWay
    BY <1>8 DEF WriteSnapshot, UnderWay
  <2>2. fd = snapshots.temp /\ ~contents[fd].whole /\ fd \in SnapshotFiles /\ fd # snapshots.live
    BY <1>1, <1>2, <1>3, <2>1
  <2>3. /\ GoesTo(p, "replace", s, fd) /\ UNCHANGED <<snapshots, recorded>>
        /\ contents'[fd] = s /\ \A i \in SnapshotFiles : i # fd => contents'[i] = contents[i]
    <3>1. /\ GoesTo(p, "replace", s, fd) /\ UNCHANGED <<snapshots, recorded>>
          /\ \A i \in SnapshotFiles :
               /\ i # fd => contents'[i] = contents[i]
               /\ i = fd /\ ~contents[i].whole => contents'[i] = s
      BY <1>1, <1>8, StepEffects
    <3> QED BY <2>2, <3>1
  <2>4. SnapshotIn("live")' = SnapshotIn("live")
    BY <1>4, <2>2, <2>3
  <2> HIDE DEF s, fd
  <2>5. /\ caller'[p].pc = "replace" /\ caller'[p].snapshot = s /\ caller'[p].fd = fd
        /\ \A q \in Callers : q # p => caller'[q].pc \notin {"write", "replace"}
        /\ UnderWay' = {p}
    BY <1>5, <2>1, <2>3
  <2> QED BY <1>2, <2>1, <2>2, <2>3, <2>4, <2>5 DEF s
<1>9. CASE ReplaceSnapshot(p)
  <2> DEFINE s == caller[p].snapshot
  <2>1. caller[p].pc = "replace" /\ p \in UnderWay
    BY <1>9 DEF ReplaceSnapshot, UnderWay
  <2>2. /\ GoesTo(p, "done", s, caller[p].fd) /\ snapshots'.live = snapshots.temp
        /\ recorded' = <<p>> \o recorded /\ contents' = contents
    BY <1>1, <1>9, StepEffects
  <2>3. SnapshotIn("live")' = s
    <3>1. snapshots.temp # NoSnapshot /\ contents[snapshots.temp] = s
      BY <1>1, <1>2, <2>1
    <3>2. s.whole = TRUE
      BY <1>1 DEF MetricsType, CallerShape, SnapshotBy
    <3>3. snapshots'["live"] = snapshots.temp
      BY <2>2
    <3> HIDE DEF s
    <3> QED BY <2>2, <3>1, <3>2, <3>3 DEF SnapshotIn
  <2>4. Tells(call, s, <<p>> \o recorded)
    BY <1>2, <2>1
  <2> HIDE DEF s
  <2>5. UnderWay' = {} /\ \A q \in Callers : caller'[q].pc \notin {"write", "replace"}
    BY <1>5, <2>1, <2>2
  <2> QED BY <2>2, <2>3, <2>4, <2>5
<1>10. CASE ReplaceFails(p)
  <2>1. caller[p].pc = "replace" /\ snapshots.temp = NoSnapshot
    BY <1>10 DEF ReplaceFails, TempName
  <2> QED BY <1>1, <2>1
<1>11. CASE Die(p)
  <2> DEFINE s == caller[p].snapshot
  <2>1. GoesTo(p, "dead", s, caller[p].fd) /\ UNCHANGED <<snapshots, contents, recorded>> /\ p \in UnderWay
    BY <1>1, <1>11, StepEffects DEF Die
  <2>2. SnapshotIn("live")' = SnapshotIn("live")
    BY <1>4, <2>1
  <2> HIDE DEF s
  <2>3. UnderWay' = {} /\ \A q \in Callers : caller'[q].pc \notin {"write", "replace"}
    BY <1>5, <2>1
  <2> QED BY <1>2, <2>1, <2>2, <2>3
<1> QED BY <1>6, <1>7, <1>8, <1>9, <1>10, <1>11

LEMMA InitTellInv == MetricsInit => TellInv
<1> SUFFICES ASSUME MetricsInit PROVE TellInv
  OBVIOUS
<1>1. /\ \A p \in Callers : caller[p] = Waiting /\ caller[p].pc = "load" /\ caller[p].snapshot = EmptySnapshot
      /\ snapshots.live = NoSnapshot /\ snapshots.temp = NoSnapshot
      /\ \A i \in SnapshotFiles : ~contents[i].whole
      /\ told = [p \in Callers |-> "nothing"] /\ recorded = <<>>
  BY DEF MetricsInit, Waiting, Broken
<1>2. SumsHold
  <2>1. KnownCalls(call)
    BY ObservabilityAssumption DEF MetricsInit, KnownCalls
  <2> QED BY <1>1, <2>1, EmptyTells DEF SumsHold
<1>3. FilesApart
  <2>1. \A p : NoSnapshot # <<p>>
    BY DEF NoSnapshot
  <2> QED BY <1>1, <2>1 DEF FilesApart
<1>4. RecordedOnce
  BY <1>1 DEF RecordedOnce, IsInjective, ToSet
<1>5. LiveTells
  <2>1. SnapshotIn("live") = EmptySnapshot /\ UnderWay = {}
    BY <1>1 DEF SnapshotIn, UnderWay
  <2> QED BY <1>1, <2>1, EmptyTells DEF LiveTells
<1>6. ToldTruth
  BY <1>1 DEF ToldTruth
<1> QED BY <1>2, <1>3, <1>4, <1>5, <1>6 DEF TellInv

LEMMA TellInvHolds == MetricsSpec => []TellInv
<1>1. MetricsInv /\ TellInv /\ [MetricsNext]_metricVars => TellInv'
  <2> SUFFICES ASSUME MetricsInv, TellInv, [MetricsNext]_metricVars PROVE TellInv'
    OBVIOUS
  <2>1. CASE MetricsNext
    <3>1. PICK p \in Callers : \/ Load(p) \/ OpenSnapshot(p) \/ WriteSnapshot(p)
                               \/ ReplaceSnapshot(p) \/ ReplaceFails(p) \/ Die(p)
      BY <2>1 DEF MetricsNext
    <3>2. SumsHold /\ FilesApart /\ RecordedOnce /\ LiveTells /\ ToldTruth
      BY DEF TellInv
    <3>3. SumsHold' /\ FilesApart'
      BY <3>1, <3>2, SumsHoldOn, FilesStayApart
    <3>4. RecordedOnce' /\ LiveTells' /\ ToldTruth'
      BY <3>1, <3>2, RecordedOnceOn, LiveTellsOn, ToldStaysTrue
    <3> QED BY <3>3, <3>4 DEF TellInv
  <2>2. CASE UNCHANGED metricVars
    <3>1. /\ UNCHANGED <<call, caller, snapshots, contents, told, recorded, overlapped>>
          /\ \A queries, runs, p : Health(queries, runs, p)' = Health(queries, runs, p)
      BY <2>2, HealthStays DEF metricVars
    <3>2. SnapshotIn("live")' = SnapshotIn("live")
      BY <3>1 DEF SnapshotIn
    <3>3. SumsHold' /\ FilesApart' /\ RecordedOnce'
      BY <3>1 DEF TellInv, SumsHold, FilesApart, RecordedOnce
    <3>4. LiveTells'
      BY <3>1, <3>2 DEF TellInv, LiveTells, UnderWay
    <3>5. ToldTruth'
      BY <3>1 DEF TellInv, ToldTruth
    <3> QED BY <3>3, <3>4, <3>5 DEF TellInv
  <2> QED BY <2>1, <2>2
<1> QED BY <1>1, InitTellInv, MetricsInvHolds, PTL DEF MetricsSpec

-----------------------------------------------------------------------------
\* Whatever writes over whatever: a snapshot that can be read lists no call
\* twice, and as many as it counts, up to the limit, and its totals are those
\* of the calls it lists as long as none has left the list.  While no two calls
\* overlap, wherever one is killed: none fails over the temporary file, the
\* snapshot in place counts every call that returned and no other, and a status
\* request is told the health of the newest query and index run (record_query_run,
\* record_index_run and collect_status over load_snapshot and save_snapshot, which
\* take no lock).
THEOREM SnapshotTellsRuns == MetricsSpec => []MetricsTellRuns
<1>1. MetricsInv /\ TellInv => MetricsTellRuns
  <2> SUFFICES ASSUME MetricsInv, TellInv PROVE MetricsTellRuns
    OBVIOUS
  <2>1. ASSUME NEW i \in SnapshotFiles, contents[i].whole
        PROVE  SnapshotAddsUp(contents[i])
    <3>1. SnapshotBy(Started, contents[i]) /\ SumsUp(call, contents[i])
      BY <2>1 DEF MetricsInv, MetricsType, Broken, TellInv, SumsHold
    <3>2. CountsOnce(contents[i])
      BY <3>1 DEF SnapshotBy
    <3>3. \A list, field : Total(list, field) = Amount(call, field, list)
      BY DEF Total, Amount
    <3> QED BY <3>1, <3>2, <3>3 DEF SnapshotAddsUp, SumsUp, Listed
  <2>2. CallsReturn
    BY DEF MetricsInv, Alone, CallsReturn
  <2>3. \A list : Queries(list) = CallsIn(call, "query", list) /\ Runs(list) = CallsIn(call, "index", list)
    BY DEF Queries, Runs, CallsOf, CallsIn
  <2>4. ASSUME ~overlapped
        PROVE  LET s == SnapshotIn("live")
               IN /\ s.recent.query = Newest(Queries(recorded)) /\ s.recent.index = Newest(Runs(recorded))
                  /\ s.times.query.count = Len(Queries(recorded)) /\ s.times.index.count = Len(Runs(recorded))
    <3>1. Tells(call, SnapshotIn("live"), recorded)
      BY <2>4 DEF TellInv, LiveTells
    <3> DEFINE s == SnapshotIn("live")
    <3> HIDE DEF s
    <3>2. /\ s.recent["query"] = Newest(Queries(recorded)) /\ s.recent["index"] = Newest(Runs(recorded))
          /\ s.times["query"].count = Len(Queries(recorded)) /\ s.times["index"].count = Len(Runs(recorded))
      BY <2>3, <3>1 DEF Tells, Listed, s
    <3> QED BY <3>2 DEF s
  <2>5. ASSUME ~overlapped, NEW p \in Callers, told[p] # "nothing"
        PROVE  told[p] = Health(Queries(Since(recorded, p)), Runs(Since(recorded, p)), p)
    BY <2>3, <2>5 DEF TellInv, ToldTruth
  <2> QED BY <2>1, <2>2, <2>4, <2>5 DEF MetricsTellRuns, Since
<1> QED BY <1>1, MetricsInvHolds, TellInvHolds, PTL
=============================================================================
