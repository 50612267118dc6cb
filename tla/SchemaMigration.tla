-------------------------- MODULE SchemaMigration --------------------------
(***************************************************************************)
(* migrate_sqlite_store (storage/sqlite_store.py): every process that      *)
(* opens a store first brings its schema to the latest version.  The plan  *)
(* is made before the write lock is taken, so other processes may create,  *)
(* migrate or remove the file in between; processes die and statements     *)
(* fail at any point.                                                      *)
(***************************************************************************)
EXTENDS Naturals, Sequences, FiniteSets, SequencesExt

CONSTANTS
  Migrators,  \* processes that open the store, again and again
  MaxFaults   \* bound: how many of them die or fail

ASSUME MigrationAssumption == MaxFaults \in Nat

VARIABLES
  store,    \* the path: which file it names, and all files it ever named
  migrator  \* migrator[p]: the invocation of p

migrationVars == <<store, migrator>>

Targets == {"baseline_metadata", "overlay_metadata", "jobs"}
Latest == "1.0.1"
NoVersion == "none"

-----------------------------------------------------------------------------
\* What the statements of a schema create, each with IF NOT EXISTS.
Schema(target) == IF target = "jobs" THEN {"tables"} ELSE {"tables", "fts"}
\* The steps of _MIGRATION_SPECS.
Steps(target) ==
  {[from |-> {NoVersion, "0.9.0"}, to |-> Latest, creates |-> Schema(target)],
   [from |-> {"1.0.0"}, to |-> Latest, creates |-> Schema(target) \ {"tables"}]}

AutoMajor(target) == target # "baseline_metadata"
Major(v) == IF v = NoVersion THEN "none" ELSE IF v = "0.9.0" THEN "0" ELSE "1"

\* Mutant: a store that exists is taken to be complete.
PendingForNewOnly(target, file) ==
  IF file.exists THEN {} ELSE {s \in Steps(target) : file.version \in s.from}

\* resolve_pending_steps.  Every step leads to the latest version.
Pending(target, file) ==
  IF file.version = Latest THEN {} ELSE {s \in Steps(target) : file.version \in s.from}

NeedsConfirmation(target, file) ==
  /\ file.exists /\ Pending(target, file) # {}
  /\ ~AutoMajor(target) /\ Major(file.version) # Major(Latest)

\* What readers find at the path; sqlite3.connect makes an empty file.
Absent == [exists |-> FALSE, version |-> NoVersion, parts |-> {}]
Empty == [Absent EXCEPT !.exists = TRUE]
Current == IF store.current = 0 THEN Absent ELSE store.files[store.current]

-----------------------------------------------------------------------------
IdleMigrator ==
  [pc |-> "idle", steps |-> {}, created |-> FALSE, file |-> 0, work |-> Empty]

\* plan_sqlite_migration: nothing calls it with confirm_major.
PlanMigration(p) ==
  /\ migrator[p].pc = "idle" /\ Pending(store.target, Current) # {}
  /\ ~NeedsConfirmation(store.target, Current)
  /\ migrator' = [migrator EXCEPT ![p].pc = "planned", ![p].steps = Pending(store.target, Current)]
  /\ UNCHANGED store

\* "created" is read after the plan, and both before the lock is taken.
CheckCreated(p) ==
  /\ migrator[p].pc = "planned"
  /\ migrator' = [migrator EXCEPT ![p].pc = "checked", ![p].created = ~Current.exists]
  /\ UNCHANGED store

ConnectStore(p) ==
  /\ migrator[p].pc = "checked"
  /\ LET files == IF Current.exists THEN store.files ELSE Append(store.files, Empty)
         file == IF Current.exists THEN store.current ELSE Len(files)
     IN /\ store' = [store EXCEPT !.files = files, !.current = file]
        /\ migrator' = [migrator EXCEPT ![p].pc = "connected", ![p].file = file]

Locked(file) == \E p \in Migrators : migrator[p].pc = "locked" /\ migrator[p].file = file

BeginImmediate(p) ==
  /\ migrator[p].pc = "connected" /\ ~Locked(migrator[p].file)
  /\ migrator' = [migrator EXCEPT ![p].pc = "locked", ![p].work = store.files[migrator[p].file]]
  /\ UNCHANGED store

\* Mutant: the statements are not part of the transaction.
ExecuteOutside(p) ==
  /\ migrator[p].pc = "locked"
  /\ \E s \in migrator[p].steps :
       /\ migrator' = [migrator EXCEPT ![p].steps = @ \ {s},
                         ![p].work.parts = @ \cup s.creates, ![p].work.version = s.to]
       /\ store' = [store EXCEPT !.files[migrator[p].file].parts = @ \cup s.creates]

\* One step: its statements, the version, the history row.
ExecuteStep(p) ==
  /\ migrator[p].pc = "locked"
  /\ \E s \in migrator[p].steps :
       migrator' = [migrator EXCEPT ![p].steps = @ \ {s},
                      ![p].work.parts = @ \cup s.creates, ![p].work.version = s.to]
  /\ UNCHANGED store

CommitMigration(p) ==
  /\ migrator[p].pc = "locked" /\ migrator[p].steps = {}
  /\ store' = [store EXCEPT !.files[migrator[p].file] = migrator[p].work]
  /\ migrator' = [migrator EXCEPT ![p] = IdleMigrator]

\* A statement fails: the transaction is rolled back, and the path removed if
\* this process believes it made it (cleanup_failed_new_store).
FailMigration(p) ==
  /\ migrator[p].pc \in {"connected", "locked"} /\ store.faults < MaxFaults
  /\ store' = [store EXCEPT !.faults = @ + 1,
                            !.current = IF migrator[p].created THEN 0 ELSE @]
  /\ migrator' = [migrator EXCEPT ![p] = IdleMigrator]

DieMigrating(p) ==
  /\ migrator[p].pc # "idle" /\ store.faults < MaxFaults
  /\ store' = [store EXCEPT !.faults = @ + 1]
  /\ migrator' = [migrator EXCEPT ![p] = IdleMigrator]

MigrationInit ==
  /\ \E target \in Targets,
        file \in {Absent, [exists |-> TRUE, version |-> "1.0.0", parts |-> {"tables"}]} :
       store = [target |-> target, files |-> IF file.exists THEN <<file>> ELSE <<>>,
                current |-> IF file.exists THEN 1 ELSE 0, faults |-> 0]
  /\ migrator = [p \in Migrators |-> IdleMigrator]

Migrate(p) ==
  \/ PlanMigration(p) \/ CheckCreated(p) \/ ConnectStore(p) \/ BeginImmediate(p)
  \/ ExecuteStep(p) \/ CommitMigration(p)

MigrationNext == \E p \in Migrators : Migrate(p) \/ FailMigration(p) \/ DieMigrating(p)

-----------------------------------------------------------------------------
\* Whoever looks at the file at any moment, the version it finds tells what
\* the file has: a migration is there as a whole or not at all, also when
\* another process had planned the same one.
VersionTellsTables ==
  \A i \in DOMAIN store.files :
    LET file == store.files[i]
    IN CASE file.version = NoVersion -> file.parts = {}
         [] file.version = "1.0.0" -> file.parts = {"tables"}
         [] file.version = Latest -> file.parts = Schema(store.target)

\* Once no more processes die or fail, the store comes to have the latest
\* version and keeps it.  A baseline that a dead process left empty is
\* excepted: it counts as a major migration that somebody has to confirm.
MigrationCompletes ==
  AutoMajor(store.target) => <>[](Current.version = Latest)
=============================================================================
