-------------------------- MODULE ProfileRelations --------------------------
(***************************************************************************)
(* The profile-conditioned relations from run to run                       *)
(* (indexing/pipeline.py): a run compares the build profiles with those    *)
(* index_state.json remembers, and writes the enabled_by, disabled_by and  *)
(* unknown_by relations of the changed ones anew, one commit at a time,    *)
(* after the code it applied.  What the relations of a profile say follows *)
(* from its configuration (module MakeConditions): here a relation carries *)
(* the version of the configuration it was made of.                        *)
(*                                                                         *)
(* A guard is an entity with a guarded_by_macro relation.  The id of a     *)
(* relation is made of the guard and the profile: <<profile, guard>>.      *)
(***************************************************************************)
EXTENDS Naturals

CONSTANTS
  BuildProfiles, Guards,
  SourceFilters,  \* what --source may be
  MaxVersion,     \* bound: versions of a configuration
  MaxRuns         \* bound: runs

ASSUME ProfileAssumption == MaxVersion \in Nat /\ MaxRuns \in Nat

VARIABLES
  builds,         \* the workspace: the version of each profile, 0 without it
  newest,         \* the newest version each profile ever had
  indexer,        \* the version of the indexing program
  liveGuards,
  savedProfiles,  \* index_state.json: the versions, and the indexer that saved them
  profileRows,    \* the stored profiles
  relationRows,   \* the version each relation was written for, 0 without it
  hiddenRows,     \* the tombstones of relations
  checkpoint,     \* input_hash of the task profile:relations that was applied
  profileRun, profileRuns

profileVars == <<builds, newest, indexer, liveGuards, savedProfiles, profileRows, relationRows,
                 hiddenRows, checkpoint, profileRun, profileRuns>>
storeVars == <<profileRows, relationRows, hiddenRows>>
workspaceVars == <<builds, newest, indexer>>

NoProfiles == [p \in BuildProfiles |-> 0]
NothingSaved == [configs |-> NoProfiles, indexer |-> 0]
NoTask == <<>>
IdleRun == [pc |-> "idle"]

-----------------------------------------------------------------------------
\* A configuration is added, edited or removed, the indexer is replaced.  None
\* returns to what it was before, nor does a removed one come back: a run that
\* stopped may have left relations of what was there in between.  A run looks at
\* the workspace once, at its start: a change during a run is one after it.
EditProfile(p) ==
  /\ profileRun.pc = "idle" /\ newest[p] < MaxVersion /\ builds[p] = newest[p]
  /\ newest' = [newest EXCEPT ![p] = @ + 1]
  /\ builds' = [builds EXCEPT ![p] = newest[p] + 1]
  /\ UNCHANGED <<indexer, liveGuards, savedProfiles, storeVars, checkpoint, profileRun, profileRuns>>

RemoveProfile(p) ==
  /\ profileRun.pc = "idle" /\ builds[p] # 0
  /\ builds' = [builds EXCEPT ![p] = 0]
  /\ UNCHANGED <<newest, indexer, liveGuards, savedProfiles, storeVars, checkpoint, profileRun, profileRuns>>

Upgrade ==
  /\ profileRun.pc = "idle" /\ indexer = 1
  /\ indexer' = 2
  /\ UNCHANGED <<builds, newest, liveGuards, savedProfiles, storeVars, checkpoint, profileRun, profileRuns>>

-----------------------------------------------------------------------------
\* _diff_maps
ChangedProfiles == {p \in BuildProfiles : builds[p] # 0 /\ builds[p] # savedProfiles.configs[p]}
RemovedProfiles == {p \in BuildProfiles : builds[p] = 0 /\ savedProfiles.configs[p] # 0}

\* plan: rebuild_profile_conditioned_relations
RebuildPlanned(source) ==
  /\ source \in {"all", "code"}
  /\ savedProfiles.indexer # indexer \/ ChangedProfiles \cup RemovedProfiles # {}

StartProfileRun(source, resumed) ==
  /\ profileRun.pc = "idle" /\ profileRuns < MaxRuns
  /\ profileRuns' = profileRuns + 1
  /\ profileRun' = [pc |-> IF source = "docs" THEN "save" ELSE "code",
                    configs |-> builds, indexer |-> indexer,
                    changed |-> ChangedProfiles, removed |-> RemovedProfiles,
                    planned |-> RebuildPlanned(source), resumed |-> resumed,
                    unstored |-> {p \in BuildProfiles : builds[p] # 0}, retired |-> {}, fresh |-> {}]
  /\ UNCHANGED <<workspaceVars, liveGuards, savedProfiles, storeVars, checkpoint>>

Stored == {k \in BuildProfiles \X Guards : relationRows[k] # 0}
ShownRelations == Stored \ hiddenRows

\* The code of the run: a file is indexed anew, or the Makefile with all its
\* guards.  The relations that touch their entities are tombstoned, for the
\* new bundle does not contain them (_diff_and_mark_stale).
Bundles == {{}, Guards} \cup {{g} : g \in Guards}

ApplyCode(bundle, after) ==
  /\ profileRun.pc = "code"
  /\ liveGuards' = (liveGuards \ bundle) \cup after
  /\ hiddenRows' = hiddenRows \cup {k \in ShownRelations : k[2] \in bundle}
  /\ profileRun' = [profileRun EXCEPT !.pc = IF profileRun.planned THEN "profiles" ELSE "save"]
  /\ UNCHANGED <<workspaceVars, savedProfiles, profileRows, relationRows, checkpoint, profileRuns>>

\* make_index_task_list: input_hash
TaskHash == <<profileRun.changed, profileRun.removed, profileRun.configs>>

SkipRebuild ==
  /\ profileRun.pc = "profiles" /\ profileRun.resumed /\ checkpoint = TaskHash
  /\ profileRun' = [profileRun EXCEPT !.pc = "save"]
  /\ UNCHANGED <<workspaceVars, liveGuards, savedProfiles, storeVars, checkpoint, profileRuns>>

\* _rebuild_profile_conditioned_relations.  Every write is a commit of its own.
StoreProfile(p) ==
  /\ profileRun.pc = "profiles" /\ p \in profileRun.unstored
  /\ ~(profileRun.resumed /\ checkpoint = TaskHash)
  /\ profileRows' = [profileRows EXCEPT ![p] = profileRun.configs[p]]
  /\ profileRun' = [profileRun EXCEPT !.unstored = @ \ {p}]
  /\ UNCHANGED <<workspaceVars, liveGuards, savedProfiles, relationRows, hiddenRows, checkpoint, profileRuns>>

CollectedIds == {p \in BuildProfiles : profileRun.configs[p] # 0}

\* Mutant: profiles that are gone are no targets.
TargetsThatExist(changed, removed) == IF changed = {} THEN CollectedIds ELSE changed

TargetProfiles(changed, removed) == IF changed \cup removed = {} THEN CollectedIds ELSE changed \cup removed

CompareRelations ==
  LET targets == TargetProfiles(profileRun.changed, profileRun.removed)
      old == {k \in ShownRelations : k[1] \in targets}
      new == (targets \cap CollectedIds) \X liveGuards
  IN /\ profileRun.pc = "profiles" /\ profileRun.unstored = {}
     /\ ~(profileRun.resumed /\ checkpoint = TaskHash)
     /\ profileRun' = [profileRun EXCEPT !.pc = "relations", !.retired = old \ new, !.fresh = new]
     /\ UNCHANGED <<workspaceVars, liveGuards, savedProfiles, storeVars, checkpoint, profileRuns>>

RetireRelation(k) ==
  /\ profileRun.pc = "relations" /\ k \in profileRun.retired
  /\ hiddenRows' = hiddenRows \cup {k}
  /\ profileRun' = [profileRun EXCEPT !.retired = @ \ {k}]
  /\ UNCHANGED <<workspaceVars, liveGuards, savedProfiles, profileRows, relationRows, checkpoint, profileRuns>>

WriteRelation(k) ==
  /\ profileRun.pc = "relations" /\ profileRun.retired = {} /\ k \in profileRun.fresh
  /\ relationRows' = [relationRows EXCEPT ![k] = profileRun.configs[k[1]]]
  /\ profileRun' = [profileRun EXCEPT !.fresh = @ \ {k}]
  /\ UNCHANGED <<workspaceVars, liveGuards, savedProfiles, profileRows, hiddenRows, checkpoint, profileRuns>>

\* mark_task_applied
RecordRebuild ==
  /\ profileRun.pc = "relations" /\ profileRun.retired \cup profileRun.fresh = {}
  /\ checkpoint' = TaskHash
  /\ profileRun' = [profileRun EXCEPT !.pc = "save"]
  /\ UNCHANGED <<workspaceVars, liveGuards, savedProfiles, storeVars, profileRuns>>

\* save_state(plan.current_state), unless a task failed.
SaveProfiles ==
  /\ profileRun.pc = "save"
  /\ savedProfiles' = [configs |-> profileRun.configs, indexer |-> profileRun.indexer]
  /\ profileRun' = IdleRun
  /\ UNCHANGED <<workspaceVars, liveGuards, storeVars, checkpoint, profileRuns>>

\* The process dies, or the task or another one of the run fails.
StopProfileRun ==
  /\ profileRun.pc # "idle"
  /\ profileRun' = IdleRun
  /\ UNCHANGED <<workspaceVars, liveGuards, savedProfiles, storeVars, checkpoint, profileRuns>>

ProfilesInit ==
  /\ builds \in [BuildProfiles -> 0..1] /\ newest = builds
  /\ indexer = 1 /\ liveGuards = {} /\ savedProfiles = NothingSaved
  /\ profileRows = NoProfiles
  /\ relationRows = [k \in BuildProfiles \X Guards |-> 0] /\ hiddenRows = {}
  /\ checkpoint = NoTask /\ profileRun = IdleRun /\ profileRuns = 0

RebuildStep ==
  \/ SkipRebuild
  \/ \E p \in BuildProfiles : StoreProfile(p)
  \/ CompareRelations
  \/ \E k \in BuildProfiles \X Guards : RetireRelation(k) \/ WriteRelation(k)
  \/ RecordRebuild

ProfilesNext ==
  \/ \E p \in BuildProfiles : EditProfile(p) \/ RemoveProfile(p)
  \/ Upgrade
  \/ \E source \in SourceFilters, resumed \in BOOLEAN : StartProfileRun(source, resumed)
  \/ \E bundle \in Bundles : \E after \in SUBSET bundle : ApplyCode(bundle, after)
  \/ RebuildStep
  \/ SaveProfiles
  \/ StopProfileRun

-----------------------------------------------------------------------------
\* The rows of a profile are replaced one by one, by runs that may stop
\* anywhere, edit the same rows for other reasons, and skip what an earlier
\* attempt did; later runs only look at what the state file remembers.
\* Whenever a run remembers a profile, the store has that version of it, and
\* every relation of it that the view shows was made of that version; of a
\* profile it forgets, none is shown (indexing/pipeline.py
\* _rebuild_profile_conditioned_relations, save_state).
SavedProfilesAreShown ==
  [][SaveProfiles =>
       \A p \in BuildProfiles :
         IF savedProfiles'.configs[p] # 0
         THEN /\ profileRows[p] = savedProfiles'.configs[p]
              /\ \A k \in ShownRelations : k[1] = p => relationRows[k] = savedProfiles'.configs[p]
         ELSE savedProfiles.configs[p] # 0 => \A k \in ShownRelations : k[1] # p]_profileVars
=============================================================================
