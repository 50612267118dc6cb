SPECIFICATION FairSpec
CONSTANTS
  CodePaths = {c}
  DocPaths = {d}
  Jobs = {j1}
  NamedJobs = {j1}
  Sources = {"all"}
  Policies = {"auto"}
  Edits = {"modify", "delete"}
  Faults = {"crash", "error"}
  FullSources = {}
  MaxRevision = 3
  MaxBatch = 2
  NoJob = NoJob
INVARIANTS
  NoHiddenStaleness
  CheckpointsHold
PROPERTIES
  ReadyMeansIndexed
  StateFollowsCommit
  Converges
