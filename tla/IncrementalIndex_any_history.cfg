SPECIFICATION Spec
CONSTANTS
  CodePaths = {}
  DocPaths = {d}
  Jobs = {j1}
  NamedJobs = {j1}
  Sources = {"all", "code"}
  Policies = {"auto", "job_id", "restart", "disabled"}
  Edits = {"modify", "delete", "vanish", "revert"}
  Faults = {"crash", "error"}
  FullSources = {"docs"}
  MaxRevision = 3
  MaxBatch = 2
  NoJob = NoJob
PROPERTIES
  StateFollowsCommit
