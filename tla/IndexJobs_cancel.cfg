SPECIFICATION FairSpec
CONSTANTS
  Jobs = {j1, j2}
  NamedJobs = {}
  Runners = {r1}
  Signatures = {s1}
  Policies = {"job_id", "restart", "full"}
  Faults = {"interrupt", "error"}
  OpsRequests = {"start", "resume", "cancel"}
  MaxBatches = 2
  NoJob = NoJob
  NoSignature = NoSignature
  OpsSignature = OpsSignature
INVARIANTS
  CancelledNeverReady
PROPERTIES
  NoApplyAfterCancel
  RunEnds
  LockReleased
