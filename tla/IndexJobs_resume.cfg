SPECIFICATION Spec
CONSTANTS
  Jobs = {j1, j2}
  NamedJobs = {}
  Runners = {r1, r2}
  Signatures = {s1}
  Policies = {"auto", "full"}
  Faults = {"interrupt", "error", "expiry"}
  OpsRequests = {}
  MaxBatches = 1
  NoJob = NoJob
  NoSignature = NoSignature
  OpsSignature = OpsSignature
SYMMETRY Symmetry
INVARIANTS
  LockHasHolder
  RunningHasRunner
PROPERTIES
  ReadyIsFinal
