SPECIFICATION Spec
CONSTANTS
  Jobs = {j1, j2}
  NamedJobs = {}
  Runners = {r1, r2}
  Signatures = {s1}
  Policies = {"auto"}
  Faults = {"interrupt"}
  OpsRequests = {}
  MaxBatches = 1
  NoJob = NoJob
  NoSignature = NoSignature
  OpsSignature = OpsSignature
SYMMETRY Symmetry
INVARIANTS
  SingleWriter
