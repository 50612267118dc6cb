SPECIFICATION Spec
CONSTANTS
  Jobs = {j1, j2, j3}
  NamedJobs = {}
  Runners = {r1, r2}
  Signatures = {s1}
  Policies = {"disabled", "full"}
  Faults = {"interrupt", "error", "crash"}
  OpsRequests = {}
  MaxBatches = 1
  NoJob = NoJob
  NoSignature = NoSignature
  OpsSignature = OpsSignature
SYMMETRY Symmetry
INVARIANTS
  TypeOK
  SingleWriter
  WriterOwnsLock
PROPERTIES
  RefinesWriteLease
