SPECIFICATION FairSpec
CONSTANTS
  Sources = {"main.c"}
  Makefiles = {"Makefile"}
  Docs = {"guide.md"}
  Line <- Lines
  Baseline = {"main.c", "Makefile", "guide.md"}
  Edited = {"main.c", "guide.md"}
  Edits = {"modify", "delete"}
  Faults = {"crash"}
  Jobs = {1, 2}
  MaxRevision = 3
  MaxBatch = 2
  CompactAt = 2
  MaxSegments = 2
  FollowedTypes = {"defines", "contains", "belongs_to_module"}
  MaxDepth = 2
INVARIANTS
  FtsAgreesWithView
  CommittedVectorsFound
  EvidenceCitesView
  NothingToRepair
PROPERTIES
  RefinesOverlayMap
  Converges
CHECK_DEADLOCK FALSE
