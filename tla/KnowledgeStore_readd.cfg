SPECIFICATION Spec
CONSTANTS
  Sources = {"main.c"}
  Makefiles = {"Makefile"}
  Docs = {}
  Line <- Lines
  Baseline = {"main.c", "Makefile"}
  Edited = {"main.c"}
  Edits = {"delete", "readd"}
  Faults = {}
  Jobs = {1, 2}
  MaxRevision = 1
  MaxBatch = 2
  CompactAt = 2
  MaxSegments = 2
  FollowedTypes = {"defines", "contains", "belongs_to_module"}
  MaxDepth = 2
INVARIANT IndexedIsShown
CHECK_DEADLOCK FALSE
