SPECIFICATION Spec
CONSTANTS
  Sources = {"main.c"}
  Makefiles = {"Makefile"}
  Docs = {"guide.md"}
  Line <- Lines
  Baseline = {"main.c", "Makefile", "guide.md"}
  Edited = {"guide.md"}
  Edits = {"modify"}
  Faults = {}
  Jobs = {1}
  MaxRevision = 2
  MaxBatch = 2
  CompactAt = 2
  MaxSegments = 2
  FollowedTypes = {"calls", "contains", "defines"}
  MaxDepth = 2
INVARIANT AnswerCitesView
CHECK_DEADLOCK FALSE
