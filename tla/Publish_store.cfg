SPECIFICATION Spec
CONSTANTS
  Versions = {v1, v2}
  Updaters = {u1}
  Readers = {r1}
  Keep = 1
  Faults = {"crash", "error", "cancel"}
  Anchor = Anchor
  None = None
SYMMETRY Symmetry
CHECK_DEADLOCK FALSE
INVARIANTS
  LiveWhole
  ReaderSeesNoHalfBuild
PROPERTIES
  NoSwitchUnderWriter
  RefinesLiveStore
