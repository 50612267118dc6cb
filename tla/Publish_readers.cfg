SPECIFICATION Spec
CONSTANTS
  Versions = {v1, v2}
  Updaters = {u1}
  Readers = {r1}
  Keep = 1
  Faults = {}
  Anchor = Anchor
  None = None
CHECK_DEADLOCK FALSE
INVARIANT ReadersSwitchAtomically
