SPECIFICATION Spec
CONSTANTS
  Djuru = {d1, d2, d3}
  None = None
  INITIAL_CALL_FRAMES = 4
  MaxFrames = 1
SYMMETRY Symmetry
INVARIANT NeverCrashes
CHECK_DEADLOCK FALSE
