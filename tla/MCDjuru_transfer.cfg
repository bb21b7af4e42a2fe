SPECIFICATION FairSpec
CONSTANTS
  Djuru = {d1, d2, d3}
  None = None
  INITIAL_CALL_FRAMES = 4
  MaxFrames = 2
PROPERTY UnwindEnds
CHECK_DEADLOCK FALSE
