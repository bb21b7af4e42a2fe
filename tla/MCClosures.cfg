SPECIFICATION SafeSpec
CONSTANTS
  Djuru = {d1, d2}
  None = None
  NULL_VAL = NULL_VAL
  Value = {NULL_VAL, v1}
  Closed = Closed
  Freed = Freed
  MaxSlots = 4
  MaxFrames = 2
  MaxClosures = 2
  MaxCaptures = 2
  MaxVariables = 2
INVARIANTS ClosuresSeeVariables ClosureInv
SYMMETRY Symmetry
CHECK_DEADLOCK FALSE
