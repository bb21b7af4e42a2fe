SPECIFICATION CallSpec
CONSTANTS
  Djuru = {d1, d2, d3, d4}
  None = None
  INITIAL_CALL_FRAMES = 1
  MaxFrames = 2
SYMMETRY Symmetry
INVARIANTS TypeOK NeverCrashes NeverRunsAborted TriedHasCaller CallersWait CallInv
PROPERTIES HostGetsOwnResult RunsAsAStack
CHECK_DEADLOCK FALSE
