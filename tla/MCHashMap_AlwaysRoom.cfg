SPECIFICATION Spec
CONSTANTS
  k1 = k1
  k2 = k2
  k3 = k3
  k4 = k4
  k5 = k5
  Key = {k1, k2, k3}
  Value = {FALSE_VAL, TRUE_VAL}
  UNDEFINED_VAL = UNDEFINED_VAL
  NULL_VAL = NULL_VAL
  FALSE_VAL = FALSE_VAL
  TRUE_VAL = TRUE_VAL
  Hash <- Colliding
  MinCapacity = 2
  Word = 256
  MaxCapacity = 256
  Steps = {}
INVARIANT AlwaysRoom
CHECK_DEADLOCK FALSE
