SPECIFICATION Spec
CONSTANTS
  Sources <- Raw
  Keywords <- MCKeywords
  MAX_INTERPOLATION_NESTING = 2
INVARIANT RawStringsKept
CHECK_DEADLOCK FALSE
