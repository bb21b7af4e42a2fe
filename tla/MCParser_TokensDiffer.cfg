SPECIFICATION Spec
CONSTANTS
  Sources <- Signs
  Keywords <- MCKeywords
  MAX_INTERPOLATION_NESTING = 2
INVARIANT TokensDiffer
CHECK_DEADLOCK FALSE
