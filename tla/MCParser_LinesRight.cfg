SPECIFICATION Spec
CONSTANTS
  Sources <- Numerals
  Keywords <- MCKeywords
  MAX_INTERPOLATION_NESTING = 2
INVARIANT LinesRight
CHECK_DEADLOCK FALSE
