SPECIFICATION Spec
CONSTANTS
  Sources <- MCSources
  Keywords <- MCKeywords
  MAX_INTERPOLATION_NESTING = 2
INVARIANTS NestingSound TokensNest RawTextSurvives
PROPERTY LexingAdvances
CHECK_DEADLOCK FALSE
