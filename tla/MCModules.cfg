SPECIFICATION Spec
CONSTANTS
  Name = {a, b, c}
  Variable = {"x"}
  Sources <- MCSources
  MaxStatements = 2
  Djuru = {d1, d2}
  None = None
  MaxRuns = 2
INVARIANTS ImportsFromItsModule CompleteWhenImported NoLineNumbers
SYMMETRY Symmetry
CHECK_DEADLOCK FALSE
