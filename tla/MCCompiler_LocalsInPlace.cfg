SPECIFICATION NestedSpec
CONSTANTS
  Names = {"a", "b"}
  Used = {"a"}
  Grammars <- OperandGrammars
  MaxArguments = 1
  MAX_LOCALS = 6
  None = None
INVARIANT LocalsInPlace
CHECK_DEADLOCK FALSE
