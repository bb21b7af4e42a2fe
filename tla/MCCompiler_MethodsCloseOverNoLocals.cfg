SPECIFICATION SafeSpec
CONSTANTS
  Names = {"a", "b"}
  Used = {"a"}
  Grammars <- MethodGrammars
  MaxArguments = 1
  MAX_LOCALS = 6
  None = None
INVARIANT MethodsCloseOverNoLocals
CHECK_DEADLOCK FALSE
