SPECIFICATION SafeSpec
CONSTANTS
  Names = {"a", "b"}
  Used = {"a"}
  Grammars <- MCGrammars
  MaxArguments = 1
  MAX_LOCALS = 6
  None = None
INVARIANTS JoinsAgree LocalsInPlace UpvaluesMatch CapturedAreClosed JumpsLand StackFits
CHECK_DEADLOCK FALSE
