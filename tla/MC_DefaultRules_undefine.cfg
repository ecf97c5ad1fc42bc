CONSTANTS
  Chars <- MCVarChars
  MaxLine = 4
  NLines = 1
  NameMax = 128
  SufKw = "S"
  NULL = NULL
  FlagSet <- MCNoFlags
SPECIFICATION Spec
INVARIANT UndefineMatchesDefine
CHECK_DEADLOCK FALSE
