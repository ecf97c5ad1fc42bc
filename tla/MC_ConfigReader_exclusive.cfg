CONSTANTS
  Chars <- MCChars
  MaxFile = 0
  LINELENGTH = 4
  NULL = NULL
  EnvSet <- Envs
SPECIFICATION Spec
INVARIANT ExclusiveUsesOnlyPath
CHECK_DEADLOCK FALSE
