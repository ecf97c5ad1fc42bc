CONSTANTS
  Chars <- MCChars
  MaxFile = 6
  LINELENGTH = 8
  NULL = NULL
  EnvSet <- MCEtcOnly
SPECIFICATION Spec
INVARIANT JoinedLinesMatchReference
CHECK_DEADLOCK FALSE
