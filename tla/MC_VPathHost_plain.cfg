CONSTANTS
  Chars <- MCPlainChars
  MaxLen = 5
  NULL = NULL
SPECIFICATION Spec
INVARIANT HostRoundTrip
\* Each list is read, printed and read back once.
CHECK_DEADLOCK FALSE
