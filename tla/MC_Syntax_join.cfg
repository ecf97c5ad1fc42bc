CONSTANTS
  NULL = NULL
SPECIFICATION Spec
INVARIANT CandidateJoinsOnce
\* Each string is parsed once; that is the last step.
CHECK_DEADLOCK FALSE
