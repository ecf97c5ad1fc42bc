CONSTANTS
  NULL = NULL
SPECIFICATION Spec
INVARIANTS BuildTypeOK BuildSplitMatchesReference BuildSplitFits ConvertFromFits ConvertToSizeExact GPathExact
             CandidateFits
\* Each string is parsed or converted once, and the built-in rules are
\* installed once; that is the last step.
CHECK_DEADLOCK FALSE
