CONSTANTS
  Names <- MCNames
  Targets <- MCTargets
  Stems <- MCStems
  SuffixList <- MCSuffixList
  MaxDeps = 3
  MaxCalls = 1
  NULL = NULL
SPECIFICATION Spec
INVARIANT NewSourcesFit
\* make goes on to run the recipe; the calls checked are bounded.
CHECK_DEADLOCK FALSE
