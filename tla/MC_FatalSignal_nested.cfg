CONSTANTS
  Targets <- MCTargets
  AlsoMake <- MCAlsoMake
  Precious <- MCNone
  Phony <- MCNone
  ArNames <- MCNone
  RecipeTexts <- MCRecipes
  Loaded <- MCNone
  DiskStates = {"same"}
  Signals = {"INT", "XCPU"}
  Interrupting = {"INT", "XCPU"}
  NULL = NULL
SPECIFICATION Spec
INVARIANT CleanDeath
\* make ends when the handler does.
CHECK_DEADLOCK FALSE
