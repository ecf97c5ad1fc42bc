CONSTANTS
  NULL = NULL
SPECIFICATION Spec
INVARIANTS RecipeLineCountFits RecipeChopAgreesWithPrint AutoSourcesFit AutoListsPartition
           SignalCleanDeath
PROPERTIES SignalDeletesOnlyChanged SignalEndsMake
\* Each recipe is chopped and printed once, each file's variables set once,
\* and make ends after a fatal signal.
CHECK_DEADLOCK FALSE
