CONSTANTS
  d1 = d1
  d2 = d2
  NoPct = NoPct
  NULL = NULL
  NIL = NIL
SPECIFICATION Spec
INVARIANTS CascadeFirstExisting ContinuationFits TypeOK HeapSafe
PROPERTIES ReadTerminates WalksEnd ChainRefinement
\* read_config returns and make goes on elsewhere; make may stop reading
\* directives at any point.
CHECK_DEADLOCK FALSE
