CONSTANTS
  d1 = d1
  d2 = d2
  pm = pm
  po = po
  NULL = NULL
  Dirs <- MCDirs
  Patterns <- MCPatterns
  MatchingPatterns <- MCMatching
  DirSeqs <- MCDirSeqs
  DbMtimes <- MCDbMtimes
  MaxLists = 2
  WantMtime = TRUE

SPECIFICATION Spec

INVARIANT TypeOK
INVARIANT NoPhantom
INVARIANT MtimeFaithful
INVARIANT TargetPlaceholder
INVARIANT IndexConsistent

PROPERTY ResolveRefinement
PROPERTY Terminates
CHECK_DEADLOCK FALSE
