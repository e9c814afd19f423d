\* A limit that is no multiple of the chunk size.
CONSTANTS
  MaxResponseBytes = 7
  ChunkBytes = 3
  MaxDeclared = 9
SPECIFICATION FairSpec
\* A call that is done takes no further step.
CHECK_DEADLOCK FALSE
INVARIANTS
  IntakeBounded
  ResultsComplete
  RefusedForCause
  SentOnce
PROPERTIES
  Terminates
