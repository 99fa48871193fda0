SPECIFICATION FairSpec
CONSTANTS
  Sections <- MCSections
  Timeout = 2
  NULL = NULL
INVARIANTS TypeOK OncePerVersion WellFormed ClosedInTurn
PROPERTIES Ends
CHECK_DEADLOCK FALSE
