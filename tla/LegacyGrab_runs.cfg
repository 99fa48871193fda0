SPECIFICATION FairSpec
CONSTANTS
  Contents <- MCContents
  Runs <- MCRuns
  Header = 2
  BufSize = 4
  MaxLength = 5
  Scan = 2
  Timeout = 2
  NULL = NULL
INVARIANTS TypeOK SectionsHandled WholeDocument
PROPERTIES Ends
CHECK_DEADLOCK FALSE
