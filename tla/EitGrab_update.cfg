SPECIFICATION Spec
CONSTANTS
  Sections <- MCUpdate
  Timeout = 1
  NULL = NULL
INVARIANTS UpdatesPrinted
CHECK_DEADLOCK FALSE
