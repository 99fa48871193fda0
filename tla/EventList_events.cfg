SPECIFICATION Spec
CONSTANTS
  Inputs <- MCInputs
  MayFail = TRUE
  xmlify <- MCxmlify
  NULL = NULL
  EMPTY = EMPTY
INVARIANTS TypeOK RecordAgrees ReadSafely CopyAgrees
CHECK_DEADLOCK FALSE
