SPECIFICATION FairSpec
CONSTANTS
  Header = 2
  MaxLen = 2
  Shift = 2
  BufSize = 5
  N = 5
  Carousels <- MCPlain
  Timeouts = {0, 1}
  Untils = {0}
  MaxNow = 3
  MaxBacklog = 1
  MaxSignals = 0
  StrayBits = FALSE
  NULL = NULL
PROPERTIES TimeoutHonoured
