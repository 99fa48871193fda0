SPECIFICATION FairSpec
CONSTANTS
  Header = 2
  MaxLen = 2
  Shift = 2
  BufSize = 5
  N = 5
  Carousels <- MCCarousels
  Timeouts = {0, 1}
  Untils = {0, 1}
  MaxNow = 2
  MaxBacklog = 2
  MaxSignals = 1
  StrayBits = TRUE
  NULL = NULL
INVARIANTS TypeOK BufferBounds StaysAligned
PROPERTIES EndTimeHonoured Resynchronises
