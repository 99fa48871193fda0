SPECIFICATION FairSpec
CONSTANTS
  SubTable <- MCOne
  MaxVersion = 2
  MaxLast = 2
  Last <- MCLast
  MaxChanges = 2
  NULL = NULL
PROPERTIES ReturnedAfterWrap
CHECK_DEADLOCK FALSE
