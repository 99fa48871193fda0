SPECIFICATION FairSpec
CONSTANTS
  SubTable <- MCThree
  MaxVersion = 2
  MaxLast = 2
  Last <- MCLast
  MaxChanges = 1
  NULL = NULL
INVARIANTS TypeOK NoMixing DeliveredWhole
PROPERTIES NeverBackwards DeliveredOnAir DeliverySpec ReturnedUnlessWrapped
CHECK_DEADLOCK FALSE
