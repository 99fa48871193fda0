SPECIFICATION Spec
CONSTANTS
  NetworkId = {5}
  MuxUri <- MCMuxUri
  ServiceUri <- MCServiceUri
  Lcn = {1, 2}
  MaxSlots = 2
INVARIANTS TypeOK UniqueNames ChannelNumbersUnique PointersAgree
PROPERTIES PointersStable
