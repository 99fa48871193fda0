SPECIFICATION Spec
CONSTANTS
  NitTables <- OnlyNit
  SdtTables <- BatAsWell
  ServiceScan = 2
INVARIANTS EveryMuxParsed
CHECK_DEADLOCK FALSE
