SPECIFICATION Spec
CONSTANTS
  NitTables <- MCNitTables
  SdtTables <- MCSdtTables
  ServiceScan = 2
INVARIANTS TypeOK NetworkMirrorsNit ServicesOnTheirMux EndsWithLastMux OutputListsServices
PROPERTIES Terminates
CHECK_DEADLOCK FALSE
