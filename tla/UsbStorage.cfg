SPECIFICATION FairSpec
CONSTANTS
  MAX_LUN = 1
  SizesOf <- MCSizes
  Junk <- MCJunk
  Requests <- MCRequests
  ATTEMPTS = 3
INVARIANTS TypeOK InStep UnitsRight
PROPERTIES ImplementsDisk DriverReturns
CHECK_DEADLOCK FALSE
