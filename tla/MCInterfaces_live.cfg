SPECIFICATION InterfacesFairSpec
CONSTANTS
  Parts = {"converging", "hanging_up", "draining", "following"}
  Unit = 1
  Requests <- MCRequests
  MaxPublished = 2
  ValidAt <- MCValidAt
  Faults = 1
PROPERTY InterfacesSettle
CHECK_DEADLOCK FALSE
