SPECIFICATION InterfacesSpec
CONSTANTS
  Parts = {"registers", "web", "unambiguous", "service", "tcp", "noisy", "busy", "latest"}
  Unit = 1
  Requests <- MCRequests
  MaxPublished = 2
  ValidAt <- MCValidAt
  Faults = 1
INVARIANTS ReadsAreExact   SlotsAreSound 
PROPERTY SubscriptionsAreSound
CHECK_DEADLOCK FALSE
