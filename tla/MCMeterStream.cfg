SPECIFICATION StreamFairSpec
CONSTANTS
  Parts = {"spool", "service", "client"}
  k1 = k1
  k2 = k2
  k3 = k3
  Keys <- MCKeys
  Batches <- MCBatches
  Consumers = {"historian"}
  Policies <- MCPolicies
  Reservation = 3
  Margin = 1
  PageLimit = 2
  LeaseFaults = {}
  MaxCursor = 9
  MaxClock = 1
  MaxFamilies = 3
  MaxFailures = 2
  Subscribers = {s1}
  Callers = {c1, c2}
  MaxRequests = 1
  MaxConnections = 2
  MaxCrashes = 1
INVARIANTS PagesAreSound StreamIsDurable
PROPERTIES CursorDiscipline RetentionIsHonest ImplementsLog ClientIsSound StreamProgresses
CHECK_DEADLOCK FALSE
