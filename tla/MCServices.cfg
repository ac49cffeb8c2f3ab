SPECIFICATION ServicesFairSpec
CONSTANTS
  Parts = {"faulty", "local", "unreachable", "delivering", "authority", "policy", "publisher", "reloaded", "wire"}
  Documents <- MCDocuments
  Factory <- Packaged
  Rejected <- MCRejected
  Secrets = {"s"}
  MaxRequests = 3
  MaxFaults = 2
  MaxCrashes = 1
INVARIANTS  NewestRetained 
PROPERTIES  SettingsTakeEffect
CHECK_DEADLOCK FALSE
