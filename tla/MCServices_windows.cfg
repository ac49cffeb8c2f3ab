SPECIFICATION SenderFairSpec
CONSTANTS
  Parts = {"restarted"}
  Documents <- MCDocuments
  Factory <- Packaged
  Rejected <- MCRejected
  Secrets = {"s"}
  MaxRequests = 3
  MaxFaults = 2
  MaxCrashes = 1
PROPERTY WindowsProceed
CHECK_DEADLOCK FALSE
