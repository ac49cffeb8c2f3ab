SPECIFICATION HistorySpec
CONSTANTS
  Parts = {"gaps", "requests", "migration", "store", "accounts", "harmonics", "durable", "catalogue"}
  Datasets = {"a", "b"}
  Events = {"e1", "e2"}
  Script <- TwoEvents
  MaximumPending = 2
  RecentCapacity = 1
  MaxPage = 3
  Links <- Wanted
  MaxLost = 1
  MaxFailures = 1
  MaxDeletes = 1
  MaxRestarts = 0
INVARIANT FamiliesAreWhole
PROPERTIES  StoreIsSound EventsAreCurrent
CHECK_DEADLOCK FALSE
