SPECIFICATION CodecSpec
CONSTANTS
  Parts = {"intervals", "frequencies", "events", "quality", "snapshots", "slices", "segments", "layout"}
  Selections <- MCSelections
  Qualities = {"valid", "timed_out"}
  MaxEpoch = 2
INVARIANTS   SlicesAreReadable
PROPERTY RecordsAreTrue
CHECK_DEADLOCK FALSE
