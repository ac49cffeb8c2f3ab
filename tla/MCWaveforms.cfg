SPECIFICATION WaveformSpec
CONSTANTS
  Parts = {"manual", "tracked", "discovery", "retention", "library", "exports", "downloads"}
  Capacity = 4
  Block = 2
  Margin = 1
  ManualWindows <- MCManualWindows
  EventWindows <- MCEventWindows
  Events = {sag}
  Indexed = {sag}
  Generations = {1, 2}
  MaxSequence = 6
  MaxSession = 3
  MaxEpoch = 2
INVARIANTS CapturesAreSound ArchiveIsKnown LibraryIsExact 
PROPERTIES SnapshotsAreSound 
CHECK_DEADLOCK FALSE
