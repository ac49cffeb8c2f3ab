SPECIFICATION WaveformFairSpec
CONSTANTS
  Parts = {"writing", "walks", "troubled"}
  Capacity = 4
  Block = 2
  Margin = 1
  ManualWindows <- MCManualWindows
  EventWindows <- MCEventWindows
  Events = {sag}
  Indexed = {sag}
  Generations = {1, 2}
  MaxSequence = 6
  MaxSession = 3
  MaxEpoch = 2
PROPERTY WaveformsSettle
CHECK_DEADLOCK FALSE
