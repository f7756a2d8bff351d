SPECIFICATION Spec
CONSTANTS
  MaxAttempts = 1
  StuckAfter = 1
  Updates = {u1}
  NoUpdate = NoUpdate
  Chunks = 1
  MaxIntensity = 3
  MaxCrashes = 1
INVARIANT WelfareLeavesTheStory
