SPECIFICATION Spec
CHECK_DEADLOCK FALSE
CONSTANTS
  MaxAttempts = 1
  StuckAfter = 1
  Intents = {i1}
  NoIntent = NoIntent
  Nags = {i1}
  MaxPerDay = 1
  Earlier = {0}
  MaxIgnored = 1
  MaxUpdates = 1
  MaxPanel = 0
  MaxCrashes = 1
PROPERTY NoNagAfterCheckin
