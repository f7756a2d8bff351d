\* Two planned messages of a day, one of them the nag.  The budget of two binds
\* when one message was sent earlier, the back-off of one when none was.
\* Once the user has stopped writing and the messages are closed nothing need
\* happen any more, hence no deadlock check.
SPECIFICATION FairSpec
CHECK_DEADLOCK FALSE
CONSTANTS
  MaxAttempts = 2
  StuckAfter = 1
  Intents = {i1, i2}
  NoIntent = NoIntent
  Nags = {i1}
  MaxPerDay = 2
  Earlier = {0, 1}
  MaxIgnored = 1
  MaxUpdates = 1
  MaxPanel = 1
  MaxCrashes = 1
INVARIANTS TypeOK DeliveredOnceUnlessCut BackOffKept DailyBudgetKept
PROPERTIES CancelledStaysSilent ClosedStaysClosed PausedMeansSilent EveryPlanCloses
