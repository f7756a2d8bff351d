\* Two updates of the user, after a life that left nothing, a card waiting, or a
\* card of before a /delete.  The user may stop writing and the planner may never
\* be linked, hence no deadlock check.
SPECIFICATION FairSpec
CHECK_DEADLOCK FALSE
CONSTANTS
  MaxAttempts = 2
  StuckAfter = 1
  MaxInputs = 2
  MaxIds = 2
  MaxKeys = 3
  MaxTokens = 2
  MaxCrashes = 1
INVARIANTS TypeOK OneItemPerWish WrittenIsThere ConfirmedOnce AcceptedHasJob NoticeWrongOnlyIfUnheard GrantLostOnlyIfCut
PROPERTIES AcceptedWritesSettle
