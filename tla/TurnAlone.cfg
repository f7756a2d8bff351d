\* One update with all its attempts, a reply in two pieces, two crashes.
SPECIFICATION FairSpec
CONSTANTS
  MaxAttempts = 3
  StuckAfter = 1
  Updates = {u1}
  NoUpdate = NoUpdate
  Chunks = 2
  MaxIntensity = 3
  MaxCrashes = 2
INVARIANTS AnsweredWhenDone OneReplyUnlessCut
PROPERTIES EveryUpdateAnswered
