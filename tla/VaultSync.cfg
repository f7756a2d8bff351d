\* Passes over two facts and their files, with up to two things done to files and
\* three events in all. The system may stop: nobody has to press a button.
SPECIFICATION FairSpec
CHECK_DEADLOCK FALSE
CONSTANTS
  MassMax = 1
  MaxFacts = 5
  MaxRows = 5
  MaxEdits = 2
  MaxEvents = 3
INVARIANTS TypeOK LostOnlyIfUnrecordedOrRaced RuleOnlyAgreed TwinsOnlyIfCrossed
PROPERTIES VaultFollows
