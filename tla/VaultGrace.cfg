\* A file taken away, put back, and taken away again.
SPECIFICATION Spec
CHECK_DEADLOCK FALSE
CONSTANTS
  MassMax = 1
  MaxFacts = 5
  MaxRows = 5
  MaxEdits = 3
  MaxEvents = 3
INVARIANT GraceKept
