\* A file written by a pass that is cut off before it records the hash, its fact
\* forgotten, and the file edited: three events and the edit.
SPECIFICATION Spec
CHECK_DEADLOCK FALSE
CONSTANTS
  MassMax = 1
  MaxFacts = 3
  MaxRows = 3
  MaxEdits = 1
  MaxEvents = 4
INVARIANT NeverLost
