\* One process, two updates, one job, a crash.
SPECIFICATION FairSpec
CONSTANTS
  MaxAttempts = 2
  StuckAfter = 1
  Workers = {w1}
  Updates = {u1, u2}
  Jobs = {j1}
  Wipers = {}
  NoRow = NoRow
  MaxArrivals = 2
  MaxCrashes = 1
  MaxFaults = 0
  MaxDefers = 0
INVARIANTS OvertakenOnlyIfLost AtMostOneJobAhead
PROPERTIES SettledIsFinal ImplementsBoard
