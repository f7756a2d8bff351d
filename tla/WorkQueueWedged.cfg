\* Once its claim loop has ended nothing may be left to do: no deadlock check.
SPECIFICATION FairSpec
CHECK_DEADLOCK FALSE
CONSTANTS
  MaxAttempts = 2
  StuckAfter = 1
  Workers = {w1}
  Updates = {u1, u2}
  Jobs = {j1}
  Wipers = {u1}
  NoRow = NoRow
  MaxArrivals = 2
  MaxCrashes = 0
  MaxFaults = 0
  MaxDefers = 0
PROPERTY EveryUpdateSettles
