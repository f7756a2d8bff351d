\* Two processes overlap, as in a rollout: an update that wipes everything, a
\* job of any kind whose id the wipe frees, an escaped error, a deferral.  A
\* process whose claim loop has ended leaves its row as a crash would; crashes
\* and restarts are in the run with one process.
\* A process whose claim loop has died waits for ever once the bounded
\* deliveries are used up, hence no deadlock check.
SPECIFICATION Spec
SYMMETRY Processes
CHECK_DEADLOCK FALSE
CONSTANTS
  MaxAttempts = 2
  StuckAfter = 2
  Workers = {w1, w2}
  Updates = {u1}
  Jobs = {j1}
  Wipers = {u1}
  NoRow = NoRow
  MaxArrivals = 2
  MaxCrashes = 0
  MaxFaults = 1
  MaxDefers = 1
INVARIANTS TypeOK AttemptsBounded SharedOnlyIfReopened AloneWhileTouched
PROPERTIES JudgedTwiceOnlyIfReopened
