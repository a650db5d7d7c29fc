\* A lockout longer than the window, one key, one attempt at a time.
CONSTANTS
  Keys = {k1}
  Clients = {}
  Attempts = {a1}
  Max = 2
  Window = 3
  Lockout = 6
  MaxBuckets = 1
  MaxTime = 8
SPECIFICATION LimiterSpec
PROPERTY LockoutHolds
\* The clock stops at MaxTime.
CHECK_DEADLOCK FALSE
