\* The two limiters: more keys and more clients than buckets, two unlock
\* attempts awaited at once, a lockout longer than the window as in the
\* shipped defaults, and none for API requests.
CONSTANTS
  Keys = {k1, k2, k3, c1, c2, c3}
  Clients = {c1, c2, c3}
  Attempts = {a1, a2}
  Max = 2
  Window = 2
  Lockout = 3
  MaxBuckets = 2
  MaxTime = 5
SPECIFICATION LimiterSpec
SYMMETRY Symmetry
INVARIANTS TypeOK FailuresBounded RequestsBounded RetryAfterIsHonest TrackedBounded
PROPERTY KeysIndependent
