----------------------------- MODULE RateLimit ------------------------------
(***************************************************************************)
(* The in-memory fixed-window rate limiter and its two users: unlock       *)
(* attempts, which check before they await the attempt and record the      *)
(* failure or clear the bucket after it, and API requests, which consume   *)
(* at once.  Time is counted in ticks from 1; 0 stands for null.           *)
(***************************************************************************)
EXTENDS Naturals, FiniteSets

CONSTANTS
  Keys,        \* bucket keys: scope and action, or namespace and client
  Clients,     \* those of them that API requests use
  Attempts,    \* unlock attempts that may be awaited at the same time
  Max,         \* maxFailures, maxRequests
  Window,      \* windowMs
  Lockout,     \* lockoutMs, 0 when the limiter is built without one
  MaxBuckets,  \* maxBuckets
  MaxTime      \* bound: the clock stops here

NoAttempt == "none"

ASSUME KeysAssumption == IsFiniteSet(Keys) /\ Clients \subseteq Keys /\ NoAttempt \notin Keys
ASSUME AttemptsAssumption == IsFiniteSet(Attempts)
ASSUME LimitsAssumption ==
  /\ Max \in Nat \ {0} /\ Window \in Nat \ {0} /\ Lockout \in Nat
  /\ MaxBuckets \in Nat \ {0} /\ MaxTime \in Nat \ {0}

VARIABLES
  now,       \* Date.now()
  bucket,    \* buckets: the state kept for each key
  attempt,   \* the key each awaited attempt was admitted for
  charged,   \* history: the failures since the last success, or the requests
             \*          served, of each tracked key: the time and a number
  promise    \* history: the end of the lockout last announced for each key

vars == <<now, bucket, attempt, charged, promise>>

Buckets == [start : 1..MaxTime, count : 0..Max, until : Nat]
Absent == [start |-> 0, count |-> 0, until |-> 0]
Charges == (1..MaxTime) \X Nat

LimiterOK ==
  /\ now \in 1..MaxTime
  /\ bucket \in [Keys -> Buckets \cup {Absent}]
  /\ attempt \in [Attempts -> Keys \cup {NoAttempt}]
  /\ promise \in [Keys -> Nat]

TypeOK == LimiterOK /\ charged \in [Keys -> SUBSET Charges]

Init ==
  /\ now = 1
  /\ bucket = [k \in Keys |-> Absent]
  /\ attempt = [a \in Attempts |-> NoAttempt]
  /\ charged = [k \in Keys |-> {}]
  /\ promise = [k \in Keys |-> 0]

-----------------------------------------------------------------------------
(* The limiter, as functions of the time t.                                *)

(* Mutation: one more than max.                                            *)
LimitOffByOne(b, t) ==
  IF b.until # 0 /\ t < b.until
  THEN [allowed |-> FALSE, resetAt |-> b.until]
  ELSE [allowed |-> b.count <= Max, resetAt |-> b.start + Window]

Decision(b, t) ==
  IF b.until # 0 /\ t < b.until
  THEN [allowed |-> FALSE, resetAt |-> b.until]
  ELSE [allowed |-> b.count < Max, resetAt |-> b.start + Window]

Fresh(t) == [start |-> t, count |-> 0, until |-> 0]

(* Mutations: the start of the window is not reset; the end of a lockout   *)
(* does not reset the count.                                               *)
RefreshKeepsStart(b, t) ==
  IF (b.until # 0 /\ t >= b.until) \/ t - b.start >= Window
  THEN [Fresh(t) EXCEPT !.start = b.start] ELSE b

RefreshKeepsCount(b, t) ==
  IF b.until # 0 /\ t >= b.until THEN [b EXCEPT !.until = 0]
  ELSE IF t - b.start >= Window THEN Fresh(t) ELSE b

(* Both the end of the lockout and the end of the window start afresh.     *)
Refresh(b, t) ==
  IF (b.until # 0 /\ t >= b.until) \/ t - b.start >= Window THEN Fresh(t) ELSE b

Prunable(b, t) ==
  /\ b # Absent /\ b.count = 0
  /\ t - b.start >= Window
  /\ b.until = 0 \/ t >= b.until

Prune(bs, t) == [k \in Keys |-> IF Prunable(bs[k], t) THEN Absent ELSE bs[k]]

Tracked(bs) == {k \in Keys : bs[k] # Absent}

Oldest(bs) ==
  {k \in Tracked(bs) : \A j \in Tracked(bs) : bs[k].start <= bs[j].start}

(* Mutations: evicts one bucket too early; never evicts.                   *)
OpenEarly(k, t) ==
  LET bs == Prune(bucket, t)
  IN  IF bs[k] # Absent THEN {[bs EXCEPT ![k] = Refresh(bs[k], t)]}
      ELSE IF Cardinality(Tracked(bs)) + 1 >= MaxBuckets /\ Tracked(bs) # {}
      THEN {[bs EXCEPT ![old] = Absent, ![k] = Fresh(t)] : old \in Oldest(bs)}
      ELSE {[bs EXCEPT ![k] = Fresh(t)]}

OpenUnbounded(k, t) ==
  LET bs == Prune(bucket, t)
  IN  {[bs EXCEPT ![k] = IF bs[k] # Absent THEN Refresh(bs[k], t) ELSE Fresh(t)]}

(* getOrCreateBucket: the maps it can leave behind.  The code evicts the   *)
(* first inserted of the oldest buckets, here any of them.                 *)
Open(k, t) ==
  LET bs == Prune(bucket, t)
  IN  IF bs[k] # Absent THEN {[bs EXCEPT ![k] = Refresh(bs[k], t)]}
      ELSE IF Cardinality(Tracked(bs)) >= MaxBuckets
      THEN {[bs EXCEPT ![old] = Absent, ![k] = Fresh(t)] : old \in Oldest(bs)}
      ELSE {[bs EXCEPT ![k] = Fresh(t)]}

Count(b, t) ==
  [b EXCEPT !.count = b.count + 1,
            !.until = IF b.count + 1 >= Max /\ Lockout > 0 THEN t + Lockout ELSE b.until]

(* Mutation: a failure that comes in after the limit still counts.         *)
ConsumedUnchecked(bs, k, t) == [bs EXCEPT ![k] = Count(bs[k], t)]

(* consume, given the map getOrCreateBucket left.                          *)
Consumed(bs, k, t) ==
  IF Decision(bs[k], t).allowed THEN [bs EXCEPT ![k] = Count(bs[k], t)] ELSE bs

-----------------------------------------------------------------------------
Recent(k) == {c \in charged[k] : now - c[1] < Window}

(* Charges of one moment are numbered from 0.                              *)
NewCharge(k) == <<now, Cardinality({c \in charged[k] : c[1] = now})>>

(* History: one more charge on k at this moment when charge holds; a       *)
(* bucket that is dropped takes its history with it.                       *)
Log(k, charge) ==
  charged' = [j \in Keys |->
                IF bucket'[j] = Absent THEN {}
                ELSE IF j = k /\ charge THEN Recent(k) \cup {NewCharge(k)}
                ELSE charged[j]]

Tick == now < MaxTime /\ now' = now + 1 /\ UNCHANGED <<bucket, attempt, charged, promise>>

(* withVaultUnlockRateLimit, up to the await of the attempt.               *)
Try(a, k) ==
  /\ k \notin Clients
  /\ attempt[a] = NoAttempt
  /\ \E bs \in Open(k, now) :
       /\ bucket' = bs
       /\ attempt' = IF Decision(bs[k], now).allowed
                     THEN [attempt EXCEPT ![a] = k] ELSE attempt
  /\ Log(k, FALSE)
  /\ UNCHANGED <<now, promise>>

Succeed(a) ==
  LET k == attempt[a]
  IN  /\ k # NoAttempt
      /\ bucket' = [bucket EXCEPT ![k] = Absent]
      /\ attempt' = [attempt EXCEPT ![a] = NoAttempt]
      /\ Log(k, FALSE)
      /\ promise' = [promise EXCEPT ![k] = 0]
      /\ UNCHANGED now

Failed(a) ==
  LET k == attempt[a]
  IN  /\ k # NoAttempt
      /\ attempt' = [attempt EXCEPT ![a] = NoAttempt]
      /\ \E bs \in Open(k, now) :
           /\ bucket' = Consumed(bs, k, now)
           /\ promise' = [promise EXCEPT ![k] =
                            IF bucket'[k].until > @ THEN bucket'[k].until ELSE @]
      /\ Log(k, TRUE)
      /\ UNCHANGED now

(* The attempt itself was rate limited by someone else: not recorded.      *)
Limited(a) ==
  /\ attempt[a] # NoAttempt
  /\ attempt' = [attempt EXCEPT ![a] = NoAttempt]
  /\ UNCHANGED <<now, bucket, charged, promise>>

(* consumeVaultApiRateLimit.                                               *)
Request(k) ==
  /\ k \in Clients
  /\ \E bs \in Open(k, now) :
       /\ bucket' = Consumed(bs, k, now)
       /\ Log(k, Decision(bs[k], now).allowed)
  /\ UNCHANGED <<now, attempt, promise>>

Next ==
  \/ Tick
  \/ \E k \in Keys : Request(k)
  \/ \E a \in Attempts, k \in Keys : Try(a, k)
  \/ \E a \in Attempts : Succeed(a) \/ Failed(a) \/ Limited(a)

Spec == Init /\ [][Next]_vars

-----------------------------------------------------------------------------
(* Properties.                                                             *)

Verdict(k, t) == Decision(Refresh(bucket[k], t), t)

Refused(k) == bucket[k] # Absent /\ ~Verdict(k, now).allowed

(* However the awaited attempts overlap, one window sees at most the       *)
(* allowed failures plus one for every other attempt already admitted when *)
(* the limit was reached (the check runs before the await, the recording   *)
(* after it).                                                              *)
InWindow(k) == Cardinality({c \in charged[k] : c[1] >= bucket[k].start})

FailuresBounded ==
  \A k \in Keys \ Clients :
    bucket[k] # Absent => InWindow(k) < Max + Cardinality(Attempts)

(* One window serves a client at most the configured number of requests,   *)
(* however many it sends and whatever other clients do.                    *)
RequestsBounded ==
  \A k \in Clients : bucket[k] # Absent => InWindow(k) <= Max

(* A refusal tells the truth: the announced resetAtMs lies in the future,  *)
(* and an attempt made at that moment is admitted if nothing else failed   *)
(* in between; so no key is locked out for ever.                           *)
RetryAfterIsHonest ==
  \A k \in Keys :
    Refused(k) => LET reset == Verdict(k, now).resetAt
                  IN  reset > now /\ Verdict(k, reset).allowed

(* Traffic on other keys does not lift a refusal while there is room for   *)
(* its bucket: only the clock, a success on the key, or an eviction from a *)
(* full table does.                                                        *)
KeysIndependent ==
  [][\A k \in Keys :
       now' = now /\ Refused(k) /\ ~Refused(k)' =>
         \/ \E a \in Attempts : attempt[a] = k /\ attempt'[a] = NoAttempt
         \/ bucket'[k] = Absent /\ Cardinality(Tracked(bucket)) >= MaxBuckets]_vars

(* The number of tracked keys is bounded, whatever keys arrive.            *)
TrackedBounded == Cardinality(Tracked(bucket)) <= MaxBuckets

-----------------------------------------------------------------------------
(* What the documentation says and the code does not do.                   *)

(* docs/IMPLEMENTATION_GUIDE.md:1120: a 30-minute lockout after 5 failures *)
(* in 15 minutes.  The end of the window clears the lockout with it.       *)
LockoutHolds ==
  [][\A a \in Attempts, k \in Keys :
       attempt[a] = NoAttempt /\ attempt'[a] = k => now >= promise[k]]_vars

=============================================================================
