--------------------------- MODULE RateLimitProofs ---------------------------
(***************************************************************************)
(* Theorems about the rate limiter, for any number of keys, clients and    *)
(* attempts and every limit: what the table holds, what a refusal says,    *)
(* and how many failures and requests a window sees.                       *)
(***************************************************************************)
EXTENDS RateLimit, FiniteSetTheorems, TLAPS

Table == [Keys -> Buckets \cup {Absent}]

-----------------------------------------------------------------------------
(* A bucket brought up to date is a bucket (refreshBucketIfExpired).       *)
LEMMA RefreshType ==
  ASSUME NEW b \in Buckets, NEW t \in 1..MaxTime
  PROVE  Refresh(b, t) \in Buckets
<1>1. Fresh(t) \in Buckets
  BY LimitsAssumption, SMT DEF Fresh, Buckets
<1> QED BY <1>1 DEF Refresh

(* A new bucket admits the first attempt (evaluateBucket).                 *)
LEMMA FreshAllowed ==
  ASSUME NEW t, NEW s
  PROVE  Decision(Fresh(t), s).allowed
<1>1. Fresh(t).until = 0 /\ Fresh(t).count = 0
  BY DEF Fresh
<1>2. Decision(Fresh(t), s) = [allowed |-> 0 < Max, resetAt |-> Fresh(t).start + Window]
  BY <1>1 DEF Decision
<1>3. (0 < Max) = TRUE
  BY LimitsAssumption
<1>4. Decision(Fresh(t), s) = [allowed |-> TRUE, resetAt |-> Fresh(t).start + Window]
  BY <1>2, <1>3
<1> QED BY <1>4

(* Pruning drops buckets and changes none (pruneExpiredBuckets).           *)
LEMMA PruneType ==
  ASSUME NEW t \in 1..MaxTime, NEW bs \in Table
  PROVE  /\ Prune(bs, t) \in Table
         /\ \A k \in Keys : Prune(bs, t)[k] \in {bs[k], Absent}
         /\ Tracked(Prune(bs, t)) \subseteq Tracked(bs)
  BY DEF Table, Prune, Tracked

(* The ways getOrCreateBucket can leave the table: the key had a bucket,   *)
(* the table was full and an oldest one made room, or there was room.      *)
LEMMA OpenCases ==
  ASSUME NEW k \in Keys, NEW t \in 1..MaxTime, NEW bs \in Open(k, t),
         NEW P, P = Prune(bucket, t)
  PROVE  \/ /\ P[k] # Absent
            /\ bs = [P EXCEPT ![k] = Refresh(P[k], t)]
         \/ /\ P[k] = Absent
            /\ Cardinality(Tracked(P)) >= MaxBuckets
            /\ \E old \in Oldest(P) :
                 bs = [P EXCEPT ![old] = Absent, ![k] = Fresh(t)]
         \/ /\ P[k] = Absent
            /\ ~(Cardinality(Tracked(P)) >= MaxBuckets)
            /\ bs = [P EXCEPT ![k] = Fresh(t)]
  BY DEF Open

LEMMA OpenType ==
  ASSUME bucket \in Table, NEW k \in Keys, NEW t \in 1..MaxTime,
         NEW bs \in Open(k, t)
  PROVE  bs \in Table /\ bs[k] \in Buckets
<1> DEFINE P == Prune(bucket, t)
<1>1. P \in Table
  BY PruneType
<1>2. Fresh(t) \in Buckets
  BY LimitsAssumption, SMT DEF Fresh, Buckets
<1>3. P[k] # Absent => Refresh(P[k], t) \in Buckets
  BY <1>1, RefreshType DEF Table
<1> HIDE DEF P
<1>4. CASE P[k] # Absent /\ bs = [P EXCEPT ![k] = Refresh(P[k], t)]
  BY <1>1, <1>3, <1>4 DEF Table
<1>5. CASE \E old \in Oldest(P) : bs = [P EXCEPT ![old] = Absent, ![k] = Fresh(t)]
  BY <1>1, <1>2, <1>5 DEF Table, Oldest, Tracked
<1>6. CASE bs = [P EXCEPT ![k] = Fresh(t)]
  BY <1>1, <1>2, <1>6 DEF Table
<1> QED BY <1>4, <1>5, <1>6, OpenCases DEF P

(* Charging a bucket below its limit keeps its type (consume).             *)
LEMMA ConsumedType ==
  ASSUME NEW bs \in Table, NEW k \in Keys, bs[k] \in Buckets,
         NEW t \in 1..MaxTime
  PROVE  Consumed(bs, k, t) \in Table /\ Consumed(bs, k, t)[k] \in Buckets
<1>1. CASE Decision(bs[k], t).allowed
  <2>1. bs[k].count < Max
    BY <1>1 DEF Decision
  <2>2. Count(bs[k], t) \in Buckets
    <3> DEFINE b == bs[k]
               until == IF b.count + 1 >= Max /\ Lockout > 0
                        THEN t + Lockout ELSE b.until
    <3>1. b.count + 1 \in 0..Max
      BY <2>1, LimitsAssumption, SMT DEF Buckets
    <3>2. until \in Nat
      BY LimitsAssumption, SMT DEF Buckets
    <3>3. Count(b, t) = [b EXCEPT !.count = b.count + 1, !.until = until]
      BY DEF Count
    <3> HIDE DEF until
    <3> QED BY <3>1, <3>2, <3>3 DEF Buckets
  <2> QED BY <1>1, <2>2 DEF Consumed, Table
<1>2. CASE ~Decision(bs[k], t).allowed
  BY <1>2 DEF Consumed
<1> QED BY <1>1, <1>2

-----------------------------------------------------------------------------
(* The limiter's own state keeps its type: a count never passes its        *)
(* maximum however the awaited attempts overlap (fixed-window.ts).         *)
THEOREM LimiterTypeCorrect == Spec => []LimiterOK
<1>1. Init => LimiterOK
  BY LimitsAssumption, SMT DEF Init, LimiterOK
<1>2. LimiterOK /\ [Next]_vars => LimiterOK'
  <2> SUFFICES ASSUME LimiterOK, [Next]_vars PROVE LimiterOK'
    OBVIOUS
  <2>0. bucket \in Table
    BY DEF LimiterOK, Table
  <2>1. CASE Tick
    BY <2>1, LimitsAssumption, SMT DEF Tick, LimiterOK
  <2>2. ASSUME NEW k \in Keys, Request(k) PROVE LimiterOK'
    <3>1. PICK bs \in Open(k, now) : bucket' = Consumed(bs, k, now)
      BY <2>2 DEF Request
    <3>2. bucket' \in Table
      BY <3>1, <2>0, OpenType, ConsumedType DEF LimiterOK
    <3> QED BY <2>2, <3>2 DEF Request, LimiterOK, Table
  <2>3. ASSUME NEW a \in Attempts, NEW k \in Keys, Try(a, k) PROVE LimiterOK'
    <3>1. bucket' \in Table
      BY <2>3, <2>0, OpenType DEF Try, LimiterOK
    <3>2. attempt' \in [Attempts -> Keys \cup {NoAttempt}]
      BY <2>3 DEF Try, LimiterOK
    <3> QED BY <2>3, <3>1, <3>2 DEF Try, LimiterOK, Table
  <2>4. ASSUME NEW a \in Attempts, Succeed(a) PROVE LimiterOK'
    BY <2>4 DEF Succeed, LimiterOK
  <2>5. ASSUME NEW a \in Attempts, Failed(a) PROVE LimiterOK'
    <3>1. attempt[a] \in Keys
      BY <2>5 DEF Failed, LimiterOK
    <3>2. PICK bs \in Open(attempt[a], now) : bucket' = Consumed(bs, attempt[a], now)
      BY <2>5 DEF Failed
    <3>3. bucket' \in Table /\ bucket'[attempt[a]] \in Buckets
      BY <3>1, <3>2, <2>0, OpenType, ConsumedType DEF LimiterOK
    <3>4. promise' \in [Keys -> Nat]
      BY <2>5, <3>1, <3>3 DEF Failed, LimiterOK, Buckets
    <3> QED BY <2>5, <3>3, <3>4 DEF Failed, LimiterOK, Table
  <2>6. ASSUME NEW a \in Attempts, Limited(a) PROVE LimiterOK'
    BY <2>6 DEF Limited, LimiterOK
  <2>7. CASE UNCHANGED vars
    BY <2>7 DEF vars, LimiterOK
  <2> QED BY <2>1, <2>2, <2>3, <2>4, <2>5, <2>6, <2>7 DEF Next
<1> QED BY <1>1, <1>2, PTL DEF Spec

-----------------------------------------------------------------------------
(* A refused bucket is up to date, so it is refused for a lockout that is  *)
(* running or for a full window that has not ended.                        *)
LEMMA RefusedBucket ==
  ASSUME LimiterOK, NEW k \in Keys, Refused(k)
  PROVE  /\ bucket[k] \in Buckets
         /\ Refresh(bucket[k], now) = bucket[k]
         /\ ~Decision(bucket[k], now).allowed
<1>1. bucket[k] \in Buckets
  BY DEF LimiterOK, Refused
<1>2. Decision(Fresh(now), now).allowed
  BY FreshAllowed
<1>3. Refresh(bucket[k], now) \in {bucket[k], Fresh(now)}
  BY DEF Refresh
<1> QED BY <1>1, <1>2, <1>3 DEF Refused, Verdict

(* A refusal names a moment at which it ends (evaluateBucket together with *)
(* refreshBucketIfExpired): no key is locked out for ever.                 *)
THEOREM RefusalsEnd == Spec => []RetryAfterIsHonest
<1>1. LimiterOK => RetryAfterIsHonest
  <2> SUFFICES ASSUME LimiterOK, NEW k \in Keys, Refused(k)
               PROVE  LET reset == Verdict(k, now).resetAt
                      IN  reset > now /\ Verdict(k, reset).allowed
    BY DEF RetryAfterIsHonest
  <2> DEFINE b == bucket[k]
             reset == Verdict(k, now).resetAt
  <2>1. b \in Buckets /\ Refresh(b, now) = b /\ ~Decision(b, now).allowed
    BY RefusedBucket
  <2>2. now \in Nat
    BY LimitsAssumption, SMT DEF LimiterOK
  <2>3. CASE b.until # 0 /\ now < b.until
    <3>1. reset = b.until
      BY <2>1, <2>3 DEF Verdict, Decision
    <3>2. Refresh(b, reset) = Fresh(reset)
      BY <3>1, <2>1, <2>3, SMT DEF Refresh, Buckets
    <3>3. reset > now
      BY <3>1, <2>1, <2>2, <2>3, SMT DEF Buckets
    <3> QED BY <3>2, <3>3, FreshAllowed DEF Verdict
  <2>4. CASE ~(b.until # 0 /\ now < b.until)
    <3>1. reset = b.start + Window /\ ~(b.count < Max)
      BY <2>1, <2>4 DEF Verdict, Decision
    <3>2. now - b.start < Window
      <4>1. SUFFICES ASSUME now - b.start >= Window PROVE FALSE
        BY <2>1, <2>2, LimitsAssumption, SMT DEF Buckets
      <4>2. b = Fresh(now)
        BY <4>1, <2>1 DEF Refresh
      <4> QED BY <4>2, <3>1, LimitsAssumption, SMT DEF Fresh
    <3>3. reset > now /\ reset \in Nat
      BY <3>1, <3>2, <2>1, <2>2, LimitsAssumption, SMT DEF Buckets
    <3>4. Refresh(b, reset) = Fresh(reset)
      BY <3>1, <2>1, LimitsAssumption, SMT DEF Refresh, Buckets
    <3> QED BY <3>3, <3>4, FreshAllowed DEF Verdict
  <2> QED BY <2>3, <2>4
<1> QED BY <1>1, LimiterTypeCorrect, PTL

-----------------------------------------------------------------------------
(* Making room and opening a bucket leaves the table within its capacity.  *)
LEMMA OpenBounded ==
  ASSUME bucket \in Table, TrackedBounded,
         NEW k \in Keys, NEW t \in 1..MaxTime, NEW bs \in Open(k, t)
  PROVE  Cardinality(Tracked(bs)) <= MaxBuckets
<1> DEFINE P == Prune(bucket, t)
<1>1. P \in Table /\ Tracked(P) \subseteq Tracked(bucket)
  BY PruneType
<1>2. /\ IsFiniteSet(Tracked(bucket)) /\ IsFiniteSet(Tracked(P))
      /\ Cardinality(Tracked(P)) <= MaxBuckets
      /\ Cardinality(Tracked(P)) \in Nat
  <2>1. IsFiniteSet(Tracked(bucket)) /\ IsFiniteSet(Tracked(P))
    BY KeysAssumption, FS_Subset DEF Tracked
  <2>2. Cardinality(Tracked(P)) <= Cardinality(Tracked(bucket))
    BY <1>1, <2>1, FS_Subset
  <2>3. Cardinality(Tracked(P)) \in Nat /\ Cardinality(Tracked(bucket)) \in Nat
    BY <2>1, FS_CardinalityType
  <2> QED BY <2>1, <2>2, <2>3, LimitsAssumption DEF TrackedBounded
<1> HIDE DEF P
<1>3. CASE P[k] # Absent /\ bs = [P EXCEPT ![k] = Refresh(P[k], t)]
  <2>1. Tracked(bs) \subseteq Tracked(P)
    BY <1>1, <1>3 DEF Tracked, Table
  <2>2. Cardinality(Tracked(bs)) <= Cardinality(Tracked(P))
    BY <2>1, <1>2, FS_Subset
  <2>3. Cardinality(Tracked(bs)) \in Nat
    BY <2>1, <1>2, FS_Subset, FS_CardinalityType
  <2> QED BY <2>2, <2>3, <1>2, LimitsAssumption
<1>4. ASSUME P[k] = Absent, NEW old \in Oldest(P),
             bs = [P EXCEPT ![old] = Absent, ![k] = Fresh(t)]
      PROVE  Cardinality(Tracked(bs)) <= MaxBuckets
  <2>1. old \in Tracked(P) /\ k \notin Tracked(P) /\ old # k
    BY <1>4 DEF Oldest, Tracked
  <2>2. Tracked(bs) \subseteq (Tracked(P) \ {old}) \cup {k}
    <3>1. \A j \in Keys \ {k, old} : bs[j] = P[j]
      BY <1>1, <1>4 DEF Table
    <3>2. bs[old] = Absent
      BY <1>1, <1>4, <2>1 DEF Tracked, Table
    <3> QED BY <3>1, <3>2 DEF Tracked
  <2>3. /\ IsFiniteSet(Tracked(P) \ {old})
        /\ Cardinality(Tracked(P) \ {old}) = Cardinality(Tracked(P)) - 1
    BY <2>1, <1>2, FS_RemoveElement
  <2>4. /\ IsFiniteSet((Tracked(P) \ {old}) \cup {k})
        /\ Cardinality((Tracked(P) \ {old}) \cup {k}) = Cardinality(Tracked(P))
    <3> DEFINE rest == Tracked(P) \ {old}
    <3>1. IsFiniteSet(rest) /\ k \notin rest
      BY <2>1, <2>3
    <3>2. IsFiniteSet(rest \cup {k}) /\ Cardinality(rest \cup {k}) = Cardinality(rest) + 1
      BY <3>1, FS_AddElement
    <3> QED BY <3>2, <2>3, <1>2
  <2>5. IsFiniteSet(Tracked(bs)) /\ Cardinality(Tracked(bs)) <= Cardinality(Tracked(P))
    BY <2>2, <2>4, FS_Subset
  <2>6. Cardinality(Tracked(bs)) \in Nat
    BY <2>5, FS_CardinalityType
  <2> QED BY <2>5, <2>6, <1>2, LimitsAssumption
<1>5. CASE ~(Cardinality(Tracked(P)) >= MaxBuckets) /\ bs = [P EXCEPT ![k] = Fresh(t)]
  <2>1. Tracked(bs) \subseteq Tracked(P) \cup {k}
    BY <1>1, <1>5 DEF Tracked, Table
  <2>2. /\ IsFiniteSet(Tracked(P) \cup {k})
        /\ Cardinality(Tracked(P) \cup {k}) <= Cardinality(Tracked(P)) + 1
    BY <1>2, FS_AddElement
  <2>3. IsFiniteSet(Tracked(bs))
        /\ Cardinality(Tracked(bs)) <= Cardinality(Tracked(P) \cup {k})
    BY <2>1, <2>2, FS_Subset
  <2>4. Cardinality(Tracked(bs)) \in Nat /\ Cardinality(Tracked(P) \cup {k}) \in Nat
    BY <2>2, <2>3, FS_CardinalityType
  <2> QED BY <2>2, <2>3, <2>4, <1>2, <1>5, LimitsAssumption
<1> QED BY <1>3, <1>4, <1>5, OpenCases DEF P

(* A charge tracks no further key (consume).                               *)
LEMMA ConsumedTracks ==
  ASSUME NEW bs \in Table, NEW k \in Keys, bs[k] \in Buckets,
         NEW t \in 1..MaxTime
  PROVE  Tracked(Consumed(bs, k, t)) = Tracked(bs)
<1>1. bs[k] # Absent
  BY DEF Absent, Buckets
<1>2. Consumed(bs, k, t)[k] # Absent
  BY ConsumedType DEF Absent, Buckets
<1>3. \A j \in Keys \ {k} : Consumed(bs, k, t)[j] = bs[j]
  BY DEF Consumed, Table
<1> QED BY <1>1, <1>2, <1>3 DEF Tracked

(* The table never holds more keys than its capacity, whatever keys        *)
(* arrive (getOrCreateBucket evicts before it inserts).                    *)
THEOREM TableBounded == Spec => []TrackedBounded
<1>1. Init => TrackedBounded
  <2> SUFFICES ASSUME Init PROVE TrackedBounded
    OBVIOUS
  <2>1. Tracked(bucket) = {}
    BY DEF Init, Tracked
  <2> QED BY <2>1, FS_EmptySet, LimitsAssumption DEF TrackedBounded
<1>2. LimiterOK /\ TrackedBounded /\ [Next]_vars => TrackedBounded'
  <2> SUFFICES ASSUME LimiterOK, TrackedBounded, [Next]_vars
               PROVE  Cardinality(Tracked(bucket')) <= MaxBuckets
    BY DEF TrackedBounded, Tracked
  <2>0. bucket \in Table
    BY DEF LimiterOK, Table
  <2>1. CASE UNCHANGED bucket
    BY <2>1 DEF TrackedBounded
  <2>2. ASSUME NEW k \in Keys, NEW bs \in Open(k, now), bucket' = Consumed(bs, k, now)
        PROVE  Cardinality(Tracked(bucket')) <= MaxBuckets
    <3>1. Tracked(bucket') = Tracked(bs)
      BY <2>2, <2>0, OpenType, ConsumedTracks DEF LimiterOK
    <3> QED BY <3>1, <2>0, <2>2, OpenBounded DEF LimiterOK
  <2>3. ASSUME NEW k \in Keys, Request(k)
        PROVE  Cardinality(Tracked(bucket')) <= MaxBuckets
    BY <2>2, <2>3 DEF Request
  <2>4. ASSUME NEW a \in Attempts, NEW k \in Keys, Try(a, k)
        PROVE  Cardinality(Tracked(bucket')) <= MaxBuckets
    BY <2>0, <2>4, OpenBounded DEF Try, LimiterOK
  <2>5. ASSUME NEW a \in Attempts, Succeed(a)
        PROVE  Cardinality(Tracked(bucket')) <= MaxBuckets
    <3>1. Tracked(bucket') \subseteq Tracked(bucket)
      BY <2>0, <2>5 DEF Succeed, Tracked, Table
    <3>2. IsFiniteSet(Tracked(bucket))
      BY KeysAssumption, FS_Subset DEF Tracked
    <3>3. /\ Cardinality(Tracked(bucket')) <= Cardinality(Tracked(bucket))
          /\ IsFiniteSet(Tracked(bucket'))
      BY <3>1, <3>2, FS_Subset
    <3>4. Cardinality(Tracked(bucket')) \in Nat /\ Cardinality(Tracked(bucket)) \in Nat
      BY <3>2, <3>3, FS_CardinalityType
    <3> QED BY <3>3, <3>4, LimitsAssumption DEF TrackedBounded
  <2>6. ASSUME NEW a \in Attempts, Failed(a)
        PROVE  Cardinality(Tracked(bucket')) <= MaxBuckets
    BY <2>2, <2>6 DEF Failed, LimiterOK
  <2> QED BY <2>1, <2>3, <2>4, <2>5, <2>6 DEF Next, Tick, Limited, vars
<1> QED BY <1>1, <1>2, LimiterTypeCorrect, PTL DEF Spec

-----------------------------------------------------------------------------
(* Opening any bucket leaves a refused one as it is, or evicts it from a   *)
(* full table: it is not pruned and not refreshed.                         *)
LEMMA OpenKeepsRefused ==
  ASSUME LimiterOK, NEW k \in Keys, Refused(k),
         NEW j \in Keys, NEW bs \in Open(j, now)
  PROVE  \/ bs[k] = bucket[k]
         \/ /\ bs[k] = Absent /\ k # j
            /\ Cardinality(Tracked(bucket)) >= MaxBuckets
<1> DEFINE P == Prune(bucket, now)
<1>0. /\ bucket \in Table /\ now \in 1..MaxTime /\ P \in Table
      /\ Tracked(P) \subseteq Tracked(bucket)
  BY PruneType DEF LimiterOK, Table
<1>1. /\ bucket[k] \in Buckets /\ Refresh(bucket[k], now) = bucket[k]
      /\ ~Decision(bucket[k], now).allowed
  BY RefusedBucket
<1>2. ~Prunable(bucket[k], now)
  <2>1. CASE bucket[k].until # 0 /\ now < bucket[k].until
    BY <2>1, <1>0, <1>1, LimitsAssumption, SMT DEF Prunable, Buckets
  <2>2. CASE ~(bucket[k].until # 0 /\ now < bucket[k].until)
    <3>1. ~(bucket[k].count < Max)
      BY <2>2, <1>1 DEF Decision
    <3> QED BY <3>1, LimitsAssumption DEF Prunable
  <2> QED BY <2>1, <2>2
<1>3. P[k] = bucket[k] /\ P[k] # Absent
  BY <1>1, <1>2 DEF Prune, Buckets, Absent
<1>4. Cardinality(Tracked(P)) >= MaxBuckets => Cardinality(Tracked(bucket)) >= MaxBuckets
  <2>1. IsFiniteSet(Tracked(bucket))
    BY KeysAssumption, FS_Subset DEF Tracked
  <2>2. /\ Cardinality(Tracked(P)) <= Cardinality(Tracked(bucket))
        /\ IsFiniteSet(Tracked(P))
    BY <1>0, <2>1, FS_Subset
  <2>3. Cardinality(Tracked(P)) \in Nat /\ Cardinality(Tracked(bucket)) \in Nat
    BY <2>1, <2>2, FS_CardinalityType
  <2> QED BY <2>2, <2>3, LimitsAssumption
<1> HIDE DEF P
<1>5. CASE bs = [P EXCEPT ![j] = Refresh(P[j], now)]
  BY <1>0, <1>1, <1>3, <1>5 DEF Table
<1>6. ASSUME P[j] = Absent, Cardinality(Tracked(P)) >= MaxBuckets, NEW old \in Oldest(P),
             bs = [P EXCEPT ![old] = Absent, ![j] = Fresh(now)]
      PROVE  \/ bs[k] = bucket[k]
             \/ bs[k] = Absent /\ k # j /\ Cardinality(Tracked(bucket)) >= MaxBuckets
  <2>1. k # j
    BY <1>3, <1>6
  <2>2. old \in Keys
    BY DEF Oldest, Tracked
  <2>3. bs[k] = IF k = old THEN Absent ELSE P[k]
    BY <1>0, <1>6, <2>1, <2>2 DEF Table
  <2> QED BY <1>3, <1>4, <1>6, <2>1, <2>3
<1>7. CASE P[j] = Absent /\ bs = [P EXCEPT ![j] = Fresh(now)]
  BY <1>0, <1>3, <1>7 DEF Table
<1> QED BY <1>0, <1>5, <1>6, <1>7, OpenCases DEF P

(* Other keys' traffic does not lift a refusal while the table has room    *)
(* (getOrCreateBucket prunes and evicts on the way to its own key).         *)
THEOREM RefusalsIndependent == Spec => KeysIndependent
<1> DEFINE Lifted(k) == now' = now /\ Refused(k) /\ ~Refused(k)'
           Excused(k) == \/ \E a \in Attempts : attempt[a] = k /\ attempt'[a] = NoAttempt
                         \/ /\ bucket'[k] = Absent
                            /\ Cardinality(Tracked(bucket)) >= MaxBuckets
<1>1. ASSUME LimiterOK, Next, NEW k \in Keys, Lifted(k) PROVE Excused(k)
  <2>1. bucket'[k] # bucket[k]
    BY <1>1 DEF Refused, Verdict
  <2>2. bucket \in Table /\ now \in 1..MaxTime
    BY <1>1 DEF LimiterOK, Table
  <2>3. ASSUME NEW j \in Keys, j # k, NEW bs \in Open(j, now), bucket' = Consumed(bs, j, now)
        PROVE  Excused(k)
    <3>1. bs \in Table
      BY <2>2, OpenType
    <3>2. bucket'[k] = bs[k]
      BY <2>3, <3>1 DEF Consumed, Table
    <3> QED BY <1>1, <2>1, <3>2, OpenKeepsRefused
  <2>4. ASSUME NEW j \in Keys, Request(j) PROVE Excused(k)
    <3>1. PICK bs \in Open(j, now) : bucket' = Consumed(bs, j, now)
      BY <2>4 DEF Request
    <3>2. CASE j = k
      <4>1. bs[k] = bucket[k]
        BY <1>1, <3>2, OpenKeepsRefused
      <4>2. ~Decision(bs[k], now).allowed
        BY <1>1, <4>1, RefusedBucket
      <4> QED BY <2>1, <3>1, <3>2, <4>1, <4>2 DEF Consumed
    <3> QED BY <2>3, <3>1, <3>2
  <2>5. ASSUME NEW a \in Attempts, NEW j \in Keys, Try(a, j) PROVE Excused(k)
    BY <1>1, <2>1, <2>5, OpenKeepsRefused DEF Try
  <2>6. ASSUME NEW a \in Attempts, Succeed(a) PROVE Excused(k)
    <3>1. CASE attempt[a] = k
      BY <1>1, <2>6, <3>1 DEF Succeed, LimiterOK
    <3>2. CASE attempt[a] # k
      BY <2>1, <2>2, <2>6, <3>2 DEF Succeed, Table
    <3> QED BY <3>1, <3>2
  <2>7. ASSUME NEW a \in Attempts, Failed(a) PROVE Excused(k)
    <3>1. CASE attempt[a] = k
      BY <1>1, <2>7, <3>1 DEF Failed, LimiterOK
    <3>2. CASE attempt[a] # k
      <4>1. attempt[a] \in Keys
        BY <1>1, <2>7 DEF Failed, LimiterOK
      <4> QED BY <2>3, <2>7, <3>2, <4>1 DEF Failed
    <3> QED BY <3>1, <3>2
  <2> QED BY <1>1, <2>1, <2>4, <2>5, <2>6, <2>7 DEF Next, Tick, Limited
<1>2. LimiterOK /\ [Next]_vars => 
        [\A k \in Keys :
           now' = now /\ Refused(k) /\ ~Refused(k)' =>
             \/ \E a \in Attempts : attempt[a] = k /\ attempt'[a] = NoAttempt
             \/ bucket'[k] = Absent /\ Cardinality(Tracked(bucket)) >= MaxBuckets]_vars
  BY <1>1
<1> QED BY <1>2, LimiterTypeCorrect, PTL DEF Spec, KeysIndependent

-----------------------------------------------------------------------------
(* The accounting behind the two bounds.  The count of a bucket is the     *)
(* number of charges in its window until the limit is reached; from then   *)
(* on the attempts admitted before can still add theirs.                   *)

(* Charges of one moment bear the numbers below their quantity, so a new   *)
(* charge is never one that is there.                                      *)
Numbered(ch) ==
  /\ ch \in SUBSET Charges /\ IsFiniteSet(ch)
  /\ \A c \in ch : c[2] < Cardinality({d \in ch : d[1] = c[1]})

Since(ch, s) == {c \in ch : c[1] >= s}

(* At time t no charge lies in the future; those of the window lie within  *)
(* it, and before the end of the lockout.                                  *)
Windowed(b, ch, t) ==
  /\ b = Absent => ch = {}
  /\ b # Absent =>
       /\ b.start <= t
       /\ b.until # 0 => b.until > b.start /\ b.count = Max
       /\ \A c \in ch :
            /\ c[1] <= t
            /\ c[1] >= b.start => /\ c[1] < b.start + Window
                                  /\ b.until # 0 => c[1] < b.until

(* n charges in the window of k, and w attempts that are awaited.          *)
Tally(k, b, n, w) ==
  /\ k \in Clients => n = b.count
  /\ k \notin Clients =>
       /\ b.count < Max => n = b.count
       /\ b.count = Max => n + w < Max + Cardinality(Attempts)

Sound(k, b, ch, w, t) ==
  /\ Numbered(ch)
  /\ Windowed(b, ch, t)
  /\ b # Absent => Tally(k, b, Cardinality(Since(ch, b.start)), w)

Awaiting(k) == {a \in Attempts : attempt[a] = k}

AttemptsOK == attempt \in [Attempts -> (Keys \ Clients) \cup {NoAttempt}]

ChargesOK == charged = [k \in Keys |-> charged[k]]

(* The inductive invariant.                                                *)
AccountInv ==
  /\ LimiterOK /\ AttemptsOK /\ ChargesOK
  /\ \A k \in Keys : Sound(k, bucket[k], charged[k], Cardinality(Awaiting(k)), now)

(* The charge to come is not yet there; with it, and with the charges that *)
(* have left the window dropped, charges are still numbered.               *)
LEMMA ChargeNumbered ==
  ASSUME NEW ch, Numbered(ch), NEW t \in 1..MaxTime,
         \A c \in ch : c[1] <= t,
         NEW kept, kept = {c \in ch : t - c[1] < Window},
         NEW e, e = <<t, Cardinality({c \in ch : c[1] = t})>>
  PROVE  /\ e \notin ch
         /\ Numbered(kept \cup {e})
<1> DEFINE At(S, u) == {d \in S : d[1] = u}
           n == Cardinality(At(ch, t))
           new == kept \cup {e}
<1>1. ch \in SUBSET Charges /\ IsFiniteSet(ch)
  BY DEF Numbered
<1>2. \A S \in SUBSET ch : \A u : IsFiniteSet(At(S, u)) /\ Cardinality(At(S, u)) \in Nat
  BY <1>1, FS_Subset, FS_CardinalityType
<1>3. n \in Nat /\ e = <<t, n>> /\ e[1] = t /\ e[2] = n
  BY <1>2
<1>4. e \notin ch
  <2>1. SUFFICES ASSUME e \in ch PROVE FALSE
    OBVIOUS
  <2>2. e[2] < Cardinality({d \in ch : d[1] = e[1]})
    BY <2>1 DEF Numbered
  <2> QED BY <2>2, <1>3
<1>5. kept \in SUBSET ch /\ IsFiniteSet(kept)
  <2>1. kept \in SUBSET ch
    OBVIOUS
  <2> QED BY <2>1, <1>1, FS_Subset
<1>6. e \in Charges
  BY <1>3 DEF Charges
<1>7. new \in SUBSET Charges /\ IsFiniteSet(new)
  <2>1. IsFiniteSet(kept \cup {e})
    BY <1>5, FS_AddElement
  <2> QED BY <2>1, <1>1, <1>5, <1>6
<1>8. ASSUME NEW c \in new PROVE c[2] < Cardinality({d \in new : d[1] = c[1]})
  <2>1. c[1] \in 1..MaxTime /\ c[2] \in Nat
    BY <1>7 DEF Charges
  <2>2. CASE c[1] = t
    <3>1. At(new, t) = At(ch, t) \cup {e}
      <4>1. ASSUME NEW d \in ch, d[1] = t PROVE d \in kept
        <5>1. t - d[1] < Window
          BY <4>1, LimitsAssumption, SMT
        <5> QED BY <5>1
      <4> QED BY <4>1, <1>3
    <3>2. Cardinality(At(new, t)) = n + 1
      <4>1. IsFiniteSet(At(ch, t)) /\ e \notin At(ch, t)
        BY <1>1, <1>2, <1>4
      <4> DEFINE now_ == At(ch, t)
      <4>2. Cardinality(now_ \cup {e}) = Cardinality(now_) + 1
        <5> HIDE DEF now_
        <5> QED BY <4>1, FS_AddElement DEF now_
      <4> QED BY <3>1, <4>2
    <3>3. c[2] <= n
      <4>1. CASE c = e
        BY <4>1, <1>3
      <4>2. CASE c \in ch
        <5>1. c[2] < n
          BY <4>2, <2>2 DEF Numbered
        <5> QED BY <5>1, <2>1, <1>3
      <4> QED BY <4>1, <4>2, <1>5
    <3> HIDE DEF n
    <3> QED BY <3>2, <3>3, <2>1, <2>2, <1>3
  <2>3. CASE c[1] # t
    <3>1. c \in kept
      BY <2>3, <1>3
    <3>2. c \in ch /\ t - c[1] < Window
      BY <3>1
    <3>3. At(new, c[1]) = At(ch, c[1])
      BY <2>3, <3>2, <1>3
    <3>4. c[2] < Cardinality(At(ch, c[1]))
      BY <3>2 DEF Numbered
    <3> QED BY <3>3, <3>4
  <2> QED BY <2>2, <2>3
<1>9. Numbered(new)
  <2> HIDE DEF new
  <2> QED BY <1>7, <1>8 DEF Numbered
<1> QED BY <1>4, <1>9

(* It adds one to the charges of a window that is running.                 *)
LEMMA ChargeOnce ==
  ASSUME NEW ch, Numbered(ch), NEW t \in 1..MaxTime, NEW s \in 1..MaxTime,
         s <= t, t - s < Window,
         NEW kept, kept = {c \in ch : t - c[1] < Window},
         NEW e \in Charges, e[1] = t, e \notin ch
  PROVE  Cardinality(Since(kept \cup {e}, s)) = Cardinality(Since(ch, s)) + 1
<1> DEFINE old == Since(ch, s)
<1>1. ch \in SUBSET Charges /\ IsFiniteSet(ch)
  BY DEF Numbered
<1>2. IsFiniteSet(old) /\ e \notin old
  BY <1>1, FS_Subset DEF Since
<1>3. \A c \in ch : c[1] >= s => t - c[1] < Window
  BY <1>1, LimitsAssumption, SMT DEF Charges
<1>4. e[1] >= s
  BY SMT
<1>5. Since(kept \cup {e}, s) = old \cup {e}
  BY <1>3, <1>4 DEF Since
<1>6. Cardinality(old \cup {e}) = Cardinality(old) + 1
  <2> HIDE DEF old
  <2> QED BY <1>2, FS_AddElement
<1> QED BY <1>5, <1>6

LEMMA TallyType ==
  ASSUME NEW ch, Numbered(ch), NEW s
  PROVE  IsFiniteSet(Since(ch, s)) /\ Cardinality(Since(ch, s)) \in Nat
<1>1. Since(ch, s) \in SUBSET ch
  BY DEF Since
<1> QED BY <1>1, FS_Subset, FS_CardinalityType DEF Numbered

(* Time passes, and attempts end: what is sound stays so.                  *)
LEMMA SoundLater ==
  ASSUME NEW k, NEW b \in Buckets \cup {Absent}, NEW ch,
         NEW w \in Nat, NEW v \in Nat, v <= w,
         NEW t \in 1..MaxTime, NEW u \in 1..MaxTime, t <= u,
         Sound(k, b, ch, w, t)
  PROVE  Sound(k, b, ch, v, u)
<1>1. Numbered(ch) /\ ch \in SUBSET Charges
  BY DEF Sound, Numbered
<1>2. Windowed(b, ch, u)
  <2>1. CASE b = Absent
    BY <2>1 DEF Sound, Windowed
  <2>2. CASE b # Absent
    <3>1. \A c \in ch : c[1] \in Nat
      BY <1>1 DEF Charges
    <3>2. /\ b.start <= t
          /\ b.until # 0 => b.until > b.start /\ b.count = Max
          /\ \A c \in ch :
               /\ c[1] <= t
               /\ c[1] >= b.start => /\ c[1] < b.start + Window
                                     /\ b.until # 0 => c[1] < b.until
      BY <2>2 DEF Sound, Windowed
    <3>3. b.start <= u /\ \A c \in ch : c[1] <= u
      <4>1. b.start \in Nat
        BY <2>2 DEF Buckets
      <4> QED BY <3>1, <3>2, <4>1
    <3> QED BY <2>2, <3>2, <3>3 DEF Windowed
  <2> QED BY <2>1, <2>2
<1>3. b # Absent => Tally(k, b, Cardinality(Since(ch, b.start)), v)
  <2> SUFFICES ASSUME b # Absent PROVE Tally(k, b, Cardinality(Since(ch, b.start)), v)
    OBVIOUS
  <2> DEFINE n == Cardinality(Since(ch, b.start))
  <2>1. n \in Nat /\ Cardinality(Attempts) \in Nat
    BY <1>1, TallyType, AttemptsAssumption, FS_CardinalityType
  <2>2. Tally(k, b, n, w)
    BY DEF Sound
  <2> HIDE DEF n
  <2>3. n + w < Max + Cardinality(Attempts) => n + v < Max + Cardinality(Attempts)
    BY <2>1, LimitsAssumption
  <2>4. Tally(k, b, n, v)
    BY <2>2, <2>3 DEF Tally
  <2> QED BY <2>4 DEF n
<1> QED BY <1>1, <1>2, <1>3 DEF Sound

(* A key that is not tracked has nothing to account for.                   *)
LEMMA SoundAbsent ==
  ASSUME NEW k, NEW w, NEW t
  PROVE  Sound(k, Absent, {}, w, t)
<1>1. Numbered({})
  BY FS_EmptySet DEF Numbered
<1> QED BY <1>1 DEF Sound, Windowed

-----------------------------------------------------------------------------
(* The window of a bucket that was just opened is running, and so is its   *)
(* lockout, if it has one.                                                 *)
Current(b, t) ==
  /\ b \in Buckets /\ b.start <= t /\ t - b.start < Window
  /\ b.until # 0 => t < b.until

(* A bucket that starts afresh finds none of the charges in its window:    *)
(* those of the old window, and those before the end of the lockout, are   *)
(* older than it (refreshBucketIfExpired, pruneExpiredBuckets).            *)
LEMMA FreshIsEmpty ==
  ASSUME NEW t \in 1..MaxTime, NEW b \in Buckets \cup {Absent}, NEW ch,
         Numbered(ch), Windowed(b, ch, t),
         \/ b = Absent
         \/ b.until # 0 /\ t >= b.until
         \/ t - b.start >= Window
  PROVE  Since(ch, t) = {}
<1>1. CASE b = Absent
  BY <1>1 DEF Windowed, Since
<1>2. CASE b # Absent
  <2>1. SUFFICES ASSUME NEW c \in ch, c[1] >= t PROVE FALSE
    BY DEF Since
  <2>2. c[1] \in Nat /\ b.start \in Nat /\ b.until \in Nat /\ b.start >= 1
    BY <1>2, SMT DEF Numbered, Charges, Buckets
  <2>3. /\ b.start <= t
        /\ b.until # 0 => b.until > b.start
        /\ c[1] <= t
        /\ c[1] >= b.start => /\ c[1] < b.start + Window
                              /\ b.until # 0 => c[1] < b.until
    BY <1>2 DEF Windowed
  <2>4. \/ b.until # 0 /\ t >= b.until
        \/ t - b.start >= Window
    BY <1>2
  <2> QED BY <2>1, <2>2, <2>3, <2>4, LimitsAssumption, SMT
<1> QED BY <1>1, <1>2

LEMMA FreshCurrent ==
  ASSUME NEW t \in 1..MaxTime
  PROVE  Current(Fresh(t), t) /\ Fresh(t) # Absent
  BY LimitsAssumption, SMT DEF Current, Fresh, Buckets, Absent

LEMMA FreshSound ==
  ASSUME NEW k, NEW t \in 1..MaxTime, NEW ch, NEW w \in Nat, Numbered(ch),
         \A c \in ch : c[1] <= t, Since(ch, t) = {}
  PROVE  Sound(k, Fresh(t), ch, w, t)
<1>1. Fresh(t).start = t /\ Fresh(t).count = 0 /\ Fresh(t).until = 0
  BY DEF Fresh
<1>2. \A c \in ch : ~(c[1] >= t)
  BY DEF Since
<1>3. Windowed(Fresh(t), ch, t)
  <2> DEFINE b == Fresh(t)
  <2>1. b.start = t /\ b.until = 0 /\ b # Absent
    BY <1>1, FreshCurrent
  <2>2. t <= t
    BY SMT
  <2> HIDE DEF b
  <2>3. Windowed(b, ch, t)
    BY <2>1, <2>2, <1>2 DEF Windowed
  <2> QED BY <2>3 DEF b
<1>4. Tally(k, Fresh(t), Cardinality(Since(ch, Fresh(t).start)), w)
  <2>1. Cardinality(Since(ch, Fresh(t).start)) = 0
    BY <1>1, FS_EmptySet
  <2>2. Fresh(t).count # Max
    BY <1>1, LimitsAssumption
  <2> QED BY <2>1, <2>2, <1>1 DEF Tally
<1> QED BY <1>3, <1>4 DEF Sound

(* A sound account has charges of the past only.                           *)
LEMMA SoundPast ==
  ASSUME NEW k, NEW b, NEW ch, NEW w, NEW t, Sound(k, b, ch, w, t)
  PROVE  Numbered(ch) /\ Windowed(b, ch, t) /\ \A c \in ch : c[1] <= t
<1>1. CASE b = Absent
  BY <1>1 DEF Sound, Windowed
<1>2. CASE b # Absent
  BY <1>2 DEF Sound, Windowed
<1> QED BY <1>1, <1>2

(* getOrCreateBucket brings its own bucket up to date and keeps its        *)
(* account sound.                                                          *)
LEMMA OpenSound ==
  ASSUME bucket \in Table, NEW k \in Keys, NEW t \in 1..MaxTime,
         NEW bs \in Open(k, t), NEW ch, NEW w \in Nat,
         Sound(k, bucket[k], ch, w, t)
  PROVE  Current(bs[k], t) /\ Sound(k, bs[k], ch, w, t)
<1> DEFINE P == Prune(bucket, t)
           b == bucket[k]
<1>1. P \in Table /\ P[k] \in {b, Absent} /\ b \in Buckets \cup {Absent}
  BY PruneType DEF Table
<1>2. Numbered(ch) /\ Windowed(b, ch, t) /\ \A c \in ch : c[1] <= t
  BY SoundPast
<1>3. Current(Fresh(t), t)
  BY FreshCurrent
<1>4. Since(ch, t) = {} => Sound(k, Fresh(t), ch, w, t)
  BY <1>2, FreshSound
<1>5. P[k] = Absent => Since(ch, t) = {}
  <2> SUFFICES ASSUME P[k] = Absent PROVE Since(ch, t) = {}
    OBVIOUS
  <2>1. b = Absent \/ Prunable(b, t)
    BY DEF Prune
  <2>2. b = Absent \/ t - b.start >= Window
    BY <2>1 DEF Prunable
  <2> HIDE DEF b
  <2> QED BY <2>2, <1>1, <1>2, FreshIsEmpty
<1>6. \/ bs[k] = Fresh(t) /\ P[k] = Absent
      \/ bs[k] = Refresh(b, t) /\ b # Absent
  <2> HIDE DEF P
  <2>1. CASE P[k] # Absent /\ bs = [P EXCEPT ![k] = Refresh(P[k], t)]
    BY <1>1, <2>1 DEF Table
  <2>2. CASE P[k] = Absent /\ \E old \in Oldest(P) : bs = [P EXCEPT ![old] = Absent, ![k] = Fresh(t)]
    BY <1>1, <2>2 DEF Table
  <2>3. CASE P[k] = Absent /\ bs = [P EXCEPT ![k] = Fresh(t)]
    BY <1>1, <2>3 DEF Table
  <2> QED BY <2>1, <2>2, <2>3, OpenCases DEF P
<1>7. CASE bs[k] = Fresh(t) /\ P[k] = Absent
  BY <1>3, <1>4, <1>5, <1>7
<1>8. CASE bs[k] = Refresh(b, t) /\ b # Absent
  <2>0. b \in Buckets
    BY <1>1, <1>8
  <2>1. CASE (b.until # 0 /\ t >= b.until) \/ t - b.start >= Window
    <3>1. Since(ch, t) = {}
      <4> HIDE DEF b
      <4> QED BY <2>1, <1>1, <1>2, FreshIsEmpty
    <3>2. bs[k] = Fresh(t)
      BY <1>8, <2>1 DEF Refresh
    <3> QED BY <3>1, <3>2, <1>3, <1>4
  <2>2. CASE ~((b.until # 0 /\ t >= b.until) \/ t - b.start >= Window)
    <3>1. bs[k] = b
      BY <1>8, <2>2 DEF Refresh
    <3>2. b.start <= t
      BY <1>2, <1>8 DEF Windowed
    <3>3. b.until \in Nat /\ b.start \in Nat
      BY <2>0 DEF Buckets
    <3>4. t - b.start < Window /\ (b.until # 0 => t < b.until)
      <4> HIDE DEF b
      <4> QED BY <2>2, <3>2, <3>3, LimitsAssumption, SMT
    <3>5. Current(b, t)
      BY <2>0, <3>2, <3>4 DEF Current
    <3> QED BY <3>1, <3>5
  <2> QED BY <2>1, <2>2
<1> QED BY <1>6, <1>7, <1>8

(* The buckets of the other keys it leaves alone, or drops.                *)
LEMMA OpenOthers ==
  ASSUME bucket \in Table, NEW k \in Keys, NEW t \in 1..MaxTime,
         NEW bs \in Open(k, t), NEW j \in Keys, j # k
  PROVE  bs[j] \in {bucket[j], Absent}
<1> DEFINE P == Prune(bucket, t)
<1>1. P \in Table /\ P[j] \in {bucket[j], Absent}
  BY PruneType
<1> HIDE DEF P
<1>2. CASE bs = [P EXCEPT ![k] = Refresh(P[k], t)]
  BY <1>1, <1>2 DEF Table
<1>3. CASE \E old \in Oldest(P) : bs = [P EXCEPT ![old] = Absent, ![k] = Fresh(t)]
  BY <1>1, <1>3 DEF Table
<1>4. CASE bs = [P EXCEPT ![k] = Fresh(t)]
  BY <1>1, <1>4 DEF Table
<1> QED BY <1>2, <1>3, <1>4, OpenCases DEF P

-----------------------------------------------------------------------------
(* One more charge on an open bucket.  The bucket counts it when it admits *)
(* it (consume); the window has one charge more either way.                *)
LEMMA ChargeSound ==
  ASSUME NEW k, NEW t \in 1..MaxTime, NEW b, Current(b, t), b.count \in 0..Max,
         NEW ch, NEW w \in Nat, NEW v \in Nat, Sound(k, b, ch, w, t),
         NEW b2, b2 = IF Decision(b, t).allowed THEN Count(b, t) ELSE b,
         NEW ch2, ch2 = {c \in ch : t - c[1] < Window}
                          \cup {<<t, Cardinality({c \in ch : c[1] = t})>>},
         \/ k \in Clients /\ Decision(b, t).allowed
         \/ k \notin Clients /\ w = v + 1 /\ w <= Cardinality(Attempts)
  PROVE  Sound(k, b2, ch2, v, t)
<1> DEFINE kept == {c \in ch : t - c[1] < Window}
           e == <<t, Cardinality({c \in ch : c[1] = t})>>
           n == Cardinality(Since(ch, b.start))
<1>1. Numbered(ch) /\ \A c \in ch : c[1] <= t
  BY SoundPast
<1>2. e \notin ch /\ Numbered(ch2)
  BY <1>1, ChargeNumbered
<1>3. e \in Charges /\ e[1] = t
  <2>1. e \in ch2
    OBVIOUS
  <2>2. e \in Charges
    BY <2>1, <1>2 DEF Numbered
  <2> QED BY <2>2
<1>4. /\ b.start \in 1..MaxTime /\ b.until \in Nat
      /\ b.start <= t /\ t - b.start < Window /\ (b.until # 0 => t < b.until)
      /\ b \in Buckets /\ b # Absent
  BY DEF Current, Buckets, Absent
<1>5. Cardinality(Since(ch2, b.start)) = n + 1
  <2> HIDE DEF n
  <2>1. ch2 = kept \cup {e} /\ kept = {c \in ch : t - c[1] < Window}
    OBVIOUS
  <2> HIDE DEF kept, e
  <2>2. Cardinality(Since(kept \cup {e}, b.start)) = Cardinality(Since(ch, b.start)) + 1
    BY <2>1, <1>1, <1>2, <1>3, <1>4, ChargeOnce
  <2> QED BY <2>1, <2>2 DEF n
<1>6. n \in Nat /\ Cardinality(Attempts) \in Nat
  BY <1>1, TallyType, AttemptsAssumption, FS_CardinalityType
<1>7. /\ b.until # 0 => b.until > b.start /\ b.count = Max
      /\ \A c \in ch : c[1] >= b.start => /\ c[1] < b.start + Window
                                          /\ b.until # 0 => c[1] < b.until
      /\ Tally(k, b, n, w)
  BY <1>4 DEF Sound, Windowed
<1>8. \A c \in ch2 : c \in ch \/ c = e
  OBVIOUS
<1>9. \A c \in ch2 : c[1] \in Nat /\ c[1] <= t
  BY <1>2, <1>1, <1>8, <1>3, SMT DEF Numbered, Charges
<1>10. \A c \in ch2 : c[1] >= b.start => /\ c[1] < b.start + Window
                                         /\ b.until # 0 => c[1] < b.until
  <2>1. t < b.start + Window
    BY <1>4, LimitsAssumption, SMT
  <2> QED BY <2>1, <1>3, <1>4, <1>7, <1>8
<1> HIDE DEF n, e, kept
<1>11. CASE Decision(b, t).allowed
  <2> DEFINE until == IF b.count + 1 >= Max /\ Lockout > 0 THEN t + Lockout ELSE b.until
  <2>1. b.count < Max
    BY <1>11 DEF Decision
  <2>2. b.until = 0
    BY <2>1, <1>7
  <2>3. b2 = [b EXCEPT !.count = b.count + 1, !.until = until]
    BY <1>11 DEF Count
  <2>4. b2.start = b.start /\ b2.count = b.count + 1 /\ b2.until = until
    BY <2>3, <1>4 DEF Buckets
  <2>5. b2 # Absent
    <3>1. b2.start # 0
      BY <2>4, <1>4
    <3> QED BY <3>1 DEF Absent
  <2>6. until # 0 => until > t /\ b.count + 1 = Max
    BY <2>1, <2>2, LimitsAssumption, SMT
  <2>7. until \in Nat
    BY <2>2, LimitsAssumption, SMT
  <2> HIDE DEF until
  <2>8. Windowed(b2, ch2, t)
    <3>1. until # 0 => until > b.start
      BY <2>6, <2>7, <1>4, SMT
    <3>2. ASSUME NEW c \in ch2, until # 0 PROVE c[1] < until
      <4>1. t \in Nat
        BY LimitsAssumption, SMT
      <4>2. c[1] \in Nat /\ c[1] <= t /\ until > t
        BY <3>2, <2>6, <1>9
      <4> QED BY <4>1, <4>2, <2>7, SMT
    <3> QED BY <3>1, <3>2, <2>4, <2>5, <2>6, <1>4, <1>9, <1>10 DEF Windowed
  <2>9. Tally(k, b2, n + 1, v)
    <3>1. n = b.count
      BY <1>7, <2>1 DEF Tally
    <3>2. k \notin Clients => n + 1 + v < Max + Cardinality(Attempts) \/ b2.count # Max
      <4>1. SUFFICES ASSUME k \notin Clients PROVE n + 1 + v < Max + Cardinality(Attempts)
        OBVIOUS
      <4>2. w = v + 1 /\ w <= Cardinality(Attempts)
        BY <4>1
      <4> QED BY <4>2, <3>1, <2>1, <1>6, LimitsAssumption, SMT
    <3> QED BY <3>1, <3>2, <2>4 DEF Tally
  <2> QED BY <1>2, <1>5, <2>4, <2>8, <2>9 DEF Sound
<1>12. CASE ~Decision(b, t).allowed
  <2>1. b2 = b /\ k \notin Clients /\ w = v + 1
    BY <1>12
  <2>2. b.count = Max
    <3>1. CASE b.until # 0
      BY <3>1, <1>7
    <3>2. CASE b.until = 0
      <4>1. ~(b.count < Max)
        BY <1>12, <3>2 DEF Decision
      <4> QED BY <4>1, LimitsAssumption
    <3> QED BY <3>1, <3>2
  <2>3. Windowed(b, ch2, t)
    BY <1>4, <1>7, <1>9, <1>10 DEF Windowed
  <2>4. Tally(k, b, n + 1, v)
    <3>1. n + w < Max + Cardinality(Attempts)
      BY <1>7, <2>1, <2>2 DEF Tally
    <3>2. n + 1 + v < Max + Cardinality(Attempts)
      BY <3>1, <2>1, <1>6, LimitsAssumption, SMT
    <3> QED BY <3>2, <2>1, <2>2, LimitsAssumption DEF Tally
  <2> QED BY <1>2, <1>5, <2>1, <2>3, <2>4 DEF Sound
<1> QED BY <1>11, <1>12

-----------------------------------------------------------------------------
(* The awaited attempts of a key, before and after one is admitted or      *)
(* ends.                                                                   *)
LEMMA AwaitingType ==
  ASSUME NEW k
  PROVE  /\ IsFiniteSet(Awaiting(k)) /\ Cardinality(Awaiting(k)) \in Nat
         /\ Cardinality(Awaiting(k)) <= Cardinality(Attempts)
<1>1. Awaiting(k) \in SUBSET Attempts
  BY DEF Awaiting
<1> QED BY <1>1, AttemptsAssumption, FS_Subset, FS_CardinalityType

LEMMA AwaitingLess ==
  ASSUME NEW k, Awaiting(k)' \subseteq Awaiting(k)
  PROVE  /\ Cardinality(Awaiting(k)') \in Nat
         /\ Cardinality(Awaiting(k)') <= Cardinality(Awaiting(k))
<1>1. IsFiniteSet(Awaiting(k))
  BY AwaitingType
<1> QED BY <1>1, FS_Subset, FS_CardinalityType

LEMMA AwaitingOneLess ==
  ASSUME AttemptsOK, NEW a \in Attempts, NEW k \in Keys, attempt[a] = k,
         attempt' = [attempt EXCEPT ![a] = NoAttempt]
  PROVE  /\ Cardinality(Awaiting(k)') \in Nat
         /\ Cardinality(Awaiting(k)) = Cardinality(Awaiting(k)') + 1
         /\ \A j \in Keys : Awaiting(j)' \subseteq Awaiting(j)
<1> DEFINE W == Awaiting(k)
<1>1. \A x \in Attempts : attempt'[x] = IF x = a THEN NoAttempt ELSE attempt[x]
  BY DEF AttemptsOK
<1>2. \A j \in Keys : j # NoAttempt
  BY KeysAssumption
<1>3. \A j \in Keys : Awaiting(j)' \subseteq Awaiting(j)
  BY <1>1, <1>2 DEF Awaiting
<1>4. Awaiting(k)' = W \ {a} /\ a \in W
  BY <1>1, <1>2 DEF Awaiting
<1>5. IsFiniteSet(W) /\ Cardinality(W) \in Nat
  BY AwaitingType
<1> HIDE DEF W
<1>6. IsFiniteSet(W \ {a}) /\ Cardinality(W \ {a}) = Cardinality(W) - 1
  BY <1>4, <1>5, FS_RemoveElement
<1>7. Cardinality(W \ {a}) \in Nat
  BY <1>6, FS_CardinalityType
<1> QED BY <1>3, <1>4, <1>5, <1>6, <1>7 DEF W

(* Admitting an attempt concerns the key it is admitted for.               *)
LEMMA AwaitingOthers ==
  ASSUME AttemptsOK, NEW a \in Attempts, attempt[a] = NoAttempt, NEW k \in Keys,
         attempt' \in {attempt, [attempt EXCEPT ![a] = k]}
  PROVE  \A j \in Keys \ {k} : Awaiting(j)' \subseteq Awaiting(j)
<1>1. \A x \in Attempts : attempt'[x] = attempt[x] \/ attempt'[x] = k
  BY DEF AttemptsOK
<1> QED BY <1>1 DEF Awaiting

-----------------------------------------------------------------------------
(* The account of a key that a step does not charge: it keeps its bucket   *)
(* and its charges, or loses both.                                         *)
LEMMA Uncharged ==
  ASSUME LimiterOK, AccountInv, NEW j \in Keys, now' \in 1..MaxTime, now <= now',
         bucket'[j] \in {bucket[j], Absent},
         charged'[j] = IF bucket'[j] = Absent THEN {} ELSE charged[j],
         Awaiting(j)' \subseteq Awaiting(j)
  PROVE  Sound(j, bucket'[j], charged'[j], Cardinality(Awaiting(j)'), now')
<1>1. Sound(j, bucket[j], charged[j], Cardinality(Awaiting(j)), now)
  BY DEF AccountInv
<1>2. /\ Cardinality(Awaiting(j)) \in Nat /\ Cardinality(Awaiting(j)') \in Nat
      /\ Cardinality(Awaiting(j)') <= Cardinality(Awaiting(j))
  BY AwaitingLess, AwaitingType
<1>3. bucket[j] \in Buckets \cup {Absent} /\ now \in 1..MaxTime
  BY DEF LimiterOK
<1>4. CASE bucket'[j] = Absent
  BY <1>4, SoundAbsent
<1>5. CASE bucket'[j] # Absent
  <2>1. bucket'[j] = bucket[j] /\ charged'[j] = charged[j]
    BY <1>5
  <2>2. Sound(j, bucket[j], charged[j], Cardinality(Awaiting(j)'), now')
    BY <1>1, <1>2, <1>3, SoundLater
  <2> QED BY <2>1, <2>2
<1> QED BY <1>4, <1>5

(* Below the limit, admitting an attempt disturbs no account.              *)
LEMMA SoundBelow ==
  ASSUME NEW k, NEW b, NEW ch, NEW w, NEW v, NEW t, Sound(k, b, ch, w, t),
         b.count < Max, b.count # Max
  PROVE  Sound(k, b, ch, v, t)
  BY DEF Sound, Tally

(* One step of the limiter keeps every account.                            *)
LEMMA AccountStep ==
  ASSUME LimiterOK, LimiterOK', AccountInv, [Next]_vars
  PROVE  AccountInv'
<1> DEFINE Good(j) == Sound(j, bucket'[j], charged'[j], Cardinality(Awaiting(j)'), now')
<1>0. /\ bucket \in Table /\ now \in 1..MaxTime /\ now \in Nat /\ AttemptsOK
      /\ \A k \in Keys : Sound(k, bucket[k], charged[k], Cardinality(Awaiting(k)), now)
      /\ \A k \in Keys : Cardinality(Awaiting(k)) \in Nat
  BY AwaitingType, LimitsAssumption, SMT DEF AccountInv, LimiterOK, Table
<1>a. ChargesOK'
  <2>1. ASSUME NEW k, NEW charge, Log(k, charge) PROVE ChargesOK'
    <3> DEFINE new(j) == IF bucket'[j] = Absent THEN {}
                         ELSE IF j = k /\ charge THEN Recent(k) \cup {NewCharge(k)}
                         ELSE charged[j]
    <3>1. charged' = [j \in Keys |-> new(j)]
      BY <2>1, Zenon DEF Log
    <3> HIDE DEF new
    <3>2. \A j \in Keys : charged'[j] = new(j)
      BY <3>1
    <3> QED BY <3>1, <3>2 DEF ChargesOK
  <2>2. CASE charged' = charged
    BY <2>2 DEF AccountInv, ChargesOK
  <2> QED BY <2>1, <2>2 DEF Next, Tick, Request, Try, Succeed, Failed, Limited, vars
<1>1. SUFFICES AttemptsOK' /\ \A j \in Keys : Good(j)
  BY <1>a DEF AccountInv
<1>2. \A j \in Keys : charged[j] = IF bucket[j] = Absent THEN {} ELSE charged[j]
  BY <1>0 DEF Sound, Windowed
<1>3. CASE Tick \/ UNCHANGED vars
  <2>1. bucket' = bucket /\ attempt' = attempt /\ charged' = charged
    BY <1>3 DEF Tick, vars
  <2>2. now <= now' /\ now' \in 1..MaxTime
    BY <1>0, <1>3, SMT DEF Tick, vars, LimiterOK
  <2>3. \A j \in Keys : Awaiting(j)' \subseteq Awaiting(j)
    BY <2>1 DEF Awaiting
  <2>4. ASSUME NEW j \in Keys PROVE Good(j)
    BY <2>1, <2>2, <2>3, <1>2, Uncharged
  <2> QED BY <2>1, <2>4, <1>0 DEF AttemptsOK
<1>4. ASSUME NEW k \in Keys, Request(k) PROVE AttemptsOK' /\ \A j \in Keys : Good(j)
  <2>1. PICK bs \in Open(k, now) :
          bucket' = Consumed(bs, k, now) /\ Log(k, Decision(bs[k], now).allowed)
    BY <1>4 DEF Request
  <2>2. attempt' = attempt /\ now' = now /\ k \in Clients
    BY <1>4 DEF Request
  <2>3. \A j \in Keys : Awaiting(j)' = Awaiting(j)
    BY <2>2 DEF Awaiting
  <2>4. bs \in Table /\ bs[k] \in Buckets
    BY <1>0, OpenType
  <2>5. Current(bs[k], now) /\ Sound(k, bs[k], charged[k], Cardinality(Awaiting(k)), now)
    BY <1>0, OpenSound
  <2>6. bucket'[k] \in Buckets /\ bucket'[k] # Absent
    BY <2>1, <2>4, <1>0, ConsumedType DEF Buckets, Absent
  <2>7. ASSUME NEW j \in Keys, j # k PROVE Good(j)
    <3>1. bucket'[j] = bs[j]
      BY <2>1, <2>4, <2>7 DEF Consumed, Table
    <3>2. bs[j] \in {bucket[j], Absent}
      BY <2>7, <1>0, OpenOthers
    <3>3. charged'[j] = IF bucket'[j] = Absent THEN {} ELSE charged[j]
      BY <2>1, <2>7 DEF Log
    <3> QED BY <3>1, <3>2, <3>3, <2>2, <2>3, <1>0, Uncharged
  <2>8. Good(k)
    <3>1. CASE Decision(bs[k], now).allowed
      <4>1. bucket'[k] = Count(bs[k], now)
        BY <3>1, <2>1, <2>4 DEF Consumed, Table
      <4>2. charged'[k] = {c \in charged[k] : now - c[1] < Window}
                            \cup {<<now, Cardinality({c \in charged[k] : c[1] = now})>>}
        BY <3>1, <2>1, <2>6 DEF Log, Recent, NewCharge
      <4>3. bs[k].count \in 0..Max
        BY <2>4 DEF Buckets
      <4>4. Sound(k, bucket'[k], charged'[k], Cardinality(Awaiting(k)), now)
        BY <3>1, <4>1, <4>2, <4>3, <2>2, <2>5, <1>0, ChargeSound
      <4> QED BY <4>4, <2>2, <2>3
    <3>2. CASE ~Decision(bs[k], now).allowed
      <4>1. bucket'[k] = bs[k] /\ charged'[k] = charged[k]
        BY <3>2, <2>1, <2>6 DEF Consumed, Log
      <4> QED BY <4>1, <2>2, <2>3, <2>5
    <3> QED BY <3>1, <3>2
  <2> QED BY <2>2, <2>7, <2>8, <1>0 DEF AttemptsOK
<1>5. ASSUME NEW a \in Attempts, NEW k \in Keys, Try(a, k)
      PROVE  AttemptsOK' /\ \A j \in Keys : Good(j)
  <2>1. PICK bs \in Open(k, now) :
          /\ bucket' = bs
          /\ attempt' = IF Decision(bs[k], now).allowed
                        THEN [attempt EXCEPT ![a] = k] ELSE attempt
    BY <1>5 DEF Try
  <2>2. /\ Log(k, FALSE) /\ now' = now /\ k \notin Clients /\ attempt[a] = NoAttempt
        /\ attempt' \in {attempt, [attempt EXCEPT ![a] = k]}
    BY <1>5, <2>1 DEF Try
  <2>3. \A j \in Keys : charged'[j] = IF bucket'[j] = Absent THEN {} ELSE charged[j]
    BY <2>2 DEF Log
  <2>4. Current(bs[k], now) /\ Sound(k, bs[k], charged[k], Cardinality(Awaiting(k)), now)
    BY <1>0, OpenSound
  <2>5. ASSUME NEW j \in Keys, j # k PROVE Good(j)
    <3>1. bs[j] \in {bucket[j], Absent}
      BY <2>5, <1>0, OpenOthers
    <3>2. Awaiting(j)' \subseteq Awaiting(j)
      BY <2>2, <2>5, <1>0, AwaitingOthers
    <3> QED BY <3>1, <3>2, <2>1, <2>2, <2>3, <1>0, Uncharged
  <2>6. Good(k)
    <3>1. bs[k] # Absent /\ bs[k] \in Buckets
      BY <2>4 DEF Current, Buckets, Absent
    <3>2. charged'[k] = charged[k]
      BY <3>1, <2>1, <2>3
    <3>3. CASE Decision(bs[k], now).allowed
      <4>1. bs[k].count < Max
        BY <3>3 DEF Decision
      <4>2. bs[k].count # Max
        BY <4>1, LimitsAssumption
      <4>3. Sound(k, bs[k], charged[k], Cardinality(Awaiting(k)'), now)
        BY <4>1, <4>2, <2>4, SoundBelow
      <4> QED BY <4>3, <3>2, <2>1, <2>2
    <3>4. CASE ~Decision(bs[k], now).allowed
      <4>1. Awaiting(k)' = Awaiting(k)
        BY <3>4, <2>1 DEF Awaiting
      <4> QED BY <4>1, <3>2, <2>1, <2>2, <2>4
    <3> QED BY <3>3, <3>4
  <2>7. AttemptsOK'
    BY <2>2, <1>0 DEF AttemptsOK
  <2> QED BY <2>5, <2>6, <2>7
<1>6. ASSUME NEW a \in Attempts, Succeed(a) PROVE AttemptsOK' /\ \A j \in Keys : Good(j)
  <2>1. PICK k \in Keys : attempt[a] = k
    BY <1>6, <1>0 DEF Succeed, AttemptsOK
  <2>2. /\ bucket' = [bucket EXCEPT ![k] = Absent] /\ now' = now
        /\ attempt' = [attempt EXCEPT ![a] = NoAttempt] /\ Log(k, FALSE)
    BY <1>6, <2>1 DEF Succeed
  <2>3. \A j \in Keys : Awaiting(j)' \subseteq Awaiting(j)
    BY <2>1, <2>2, <1>0, AwaitingOneLess
  <2>4. ASSUME NEW j \in Keys PROVE Good(j)
    <3>1. bucket'[j] \in {bucket[j], Absent}
      BY <2>2, <1>0 DEF Table
    <3>2. charged'[j] = IF bucket'[j] = Absent THEN {} ELSE charged[j]
      BY <2>2 DEF Log
    <3> QED BY <3>1, <3>2, <2>2, <2>3, <1>0, Uncharged
  <2> QED BY <2>2, <2>4, <1>0 DEF AttemptsOK
<1>7. ASSUME NEW a \in Attempts, Failed(a) PROVE AttemptsOK' /\ \A j \in Keys : Good(j)
  <2>1. PICK k \in Keys \ Clients : attempt[a] = k
    BY <1>7, <1>0 DEF Failed, AttemptsOK
  <2>2. /\ now' = now /\ attempt' = [attempt EXCEPT ![a] = NoAttempt] /\ Log(k, TRUE)
        /\ \E bs \in Open(k, now) : bucket' = Consumed(bs, k, now)
    BY <1>7, <2>1 DEF Failed
  <2>3. PICK bs \in Open(k, now) : bucket' = Consumed(bs, k, now)
    BY <2>2
  <2>4. /\ Cardinality(Awaiting(k)') \in Nat
        /\ Cardinality(Awaiting(k)) = Cardinality(Awaiting(k)') + 1
        /\ \A j \in Keys : Awaiting(j)' \subseteq Awaiting(j)
    BY <2>1, <2>2, <1>0, AwaitingOneLess
  <2>5. bs \in Table /\ bs[k] \in Buckets
    BY <1>0, OpenType
  <2>6. Current(bs[k], now) /\ Sound(k, bs[k], charged[k], Cardinality(Awaiting(k)), now)
    BY <1>0, OpenSound
  <2>7. bucket'[k] \in Buckets /\ bucket'[k] # Absent
    BY <2>3, <2>5, <1>0, ConsumedType DEF Buckets, Absent
  <2>8. ASSUME NEW j \in Keys, j # k PROVE Good(j)
    <3>1. bucket'[j] = bs[j]
      BY <2>3, <2>5, <2>8 DEF Consumed, Table
    <3>2. bs[j] \in {bucket[j], Absent}
      BY <2>8, <1>0, OpenOthers
    <3>3. charged'[j] = IF bucket'[j] = Absent THEN {} ELSE charged[j]
      BY <2>2, <2>8 DEF Log
    <3> QED BY <3>1, <3>2, <3>3, <2>2, <2>4, <1>0, Uncharged
  <2>9. Good(k)
    <3>1. bucket'[k] = IF Decision(bs[k], now).allowed THEN Count(bs[k], now) ELSE bs[k]
      BY <2>3, <2>5 DEF Consumed, Table
    <3>2. charged'[k] = {c \in charged[k] : now - c[1] < Window}
                          \cup {<<now, Cardinality({c \in charged[k] : c[1] = now})>>}
      BY <2>2, <2>7 DEF Log, Recent, NewCharge
    <3>3. bs[k].count \in 0..Max
      BY <2>5 DEF Buckets
    <3>4. Cardinality(Awaiting(k)) <= Cardinality(Attempts)
      BY AwaitingType
    <3>5. Sound(k, bucket'[k], charged'[k], Cardinality(Awaiting(k)'), now)
      BY <3>1, <3>2, <3>3, <3>4, <2>1, <2>4, <2>6, <1>0, ChargeSound
    <3> QED BY <3>5, <2>2
  <2> QED BY <2>2, <2>8, <2>9, <1>0 DEF AttemptsOK
<1>8. ASSUME NEW a \in Attempts, Limited(a) PROVE AttemptsOK' /\ \A j \in Keys : Good(j)
  <2>1. PICK k \in Keys : attempt[a] = k
    BY <1>8, <1>0 DEF Limited, AttemptsOK
  <2>2. /\ bucket' = bucket /\ now' = now /\ charged' = charged
        /\ attempt' = [attempt EXCEPT ![a] = NoAttempt]
    BY <1>8 DEF Limited
  <2>3. \A j \in Keys : Awaiting(j)' \subseteq Awaiting(j)
    BY <2>1, <2>2, <1>0, AwaitingOneLess
  <2>4. ASSUME NEW j \in Keys PROVE Good(j)
    BY <2>2, <2>3, <1>0, <1>2, Uncharged
  <2> QED BY <2>2, <2>4, <1>0 DEF AttemptsOK
<1> QED BY <1>3, <1>4, <1>5, <1>6, <1>7, <1>8 DEF Next

LEMMA AccountInit == Init => AccountInv
<1> SUFFICES ASSUME Init PROVE AccountInv
  OBVIOUS
<1>1. LimiterOK
  <2>1. now = 1 /\ 1 \in 1..MaxTime
    BY LimitsAssumption, SMT DEF Init
  <2> QED BY <2>1 DEF Init, LimiterOK
<1>2. AttemptsOK
  BY DEF Init, AttemptsOK
<1>3. ASSUME NEW k \in Keys
      PROVE  Sound(k, bucket[k], charged[k], Cardinality(Awaiting(k)), now)
  <2>1. bucket[k] = Absent /\ charged[k] = {}
    BY DEF Init
  <2> QED BY <2>1, SoundAbsent
<1>4. ChargesOK
  BY DEF Init, ChargesOK
<1> QED BY <1>1, <1>2, <1>3, <1>4 DEF AccountInv

LEMMA Accounted == Spec => []AccountInv
<1>1. LimiterOK /\ LimiterOK' /\ AccountInv /\ [Next]_vars => AccountInv'
  BY AccountStep
<1> QED BY <1>1, AccountInit, LimiterTypeCorrect, PTL DEF Spec

(* Every variable keeps to its type, the histories included: charges are   *)
(* numbered by how many there were (LimiterTypeCorrect says nothing of     *)
(* them).                                                                  *)
THEOREM HistoriesTyped == Spec => []TypeOK
<1>1. AccountInv => TypeOK
  <2> SUFFICES ASSUME AccountInv PROVE charged \in [Keys -> SUBSET Charges]
    BY DEF AccountInv, TypeOK
  <2>1. \A k \in Keys : charged[k] \in SUBSET Charges
    BY DEF AccountInv, Sound, Numbered
  <2>2. charged = [k \in Keys |-> charged[k]]
    BY DEF AccountInv, ChargesOK
  <2> QED BY <2>1, <2>2
<1> QED BY <1>1, Accounted, PTL

(* However many attempts overlap, the failures of one window stay below    *)
(* the limit plus the number of attempts awaited at a time                 *)
(* (withVaultUnlockRateLimit checks before the await, records after it).   *)
THEOREM FailuresStayBounded == Spec => []FailuresBounded
<1>1. AccountInv => FailuresBounded
  <2> SUFFICES ASSUME AccountInv, NEW k \in Keys \ Clients, bucket[k] # Absent
               PROVE  InWindow(k) < Max + Cardinality(Attempts)
    BY DEF FailuresBounded
  <2> DEFINE b == bucket[k]
             n == Cardinality(Since(charged[k], b.start))
             w == Cardinality(Awaiting(k))
  <2>1. Tally(k, b, n, w) /\ Numbered(charged[k])
    BY DEF AccountInv, Sound
  <2>2. n = InWindow(k)
    BY DEF InWindow, Since
  <2>3. /\ n \in Nat /\ w \in Nat /\ Cardinality(Attempts) \in Nat
        /\ b.count \in 0..Max
    BY <2>1, TallyType, AwaitingType, AttemptsAssumption, FS_CardinalityType
       DEF AccountInv, LimiterOK, Buckets
  <2>4. /\ b.count < Max => n = b.count
        /\ b.count = Max => n + w < Max + Cardinality(Attempts)
    BY <2>1 DEF Tally
  <2> HIDE DEF b, n, w
  <2>5. n < Max + Cardinality(Attempts)
    BY <2>3, <2>4, LimitsAssumption, SMT
  <2> QED BY <2>2, <2>5
<1> QED BY <1>1, Accounted, PTL

(* A client is served at most the configured number of requests in a       *)
(* window (consumeVaultApiRateLimit).                                      *)
THEOREM RequestsStayBounded == Spec => []RequestsBounded
<1>1. AccountInv => RequestsBounded
  <2> SUFFICES ASSUME AccountInv, NEW k \in Clients, bucket[k] # Absent
               PROVE  InWindow(k) <= Max
    BY DEF RequestsBounded
  <2>1. k \in Keys
    BY KeysAssumption
  <2>2. Tally(k, bucket[k], Cardinality(Since(charged[k], bucket[k].start)),
              Cardinality(Awaiting(k)))
    BY <2>1 DEF AccountInv, Sound
  <2>3. InWindow(k) = bucket[k].count
    BY <2>2 DEF Tally, InWindow, Since
  <2>4. bucket[k].count \in 0..Max
    BY <2>1 DEF AccountInv, LimiterOK, Buckets
  <2> QED BY <2>3, <2>4, LimitsAssumption
<1> QED BY <1>1, Accounted, PTL

=============================================================================
