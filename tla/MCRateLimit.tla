----------------------------- MODULE MCRateLimit -----------------------------
(* RateLimit for TLC: the limiter of unlock attempts, built with a lockout,*)
(* or that of API requests, built without one; kind says which it is.      *)
EXTENDS RateLimit, TLC

VARIABLE kind

Requests == INSTANCE RateLimit WITH Lockout <- 0

LimiterInit == Init /\ kind \in {"unlock", "api"}

Unlocking ==
  \/ \E a \in Attempts, k \in Keys : Try(a, k)
  \/ \E a \in Attempts : Succeed(a) \/ Failed(a) \/ Limited(a)

LimiterNext ==
  /\ \/ Tick
     \/ kind = "unlock" /\ Unlocking
     \/ kind = "api" /\ \E k \in Clients : Requests!Request(k)
  /\ UNCHANGED kind

LimiterSpec == LimiterInit /\ [][LimiterNext]_<<vars, kind>>

Symmetry ==
  Permutations(Keys \ Clients) \cup Permutations(Clients) \cup Permutations(Attempts)
=============================================================================
