-------------------------- MODULE PasskeyCallsProofs --------------------------
(***************************************************************************)
(* What the awaited calls carry: proofs that no inner key bytes are left   *)
(* behind, that stored passkey envelopes open again, that a broker session *)
(* opens one sealed key, and that a bound call is answered by the          *)
(* credential it is bound to. CacheBacked (PasskeyVaultProofs) is needed   *)
(* for them.                                                               *)
(***************************************************************************)
EXTENDS PasskeyVaultProofs, EnvelopesProofs, FiniteSetTheorems

-----------------------------------------------------------------------------
(* The inductive invariant.                                                *)

CallTyped(c) ==
  /\ IsCall(c) /\ c.account \in Accounts /\ c.at \in Stages
  /\ c.prf \in Outputs \cup {None} /\ c.buf \in Buffers \cup {None}
  /\ c.at \in {"deliver", "open", "receipt"} => c.kind = "broker"

(* A ceremony is prepared with the user's own salt, and with the one       *)
(* credential that a bound call wants.                                     *)
CallBound(c) ==
  /\ c.at = "ceremony" => c.salt = "own" /\ (c.target # None => c.allow = {c.target})
  /\ c.target # None /\ c.credential # None => c.credential = c.target

OwnOutput(credential, prf) ==
  \E d \in Devices : prf = PrfOutput(credential, "own", "authentication", d)

(* A call that may store an envelope has what the credential, which is its *)
(* account's, yields at an authentication.                                 *)
Stores(c) == c.at = "repair" \/ (c.kind = "enroll" /\ c.at \in {"rewrap", "sealed"})

CallSeals(c, whose) ==
  Stores(c) =>
    /\ c.credential \in Credentials /\ whose[c.credential] = c.account
    /\ OwnOutput(c.credential, c.prf)

CallGood(c, whose) == CallTyped(c) /\ CallBound(c) /\ CallSeals(c, whose)

CallsGood ==
  /\ registered \in [Credentials -> Accounts \cup {None}]
  /\ \A f \in Flows : flow[f] # Idle => CallGood(flow[f], registered)

(* Envelopes stay good because a credential never changes its account.     *)
VariantOpens(v) ==
  /\ v.account \in Accounts /\ v.credential \in Credentials
  /\ registered[v.credential] = v.account
  /\ \E d \in Devices :
       UnlockEnvelope(v.envelope, PrfOutput(v.credential, "own", "authentication", d), Profile) = v.account

VariantsOpen == \A v \in variants : VariantOpens(v)

(* While the private key is held nothing was opened or is being opened;    *)
(* once it is not, at most one call still has it.                          *)
OpenOnce ==
  /\ ephemeral = [held |-> ephemeral.held, opened |-> ephemeral.opened]
  /\ ephemeral.held \in BOOLEAN /\ ephemeral.opened \in {0, 1}
  /\ ephemeral.held => ephemeral.opened = 0 /\ \A f \in Flows : flow[f].at # "open"
  /\ \A f \in Flows : flow[f].at = "open" => ephemeral.opened = 0
  /\ \A f, g \in Flows : flow[f].at = "open" /\ flow[g].at = "open" => f = g

Globals ==
  /\ operating \in BOOLEAN /\ portable \subseteq Accounts
  /\ cache = None \/ cache \in [buf : Buffers, acknowledged : BOOLEAN]

CallsInv == MaterialInv /\ CallsGood /\ VariantsOpen /\ OpenOnce /\ NoStrayMaterial /\ Globals

-----------------------------------------------------------------------------
(* Calls and how they change.                                              *)

(* What a call asked for and got stays; its stage and its buffer move.     *)
Keeps(c, d) ==
  /\ IsCall(c) /\ c.kind = d.kind /\ c.account = d.account /\ c.allow = d.allow
  /\ c.salt = d.salt /\ c.target = d.target /\ c.credential = d.credential /\ c.prf = d.prf

LEMMA ThenKeeps ==
  ASSUME NEW f \in Flows, IsCall(flow[f]), NEW stage
  PROVE  /\ Keeps(Then(f, stage), flow[f])
         /\ Then(f, stage).at = stage /\ Then(f, stage).buf = flow[f].buf
BY DEF Then, Keeps, IsCall, Fields

LEMMA BufferKeeps ==
  ASSUME NEW c, IsCall(c), NEW b
  PROVE  /\ Keeps([c EXCEPT !.buf = b], c)
         /\ [c EXCEPT !.buf = b].at = c.at /\ [c EXCEPT !.buf = b].buf = b
BY DEF Keeps, IsCall, Fields

LEMMA ReceiptKeeps ==
  ASSUME NEW c, IsCall(c), NEW b
  PROVE  /\ Keeps([c EXCEPT !.acknowledged = b], c)
         /\ [c EXCEPT !.acknowledged = b].at = c.at /\ [c EXCEPT !.acknowledged = b].buf = c.buf
BY DEF Keeps, IsCall, Fields

LEMMA CancelKeeps ==
  ASSUME NEW f \in Flows, flow[f] # Idle, IsCall(flow[f])
  PROVE  /\ Keeps(Cancelled[f], flow[f])
         /\ Cancelled[f].at = flow[f].at /\ Cancelled[f].buf = flow[f].buf
<1>1. Cancelled[f] = [flow[f] EXCEPT !.live = FALSE]
  BY DEF Cancelled
<1> QED
  BY <1>1 DEF Keeps, IsCall, Fields

(* A call that got nothing yet.                                            *)
Asks(c, kind, account, stage) ==
  /\ IsCall(c) /\ c.kind = kind /\ c.account = account /\ c.at = stage
  /\ c.credential = None /\ c.prf = None /\ c.buf = None

LEMMA CallAsks ==
  ASSUME NEW kind, NEW account, NEW stage
  PROVE  /\ Asks(Call(kind, account, stage), kind, account, stage)
         /\ Call(kind, account, stage).target = None
BY DEF Call, Asks, IsCall, Fields

LEMMA CeremonyAsks ==
  ASSUME NEW kind, NEW account, NEW options, NEW target
  PROVE  LET c == Ceremony(kind, account, options, target)
         IN /\ Asks(c, kind, account, "ceremony")
            /\ c.allow = Range(options.allow) /\ c.salt = options.salt /\ c.target = target
<1> DEFINE t == Call(kind, account, "ceremony")
           range == Range(options.allow)
           d == [t EXCEPT !.allow = range, !.salt = options.salt, !.target = target]
<1>1. Asks(t, kind, account, "ceremony")
  BY CallAsks
<1>2. Ceremony(kind, account, options, target) = d
  BY DEF Ceremony
<1> HIDE DEF t, range
<1>3. /\ Asks(d, kind, account, "ceremony")
      /\ d.allow = range /\ d.salt = options.salt /\ d.target = target
  BY <1>1 DEF Asks, IsCall, Fields
<1> HIDE DEF d
<1> QED
  BY <1>2, <1>3 DEF range

(* An answer gives the call its credential and its output.                 *)
Answered(c, d, stage, credential, prf) ==
  /\ IsCall(c) /\ c.kind = d.kind /\ c.account = d.account /\ c.target = d.target
  /\ c.at = stage /\ c.credential = credential /\ c.prf = prf

LEMMA AssertedAnswers ==
  ASSUME NEW f \in Flows, IsCall(flow[f]), NEW stage, NEW c, NEW output
  PROVE  /\ Answered(Asserted(f, stage, c, output), flow[f], stage, c, output)
         /\ Asserted(f, stage, c, output).buf = flow[f].buf
<1> DEFINE t == Then(f, stage)
           d == [t EXCEPT !.allow = {}, !.salt = None, !.credential = c, !.prf = output]
<1>1. Keeps(t, flow[f]) /\ t.at = stage /\ t.buf = flow[f].buf
  BY ThenKeeps
<1>2. Asserted(f, stage, c, output) = d
  BY DEF Asserted
<1> HIDE DEF t
<1>3. Answered(d, flow[f], stage, c, output) /\ d.buf = flow[f].buf
  BY <1>1 DEF Keeps, Answered, IsCall, Fields
<1> HIDE DEF d
<1> QED
  BY <1>2, <1>3

LEMMA SealingKeeps ==
  ASSUME NEW c, IsCall(c)
  PROVE  Keeps(Sealing(c), c) /\ Sealing(c).at = "rewrap" /\ Sealing(c).buf = cache.buf
BY DEF Sealing, Keeps, IsCall, Fields

-----------------------------------------------------------------------------
(* Calls stay good.                                                        *)

(* No call but a ceremony stays one, and none starts to store.             *)
LEMMA KeepsGood ==
  ASSUME NEW c, NEW d, NEW whose, Keeps(c, d), CallGood(d, whose),
         c.at \in Stages, c.buf \in Buffers \cup {None},
         c.at \in {"deliver", "open", "receipt"} => d.at \in {"deliver", "open", "receipt"},
         c.at = "ceremony" => d.at = "ceremony",
         Stores(c) => Stores(d)
  PROVE  CallGood(c, whose)
<1>1. CallTyped(c)
  BY DEF CallGood, CallTyped, Keeps
<1>2. CallBound(c)
  BY DEF CallGood, CallBound, Keeps
<1>3. CallSeals(c, whose)
  BY DEF CallGood, CallSeals, Keeps
<1> QED
  BY <1>1, <1>2, <1>3 DEF CallGood

LEMMA AsksGood ==
  ASSUME NEW c, NEW kind, NEW account \in Accounts, NEW stage \in Stages, NEW whose,
         Asks(c, kind, account, stage),
         stage \in {"deliver", "open", "receipt"} => kind = "broker",
         stage = "ceremony" => c.salt = "own" /\ (c.target # None => c.allow = {c.target}),
         stage # "repair", kind = "enroll" => stage \notin {"rewrap", "sealed"}
  PROVE  CallGood(c, whose)
<1>1. CallTyped(c)
  BY DEF CallTyped, Asks
<1>2. CallBound(c)
  BY DEF CallBound, Asks
<1>3. CallSeals(c, whose)
  BY DEF CallSeals, Stores, Asks
<1> QED
  BY <1>1, <1>2, <1>3 DEF CallGood

(* Accounts keep their credentials.                                        *)
Extends(new, old) ==
  /\ new \in [Credentials -> Accounts \cup {None}]
  /\ \A c \in Credentials : old[c] # None => new[c] = old[c]

LEMMA GoodStays ==
  ASSUME NEW c, NEW old, NEW new, CallGood(c, old), Extends(new, old)
  PROVE  CallGood(c, new)
<1>1. CallSeals(c, new)
  BY NoneAssumption DEF CallGood, CallTyped, CallSeals, Extends
<1> QED
  BY <1>1 DEF CallGood

LEMMA CancelGood ==
  ASSUME CallsGood, NEW f \in Flows, Cancelled[f] # Idle
  PROVE  CallGood(Cancelled[f], registered)
<1>1. flow[f] # Idle
  BY DEF Cancelled
<1>2. CallGood(flow[f], registered)
  BY <1>1 DEF CallsGood
<1> DEFINE c == Cancelled[f]
           d == flow[f]
<1>3. Keeps(c, d) /\ c.at = d.at /\ c.buf = d.buf
  BY <1>1, <1>2, CancelKeeps DEF CallGood, CallTyped
<1>4. d.at \in Stages /\ d.buf \in Buffers \cup {None}
  BY <1>2 DEF CallGood, CallTyped
<1> HIDE DEF c, d
<1>5. Stores(c) => Stores(d)
  BY <1>3 DEF Stores, Keeps
<1>6. CallGood(d, registered)
  BY <1>2 DEF d
<1>7. CallGood(c, registered)
  BY <1>3, <1>4, <1>5, <1>6, KeepsGood
<1> QED
  BY <1>7 DEF c

LEMMA SameExtends ==
  ASSUME CallsGood, UNCHANGED registered
  PROVE  Extends(registered', registered)
BY DEF CallsGood, Extends

LEMMA GoesGood ==
  ASSUME MaterialInv, CallsGood, NEW f \in Flows, NEW c, Goes(f, c),
         Extends(registered', registered), c # Idle => CallGood(c, registered')
  PROVE  CallsGood'
<1>1. flow'[f] = c /\ \A g \in Flows \ {f} : flow'[g] = flow[g]
  BY DEF MaterialInv, Shapes, Goes
<1>2. \A g \in Flows : flow[g] # Idle => CallGood(flow[g], registered')
  BY GoodStays DEF CallsGood
<1> QED
  BY <1>1, <1>2 DEF CallsGood, Extends

LEMMA CancelsGood ==
  ASSUME CallsGood, flow' = Cancelled, UNCHANGED registered
  PROVE  CallsGood'
<1>1. \A g \in Flows : flow'[g] = Cancelled[g]
  BY DEF Cancelled
<1> QED
  BY <1>1, CancelGood DEF CallsGood

LEMMA EntersGood ==
  ASSUME MaterialInv, CallsGood, NEW f \in Flows, NEW c, Enter(f, c),
         Extends(registered', registered), CallGood(c, registered')
  PROVE  CallsGood'
<1>1. CASE Goes(f, c)
  BY <1>1, GoesGood
<1>2. CASE flow' = [Cancelled EXCEPT ![f] = c]
  <2>1. flow'[f] = c /\ \A g \in Flows \ {f} : flow'[g] = Cancelled[g]
    BY <1>2 DEF Cancelled
  <2>2. \A g \in Flows : Cancelled[g] # Idle => CallGood(Cancelled[g], registered')
    BY CancelGood, GoodStays
  <2> QED
    BY <2>1, <2>2 DEF CallsGood, Extends
<1> QED
  BY <1>1, <1>2 DEF Enter, Goes

LEMMA EndsGood ==
  ASSUME MaterialInv, CallsGood, NEW f \in Flows, Ends(f), UNCHANGED registered
  PROVE  CallsGood'
<1>1. Goes(f, Idle)
  BY DEF Ends, Goes
<1> QED
  BY <1>1, GoesGood, SameExtends

(* The call at hand.                                                       *)
LEMMA GoodFacts ==
  ASSUME CallsGood, NEW f \in Flows, flow[f] # Idle
  PROVE  /\ CallGood(flow[f], registered) /\ IsCall(flow[f]) /\ flow[f].at \in Stages
         /\ flow[f].account \in Accounts
BY DEF CallsGood, CallGood, CallTyped

(* A resumption that asks for nothing and got nothing new.                 *)
LEMMA ContinuesGood ==
  ASSUME MaterialInv, CallsGood, NEW f \in Flows, flow[f] # Idle, UNCHANGED registered,
         NEW c, Goes(f, c), Keeps(c, flow[f]), c.buf \in Buffers \cup {None},
         NEW stage \in Stages \ {"ceremony", "repair", "rewrap"}, c.at = stage,
         stage \in {"deliver", "open", "receipt"} => flow[f].at \in {"deliver", "open", "receipt"},
         stage = "sealed" => flow[f].at = "rewrap"
  PROVE  CallsGood'
<1> DEFINE d == flow[f]
<1>1. CallGood(d, registered) /\ Keeps(c, d)
  BY GoodFacts
<1>2. Stores(c) => Stores(d)
  BY DEF Stores, Keeps
<1>3. c.at \in {"deliver", "open", "receipt"} => d.at \in {"deliver", "open", "receipt"}
  OBVIOUS
<1> HIDE DEF d
<1>4. CallGood(c, registered)
  BY <1>1, <1>2, <1>3, KeepsGood
<1> QED
  BY <1>4, GoesGood, SameExtends

-----------------------------------------------------------------------------
(* The actions keep calls good.                                            *)

LEMMA ResumptionsGood ==
  ASSUME MaterialInv, CallsGood, NEW f \in Flows,
         Install(f) \/ Extract(f) \/ Commit(f) \/ Rewrap(f) \/ Sealed(f)
           \/ Deliver(f) \/ Open(f) \/ Receipt(f)
  PROVE  CallsGood'
<1> USE DEF At, server, Stages
<1>0. flow[f] # Idle /\ UNCHANGED registered
  BY DEF Install, Extract, Commit, Rewrap, Sealed, Deliver, Open, Receipt
<1>1. IsCall(flow[f])
  BY <1>0, GoodFacts
<1>2. ASSUME NEW stage, NEW c, Goes(f, c), c = Then(f, stage), flow[f].buf \in Buffers \cup {None},
             stage = "extract" \/ (stage = "open" /\ flow[f].at = "deliver")
      PROVE  CallsGood'
  <2>1. Keeps(c, flow[f]) /\ c.at = stage /\ c.buf = flow[f].buf
    BY <1>1, <1>2, ThenKeeps
  <2> QED
    BY <1>0, <1>2, <2>1, ContinuesGood
<1>3. ASSUME NEW stage, NEW t, NEW b \in Buffers \cup {None}, Goes(f, [t EXCEPT !.buf = b]),
             t = Then(f, stage),
             \/ stage \in {"commit", "install"}
             \/ stage = "receipt" /\ flow[f].at = "open"
             \/ stage = "sealed" /\ flow[f].at = "rewrap"
      PROVE  CallsGood'
  <2> DEFINE c == [t EXCEPT !.buf = b]
  <2>1. Keeps(t, flow[f]) /\ t.at = stage /\ IsCall(t)
    BY <1>1, <1>3, ThenKeeps DEF Keeps
  <2>2. Keeps(c, t) /\ c.at = t.at /\ c.buf = b /\ Goes(f, c)
    BY <1>3, <2>1, BufferKeeps
  <2> HIDE DEF c
  <2>3. Keeps(c, flow[f])
    BY <2>1, <2>2 DEF Keeps
  <2> QED
    BY <1>0, <1>3, <2>1, <2>2, <2>3, ContinuesGood
<1>4. ASSUME NEW t, t = Then(f, "commit"), Goes(f, [t EXCEPT !.acknowledged = TRUE]),
             flow[f].buf \in Buffers \cup {None}
      PROVE  CallsGood'
  <2> DEFINE c == [t EXCEPT !.acknowledged = TRUE]
  <2>1. Keeps(t, flow[f]) /\ t.at = "commit" /\ IsCall(t) /\ t.buf = flow[f].buf
    BY <1>1, <1>4, ThenKeeps DEF Keeps
  <2>2. Keeps(c, t) /\ c.at = t.at /\ c.buf = t.buf /\ Goes(f, c)
    BY <1>4, <2>1, ReceiptKeeps
  <2> HIDE DEF c
  <2>3. Keeps(c, flow[f])
    BY <2>1, <2>2 DEF Keeps
  <2> QED
    BY <1>0, <1>4, <2>1, <2>2, <2>3, ContinuesGood
<1>5. flow[f].buf \in Buffers \cup {None}
  BY <1>0 DEF CallsGood, CallGood, CallTyped
<1>6. CASE Ends(f)
  BY <1>0, <1>6, EndsGood
<1>7. CASE Install(f)
  BY <1>2, <1>5, <1>6, <1>7 DEF Install
<1>8. CASE Extract(f)
  BY <1>3, <1>8 DEF Extract
<1>9. CASE Commit(f)
  BY <1>3, <1>6, <1>9 DEF Commit
<1>10. CASE Rewrap(f)
  BY <1>3, <1>6, <1>10 DEF Rewrap
<1>11. CASE Sealed(f)
  BY <1>6, <1>11 DEF Sealed
<1>12. CASE Deliver(f)
  BY <1>2, <1>5, <1>6, <1>12 DEF Deliver
<1>13. CASE Open(f)
  BY <1>3, <1>6, <1>13 DEF Open
<1>14. CASE Receipt(f)
  BY <1>4, <1>5, <1>6, <1>14 DEF Receipt
<1> QED
  BY <1>7, <1>8, <1>9, <1>10, <1>11, <1>12, <1>13, <1>14

-----------------------------------------------------------------------------
(* What is asked of the authenticator, and what is read from its answer.   *)

LEMMA PreparedOptions ==
  ASSUME NEW server_, NEW selection, NEW policy, NEW browser,
         PrepareAuthenticationOptions(server_, selection, policy, browser) # None
  PROVE  LET o == PrepareAuthenticationOptions(server_, selection, policy, browser)
         IN o.salt = "own" /\ o.allow = SelectCredentials(server_.allow, selection) /\ o.allow # None
<1> DEFINE allow == SelectCredentials(server_.allow, selection)
           made == [allow |-> allow, transports |-> TransportsOf(policy, browser.appleMobile),
                    salt |-> "own", userVerification |-> "required"]
<1>1. /\ PrepareAuthenticationOptions(server_, selection, policy, browser) = made
      /\ allow # None
  BY Zenon DEF PrepareAuthenticationOptions
<1>2. made.salt = "own" /\ made.allow = allow
  OBVIOUS
<1> HIDE DEF made
<1> QED
  BY <1>1, <1>2

Exact(credential) == [mode |-> "exact", credential |-> credential]

LEMMA ExactSelectsOne ==
  ASSUME NEW allow, NEW credential, SelectCredentials(allow, Exact(credential)) # None
  PROVE  Range(SelectCredentials(allow, Exact(credential))) = {credential}
<1>1. SelectCredentials(allow, Exact(credential)) = ScopeToCredential(allow, credential)
  BY DEF SelectCredentials, Exact
<1>2. ScopeToCredential(allow, credential) \in {None, <<credential>>}
  BY Zenon DEF ScopeToCredential
<1>3. Range(<<credential>>) = {credential}
  BY DEF Range
<1> QED
  BY <1>1, <1>2, <1>3

(* A quick unlock is planned for one credential.                           *)
LEMMA QuickIsExact ==
  ASSUME NEW intent, intent = "quick", NEW hasEnvelope, NEW prfAvailable, NEW target, NEW mode,
         ResolvePasskeyUnlockPlan(intent, hasEnvelope, prfAvailable, target, mode).status = "ready"
  PROVE  ResolvePasskeyUnlockPlan(intent, hasEnvelope, prfAvailable, target, mode).selection = Exact(target)
BY DEF ResolvePasskeyUnlockPlan, Unavailable, Exact

LEMMA UnlockIsBound ==
  ASSUME NEW account, NEW intent, NEW bound, NEW mode, NEW browser, NEW policy, NEW allow,
         NEW r, r = PreparedUnlock(account, intent, bound, mode, browser, policy, allow),
         r.options # None
  PROVE  r.options.salt = "own" /\ (r.target # None => Range(r.options.allow) = {r.target})
<1> DEFINE hasEnvelope == \E v \in variants : v.account = account
           p == ResolvePasskeyUnlockPlan(intent, hasEnvelope, PrfHeuristic(browser), bound, mode)
           o == PrepareAuthenticationOptions(ServerOptions(allow), p.selection, policy, browser)
<1>1. ASSUME intent = "quick", p.status = "ready"
      PROVE  p.selection = Exact(bound)
  <2> HIDE DEF hasEnvelope
  <2> QED
    BY <1>1, QuickIsExact, Zenon
<1>2. r = [target |-> IF intent = "quick" THEN bound ELSE None,
           options |-> IF p.status # "ready" THEN None ELSE o]
  BY Zenon DEF PreparedUnlock
<1> HIDE DEF p
<1>3. o # None =>
        o.salt = "own" /\ o.allow = SelectCredentials(ServerOptions(allow).allow, p.selection) /\ o.allow # None
  BY PreparedOptions
<1> HIDE DEF o
<1>4. p.status = "ready" /\ r.options = o /\ (r.target # None => intent = "quick" /\ r.target = bound)
  BY <1>2
<1> QED
  BY <1>1, <1>3, <1>4, ExactSelectsOne

LEMMA UnlocksAreBound ==
  ASSUME NEW account, NEW r \in PreparedUnlocks(account), r.options # None
  PROVE  r.options.salt = "own" /\ (r.target # None => Range(r.options.allow) = {r.target})
<1>1. PICK intent, bound, mode, browser, policy, allow :
        r = PreparedUnlock(account, intent, bound, mode, browser, policy, allow)
  BY DEF PreparedUnlocks
<1> QED
  BY <1>1, UnlockIsBound

(* Only the output of the credential that was verified is read.            *)
LEMMA AnswersAreOwn ==
  ASSUME NEW c \in Credentials, NEW salt, NEW d \in Devices,
         NEW results \in ExtensionResults(c, PrfOutput(c, salt, "authentication", d),
                           {PrfOutput(o, salt, "authentication", d) : o \in Credentials \ {c}})
  PROVE  AuthenticationPrf(results, c) \in {None, PrfOutput(c, salt, "authentication", d)}
<1> DEFINE output == PrfOutput(c, salt, "authentication", d)
           others == {PrfOutput(o, salt, "authentication", d) : o \in Credentials \ {c}}
           scoped == ScopeResults(results, c)
<1>1. \A o \in others : o[1] # c
  BY DEF PrfOutput
<1>2. output[1] = c
  BY DEF PrfOutput
<1>3. \/ results = None
      \/ results = [first |-> output, byCredential |-> {}]
      \/ results = [first |-> None, byCredential |-> {output} \cup others]
      \/ results = [first |-> None, byCredential |-> others]
  BY Zenon DEF ExtensionResults
<1> HIDE DEF output, others
<1>4. CASE results = None
  BY <1>4 DEF AuthenticationPrf
<1>5. CASE results = [first |-> output, byCredential |-> {}]
  <2>1. scoped.first = output /\ scoped.byCredential = {}
    BY <1>5 DEF ScopeResults
  <2> HIDE DEF scoped
  <2>2. ExtractPrfOutput(scoped, c) \in {None, output}
    BY <2>1 DEF ExtractPrfOutput
  <2> QED
    BY <2>2 DEF AuthenticationPrf, scoped, output
<1>6. CASE results = [first |-> None, byCredential |-> {output} \cup others]
  <2>1. scoped.first = None /\ scoped.byCredential = {output}
    BY <1>1, <1>2, <1>6 DEF ScopeResults
  <2> HIDE DEF scoped
  <2>2. ExtractPrfOutput(scoped, c) = output
    <3>1. {o \in scoped.byCredential : o[1] = c} = {output}
      BY <1>2, <2>1
    <3>2. (CHOOSE o \in {output} : TRUE) = output
      OBVIOUS
    <3> QED
      BY <3>1, <3>2 DEF ExtractPrfOutput
  <2> QED
    BY <2>2 DEF AuthenticationPrf, scoped, output
<1>7. CASE results = [first |-> None, byCredential |-> others]
  <2>1. scoped.first = None /\ scoped.byCredential = {}
    BY <1>1, <1>7 DEF ScopeResults
  <2> HIDE DEF scoped
  <2>2. ExtractPrfOutput(scoped, c) = None
    BY <2>1 DEF ExtractPrfOutput
  <2> QED
    BY <2>2 DEF AuthenticationPrf, scoped
<1> QED
  BY <1>3, <1>4, <1>5, <1>6, <1>7

(* A finite set is listed once over.                                       *)
LEMMA ListedOnce ==
  ASSUME NEW S, IsFiniteSet(S)
  PROVE  /\ SetToSeq(S) \in [1..Cardinality(S) -> S]
         /\ IsInjective(SetToSeq(S)) /\ Range(SetToSeq(S)) = S
<1> DEFINE n == Cardinality(S)
           s == SetToSeq(S)
<1>1. n \in Nat /\ ExistsBijection(1..n, S)
  BY FS_CardinalityType
<1>2. PICK g \in [1..n -> S] : IsInjective(g)
  BY <1>1 DEF ExistsBijection, Bijection, Injection
<1>3. s \in [1..n -> S] /\ IsInjective(s)
  BY <1>2 DEF SetToSeq
<1> HIDE DEF s
<1>4. Cardinality(1..n) = n
  BY <1>1, FS_Interval
<1>5. s \in Injection(1..n, S)
  BY <1>3 DEF Injection
<1>6. s \in Surjection(1..n, S)
  BY <1>4, <1>5, FS_Injection
<1>7. Range(s) = S
  BY <1>3, <1>6 DEF Surjection, Range
<1> QED
  BY <1>3, <1>7 DEF s

(* After a registration its credential alone is asked, with the user's     *)
(* own salt.                                                               *)
LEMMA EnrollIsBound ==
  ASSUME NEW account, NEW c \in Credentials, NEW browser
  PROVE  LET o == PrepareAuthenticationOptions(
                    ServerOptions(SetToSeq(CredentialsOf(account) \cup {c})), Exact(c), "preserve", browser)
         IN o.salt = "own" /\ Range(o.allow) = {c}
<1> DEFINE S == CredentialsOf(account) \cup {c}
           n == Cardinality(S)
           allow == SetToSeq(S)
           o == PrepareAuthenticationOptions(ServerOptions(allow), Exact(c), "preserve", browser)
<1>1. S \subseteq Credentials /\ c \in S
  BY DEF CredentialsOf
<1> HIDE DEF S
<1>2. IsFiniteSet(S) /\ n <= Cardinality(Credentials)
  BY <1>1, FiniteAssumption, FS_Subset
<1>3. n \in Nat /\ Cardinality(Credentials) \in Nat
  BY <1>2, FiniteAssumption, FS_CardinalityType
<1>4. allow \in [1..n -> S] /\ IsInjective(allow) /\ Range(allow) = S
  BY <1>2, ListedOnce
<1> HIDE DEF allow
<1>5. n # 0
  BY <1>1, <1>2, FS_EmptySet
<1> HIDE DEF n
<1>6. allow # <<>>
  <2>1. DOMAIN allow = 1..n /\ 1 \in 1..n
    BY <1>3, <1>4, <1>5
  <2>2. DOMAIN <<>> = {}
    OBVIOUS
  <2> QED
    BY <2>1, <2>2
<1>7. n \in 0..Cardinality(Credentials) /\ 1 \in 0..Cardinality(Credentials)
  BY <1>2, <1>3, <1>5
<1>8. allow \in [1..n -> Credentials] /\ <<c>> \in [1..1 -> Credentials]
  BY <1>1, <1>4
<1>9. allow # None /\ <<c>> # None
  BY <1>7, <1>8, NoneAssumption
<1>10. ScopeToCredential(allow, c) = <<c>>
  BY <1>1, <1>4, <1>6, <1>9 DEF ScopeToCredential, ParseAllowList
<1>11. SelectCredentials(allow, Exact(c)) = <<c>>
  BY <1>10 DEF SelectCredentials, Exact
<1>12. ServerOptions(allow).allow = allow /\ ~SelectionConflicts(Exact(c), "preserve")
  BY DEF ServerOptions, SelectionConflicts, Exact
<1>13. o = [allow |-> <<c>>, transports |-> TransportsOf("preserve", browser.appleMobile),
            salt |-> "own", userVerification |-> "required"]
  BY <1>9, <1>11, <1>12, Zenon DEF PrepareAuthenticationOptions
<1>14. Range(<<c>>) = {c}
  BY DEF Range
<1>15. o.salt = "own" /\ o.allow = <<c>>
  BY <1>13
<1> QED
  BY <1>14, <1>15 DEF S, allow

(* A registration that is not rejected is followed by one exact ceremony.  *)
LEMMA EnrollmentAsks ==
  ASSUME NEW c, NEW verified, NEW enabled, NEW output,
         EnrollmentAfterRegistration(c, verified, enabled, output).status # "rejected"
  PROVE  LET next == EnrollmentAfterRegistration(c, verified, enabled, output)
         IN next.status = "authentication_required" /\ next.selection = Exact(c)
<1>1. c # verified => EnrollmentAfterRegistration(c, verified, enabled, output) = [status |-> "rejected"]
  BY Zenon DEF EnrollmentAfterRegistration
<1>2. EnrollmentAfterRegistration(c, verified, enabled, output)
        \in {[status |-> "rejected"], [status |-> "authentication_required", selection |-> Exact(verified)]}
  BY Zenon DEF EnrollmentAfterRegistration, Exact
<1> QED
  BY <1>1, <1>2

LEMMA EnrollGood ==
  ASSUME MaterialInv, CallsGood, NEW f \in Flows, StartEnroll(f)
  PROVE  CallsGood'
<1>1. PICK c \in Credentials : \E verified, enabled, output, browser :
        Registered(f, c, EnrollmentAfterRegistration(c, verified, enabled, output), browser)
  BY Zenon DEF StartEnroll
<1>2. PICK verified, enabled, output, browser :
        Registered(f, c, EnrollmentAfterRegistration(c, verified, enabled, output), browser)
  BY <1>1
<1> DEFINE next == EnrollmentAfterRegistration(c, verified, enabled, output)
           options == PrepareAuthenticationOptions(
                        ServerOptions(SetToSeq(CredentialsOf(owner) \cup {c})), next.selection, "preserve", browser)
           call == Ceremony("enroll", owner, options, c)
<1>3. /\ next.status # "rejected" /\ registered[c] = None
      /\ registered' = [registered EXCEPT ![c] = owner]
      /\ Enter(f, AfterRegistration(next, c, browser))
  BY <1>2 DEF Registered
<1>4. next.status = "authentication_required" /\ next.selection = Exact(c)
  BY <1>3, EnrollmentAsks
<1> HIDE DEF next
<1>5. owner \in Accounts
  BY DEF StartEnroll, MaterialInv, Shapes, CacheBacked
<1>6. AfterRegistration(next, c, browser) = call
  BY <1>4, Zenon DEF AfterRegistration
<1>7. options.salt = "own" /\ Range(options.allow) = {c}
  BY <1>4, EnrollIsBound
<1> HIDE DEF options
<1>8. /\ Asks(call, "enroll", owner, "ceremony")
      /\ call.salt = "own" /\ call.allow = {c} /\ call.target = c
  BY <1>7, CeremonyAsks
<1> HIDE DEF call
<1>9. CallGood(call, registered')
  BY <1>5, <1>8, AsksGood DEF Stages
<1>10. Extends(registered', registered)
  BY <1>3, <1>5, NoneAssumption DEF CallsGood, Extends
<1> QED
  BY <1>3, <1>6, <1>9, <1>10, EntersGood

LEMMA StartsGood ==
  ASSUME MaterialInv, CallsGood, portable \subseteq Accounts, NEW f \in Flows,
         StartPassword(f) \/ StartUnlock(f) \/ StartPackage(f) \/ StartBroker(f)
  PROVE  CallsGood'
<1> USE DEF Stages
<1>0. Extends(registered', registered)
  BY SameExtends DEF StartPassword, StartUnlock, StartPackage, StartBroker, server
<1>1. CASE StartPassword(f)
  <2>1. PICK a \in Accounts : Enter(f, Call("password", a, "install"))
    BY <1>1 DEF StartPassword
  <2> DEFINE call == Call("password", a, "install")
  <2>2. Asks(call, "password", a, "install") /\ Enter(f, call)
    BY <2>1, CallAsks
  <2> HIDE DEF call
  <2>3. CallGood(call, registered')
    BY <2>2, AsksGood
  <2> QED
    BY <1>0, <2>2, <2>3, EntersGood
<1>2. CASE StartUnlock(f)
  <2>0. PICK a \in Accounts : \E call \in UnlockCeremonies(a) : Enter(f, call)
    BY <1>2 DEF StartUnlock
  <2>1. PICK call \in UnlockCeremonies(a) : Enter(f, call)
    BY <2>0
  <2>2. PICK r \in PreparedUnlocks(a) :
          r.options # None /\ call = Ceremony("unlock", a, r.options, r.target)
    BY <2>1, Zenon DEF UnlockCeremonies
  <2>3. r.options.salt = "own" /\ (r.target # None => Range(r.options.allow) = {r.target})
    BY <2>2, UnlocksAreBound
  <2>4. /\ Asks(call, "unlock", a, "ceremony") /\ call.salt = "own"
        /\ call.target # None => call.allow = {call.target}
    BY <2>2, <2>3, CeremonyAsks
  <2>5. CallGood(call, registered')
    BY <2>4, AsksGood
  <2> QED
    BY <1>0, <2>1, <2>5, EntersGood
<1>3. CASE StartPackage(f)
  <2> DEFINE t == Call("package", owner, "rewrap")
             call == Sealing(t)
  <2>1. Enter(f, call) /\ key # None /\ cache # None
    BY <1>3 DEF StartPackage
  <2>2. owner \in Accounts /\ cache.buf \in Buffers
    BY <2>1 DEF MaterialInv, Shapes, CacheBacked
  <2>3. Asks(t, "package", owner, "rewrap")
    BY CallAsks
  <2>4. CallGood(t, registered')
    <3> HIDE DEF t
    <3> QED
      BY <2>2, <2>3, AsksGood
  <2>5. Keeps(call, t) /\ call.at = "rewrap" /\ call.buf = cache.buf
    BY <2>3, SealingKeeps DEF Asks
  <2> HIDE DEF call, t
  <2>6. ~Stores(call)
    BY <2>3, <2>5 DEF Stores, Keeps, Asks
  <2>7. CallGood(call, registered')
    BY <2>2, <2>4, <2>5, <2>6, KeepsGood
  <2> QED
    BY <1>0, <2>1, <2>7, EntersGood
<1>4. CASE StartBroker(f)
  <2>1. PICK a \in portable : Enter(f, [Call("broker", a, "deliver") EXCEPT !.acknowledged = FALSE])
    BY <1>4 DEF StartBroker
  <2> DEFINE t == Call("broker", a, "deliver")
             call == [t EXCEPT !.acknowledged = FALSE]
  <2>2. Asks(t, "broker", a, "deliver") /\ Enter(f, call)
    BY <2>1, CallAsks
  <2> HIDE DEF t
  <2>3. Keeps(call, t) /\ call.at = t.at /\ call.buf = t.buf
    BY <2>2, ReceiptKeeps DEF Asks
  <2> HIDE DEF call
  <2>4. Asks(call, "broker", a, "deliver")
    BY <2>2, <2>3 DEF Asks, Keeps
  <2>5. CallGood(call, registered')
    BY <2>4, AsksGood
  <2> QED
    BY <1>0, <2>2, <2>5, EntersGood
<1> QED
  BY <1>1, <1>2, <1>3, <1>4

(* An answer to a bound call comes from the one credential it allows.      *)
LEMMA AnsweredGood ==
  ASSUME NEW c, NEW d, NEW whose, NEW stage \in {"extract", "repair", "rewrap"},
         NEW credential \in Credentials, NEW prf, NEW device \in Devices,
         Answered(c, d, stage, credential, prf), CallGood(d, whose), d.at = "ceremony",
         d.allow = {} \/ credential \in d.allow, whose[credential] = d.account,
         c.buf \in Buffers \cup {None}, OwnOutput(credential, prf) \/ (prf = None /\ stage = "extract")
  PROVE  CallGood(c, whose)
<1>1. d.account \in Accounts /\ (d.target # None => d.allow = {d.target})
  BY DEF CallGood, CallTyped, CallBound
<1>2. CallTyped(c)
  <2>1. prf \in Outputs \cup {None}
    BY DEF OwnOutput, Outputs, Salts
  <2> QED
    BY <1>1, <2>1 DEF CallTyped, Answered, Stages
<1>3. CallBound(c)
  BY <1>1 DEF CallBound, Answered
<1>4. CallSeals(c, whose)
  BY DEF CallSeals, Stores, Answered
<1> QED
  BY <1>2, <1>3, <1>4 DEF CallGood

LEMMA AnswerGood ==
  ASSUME MaterialInv, CallsGood, NEW f \in Flows, Answer(f)
  PROVE  CallsGood'
<1>1. flow[f] # Idle /\ flow[f].at = "ceremony" /\ UNCHANGED registered
  BY DEF Answer, At, server
<1> DEFINE output(c, d) == PrfOutput(c, flow[f].salt, "authentication", d)
           others(c, d) == {PrfOutput(o, flow[f].salt, "authentication", d) : o \in Credentials \ {c}}
<1>10. PICK c \in Credentials, d \in Devices : \E results :
        /\ results \in ExtensionResults(c, output(c, d), others(c, d))
        /\ flow[f].allow = {} \/ c \in flow[f].allow
        /\ \/ Ends(f)
           \/ /\ registered[c] = flow[f].account /\ AuthenticationPrf(results, c) # None
              /\ \/ Match(f, c, AuthenticationPrf(results, c))
                 \/ /\ cache # None
                    /\ Goes(f, Sealing(Asserted(f, "rewrap", c, AuthenticationPrf(results, c))))
  BY Zenon DEF Answer
<1>2. PICK results :
        /\ results \in ExtensionResults(c, output(c, d), others(c, d))
        /\ flow[f].allow = {} \/ c \in flow[f].allow
        /\ \/ Ends(f)
           \/ /\ registered[c] = flow[f].account /\ AuthenticationPrf(results, c) # None
              /\ \/ Match(f, c, AuthenticationPrf(results, c))
                 \/ /\ cache # None
                    /\ Goes(f, Sealing(Asserted(f, "rewrap", c, AuthenticationPrf(results, c))))
  BY <1>10
<1> DEFINE prf == AuthenticationPrf(results, c)
<1>3. prf \in {None, output(c, d)}
  BY <1>2, AnswersAreOwn
<1>4. /\ CallGood(flow[f], registered) /\ IsCall(flow[f]) /\ flow[f].salt = "own"
      /\ flow[f].buf \in Buffers \cup {None}
  BY <1>1 DEF CallsGood, CallGood, CallTyped, CallBound
<1>5. prf # None => OwnOutput(c, prf)
  BY <1>3, <1>4 DEF OwnOutput
<1> HIDE DEF prf
<1>6. CASE Ends(f)
  BY <1>1, <1>6, EndsGood
<1>7. ASSUME registered[c] = flow[f].account, prf # None, NEW stage \in {"extract", "repair"},
             NEW p, p = prf \/ (p = None /\ stage = "extract"), Goes(f, Asserted(f, stage, c, p))
      PROVE  CallsGood'
  <2> DEFINE call == Asserted(f, stage, c, p)
  <2>1. Answered(call, flow[f], stage, c, p) /\ call.buf = flow[f].buf /\ Goes(f, call)
    BY <1>4, <1>7, AssertedAnswers
  <2> HIDE DEF call
  <2>2. CallGood(call, registered)
    BY <1>1, <1>2, <1>4, <1>5, <1>7, <2>1, AnsweredGood
  <2> QED
    BY <1>1, <2>1, <2>2, GoesGood, SameExtends
<1>8. CASE registered[c] = flow[f].account /\ prf # None /\ Match(f, c, prf)
  <2>1. \/ Goes(f, Asserted(f, "extract", c, None))
        \/ Goes(f, Asserted(f, "repair", c, prf))
        \/ Ends(f)
    BY <1>8, Zenon DEF Match
  <2> QED
    BY <1>6, <1>7, <1>8, <2>1
<1>9. CASE /\ registered[c] = flow[f].account /\ prf # None /\ cache # None
           /\ Goes(f, Sealing(Asserted(f, "rewrap", c, prf)))
  <2> DEFINE t == Asserted(f, "rewrap", c, prf)
             call == Sealing(t)
  <2>1. Answered(t, flow[f], "rewrap", c, prf) /\ t.buf = flow[f].buf /\ Goes(f, call)
    BY <1>4, <1>9, AssertedAnswers
  <2> HIDE DEF t
  <2>2. CallGood(t, registered)
    BY <1>1, <1>2, <1>4, <1>5, <1>9, <2>1, AnsweredGood
  <2>3. Keeps(call, t) /\ call.at = "rewrap" /\ call.buf = cache.buf
    BY <2>1, SealingKeeps DEF Answered
  <2> HIDE DEF call
  <2>4. cache.buf \in Buffers
    BY <1>9 DEF MaterialInv, Shapes
  <2>5. Stores(call) => Stores(t)
    BY <2>1, <2>3 DEF Stores, Keeps, Answered
  <2>6. CallGood(call, registered)
    BY <2>2, <2>3, <2>4, <2>5, KeepsGood DEF Stages
  <2> QED
    BY <1>1, <2>1, <2>6, GoesGood, SameExtends
<1> QED
  BY <1>2, <1>6, <1>8, <1>9 DEF prf

LEMMA NextGood ==
  ASSUME MaterialInv, CallsGood, portable \subseteq Accounts, [Next]_vars
  PROVE  CallsGood'
<1>1. CASE LockVaultSession \/ ClearVaultSessionOwner
  BY <1>1, CancelsGood DEF LockVaultSession, ClearVaultSessionOwner, server
<1>2. CASE ClearVaultInnerKeyMaterialCache \/ UNCHANGED vars
  BY <1>2 DEF ClearVaultInnerKeyMaterialCache, vars, server, CallsGood
<1>3. ASSUME NEW f \in Flows, Repair(f) PROVE CallsGood'
  BY <1>3, EndsGood DEF Repair
<1>4. ASSUME NEW f \in Flows,
             Answer(f) \/ Install(f) \/ Extract(f) \/ Commit(f) \/ Rewrap(f) \/ Sealed(f)
               \/ Deliver(f) \/ Open(f) \/ Receipt(f)
               \/ StartPassword(f) \/ StartUnlock(f) \/ StartPackage(f) \/ StartBroker(f) \/ StartEnroll(f)
      PROVE  CallsGood'
  BY <1>4, ResumptionsGood, AnswerGood, StartsGood, EnrollGood
<1> QED
  BY <1>1, <1>2, <1>3, <1>4 DEF Next

-----------------------------------------------------------------------------
(* Stored envelopes.                                                       *)

(* A registration is the one step that gives a credential to an account,   *)
(* and it finds the credential free.                                       *)
LEMMA NextExtends ==
  ASSUME MaterialInv, CallsGood, [Next]_vars
  PROVE  Extends(registered', registered)
<1>1. CASE UNCHANGED registered
  BY <1>1, SameExtends
<1>2. ASSUME NEW f \in Flows, StartEnroll(f) PROVE Extends(registered', registered)
  <2>1. \E c \in Credentials : \E next, browser : Registered(f, c, next, browser)
    BY <1>2, Zenon DEF StartEnroll
  <2>2. PICK c \in Credentials : registered[c] = None /\ registered' = [registered EXCEPT ![c] = owner]
    BY <2>1 DEF Registered
  <2>3. owner \in Accounts
    BY <1>2 DEF StartEnroll, MaterialInv, Shapes, CacheBacked
  <2> QED
    BY <2>2, <2>3, NoneAssumption DEF CallsGood, Extends
<1> QED
  BY <1>1, <1>2 DEF Next, vars, server, LockVaultSession, ClearVaultSessionOwner,
     ClearVaultInnerKeyMaterialCache, StartPassword, StartUnlock, StartPackage, StartBroker,
     Install, Extract, Commit, Answer, Repair, Rewrap, Sealed, Deliver, Open, Receipt

(* What is wrapped under an output opens with it again.                    *)
LEMMA WrappedOpens ==
  ASSUME NEW account \in Accounts, NEW secret
  PROVE  UnlockEnvelope(WrapUserVaultKey(account, FALSE, [uvk |-> account, raw |-> FALSE], secret, "none"),
                        secret, Profile) = account
<1> DEFINE inner == [uvk |-> account, raw |-> FALSE]
           w == WrapUserVaultKey(account, FALSE, inner, secret, "none")
<1>1. inner # None
  BY NoneAssumption
<1>2. MaterializeInner(account, FALSE, inner) = inner
  BY <1>1 DEF MaterializeInner, InnerMatches
<1>3. w = [EncryptField(account, secret, "none") EXCEPT !.raw = inner.raw]
  BY <1>1, <1>2, Zenon DEF WrapUserVaultKey
<1>4. w = EncryptField(account, secret, "none")
  BY <1>3 DEF EncryptField
<1> HIDE DEF w
<1>5. UnlockEnvelope(w, secret, Profile) = account
  BY <1>4, SealedOpens
<1> QED
  BY <1>5 DEF w

(* The independent authorization wraps the account's key or nothing.       *)
LEMMA AuthorizedOpens ==
  ASSUME NEW account \in Accounts, NEW password, NEW prf,
         AfterIndependentAuthorization(account, password, prf) # None
  PROVE  UnlockEnvelope(AfterIndependentAuthorization(account, password, prf), prf, Profile) = account
<1> DEFINE inner == RewrapInner(ExtractInner(CreatePasswordEnvelope(account, account), password), account)
           w == WrapUserVaultKey(account, FALSE, inner, prf, "none")
<1>1. AfterIndependentAuthorization(account, password, prf) = w
  BY Zenon DEF AfterIndependentAuthorization
<1>2. inner \in {None, [uvk |-> account, raw |-> FALSE]}
  BY DEF RewrapInner, InnerMatches
<1> HIDE DEF inner
<1>3. inner # None
  BY <1>1 DEF WrapUserVaultKey, MaterializeInner
<1> HIDE DEF w
<1>4. w = WrapUserVaultKey(account, FALSE, [uvk |-> account, raw |-> FALSE], prf, "none")
  BY <1>2, <1>3 DEF w
<1> QED
  BY <1>1, <1>4, WrappedOpens

LEMMA StoredOpens ==
  ASSUME MaterialInv, CallsGood, VariantsOpen, NEW f \in Flows, flow[f] # Idle, Stores(flow[f]),
         UNCHANGED registered, NEW envelope, Store(f, envelope),
         UnlockEnvelope(envelope, flow[f].prf, Profile) = flow[f].account
  PROVE  VariantsOpen'
<1> DEFINE v == [account |-> flow[f].account, credential |-> flow[f].credential, envelope |-> envelope]
<1>1. /\ v.account \in Accounts /\ v.credential \in Credentials
      /\ registered[v.credential] = v.account
      /\ OwnOutput(v.credential, flow[f].prf)
  BY DEF CallsGood, CallGood, CallTyped, CallSeals
<1>2. VariantOpens(v)
  BY <1>1 DEF VariantOpens, OwnOutput
<1>3. variants' = variants \cup {v}
  BY DEF Store
<1> HIDE DEF v
<1> QED
  BY <1>2, <1>3 DEF VariantsOpen, VariantOpens

LEMMA NextOpens ==
  ASSUME MaterialInv, CallsGood, VariantsOpen, [Next]_vars
  PROVE  VariantsOpen'
<1>1. CASE UNCHANGED variants
  <2>1. Extends(registered', registered)
    BY NextExtends
  <2> QED
    BY <1>1, <2>1, NoneAssumption DEF VariantsOpen, VariantOpens, Extends
<1>2. ASSUME NEW f \in Flows, Sealed(f) PROVE VariantsOpen'
  <2>1. flow[f] # Idle /\ flow[f].at = "sealed" /\ UNCHANGED registered
    BY <1>2 DEF Sealed, At
  <2> DEFINE w == WrapUserVaultKey(flow[f].account, FALSE, [uvk |-> flow[f].account, raw |-> FALSE],
                                   flow[f].prf, "none")
  <2>2. UNCHANGED variants \/ (flow[f].kind = "enroll" /\ Store(f, w))
    BY <1>2 DEF Sealed
  <2>3. UnlockEnvelope(w, flow[f].prf, Profile) = flow[f].account
    BY <2>1, GoodFacts, WrappedOpens
  <2> HIDE DEF w
  <2> QED
    BY <1>1, <2>1, <2>2, <2>3, StoredOpens DEF Stores
<1>3. ASSUME NEW f \in Flows, Repair(f) PROVE VariantsOpen'
  <2>1. flow[f] # Idle /\ flow[f].at = "repair" /\ UNCHANGED registered
    BY <1>3 DEF Repair, At
  <2>2. PICK password : LET e == AfterIndependentAuthorization(flow[f].account, password, flow[f].prf)
                        IN UNCHANGED variants \/ (e # None /\ Store(f, e))
    BY <1>3, Zenon DEF Repair
  <2> DEFINE e == AfterIndependentAuthorization(flow[f].account, password, flow[f].prf)
  <2>3. e # None => UnlockEnvelope(e, flow[f].prf, Profile) = flow[f].account
    BY <2>1, GoodFacts, AuthorizedOpens
  <2>4. UNCHANGED variants \/ (e # None /\ Store(f, e))
    BY <2>2
  <2> HIDE DEF e
  <2> QED
    BY <1>1, <2>1, <2>3, <2>4, StoredOpens DEF Stores
<1> QED
  BY <1>1, <1>2, <1>3 DEF Next, vars, server, LockVaultSession, ClearVaultSessionOwner,
     ClearVaultInnerKeyMaterialCache, StartPassword, StartUnlock, StartEnroll, StartPackage, StartBroker,
     Install, Extract, Commit, Answer, Rewrap, Deliver, Open, Receipt

-----------------------------------------------------------------------------
(* Buffers and the broker session.                                         *)

(* A call goes on, or starts, at a stage.                                  *)
LEMMA StartsAt ==
  ASSUME NEW f \in Flows,
         StartPassword(f) \/ StartUnlock(f) \/ StartEnroll(f) \/ StartPackage(f) \/ StartBroker(f)
  PROVE  \E call : Enter(f, call) /\ call.at \in {"install", "ceremony", "rewrap", "deliver"}
<1>1. CASE StartPassword(f)
  <2>1. PICK a : Enter(f, Call("password", a, "install"))
    BY <1>1 DEF StartPassword
  <2>2. Call("password", a, "install").at = "install"
    BY CallAsks DEF Asks
  <2> QED
    BY <2>1, <2>2
<1>2. CASE StartUnlock(f)
  <2>1. PICK a \in Accounts : \E call \in UnlockCeremonies(a) : Enter(f, call)
    BY <1>2 DEF StartUnlock
  <2>2. PICK call \in UnlockCeremonies(a) : Enter(f, call)
    BY <2>1
  <2>3. PICK r : call = Ceremony("unlock", a, r.options, r.target)
    BY <2>2, Zenon DEF UnlockCeremonies
  <2>4. call.at = "ceremony"
    BY <2>3, CeremonyAsks DEF Asks
  <2> QED
    BY <2>2, <2>4
<1>3. CASE StartEnroll(f)
  <2>1. \E next, c, browser : Registered(f, c, next, browser)
    BY <1>3, Zenon DEF StartEnroll
  <2>2. PICK next, c, browser : Enter(f, AfterRegistration(next, c, browser))
    BY <2>1, Zenon DEF Registered
  <2>3. AfterRegistration(next, c, browser).at \in {"rewrap", "ceremony"}
    BY AfterRegistrationIsCall DEF New
  <2> QED
    BY <2>2, <2>3
<1>4. CASE StartPackage(f)
  <2>1. Enter(f, Sealing(Call("package", owner, "rewrap")))
    BY <1>4 DEF StartPackage
  <2>2. Sealing(Call("package", owner, "rewrap")).at = "rewrap"
    BY SealedCall DEF New
  <2> QED
    BY <2>1, <2>2
<1>5. CASE StartBroker(f)
  <2>1. PICK a : Enter(f, [Call("broker", a, "deliver") EXCEPT !.acknowledged = FALSE])
    BY <1>5 DEF StartBroker
  <2> DEFINE t == Call("broker", a, "deliver")
  <2>2. IsCall(t) /\ t.at = "deliver"
    BY CallAsks DEF Asks
  <2>3. Enter(f, [t EXCEPT !.acknowledged = FALSE])
    BY <2>1
  <2> HIDE DEF t
  <2>4. [t EXCEPT !.acknowledged = FALSE].at = "deliver"
    BY <2>2, ReceiptKeeps
  <2> QED
    BY <2>3, <2>4
<1> QED
  BY <1>1, <1>2, <1>3, <1>4, <1>5

LEMMA GoesOnAt ==
  ASSUME MaterialInv, NEW f \in Flows,
         Install(f) \/ Answer(f) \/ Repair(f) \/ Rewrap(f) \/ Sealed(f)
  PROVE  /\ flow[f] # Idle /\ ~Holds(flow[f])
         /\ \E c : Goes(f, c) /\ c.at \in {"idle", "extract", "repair", "rewrap", "sealed"}
<1>0. flow[f] # Idle /\ ~Holds(flow[f])
  BY DEF Install, Answer, Repair, Rewrap, Sealed, At, Holds
<1>1. IsCall(flow[f])
  BY <1>0, FlowFacts
<1>2. CASE Ends(f)
  <2>1. Goes(f, Idle)
    BY <1>2 DEF Ends, Goes
  <2>2. Idle.at = "idle"
    BY DEF Idle
  <2> QED
    BY <1>0, <2>1, <2>2
<1>3. CASE Goes(f, Then(f, "extract"))
  BY <1>0, <1>1, <1>3, ThenKeeps
<1>4. CASE \E stage \in {"extract", "repair"} : \E c, prf : Goes(f, Asserted(f, stage, c, prf))
  BY <1>0, <1>1, <1>4, AssertedAnswers DEF Answered
<1>5. CASE \E c, prf : Goes(f, Sealing(Asserted(f, "rewrap", c, prf)))
  BY <1>0, <1>1, <1>5, AssertedAnswers, SealingKeeps DEF Answered
<1>6. CASE Goes(f, [Then(f, "sealed") EXCEPT !.buf = None])
  <2> DEFINE t == Then(f, "sealed")
  <2>1. IsCall(t) /\ t.at = "sealed" /\ Goes(f, [t EXCEPT !.buf = None])
    BY <1>1, <1>6, ThenKeeps DEF Keeps
  <2> HIDE DEF t
  <2>2. [t EXCEPT !.buf = None].at = "sealed"
    BY <2>1, BufferKeeps
  <2> QED
    BY <1>0, <2>1, <2>2
<1>7. CASE Install(f)
  BY <1>2, <1>3, <1>7 DEF Install
<1>8. CASE Answer(f)
  <2>1. PICK c, prf : Ends(f) \/ Goes(f, Sealing(Asserted(f, "rewrap", c, prf))) \/ Match(f, c, prf)
    BY <1>8, Zenon DEF Answer
  <2>2. CASE Match(f, c, prf)
    <3>1. Ends(f) \/ Goes(f, Asserted(f, "extract", c, None)) \/ Goes(f, Asserted(f, "repair", c, prf))
      BY <2>2, Zenon DEF Match
    <3> QED
      BY <1>2, <1>4, <3>1
  <2> QED
    BY <1>2, <1>5, <2>1, <2>2
<1>9. CASE Repair(f)
  BY <1>2, <1>9 DEF Repair
<1>10. CASE Rewrap(f)
  BY <1>2, <1>6, <1>10 DEF Rewrap
<1>11. CASE Sealed(f)
  BY <1>2, <1>11 DEF Sealed
<1> QED
  BY <1>7, <1>8, <1>9, <1>10, <1>11

LEMMA GoesTo ==
  ASSUME MaterialInv, NEW f \in Flows, NEW c, Goes(f, c)
  PROVE  flow'[f] = c /\ \A g \in Flows \ {f} : flow'[g] = flow[g]
BY DEF MaterialInv, Shapes, Goes

(* A cancelled call is at its stage, with its buffer.                      *)
LEMMA CancelledStay ==
  ASSUME CallsGood, NEW g \in Flows
  PROVE  /\ Cancelled[g].at = flow[g].at /\ (Cancelled[g] = Idle) = (flow[g] = Idle)
         /\ Cancelled[g] # Idle => Cancelled[g].buf = flow[g].buf /\ Cancelled[g].kind = flow[g].kind
<1>1. CASE flow[g] = Idle
  BY <1>1 DEF Cancelled
<1>2. CASE flow[g] # Idle
  <2>1. flow[g].at # "idle" /\ IsCall(flow[g])
    BY <1>2, GoodFacts DEF Stages
  <2>2. /\ Keeps(Cancelled[g], flow[g])
        /\ Cancelled[g].at = flow[g].at /\ Cancelled[g].buf = flow[g].buf
    BY <1>2, <2>1, CancelKeeps
  <2>3. Idle.at = "idle"
    BY DEF Idle
  <2> QED
    BY <1>2, <2>1, <2>2, <2>3 DEF Keeps
<1> QED
  BY <1>1, <1>2

(* No buffer is lost while every call that holds one goes on holding it.   *)
LEMMA StaysTracked ==
  ASSUME MaterialInv, NoStrayMaterial, ClearCachedEntry \/ UNCHANGED memory,
         \A g \in Flows : Holds(flow[g]) => Holds(flow'[g]) /\ flow'[g].buf = flow[g].buf
  PROVE  NoStrayMaterial'
<1>1. ASSUME NEW b \in Buffers, bytes'[b] # None
      PROVE  /\ bytes[b] # None
             /\ (cache # None /\ cache.buf = b) => cache' # None /\ cache'.buf = b
  BY <1>1 DEF ClearCachedEntry, Zeroed, memory, MaterialInv, Shapes
<1> QED
  BY <1>1 DEF NoStrayMaterial, Holds

LEMMA EntersTracked ==
  ASSUME MaterialInv, CallsGood, NoStrayMaterial, NEW f \in Flows, NEW call, Enter(f, call)
  PROVE  NoStrayMaterial'
<1>1. ~Holds(flow[f])
  BY DEF Enter, Holds
<1>2. CASE Goes(f, call) /\ UNCHANGED memory
  BY <1>1, <1>2, GoesTo, StaysTracked
<1>3. CASE flow' = [Cancelled EXCEPT ![f] = call] /\ BeginVaultSessionUnlock(call.account)
  <2>1. ClearCachedEntry \/ UNCHANGED memory
    BY <1>3 DEF BeginVaultSessionUnlock, memory
  <2>2. \A g \in Flows \ {f} : flow'[g] = Cancelled[g]
    BY <1>3 DEF Cancelled
  <2>3. \A g \in Flows : Holds(flow[g]) => Holds(flow'[g]) /\ flow'[g].buf = flow[g].buf
    BY <1>1, <2>2, CancelledStay DEF Holds
  <2> QED
    BY <2>1, <2>3, StaysTracked
<1> QED
  BY <1>2, <1>3 DEF Enter, Goes

(* A call that takes bytes holds them.                                     *)
LEMMA TakesTracked ==
  ASSUME MaterialInv, NoStrayMaterial, NEW f \in Flows, ~Holds(flow[f]), NEW b \in Buffers,
         Allocate(b, flow[f].account), UNCHANGED cache,
         NEW c, Goes(f, c), c # Idle, c.buf = b, c.at \in {"commit", "receipt"}
  PROVE  NoStrayMaterial'
<1>1. flow'[f] = c /\ \A g \in Flows \ {f} : flow'[g] = flow[g]
  BY GoesTo
<1>2. bytes' = [bytes EXCEPT ![b] = flow[f].account] /\ bytes \in [Buffers -> Accounts \cup {None}]
  BY DEF Allocate, MaterialInv, Shapes
<1> QED
  BY <1>1, <1>2 DEF NoStrayMaterial, Holds

LEMMA ZeroesTracked ==
  ASSUME MaterialInv, NoStrayMaterial, NEW f \in Flows, Ends(f), UNCHANGED cache,
         bytes' = [bytes EXCEPT ![flow[f].buf] = None]
  PROVE  NoStrayMaterial'
<1>1. flow'[f] = Idle /\ \A g \in Flows \ {f} : flow'[g] = flow[g]
  BY GoesTo DEF Ends, Goes
<1>2. \A b \in Buffers : bytes'[b] # None => bytes[b] # None /\ b # flow[f].buf
  BY DEF MaterialInv, Shapes
<1> QED
  BY <1>1, <1>2 DEF NoStrayMaterial, Holds

LEMMA CommitsTracked ==
  ASSUME MaterialInv, NoStrayMaterial, NEW f \in Flows, flow[f] # Idle, flow[f].at = "commit",
         flow[f].live, cache' = [buf |-> flow[f].buf, acknowledged |-> flow[f].acknowledged],
         bytes' = Zeroed, NEW c, Goes(f, c)
  PROVE  NoStrayMaterial' /\ cache' \in [buf : Buffers, acknowledged : BOOLEAN]
<1>1. \A g \in Flows \ {f} : flow'[g] = flow[g]
  BY GoesTo
<1>2. flow[f].acknowledged = TRUE /\ flow[f].buf \in Buffers
  BY FlowFacts DEF CallSound, MaterialInv, BuffersOwned, Holds
<1>3. cache' = [buf |-> flow[f].buf, acknowledged |-> TRUE] /\ cache' # None
  BY <1>2, NoneAssumption
<1>4. \A b \in Buffers : bytes'[b] # None => bytes[b] # None /\ (cache # None => cache.buf # b)
  BY DEF Zeroed, MaterialInv, Shapes
<1> DEFINE entry == [buf |-> flow[f].buf, acknowledged |-> TRUE]
<1>5. cache'.buf = flow[f].buf /\ cache' \in [buf : Buffers, acknowledged : BOOLEAN]
  <2>1. entry.buf = flow[f].buf /\ entry \in [buf : Buffers, acknowledged : BOOLEAN]
    BY <1>2
  <2>2. cache' = entry
    BY <1>3
  <2> HIDE DEF entry
  <2> QED
    BY <2>1, <2>2
<1>6. ASSUME NEW b \in Buffers, bytes'[b] # None
      PROVE  cache'.buf = b \/ \E g \in Flows : flow'[g] # Idle /\ flow'[g].buf = b /\ flow'[g].at \in {"commit", "receipt"}
  BY <1>1, <1>4, <1>5, <1>6 DEF NoStrayMaterial
<1> QED
  BY <1>3, <1>5, <1>6 DEF NoStrayMaterial

(* Extraction and a successful opening.                                    *)
LEMMA TakesAt ==
  ASSUME MaterialInv, NEW f \in Flows, flow[f] # Idle, NEW stage \in {"commit", "receipt"}, NEW b
  PROVE  /\ [Then(f, stage) EXCEPT !.buf = b] # Idle
         /\ [Then(f, stage) EXCEPT !.buf = b].buf = b /\ [Then(f, stage) EXCEPT !.buf = b].at = stage
<1> DEFINE t == Then(f, stage)
           c == [t EXCEPT !.buf = b]
<1>1. IsCall(t) /\ t.at = stage
  BY FlowFacts, ThenKeeps DEF Keeps
<1> HIDE DEF t
<1>2. c.buf = b /\ c.at = stage
  BY <1>1, BufferKeeps
<1>3. Idle.at = "idle"
  BY DEF Idle
<1> HIDE DEF c
<1>4. c # Idle /\ c.buf = b /\ c.at = stage
  BY <1>2, <1>3
<1> QED
  BY <1>4 DEF c, t

LEMMA ReceiptAt ==
  ASSUME MaterialInv, NEW f \in Flows, flow[f] # Idle,
         Goes(f, [Then(f, "commit") EXCEPT !.acknowledged = TRUE])
  PROVE  \E c : Goes(f, c) /\ c # Idle /\ c.buf = flow[f].buf /\ c.at = "commit"
<1> DEFINE t == Then(f, "commit")
<1>1. IsCall(t) /\ t.at = "commit" /\ t.buf = flow[f].buf
  BY FlowFacts, ThenKeeps DEF Keeps
<1>2. Goes(f, [t EXCEPT !.acknowledged = TRUE])
  OBVIOUS
<1> HIDE DEF t
<1>3. [t EXCEPT !.acknowledged = TRUE].buf = t.buf /\ [t EXCEPT !.acknowledged = TRUE].at = "commit"
  BY <1>1, ReceiptKeeps
<1>4. Idle.at = "idle"
  BY DEF Idle
<1> QED
  BY <1>1, <1>2, <1>3, <1>4

LEMMA NextTracked ==
  ASSUME MaterialInv, CallsGood, NoStrayMaterial, [Next]_vars
  PROVE  NoStrayMaterial'
<1>1. CASE LockVaultSession \/ ClearVaultSessionOwner
  <2>1. flow' = Cancelled /\ ClearCachedEntry
    BY <1>1 DEF LockVaultSession, ClearVaultSessionOwner
  <2>2. \A g \in Flows : flow'[g] = Cancelled[g]
    BY <2>1 DEF Cancelled
  <2> QED
    BY <2>1, <2>2, CancelledStay, StaysTracked DEF Holds
<1>2. CASE ClearVaultInnerKeyMaterialCache \/ UNCHANGED vars
  <2>1. UNCHANGED flow /\ (ClearCachedEntry \/ UNCHANGED memory)
    BY <1>2 DEF ClearVaultInnerKeyMaterialCache, vars
  <2> QED
    BY <2>1, StaysTracked
<1>3. ASSUME NEW f \in Flows,
             StartPassword(f) \/ StartUnlock(f) \/ StartEnroll(f) \/ StartPackage(f) \/ StartBroker(f)
      PROVE  NoStrayMaterial'
  BY <1>3, StartsAt, EntersTracked
<1>4. ASSUME NEW f \in Flows, Install(f) \/ Answer(f) \/ Repair(f) \/ Rewrap(f) \/ Sealed(f)
      PROVE  NoStrayMaterial'
  <2>1. ClearCachedEntry \/ UNCHANGED memory
    BY <1>4 DEF Install, Answer, Repair, Rewrap, Sealed
  <2>2. PICK c : Goes(f, c)
    BY <1>4, GoesOnAt
  <2>3. ~Holds(flow[f]) /\ \A g \in Flows \ {f} : flow'[g] = flow[g]
    BY <1>4, <2>2, GoesOnAt, GoesTo
  <2> QED
    BY <2>1, <2>3, StaysTracked
<1>5. ASSUME NEW f \in Flows, ~Holds(flow[f]), NEW c, Goes(f, c), UNCHANGED memory
      PROVE  NoStrayMaterial'
  BY <1>5, GoesTo, StaysTracked
<1>6. ASSUME NEW f \in Flows, Deliver(f) PROVE NoStrayMaterial'
  <2>1. ~Holds(flow[f]) /\ UNCHANGED memory /\ \E c : Goes(f, c)
    BY <1>6 DEF Deliver, At, Holds, Ends, Goes
  <2> QED
    BY <1>5, <2>1
<1>7. ASSUME NEW f \in Flows, NEW stage \in {"commit", "receipt"}, ~Holds(flow[f]), flow[f] # Idle,
             UNCHANGED cache, NEW b \in Buffers, Allocate(b, flow[f].account),
             Goes(f, [Then(f, stage) EXCEPT !.buf = b])
      PROVE  NoStrayMaterial'
  <2> DEFINE c == [Then(f, stage) EXCEPT !.buf = b]
  <2>1. c # Idle /\ c.buf = b /\ c.at = stage
    BY <1>7, TakesAt
  <2>2. Goes(f, c)
    BY <1>7
  <2> HIDE DEF c
  <2> QED
    BY <1>7, <2>1, <2>2, TakesTracked
<1>8. ASSUME NEW f \in Flows, Extract(f) PROVE NoStrayMaterial'
  BY <1>7, <1>8 DEF Extract, At, Holds
<1>9. ASSUME NEW f \in Flows, Open(f) PROVE NoStrayMaterial'
  <2>1. ~Holds(flow[f]) /\ flow[f] # Idle
    BY <1>9 DEF Open, At, Holds
  <2>2. CASE Ends(f) /\ UNCHANGED memory
    BY <1>5, <2>1, <2>2 DEF Ends, Goes
  <2> QED
    BY <1>7, <1>9, <2>1, <2>2 DEF Open
<1>10. ASSUME NEW f \in Flows, Commit(f) PROVE NoStrayMaterial'
  <2>1. flow[f] # Idle /\ flow[f].at = "commit"
    BY <1>10 DEF Commit, At
  <2>2. CASE flow[f].live
    <3>1. /\ cache' = [buf |-> flow[f].buf, acknowledged |-> flow[f].acknowledged] /\ bytes' = Zeroed
          /\ \E c : Goes(f, c)
      BY <1>10, <2>2 DEF Commit, Ends, Goes
    <3> QED
      BY <2>1, <2>2, <3>1, CommitsTracked
  <2>3. CASE ~flow[f].live
    BY <1>10, <2>3, ZeroesTracked DEF Commit
  <2> QED
    BY <2>2, <2>3
<1>11. ASSUME NEW f \in Flows, Receipt(f) PROVE NoStrayMaterial'
  <2>1. flow[f] # Idle /\ flow[f].at = "receipt" /\ UNCHANGED cache
    BY <1>11 DEF Receipt, At
  <2>2. CASE Goes(f, [Then(f, "commit") EXCEPT !.acknowledged = TRUE]) /\ UNCHANGED bytes
    <3>1. PICK c : Goes(f, c) /\ c # Idle /\ c.buf = flow[f].buf /\ c.at = "commit"
      BY <2>1, <2>2, ReceiptAt
    <3>2. flow'[f] = c /\ \A g \in Flows \ {f} : flow'[g] = flow[g]
      BY <3>1, GoesTo
    <3>3. UNCHANGED memory
      BY <2>1, <2>2 DEF memory
    <3> QED
      BY <3>1, <3>2, <3>3, StaysTracked DEF Holds
  <2> QED
    BY <1>11, <2>1, <2>2, ZeroesTracked DEF Receipt
<1> QED
  BY <1>1, <1>2, <1>3, <1>4, <1>6, <1>8, <1>9, <1>10, <1>11 DEF Next

(* Steps that neither begin to open nor touch the broker session.          *)
LEMMA OpenStays ==
  ASSUME OpenOnce, UNCHANGED ephemeral,
         \A g \in Flows : flow'[g].at = "open" => flow[g].at = "open"
  PROVE  OpenOnce'
BY DEF OpenOnce

LEMMA EntersAt ==
  ASSUME MaterialInv, CallsGood, NEW f \in Flows, NEW call, Enter(f, call), call.at # "open"
  PROVE  \A g \in Flows : flow'[g].at = "open" => flow[g].at = "open" /\ g # f /\ flow[g] # Idle
<1>1. Idle.at = "idle"
  BY DEF Idle
<1>2. CASE Goes(f, call)
  BY <1>1, <1>2, GoesTo
<1>3. CASE flow' = [Cancelled EXCEPT ![f] = call]
  <2>1. flow'[f] = call /\ \A g \in Flows \ {f} : flow'[g] = Cancelled[g]
    BY <1>3 DEF Cancelled
  <2> QED
    BY <1>1, <2>1, CancelledStay
<1> QED
  BY <1>2, <1>3 DEF Enter, Goes

(* A second response cannot open once the first has taken the private key; *)
(* a new session is begun when no broker call is under way.                *)
LEMMA NextOpenOnce ==
  ASSUME MaterialInv, CallsGood, OpenOnce, [Next]_vars
  PROVE  OpenOnce'
<1>0. Idle.at = "idle"
  BY DEF Idle
<1>1. CASE LockVaultSession \/ ClearVaultSessionOwner
  <2>1. flow' = Cancelled /\ UNCHANGED ephemeral
    BY <1>1 DEF LockVaultSession, ClearVaultSessionOwner
  <2>2. \A g \in Flows : flow'[g] = Cancelled[g]
    BY <2>1 DEF Cancelled
  <2> QED
    BY <2>1, <2>2, CancelledStay, OpenStays
<1>2. CASE ClearVaultInnerKeyMaterialCache \/ UNCHANGED vars
  <2>1. UNCHANGED <<flow, ephemeral>>
    BY <1>2 DEF ClearVaultInnerKeyMaterialCache, vars
  <2> QED
    BY <2>1, OpenStays
<1>3. ASSUME NEW f \in Flows,
             StartPassword(f) \/ StartUnlock(f) \/ StartEnroll(f) \/ StartPackage(f) \/ StartBroker(f)
      PROVE  OpenOnce'
  <2>1. \A g \in Flows : flow'[g].at = "open" => flow[g].at = "open" /\ g # f /\ flow[g] # Idle
    <3>1. PICK call : Enter(f, call) /\ call.at \in {"install", "ceremony", "rewrap", "deliver"}
      BY <1>3, StartsAt
    <3> QED
      BY <3>1, EntersAt
  <2>2. CASE UNCHANGED ephemeral
    BY <2>1, <2>2, OpenStays
  <2>3. CASE /\ ~\E g \in Flows \ {f} : flow[g] # Idle /\ flow[g].kind = "broker"
             /\ ephemeral' = [held |-> TRUE, opened |-> 0]
    <3>1. \A g \in Flows : flow'[g].at # "open"
      BY <2>1, <2>3 DEF CallsGood, CallGood, CallTyped
    <3>2. /\ ephemeral'.held = TRUE /\ ephemeral'.opened = 0
          /\ ephemeral' = [held |-> ephemeral'.held, opened |-> ephemeral'.opened]
      BY <2>3
    <3> QED
      BY <3>1, <3>2 DEF OpenOnce
  <2> QED
    BY <1>3, <2>2, <2>3 DEF StartPassword, StartUnlock, StartEnroll, StartPackage, StartBroker
<1>4. ASSUME NEW f \in Flows, NEW c, Goes(f, c), c.at # "open", UNCHANGED ephemeral
      PROVE  OpenOnce'
  <2>1. flow'[f] = c /\ \A g \in Flows \ {f} : flow'[g] = flow[g]
    BY <1>4, GoesTo
  <2> QED
    BY <1>4, <2>1, OpenStays
<1>5. ASSUME NEW f \in Flows, Ends(f), UNCHANGED ephemeral PROVE OpenOnce'
  <2>1. Goes(f, Idle)
    BY <1>5 DEF Ends, Goes
  <2> QED
    BY <1>0, <1>4, <1>5, <2>1
<1>6. ASSUME NEW f \in Flows, Install(f) \/ Answer(f) \/ Repair(f) \/ Rewrap(f) \/ Sealed(f)
      PROVE  OpenOnce'
  <2>1. UNCHANGED ephemeral
    BY <1>6 DEF Install, Answer, Repair, Rewrap, Sealed
  <2>2. PICK c : Goes(f, c) /\ c.at \in {"idle", "extract", "repair", "rewrap", "sealed"}
    BY <1>6, GoesOnAt
  <2> QED
    BY <1>4, <2>1, <2>2
<1>7. ASSUME NEW f \in Flows, Extract(f) PROVE OpenOnce'
  <2>1. flow[f] # Idle /\ UNCHANGED ephemeral /\ \E b \in Buffers : Goes(f, [Then(f, "commit") EXCEPT !.buf = b])
    BY <1>7 DEF Extract, At
  <2>2. PICK b \in Buffers : Goes(f, [Then(f, "commit") EXCEPT !.buf = b])
    BY <2>1
  <2> DEFINE c == [Then(f, "commit") EXCEPT !.buf = b]
  <2>3. c.at = "commit" /\ Goes(f, c)
    BY <2>1, <2>2, TakesAt
  <2> HIDE DEF c
  <2> QED
    BY <1>4, <2>1, <2>3
<1>8. ASSUME NEW f \in Flows, Commit(f) PROVE OpenOnce'
  <2>1. flow[f] # Idle /\ UNCHANGED ephemeral
    BY <1>8 DEF Commit, At
  <2>2. Ends(f) \/ Goes(f, [Then(f, "install") EXCEPT !.buf = None])
    BY <1>8 DEF Commit
  <2> DEFINE t == Then(f, "install")
             c == [t EXCEPT !.buf = None]
  <2>3. IsCall(t) /\ t.at = "install" /\ (Ends(f) \/ Goes(f, c))
    BY <2>1, <2>2, FlowFacts, ThenKeeps DEF Keeps
  <2> HIDE DEF t
  <2>4. c.at = "install"
    BY <2>3, BufferKeeps
  <2> HIDE DEF c
  <2> QED
    BY <1>4, <1>5, <2>1, <2>3, <2>4
<1>9. ASSUME NEW f \in Flows, Receipt(f) PROVE OpenOnce'
  <2>1. flow[f] # Idle /\ UNCHANGED ephemeral
    BY <1>9 DEF Receipt, At
  <2>2. CASE Ends(f)
    BY <1>5, <2>1, <2>2
  <2>3. CASE Goes(f, [Then(f, "commit") EXCEPT !.acknowledged = TRUE])
    <3>1. PICK c : Goes(f, c) /\ c.at = "commit"
      BY <2>1, <2>3, ReceiptAt
    <3> QED
      BY <1>4, <2>1, <3>1
  <2> QED
    BY <1>9, <2>2, <2>3 DEF Receipt
<1>10. ASSUME NEW f \in Flows, Deliver(f) PROVE OpenOnce'
  <2>1. flow[f] # Idle /\ flow[f].at = "deliver" /\ IsCall(flow[f])
    BY <1>10, FlowFacts DEF Deliver, At
  <2>2. CASE Ends(f) /\ ephemeral' = [ephemeral EXCEPT !.held = FALSE]
    <3>1. flow'[f].at # "open" /\ \A g \in Flows \ {f} : flow'[g] = flow[g]
      BY <1>0, <2>2, GoesTo DEF Ends, Goes
    <3>2. /\ ephemeral'.held = FALSE /\ ephemeral'.opened = ephemeral.opened
          /\ ephemeral' = [held |-> ephemeral'.held, opened |-> ephemeral'.opened]
      BY <2>2 DEF OpenOnce
    <3> QED
      BY <3>1, <3>2 DEF OpenOnce
  <2>3. CASE ephemeral.held /\ Goes(f, Then(f, "open")) /\ ephemeral' = [ephemeral EXCEPT !.held = FALSE]
    <3>1. \A g \in Flows \ {f} : flow'[g] = flow[g]
      BY <2>3, GoesTo
    <3>2. /\ ephemeral'.held = FALSE /\ ephemeral'.opened = ephemeral.opened
          /\ ephemeral' = [held |-> ephemeral'.held, opened |-> ephemeral'.opened]
      BY <2>3 DEF OpenOnce
    <3> QED
      BY <2>3, <3>1, <3>2 DEF OpenOnce
  <2>4. CASE Ends(f) /\ UNCHANGED ephemeral
    BY <1>5, <2>4
  <2> QED
    BY <1>10, <2>2, <2>3, <2>4 DEF Deliver
<1>11. ASSUME NEW f \in Flows, Open(f) PROVE OpenOnce'
  <2>1. flow[f] # Idle /\ flow[f].at = "open" /\ ephemeral.opened = 0 /\ ephemeral.held = FALSE
    BY <1>11 DEF Open, At, OpenOnce
  <2>2. CASE Ends(f) /\ UNCHANGED ephemeral
    BY <1>5, <2>2
  <2>3. CASE /\ \E b \in Buffers : Goes(f, [Then(f, "receipt") EXCEPT !.buf = b])
             /\ ephemeral' = [ephemeral EXCEPT !.opened = @ + 1]
    <3>1. PICK b \in Buffers : Goes(f, [Then(f, "receipt") EXCEPT !.buf = b])
      BY <2>3
    <3> DEFINE c == [Then(f, "receipt") EXCEPT !.buf = b]
    <3>2. c.at = "receipt" /\ Goes(f, c)
      BY <2>1, <3>1, TakesAt
    <3> HIDE DEF c
    <3>3. flow'[f].at # "open" /\ \A g \in Flows \ {f} : flow'[g] = flow[g]
      BY <3>2, GoesTo
    <3>4. /\ ephemeral'.held = FALSE /\ ephemeral'.opened = 1
          /\ ephemeral' = [held |-> ephemeral'.held, opened |-> ephemeral'.opened]
      BY <2>1, <2>3 DEF OpenOnce
    <3> QED
      BY <2>1, <3>3, <3>4 DEF OpenOnce
  <2> QED
    BY <1>11, <2>2, <2>3 DEF Open
<1> QED
  BY <1>1, <1>2, <1>3, <1>6, <1>7, <1>8, <1>9, <1>10, <1>11 DEF Next

-----------------------------------------------------------------------------
(* The theorems.                                                           *)

LEMMA NextGlobals ==
  ASSUME MaterialInv, CallsGood, NoStrayMaterial, Globals, [Next]_vars
  PROVE  Globals'
<1>1. portable' \subseteq Accounts
  BY NextMaterial DEF Globals
<1>2. operating' \in BOOLEAN
  <2>1. \A account : BeginVaultSessionUnlock(account) => operating' = TRUE
    BY DEF BeginVaultSessionUnlock
  <2>2. ASSUME NEW f \in Flows, NEW call, Enter(f, call) PROVE operating' \in BOOLEAN
    BY <2>1, <2>2 DEF Enter, session, Globals
  <2>3. ASSUME NEW f \in Flows,
               StartPassword(f) \/ StartUnlock(f) \/ StartEnroll(f) \/ StartPackage(f) \/ StartBroker(f)
        PROVE  operating' \in BOOLEAN
    BY <2>2, <2>3, StartsAt
  <2>4. ASSUME NEW f \in Flows, Answer(f) PROVE UNCHANGED operating
    <3>1. PICK c, prf : UNCHANGED session \/ Match(f, c, prf)
      BY <2>4, Zenon DEF Answer
    <3>2. CASE Match(f, c, prf)
      <4>1. (\E account : Installed(f, account)) \/ UNCHANGED session
        BY <3>2, Zenon DEF Match
      <4> QED
        BY <4>1 DEF Installed, session
    <3> QED
      BY <3>1, <3>2 DEF session
  <2>5. ASSUME NEW f \in Flows,
               Install(f) \/ Extract(f) \/ Commit(f) \/ Repair(f) \/ Rewrap(f) \/ Sealed(f)
                 \/ Deliver(f) \/ Open(f) \/ Receipt(f)
        PROVE  UNCHANGED operating
    BY <2>5 DEF Install, Extract, Commit, Repair, Rewrap, Sealed, Deliver, Open, Receipt,
                Installed, session
  <2>6. CASE LockVaultSession \/ ClearVaultSessionOwner \/ ClearVaultInnerKeyMaterialCache \/ UNCHANGED vars
    BY <2>6 DEF LockVaultSession, ClearVaultSessionOwner, ClearVaultInnerKeyMaterialCache, vars,
                session, Globals
  <2> QED
    BY <2>3, <2>4, <2>5, <2>6 DEF Next, Globals
<1>3. cache' = None \/ cache' \in [buf : Buffers, acknowledged : BOOLEAN]
  <2>1. CASE ClearCachedEntry \/ UNCHANGED cache
    BY <2>1 DEF ClearCachedEntry, Globals
  <2>2. ASSUME NEW f \in Flows, Commit(f)
        PROVE  cache' = None \/ cache' \in [buf : Buffers, acknowledged : BOOLEAN]
    <3>1. flow[f] # Idle /\ flow[f].at = "commit"
      BY <2>2 DEF Commit, At
    <3>2. CASE flow[f].live
      <4>1. /\ cache' = [buf |-> flow[f].buf, acknowledged |-> flow[f].acknowledged] /\ bytes' = Zeroed
            /\ \E c : Goes(f, c)
        BY <2>2, <3>2 DEF Commit, Ends, Goes
      <4> QED
        BY <3>1, <3>2, <4>1, CommitsTracked
    <3> QED
      BY <2>1, <2>2, <3>2 DEF Commit
  <2>3. ASSUME NEW f \in Flows,
               StartPassword(f) \/ StartUnlock(f) \/ StartEnroll(f) \/ StartPackage(f) \/ StartBroker(f)
        PROVE  ClearCachedEntry \/ UNCHANGED cache
    <3>1. PICK call : Enter(f, call)
      BY <2>3, StartsAt
    <3> QED
      BY <3>1 DEF Enter, BeginVaultSessionUnlock, memory
  <2>4. ASSUME NEW f \in Flows,
               Install(f) \/ Extract(f) \/ Answer(f) \/ Repair(f) \/ Rewrap(f) \/ Sealed(f)
                 \/ Deliver(f) \/ Open(f) \/ Receipt(f)
        PROVE  ClearCachedEntry \/ UNCHANGED cache
    BY <2>4 DEF Install, Extract, Answer, Repair, Rewrap, Sealed, Deliver, Open, Receipt, memory
  <2>5. CASE LockVaultSession \/ ClearVaultSessionOwner \/ ClearVaultInnerKeyMaterialCache \/ UNCHANGED vars
    BY <2>1, <2>5 DEF LockVaultSession, ClearVaultSessionOwner, ClearVaultInnerKeyMaterialCache, vars, memory
  <2> QED
    BY <2>1, <2>2, <2>3, <2>4, <2>5 DEF Next
<1> QED
  BY <1>1, <1>2, <1>3 DEF Globals

LEMMA InitCalls == Init => CallsInv
<1> SUFFICES ASSUME Init PROVE CallsInv
  OBVIOUS
<1>1. MaterialInv
  BY InitMaterial
<1>2. Idle.at = "idle" /\ \A f \in Flows : flow[f] = Idle
  BY DEF Init, Idle
<1>3. CallsGood /\ VariantsOpen /\ NoStrayMaterial /\ Globals
  BY <1>2 DEF Init, CallsGood, VariantsOpen, NoStrayMaterial, Globals
<1>4. OpenOnce
  BY <1>2 DEF Init, OpenOnce
<1> QED
  BY <1>1, <1>3, <1>4 DEF CallsInv

LEMMA NextCalls == CallsInv /\ [Next]_vars => CallsInv'
<1> SUFFICES ASSUME CallsInv, [Next]_vars PROVE CallsInv'
  OBVIOUS
<1> USE DEF CallsInv
<1>1. MaterialInv' /\ CallsGood' /\ Globals'
  BY NextMaterial, NextGood, NextGlobals DEF Globals
<1>2. VariantsOpen' /\ OpenOnce' /\ NoStrayMaterial'
  BY NextOpens, NextOpenOnce, NextTracked
<1> QED
  BY <1>1, <1>2

LEMMA CallsInvariant == Spec => []CallsInv
BY InitCalls, NextCalls, PTL DEF Spec

(* Every variable keeps its type, and a call whose token is live runs      *)
(* under the current operation of the account it was begun for.            *)
THEOREM PasskeyTypeCorrect == Spec => []TypeOK
<1>1. CallsInv => TypeOK
  <2> SUFFICES ASSUME CallsInv PROVE TypeOK
    OBVIOUS
  <2>1. key \in Accounts \cup {None}
    BY DEF CallsInv, MaterialInv, Shapes, CacheBacked
  <2>2. ASSUME NEW f \in Flows, flow[f] # Idle
        PROVE  /\ flow[f].at \in Stages /\ flow[f].account \in Accounts
               /\ flow[f].prf \in Outputs \cup {None} /\ flow[f].buf \in Buffers \cup {None}
               /\ flow[f].live => operating /\ owner = flow[f].account
    BY <2>2 DEF CallsInv, MaterialInv, CallsSound, CallSound, CallsGood, CallGood, CallTyped
  <2> QED
    BY <2>1, <2>2 DEF CallsInv, MaterialInv, Shapes, CallsGood, OpenOnce, Globals, TypeOK
<1> QED
  BY <1>1, CallsInvariant, PTL

(* No inner key bytes are left behind: whatever was cancelled, refused or  *)
(* replaced, a buffer that is not zeroed is the cached one or is held by a *)
(* call that will commit or zero it.                                       *)
THEOREM NoBytesLeftBehind == Spec => []NoStrayMaterial
<1>1. CallsInv => NoStrayMaterial
  BY DEF CallsInv
<1> QED
  BY <1>1, CallsInvariant, PTL

(* Every stored passkey envelope opens at a later sign-in, with an output  *)
(* of its own credential and the user's own salt, for its account's key.   *)
THEOREM StoredEnvelopesOpen == Spec => []EnvelopesOpen
<1>1. CallsInv => EnvelopesOpen
  BY DEF CallsInv, VariantsOpen, VariantOpens, EnvelopesOpen
<1> QED
  BY <1>1, CallsInvariant, PTL

(* An envelope that opens is well formed.                                  *)
LEMMA OpeningIsWellFormed ==
  ASSUME NEW v, NEW c, NEW secret, NEW p, v.credential = c,
         UnlockEnvelope(v.envelope, secret, p) # None
  PROVE  ~CandidateMalformed(v, c, p)
<1>1. CASE IsLegacyVaultKeyEnvelope(v.envelope)
  BY <1>1 DEF UnlockEnvelope, UnwrapWithLegacyAadFallback, CandidateMalformed
<1>2. CASE ~IsLegacyVaultKeyEnvelope(v.envelope)
  BY <1>2 DEF UnlockEnvelope, AssertVaultKeyAad, IsVaultKeyAadContextAllowed, CandidateMalformed
<1> QED BY <1>1, <1>2

(* A list within the limit, none of it malformed, is searched for what     *)
(* opens.                                                                  *)
LEMMA OpeningIsMatched ==
  ASSUME NEW vs, NEW c, NEW prf, NEW p, prf # None, ~(Cardinality(vs) > MaxCandidates),
         \A v \in vs : ~CandidateMalformed(v, c, p),
         NEW w \in vs, UnlockEnvelope(w.envelope, prf, p) # None
  PROVE  UnlockCandidates(vs, c, prf, p).status = "matched"
<1> DEFINE opened == {v \in vs : UnlockEnvelope(v.envelope, prf, p) # None}
           malformed == \/ Cardinality(vs) > MaxCandidates
                        \/ \E v \in vs : CandidateMalformed(v, c, p)
<1>1. UnlockCandidates(vs, c, prf, p) =
        CASE prf = None -> [status |-> "prf_unavailable"]
          [] prf # None /\ malformed -> [status |-> "malformed_candidate"]
          [] OTHER -> IF opened = {} THEN [status |-> "no_match"]
                      ELSE [status |-> "matched", variant |-> CHOOSE v \in opened : TRUE]
  BY DEF UnlockCandidates
<1>2. ~malformed
  OBVIOUS
<1>3. opened # {}
  OBVIOUS
<1> HIDE DEF malformed, opened
<1> QED BY <1>1, <1>2, <1>3

(* A credential's variants stay usable side by side, up to the limit: each *)
(* is well formed because it opens for some device, so the list is not     *)
(* refused, and whichever is matched holds the account's key.              *)
THEOREM VariantsSideBySide == Spec => []VariantsUsable
<1>1. ASSUME CallsInv, NEW v \in variants, NEW d \in Devices,
             ~(Cardinality(VariantsOf(v.account, v.credential)) > MaxCandidates),
             UnlockEnvelope(v.envelope, PrfOutput(v.credential, "own", "authentication", d), Profile) # None
      PROVE  LET result == UnlockCandidates(VariantsOf(v.account, v.credential), v.credential,
                             PrfOutput(v.credential, "own", "authentication", d), Profile)
             IN result.status = "matched" /\ result.variant.envelope.uvk = v.account
  <2> DEFINE stored == VariantsOf(v.account, v.credential)
             output == PrfOutput(v.credential, "own", "authentication", d)
             result == UnlockCandidates(stored, v.credential, output, Profile)
  <2>1. \A w \in stored : w \in variants /\ w.account = v.account /\ w.credential = v.credential
    BY DEF VariantsOf
  <2>2. v \in stored
    BY DEF VariantsOf
  <2>3. \A w \in variants : VariantOpens(w) /\ w.envelope.uvk = w.account
    BY <1>1 DEF CallsInv, VariantsOpen, MaterialInv, VariantsHold
  <2>4. v.credential \in Credentials /\ output # None
    BY <2>3, NoneAssumption DEF VariantOpens, Salts
  <2>5. ASSUME NEW w \in stored PROVE ~CandidateMalformed(w, v.credential, Profile)
    <3>1. w.account \in Accounts /\ w.credential = v.credential
      BY <2>1, <2>3 DEF VariantOpens
    <3>2. PICK e \in Devices :
            UnlockEnvelope(w.envelope, PrfOutput(w.credential, "own", "authentication", e), Profile) = w.account
      BY <2>1, <2>3 DEF VariantOpens
    <3>3. w.account # None
      BY <3>1, NoneAssumption
    <3> QED BY <3>1, <3>2, <3>3, OpeningIsWellFormed
  <2>6. ~(Cardinality(stored) > MaxCandidates)
    BY <1>1
  <2> HIDE DEF stored, output
  <2>7. result.status = "matched"
    BY <1>1, <2>2, <2>4, <2>5, <2>6, OpeningIsMatched DEF output
  <2>8. result.variant \in stored
    BY <2>7, MatchedIsStored
  <2> QED BY <2>1, <2>3, <2>7, <2>8 DEF stored, output
<1>2. CallsInv => VariantsUsable
  BY <1>1 DEF VariantsUsable
<1> QED
  BY <1>2, CallsInvariant, PTL

(* A broker session opens at most one sealed key.                          *)
THEOREM OneSealedKeyOpened == Spec => []UnsealedOnce
<1>1. CallsInv => UnsealedOnce
  BY DEF CallsInv, OpenOnce, UnsealedOnce
<1> QED
  BY <1>1, CallsInvariant, PTL

(* A quick unlock and an enrollment go on with their own credential.       *)
THEOREM BoundCallsAnswered == Spec => []BoundCredentialAnswers
<1>1. CallsInv => BoundCredentialAnswers
  BY DEF CallsInv, CallsGood, CallGood, CallBound, BoundCredentialAnswers
<1> QED
  BY <1>1, CallsInvariant, PTL
=============================================================================
