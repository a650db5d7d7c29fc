-------------------------- MODULE PasskeyVaultProofs --------------------------
(***************************************************************************)
(* The session and its cache hold one account's material: a proof of       *)
(* CacheBacked for any number of accounts, credentials, calls and buffers. *)
(***************************************************************************)
EXTENDS PasskeyVault, TLAPS

Fields == {"kind", "account", "live", "at", "allow", "salt", "target", "credential", "prf",
           "buf", "acknowledged"}

IsCall(c) == c = [x \in Fields |-> c[x]]

-----------------------------------------------------------------------------
(* The inductive invariant.                                                *)

Shapes ==
  /\ owner \in Accounts \cup {None}
  /\ operating => owner # None
  /\ bytes \in [Buffers -> Accounts \cup {None}]
  /\ cache # None => cache.buf \in Buffers
  /\ flow = [f \in Flows |-> flow[f]]

(* What a call carries over its awaits: an account, a live token only of   *)
(* the current operation, and from the broker only what has a receipt.     *)
CallSound(c, current, whose) ==
  /\ IsCall(c) /\ c.account \in Accounts
  /\ c.live => current /\ whose = c.account
  /\ c.acknowledged = TRUE \/ c.at \in {"deliver", "open", "receipt"}

CallsSound == \A f \in Flows : flow[f] # Idle => CallSound(flow[f], operating, owner)

(* A buffer still to be committed or zeroed holds its account's key, and   *)
(* is neither the cached one nor another call's: zeroing those in place    *)
(* does not touch it.                                                      *)
Holds(c) == c # Idle /\ c.at \in {"commit", "receipt"}

BuffersOwned ==
  /\ \A f \in Flows : Holds(flow[f]) =>
       /\ flow[f].buf \in Buffers /\ bytes[flow[f].buf] = flow[f].account
       /\ cache # None => cache.buf # flow[f].buf
  /\ \A f, g \in Flows :
       f # g /\ Holds(flow[f]) /\ Holds(flow[g]) => flow[f].buf # flow[g].buf

VariantsHold == \A v \in variants : v.envelope.uvk = v.account

MaterialInv == Shapes /\ CallsSound /\ BuffersOwned /\ VariantsHold /\ CacheBacked

-----------------------------------------------------------------------------
(* Calls and how they change.                                              *)

(* The parts of a call that the invariant is about.                        *)
New(c, account, stage) ==
  IsCall(c) /\ c.account = account /\ c.at = stage /\ c.acknowledged = TRUE

Continues(c, d, stage) ==
  /\ IsCall(c) /\ c.account = d.account /\ c.at = stage
  /\ c.live = d.live /\ c.acknowledged = d.acknowledged

LEMMA CallIsCall ==
  ASSUME NEW kind, NEW account, NEW stage
  PROVE  New(Call(kind, account, stage), account, stage)
BY DEF Call, New, Continues, IsCall, Fields

LEMMA ThenIsCall ==
  ASSUME NEW f \in Flows, IsCall(flow[f]), NEW stage
  PROVE  /\ Continues(Then(f, stage), flow[f], stage)
         /\ Then(f, stage).buf = flow[f].buf
BY DEF Then, New, Continues, IsCall, Fields

LEMMA WithBuffer ==
  ASSUME NEW c, IsCall(c), NEW b
  PROVE  /\ Continues([c EXCEPT !.buf = b], c, c.at)
         /\ [c EXCEPT !.buf = b].buf = b
BY DEF New, Continues, IsCall, Fields

LEMMA WithReceipt ==
  ASSUME NEW c, IsCall(c), NEW b
  PROVE  /\ IsCall([c EXCEPT !.acknowledged = b])
         /\ [c EXCEPT !.acknowledged = b].account = c.account
         /\ [c EXCEPT !.acknowledged = b].at = c.at
         /\ [c EXCEPT !.acknowledged = b].live = c.live
         /\ [c EXCEPT !.acknowledged = b].acknowledged = b
         /\ [c EXCEPT !.acknowledged = b].buf = c.buf
BY DEF New, Continues, IsCall, Fields

LEMMA AssertedIsCall ==
  ASSUME NEW f \in Flows, IsCall(flow[f]), NEW stage, NEW c, NEW output
  PROVE  Continues(Asserted(f, stage, c, output), flow[f], stage)
<1> DEFINE t == Then(f, stage)
           d == [t EXCEPT !.allow = {}, !.salt = None, !.credential = c, !.prf = output]
<1>1. Continues(t, flow[f], stage)
  BY ThenIsCall
<1>2. Asserted(f, stage, c, output) = d
  BY DEF Asserted
<1> HIDE DEF t
<1>3. Continues(d, flow[f], stage)
  BY <1>1 DEF New, Continues, IsCall, Fields
<1> HIDE DEF d
<1> QED
  BY <1>2, <1>3

LEMMA SealingIsCall ==
  ASSUME NEW c, IsCall(c)
  PROVE  Continues(Sealing(c), c, "rewrap")
BY DEF Sealing, New, Continues, IsCall, Fields

LEMMA SealedCall ==
  ASSUME NEW kind, NEW account
  PROVE  New(Sealing(Call(kind, account, "rewrap")), account, "rewrap")
<1> DEFINE t == Call(kind, account, "rewrap")
<1>1. New(t, account, "rewrap")
  BY CallIsCall
<1> HIDE DEF t
<1>2. New(Sealing(t), account, "rewrap")
  BY <1>1, SealingIsCall DEF New, Continues
<1> QED
  BY <1>2 DEF t

LEMMA CeremonyIsCall ==
  ASSUME NEW kind, NEW account, NEW options, NEW target
  PROVE  New(Ceremony(kind, account, options, target), account, "ceremony")
<1> DEFINE t == Call(kind, account, "ceremony")
           range == Range(options.allow)
           d == [t EXCEPT !.allow = range, !.salt = options.salt, !.target = target]
<1>1. New(t, account, "ceremony")
  BY CallIsCall
<1>2. Ceremony(kind, account, options, target) = d
  BY DEF Ceremony
<1> HIDE DEF t, range
<1>3. New(d, account, "ceremony")
  BY <1>1 DEF New, Continues, IsCall, Fields
<1> HIDE DEF d
<1> QED
  BY <1>2, <1>3

LEMMA CancelledIsCall ==
  ASSUME NEW f \in Flows, flow[f] # Idle, IsCall(flow[f])
  PROVE  /\ IsCall(Cancelled[f]) /\ Cancelled[f].account = flow[f].account
         /\ Cancelled[f].at = flow[f].at /\ Cancelled[f].live = FALSE
         /\ Cancelled[f].acknowledged = flow[f].acknowledged
         /\ Cancelled[f].buf = flow[f].buf
<1>1. Cancelled[f] = [flow[f] EXCEPT !.live = FALSE]
  BY DEF Cancelled
<1> QED
  BY <1>1 DEF New, Continues, IsCall, Fields

-----------------------------------------------------------------------------
(* Steps that concern one call.                                            *)

LEMMA SlotStep ==
  ASSUME MaterialInv, NEW f \in Flows, NEW c, Goes(f, c), UNCHANGED <<owner, operating>>,
         c # Idle => CallSound(c, operating, owner)
  PROVE  /\ flow' = [g \in Flows |-> flow'[g]]
         /\ flow'[f] = c /\ \A g \in Flows \ {f} : flow'[g] = flow[g]
         /\ CallsSound'
<1>1. /\ flow' = [g \in Flows |-> flow'[g]]
      /\ flow'[f] = c /\ \A g \in Flows \ {f} : flow'[g] = flow[g]
  BY DEF MaterialInv, Shapes, Goes
<1> QED
  BY <1>1 DEF MaterialInv, CallsSound

(* Buffers and session unchanged, nothing is newly held: nothing to show.  *)
LEMMA IdleStep ==
  ASSUME MaterialInv, NEW f \in Flows, NEW c, Goes(f, c), UNCHANGED <<session, memory, variants>>,
         c # Idle => CallSound(c, operating, owner), ~Holds(c)
  PROVE  MaterialInv'
<1> USE DEF session, memory
<1>1. /\ flow' = [g \in Flows |-> flow'[g]]
      /\ flow'[f] = c /\ \A g \in Flows \ {f} : flow'[g] = flow[g]
      /\ CallsSound'
  BY SlotStep
<1>2. Shapes'
  BY <1>1 DEF MaterialInv, Shapes
<1>3. BuffersOwned'
  BY <1>1 DEF MaterialInv, BuffersOwned, Holds
<1>4. VariantsHold' /\ CacheBacked'
  BY DEF MaterialInv, VariantsHold, CacheBacked
<1> QED
  BY <1>1, <1>2, <1>3, <1>4 DEF MaterialInv

(* The session's key is installed by a call whose token is live.           *)
LEMMA InstallStep ==
  ASSUME MaterialInv, NEW f \in Flows, flow[f] # Idle, Installed(f, flow[f].account),
         NEW c, Goes(f, c), UNCHANGED memory, VariantsHold',
         c # Idle => CallSound(c, operating, owner), ~Holds(c)
  PROVE  MaterialInv'
<1> USE DEF Installed, memory
<1>1. /\ flow' = [g \in Flows |-> flow'[g]]
      /\ flow'[f] = c /\ \A g \in Flows \ {f} : flow'[g] = flow[g]
      /\ CallsSound'
  BY SlotStep
<1>2. Shapes'
  BY <1>1 DEF MaterialInv, Shapes
<1>3. BuffersOwned'
  BY <1>1 DEF MaterialInv, BuffersOwned, Holds
<1>4. CacheBacked'
  BY DEF MaterialInv, CallsSound, CallSound, CacheBacked
<1> QED
  BY <1>1, <1>2, <1>3, <1>4 DEF MaterialInv

(* A new buffer is nobody's, then the call's that takes the bytes.         *)
LEMMA TakeStep ==
  ASSUME MaterialInv, NEW f \in Flows, NEW b \in Buffers, flow[f] # Idle,
         Allocate(b, flow[f].account), NEW c, Goes(f, c),
         UNCHANGED <<session, cache, variants>>,
         CallSound(c, operating, owner), c.account = flow[f].account, c.buf = b
  PROVE  MaterialInv'
<1> USE DEF session
<1>1. /\ flow' = [g \in Flows |-> flow'[g]]
      /\ flow'[f] = c /\ \A g \in Flows \ {f} : flow'[g] = flow[g]
      /\ CallsSound'
  BY SlotStep
<1>2. /\ bytes' = [bytes EXCEPT ![b] = flow[f].account]
      /\ flow[f].account \in Accounts
      /\ cache # None => cache.buf # b
      /\ \A g \in Flows : flow[g] # Idle => flow[g].buf # b
  BY DEF MaterialInv, CallsSound, CallSound, Allocate, Referenced
<1>3. Shapes'
  BY <1>1, <1>2 DEF MaterialInv, Shapes
<1>4. BuffersOwned'
  BY <1>1, <1>2 DEF MaterialInv, Shapes, BuffersOwned, Holds
<1>5. CacheBacked'
  BY <1>2 DEF MaterialInv, Shapes, CacheBacked
<1>6. VariantsHold'
  BY DEF MaterialInv, VariantsHold
<1> QED
  BY <1>1, <1>3, <1>4, <1>5, <1>6 DEF MaterialInv

(* A call that owns a buffer zeroes it and is over.                        *)
LEMMA ZeroStep ==
  ASSUME MaterialInv, NEW f \in Flows, Holds(flow[f]), Ends(f),
         bytes' = [bytes EXCEPT ![flow[f].buf] = None],
         UNCHANGED <<session, cache, variants>>
  PROVE  MaterialInv'
<1> USE DEF session
<1>1. /\ flow' = [g \in Flows |-> flow'[g]]
      /\ flow'[f] = Idle /\ \A g \in Flows \ {f} : flow'[g] = flow[g]
      /\ CallsSound'
  BY SlotStep DEF Ends, Goes
<1>2. /\ flow[f].buf \in Buffers
      /\ cache # None => cache.buf # flow[f].buf
      /\ \A g \in Flows \ {f} : Holds(flow[g]) => flow[g].buf # flow[f].buf
  BY DEF MaterialInv, BuffersOwned
<1>3. Shapes'
  BY <1>1, <1>2 DEF MaterialInv, Shapes
<1>4. BuffersOwned'
  BY <1>1, <1>2 DEF MaterialInv, Shapes, BuffersOwned, Holds
<1>5. CacheBacked'
  BY <1>2 DEF MaterialInv, Shapes, CacheBacked
<1>6. VariantsHold'
  BY DEF MaterialInv, VariantsHold
<1> QED
  BY <1>1, <1>3, <1>4, <1>5, <1>6 DEF MaterialInv

(* Dropping the entry leaves what calls own, and zeroes its bytes.         *)
LEMMA ClearKeepsOwned ==
  ASSUME MaterialInv, ClearCachedEntry
  PROVE  /\ cache' = None /\ bytes' \in [Buffers -> Accounts \cup {None}]
         /\ \A g \in Flows : Holds(flow[g]) => bytes'[flow[g].buf] = bytes[flow[g].buf]
BY DEF MaterialInv, Shapes, BuffersOwned, ClearCachedEntry, Zeroed

LEMMA DropStep ==
  ASSUME MaterialInv, NEW f \in Flows, NEW c, Goes(f, c), ClearCachedEntry,
         UNCHANGED <<session, variants>>, c # Idle => CallSound(c, operating, owner), ~Holds(c)
  PROVE  MaterialInv'
<1> USE DEF session
<1>1. /\ flow' = [g \in Flows |-> flow'[g]]
      /\ flow'[f] = c /\ \A g \in Flows \ {f} : flow'[g] = flow[g]
      /\ CallsSound'
  BY SlotStep
<1>2. /\ cache' = None /\ bytes' \in [Buffers -> Accounts \cup {None}]
      /\ \A g \in Flows : Holds(flow[g]) => bytes'[flow[g].buf] = bytes[flow[g].buf]
  BY ClearKeepsOwned
<1>3. Shapes'
  BY <1>1, <1>2 DEF MaterialInv, Shapes
<1>4. BuffersOwned'
  BY <1>1, <1>2 DEF MaterialInv, Shapes, BuffersOwned, Holds
<1>5. VariantsHold' /\ CacheBacked'
  BY <1>2 DEF MaterialInv, VariantsHold, CacheBacked
<1> QED
  BY <1>1, <1>3, <1>4, <1>5 DEF MaterialInv

-----------------------------------------------------------------------------
(* Steps of the session: every call in progress is cancelled.              *)

(* A cancelled call still owns the buffer it held.                         *)
LEMMA CancelledCalls ==
  ASSUME MaterialInv, NEW g \in Flows
  PROVE  /\ Cancelled[g] # Idle => \A current, whose : CallSound(Cancelled[g], current, whose)
         /\ Holds(Cancelled[g]) =>
              /\ Holds(flow[g])
              /\ Cancelled[g].buf = flow[g].buf /\ Cancelled[g].account = flow[g].account
<1>1. CASE flow[g] = Idle
  BY <1>1 DEF Cancelled, Holds
<1>2. CASE flow[g] # Idle
  <2> DEFINE c == Cancelled[g]
  <2>1. IsCall(flow[g]) /\ flow[g].account \in Accounts
    BY <1>2 DEF MaterialInv, CallsSound, CallSound
  <2>2. /\ IsCall(c) /\ c.account = flow[g].account /\ c.at = flow[g].at
        /\ c.live = FALSE /\ c.acknowledged = flow[g].acknowledged /\ c.buf = flow[g].buf
    BY <1>2, <2>1, CancelledIsCall
  <2>3. flow[g].acknowledged = TRUE \/ flow[g].at \in {"deliver", "open", "receipt"}
    BY <1>2 DEF MaterialInv, CallsSound, CallSound
  <2> HIDE DEF c
  <2>4. \A current, whose : CallSound(c, current, whose)
    BY <2>1, <2>2, <2>3 DEF CallSound
  <2>5. Holds(c) => Holds(flow[g])
    BY <1>2, <2>2 DEF Holds
  <2> QED
    BY <2>2, <2>4, <2>5 DEF c
<1> QED
  BY <1>1, <1>2

(* A lock or a sign-out.                                                   *)
LEMMA CancelStep ==
  ASSUME MaterialInv, flow' = Cancelled, ClearCachedEntry, ~operating', key' = None,
         owner' \in Accounts \cup {None}, UNCHANGED variants
  PROVE  MaterialInv'
<1>1. /\ flow' = [g \in Flows |-> flow'[g]]
      /\ \A g \in Flows : flow'[g] = Cancelled[g]
  BY DEF Cancelled
<1>2. /\ cache' = None /\ bytes' \in [Buffers -> Accounts \cup {None}]
      /\ \A g \in Flows : Holds(flow[g]) => bytes'[flow[g].buf] = bytes[flow[g].buf]
  BY ClearKeepsOwned
<1>3. Shapes'
  BY <1>1, <1>2 DEF MaterialInv, Shapes
<1>4. CallsSound'
  BY <1>1, CancelledCalls DEF CallsSound
<1>5. BuffersOwned'
  <2>1. \A g \in Flows : Holds(flow'[g]) =>
          Holds(flow[g]) /\ flow'[g].buf = flow[g].buf /\ flow'[g].account = flow[g].account
    BY <1>1, CancelledCalls
  <2> QED
    BY <1>2, <2>1 DEF MaterialInv, BuffersOwned, Holds
<1>6. VariantsHold' /\ CacheBacked'
  BY <1>2 DEF MaterialInv, VariantsHold, CacheBacked
<1> QED
  BY <1>3, <1>4, <1>5, <1>6 DEF MaterialInv

(* A call starts, with an operation of its own or under the current one.   *)
LEMMA EnterStep ==
  ASSUME MaterialInv, NEW f \in Flows, NEW call, Enter(f, call), UNCHANGED variants,
         IsCall(call), call.account \in Accounts, call.at \notin {"commit", "receipt"},
         call.acknowledged = TRUE \/ call.at = "deliver"
  PROVE  MaterialInv'
<1>1. CASE operating /\ owner = call.account /\ Goes(f, call) /\ UNCHANGED <<session, memory>>
  BY <1>1, IdleStep DEF CallSound, Holds
<1>2. ASSUME BeginVaultSessionUnlock(call.account), flow' = [Cancelled EXCEPT ![f] = call]
      PROVE  MaterialInv'
  <2>1. owner' = call.account /\ operating' = TRUE /\ owner' # None
    BY <1>2, NoneAssumption DEF BeginVaultSessionUnlock
  <2>2. /\ flow' = [g \in Flows |-> flow'[g]]
        /\ flow'[f] = call /\ \A g \in Flows \ {f} : flow'[g] = Cancelled[g]
    BY <1>2 DEF Cancelled
  <2>3. /\ bytes' \in [Buffers -> Accounts \cup {None}]
        /\ \A g \in Flows : Holds(flow[g]) => bytes'[flow[g].buf] = bytes[flow[g].buf]
        /\ cache' \in {cache, None}
    <3>1. CASE ClearCachedEntry
      BY <3>1, ClearKeepsOwned
    <3>2. CASE UNCHANGED memory
      BY <3>2 DEF memory, MaterialInv, Shapes
    <3> QED
      BY <1>2, <3>1, <3>2 DEF BeginVaultSessionUnlock
  <2>4. Shapes'
    BY <2>1, <2>2, <2>3 DEF MaterialInv, Shapes
  <2>5. CallsSound'
    <3>1. CallSound(call, operating', owner')
      BY <2>1 DEF CallSound
    <3> QED
      BY <2>2, <3>1, CancelledCalls DEF CallsSound
  <2>6. BuffersOwned'
    <3>1. ~Holds(call)
      BY DEF Holds
    <3>2. \A g \in Flows : Holds(flow'[g]) =>
            /\ g # f /\ Holds(flow[g])
            /\ flow'[g].buf = flow[g].buf /\ flow'[g].account = flow[g].account
      BY <2>2, <3>1, CancelledCalls
    <3> QED
      BY <2>3, <3>2 DEF MaterialInv, BuffersOwned, Holds
  <2>7. CacheBacked'
    <3>1. CASE owner \in {None, call.account}
      BY <1>2, <2>1, <3>1 DEF BeginVaultSessionUnlock, memory, MaterialInv, CacheBacked
    <3>2. CASE owner \notin {None, call.account}
      BY <1>2, <3>2 DEF BeginVaultSessionUnlock, ClearCachedEntry, CacheBacked
    <3> QED
      BY <3>1, <3>2
  <2>8. VariantsHold'
    BY DEF MaterialInv, VariantsHold
  <2> QED
    BY <2>4, <2>5, <2>6, <2>7, <2>8 DEF MaterialInv
<1> QED
  BY <1>1, <1>2 DEF Enter, Goes

LEMMA NewStep ==
  ASSUME MaterialInv, NEW f \in Flows, NEW call, Enter(f, call), UNCHANGED variants,
         NEW account \in Accounts, NEW stage, New(call, account, stage),
         stage \notin {"commit", "receipt"}
  PROVE  MaterialInv'
BY EnterStep DEF New

-----------------------------------------------------------------------------
(* The actions.                                                            *)

LEMMA SessionActions ==
  ASSUME MaterialInv,
         LockVaultSession \/ ClearVaultSessionOwner \/ ClearVaultInnerKeyMaterialCache
  PROVE  MaterialInv'
<1>1. CASE LockVaultSession
  BY <1>1, CancelStep DEF LockVaultSession, server, MaterialInv, Shapes
<1>2. CASE ClearVaultSessionOwner
  BY <1>2, CancelStep DEF ClearVaultSessionOwner, server
<1>3. CASE ClearVaultInnerKeyMaterialCache
  <2> USE <1>3 DEF ClearVaultInnerKeyMaterialCache, session, server
  <2>1. /\ cache' = None /\ bytes' \in [Buffers -> Accounts \cup {None}]
        /\ \A g \in Flows : Holds(flow[g]) => bytes'[flow[g].buf] = bytes[flow[g].buf]
    BY ClearKeepsOwned
  <2>2. Shapes' /\ CallsSound' /\ VariantsHold' /\ CacheBacked'
    BY <2>1 DEF MaterialInv, Shapes, CallsSound, VariantsHold, CacheBacked
  <2>3. BuffersOwned'
    BY <2>1 DEF MaterialInv, BuffersOwned, Holds
  <2> QED
    BY <2>2, <2>3 DEF MaterialInv
<1> QED
  BY <1>1, <1>2, <1>3

LEMMA AfterRegistrationIsCall ==
  ASSUME NEW next, NEW c, NEW browser
  PROVE  \E stage \in {"rewrap", "ceremony"} :
           New(AfterRegistration(next, c, browser), owner, stage)
<1>1. CASE next.status = "ready"
  <2> DEFINE s == Sealing(Call("enroll", owner, "rewrap"))
             call == [s EXCEPT !.credential = c, !.prf = next.prf]
  <2>1. AfterRegistration(next, c, browser) = call
    BY <1>1, Zenon DEF AfterRegistration
  <2>2. New(s, owner, "rewrap")
    BY SealedCall
  <2> HIDE DEF s
  <2>3. New(call, owner, "rewrap")
    BY <2>2 DEF New, IsCall, Fields
  <2> HIDE DEF call
  <2> QED
    BY <2>1, <2>3
<1>2. CASE next.status # "ready"
  <2>1. PICK options : AfterRegistration(next, c, browser) = Ceremony("enroll", owner, options, c)
    BY <1>2, Zenon DEF AfterRegistration
  <2> QED
    BY <2>1, CeremonyIsCall
<1> QED
  BY <1>1, <1>2

LEMMA StartActions ==
  ASSUME MaterialInv, portable \subseteq Accounts, NEW f \in Flows,
         StartPassword(f) \/ StartUnlock(f) \/ StartEnroll(f) \/ StartPackage(f) \/ StartBroker(f)
  PROVE  MaterialInv'
<1>1. CASE StartPassword(f)
  <2>1. PICK a \in Accounts : Enter(f, Call("password", a, "install")) /\ UNCHANGED variants
    BY <1>1 DEF StartPassword, server
  <2> DEFINE call == Call("password", a, "install")
  <2>2. New(call, a, "install")
    BY CallIsCall
  <2>3. Enter(f, call)
    BY <2>1
  <2> HIDE DEF call
  <2> QED
    BY <2>1, <2>2, <2>3, NewStep
<1>2. CASE StartUnlock(f)
  <2>1. PICK a \in Accounts : \E c \in UnlockCeremonies(a) : Enter(f, c) /\ UNCHANGED variants
    BY <1>2 DEF StartUnlock, server
  <2>2. PICK c \in UnlockCeremonies(a) : Enter(f, c) /\ UNCHANGED variants
    BY <2>1
  <2>3. PICK r : c = Ceremony("unlock", a, r.options, r.target)
    BY <2>2, Zenon DEF UnlockCeremonies
  <2>4. New(c, a, "ceremony")
    BY <2>3, CeremonyIsCall
  <2> QED
    BY <2>2, <2>4, NewStep
<1>3. CASE StartEnroll(f)
  <2>1. UNCHANGED variants /\ \E next, c, browser : Registered(f, c, next, browser)
    BY <1>3, Zenon DEF StartEnroll
  <2>2. PICK next, c, browser : Enter(f, AfterRegistration(next, c, browser))
    BY <2>1, Zenon DEF Registered
  <2>3. owner \in Accounts
    BY <1>3 DEF StartEnroll, MaterialInv, Shapes, CacheBacked
  <2>4. \E stage \in {"rewrap", "ceremony"} :
          New(AfterRegistration(next, c, browser), owner, stage)
    BY AfterRegistrationIsCall
  <2> QED
    BY <2>1, <2>2, <2>3, <2>4, NewStep
<1>4. CASE StartPackage(f)
  <2> DEFINE s == Sealing(Call("package", owner, "rewrap"))
  <2>1. Enter(f, s) /\ UNCHANGED variants
    BY <1>4 DEF StartPackage, server
  <2>2. owner \in Accounts
    BY <1>4 DEF StartPackage, MaterialInv, Shapes, CacheBacked
  <2>3. New(s, owner, "rewrap")
    BY SealedCall
  <2> HIDE DEF s
  <2> QED
    BY <2>1, <2>2, <2>3, NewStep
<1>5. CASE StartBroker(f)
  <2>1. PICK a \in portable :
          Enter(f, [Call("broker", a, "deliver") EXCEPT !.acknowledged = FALSE]) /\ UNCHANGED variants
    BY <1>5 DEF StartBroker, server
  <2> DEFINE s == [Call("broker", a, "deliver") EXCEPT !.acknowledged = FALSE]
  <2>2. IsCall(s) /\ s.account = a /\ s.at = "deliver"
    <3> DEFINE c == Call("broker", a, "deliver")
    <3>1. New(c, a, "deliver")
      BY CallIsCall
    <3>2. s = [c EXCEPT !.acknowledged = FALSE]
      OBVIOUS
    <3> HIDE DEF c, s
    <3> QED
      BY <3>1, <3>2, WithReceipt DEF New
  <2>3. Enter(f, s)
    BY <2>1
  <2> HIDE DEF s
  <2> QED
    BY <2>1, <2>2, <2>3, EnterStep
<1> QED
  BY <1>1, <1>2, <1>3, <1>4, <1>5

(* What a variant opened with was stored for the account.                  *)
LEMMA MatchedIsStored ==
  ASSUME NEW vs, NEW c, NEW prf, NEW p, UnlockCandidates(vs, c, prf, p).status = "matched"
  PROVE  UnlockCandidates(vs, c, prf, p).variant \in vs
<1> DEFINE opened == {v \in vs : UnlockEnvelope(v.envelope, prf, p) # None}
           malformed == \/ Cardinality(vs) > MaxCandidates
                        \/ \E v \in vs : CandidateMalformed(v, c, p)
<1>1. UnlockCandidates(vs, c, prf, p) =
        CASE prf = None -> [status |-> "prf_unavailable"]
          [] prf # None /\ malformed -> [status |-> "malformed_candidate"]
          [] OTHER -> IF opened = {} THEN [status |-> "no_match"]
                      ELSE [status |-> "matched", variant |-> CHOOSE v \in opened : TRUE]
  BY DEF UnlockCandidates
<1> HIDE DEF malformed
<1>2. opened # {} => (CHOOSE v \in opened : TRUE) \in vs
  OBVIOUS
<1> HIDE DEF opened
<1> QED
  BY <1>1, <1>2

LEMMA StoreStep ==
  ASSUME MaterialInv, NEW f \in Flows, flow[f] # Idle, NEW envelope,
         envelope.uvk = flow[f].account, Store(f, envelope)
  PROVE  VariantsHold'
BY DEF MaterialInv, VariantsHold, Store

(* Only the wrapped material of the account's own key is wrapped again.    *)
LEMMA WrappedHoldsKey ==
  ASSUME NEW account, NEW inner, NEW secret,
         WrapUserVaultKey(account, FALSE, inner, secret, "none") # None
  PROVE  WrapUserVaultKey(account, FALSE, inner, secret, "none").uvk = account
BY DEF WrapUserVaultKey, EncryptField

LEMMA FlowFacts ==
  ASSUME MaterialInv, NEW f \in Flows, flow[f] # Idle
  PROVE  /\ CallSound(flow[f], operating, owner) /\ IsCall(flow[f])
         /\ flow[f].account \in Accounts
BY DEF MaterialInv, CallsSound, CallSound

(* A call that only goes on stays sound, past the receipt too.             *)
LEMMA ContinuesSound ==
  ASSUME NEW c, NEW d, NEW stage, Continues(c, d, stage), CallSound(d, operating, owner),
         d.at \notin {"deliver", "open", "receipt"} \/ stage \in {"open", "receipt"}
  PROVE  CallSound(c, operating, owner)
BY DEF Continues, CallSound

LEMMA EndStep ==
  ASSUME MaterialInv, NEW f \in Flows, Ends(f), UNCHANGED <<session, memory, variants>>
  PROVE  MaterialInv'
<1>1. Goes(f, Idle)
  BY DEF Ends, Goes
<1> QED
  BY <1>1, IdleStep DEF Holds

(* Most resumptions move the call to a stage that owns no buffer.          *)
LEMMA ContinueStep ==
  ASSUME MaterialInv, NEW f \in Flows, flow[f] # Idle, NEW c, NEW stage, Goes(f, c),
         Continues(c, flow[f], stage), UNCHANGED <<session, memory, variants>>,
         stage \notin {"commit", "receipt"},
         flow[f].at \notin {"deliver", "open", "receipt"} \/ stage = "open"
  PROVE  MaterialInv'
<1>1. CallSound(c, operating, owner)
  BY FlowFacts, ContinuesSound
<1>2. ~Holds(c)
  BY DEF Holds, Continues
<1> QED
  BY <1>1, <1>2, IdleStep

LEMMA InstallAction ==
  ASSUME MaterialInv, NEW f \in Flows, Install(f)
  PROVE  MaterialInv'
<1> USE DEF Install, At, server
<1>1. flow[f] # Idle /\ flow[f].at = "install" /\ UNCHANGED <<memory, variants>>
  OBVIOUS
<1>2. CASE flow[f].live /\ Ends(f)
  <2>1. Goes(f, Idle) /\ Installed(f, flow[f].account) /\ VariantsHold'
    BY <1>2 DEF Ends, Goes, MaterialInv, VariantsHold
  <2> QED
    BY <1>1, <2>1, InstallStep DEF Holds
<1>3. CASE flow[f].live /\ Goes(f, Then(f, "extract"))
  <2> DEFINE c == Then(f, "extract")
  <2>1. Goes(f, c) /\ Installed(f, flow[f].account) /\ VariantsHold'
    BY <1>3 DEF MaterialInv, VariantsHold
  <2>2. Continues(c, flow[f], "extract")
    BY <1>1, FlowFacts, ThenIsCall
  <2> HIDE DEF c
  <2>3. CallSound(c, operating, owner) /\ ~Holds(c)
    BY <1>1, <2>2, FlowFacts, ContinuesSound DEF Holds, Continues
  <2> QED
    BY <1>1, <2>1, <2>3, InstallStep
<1>4. CASE ~flow[f].live
  BY <1>1, <1>4, EndStep
<1> QED
  BY <1>2, <1>3, <1>4

LEMMA TakeActions ==
  ASSUME MaterialInv, NEW f \in Flows, Extract(f) \/ Open(f)
  PROVE  MaterialInv'
<1> USE DEF At, server
<1>1. CASE Extract(f)
  <2>1. flow[f] # Idle /\ flow[f].at = "extract" /\ UNCHANGED <<session, cache, variants>>
    BY <1>1 DEF Extract
  <2>2. PICK b \in Buffers : /\ Allocate(b, flow[f].account)
                             /\ Goes(f, [Then(f, "commit") EXCEPT !.buf = b])
    BY <1>1 DEF Extract
  <2> DEFINE t == Then(f, "commit")
             c == [t EXCEPT !.buf = b]
  <2>3. Continues(t, flow[f], "commit")
    BY <2>1, FlowFacts, ThenIsCall
  <2>4. Goes(f, c)
    BY <2>2
  <2> HIDE DEF t
  <2>5. Continues(c, flow[f], "commit") /\ c.buf = b
    BY <2>3, WithBuffer DEF Continues
  <2> HIDE DEF c
  <2>6. CallSound(c, operating, owner) /\ c.account = flow[f].account
    BY <2>1, <2>5, FlowFacts, ContinuesSound DEF Continues
  <2> QED
    BY <2>1, <2>2, <2>4, <2>5, <2>6, TakeStep
<1>2. CASE Open(f) /\ \E b \in Buffers : /\ Allocate(b, flow[f].account)
                                        /\ Goes(f, [Then(f, "receipt") EXCEPT !.buf = b])
                                        /\ UNCHANGED cache
  <2>1. flow[f] # Idle /\ flow[f].at = "open" /\ UNCHANGED <<session, variants>>
    BY <1>2 DEF Open
  <2>2. PICK b \in Buffers : /\ Allocate(b, flow[f].account)
                             /\ Goes(f, [Then(f, "receipt") EXCEPT !.buf = b])
                             /\ UNCHANGED cache
    BY <1>2
  <2> DEFINE t == Then(f, "receipt")
             c == [t EXCEPT !.buf = b]
  <2>3. Continues(t, flow[f], "receipt")
    BY <2>1, FlowFacts, ThenIsCall
  <2>4. Goes(f, c)
    BY <2>2
  <2> HIDE DEF t
  <2>5. Continues(c, flow[f], "receipt") /\ c.buf = b
    BY <2>3, WithBuffer DEF Continues
  <2> HIDE DEF c
  <2>6. CallSound(c, operating, owner) /\ c.account = flow[f].account
    BY <2>1, <2>5, FlowFacts, ContinuesSound DEF Continues
  <2> QED
    BY <2>1, <2>2, <2>4, <2>5, <2>6, TakeStep
<1>3. CASE Open(f) /\ Ends(f) /\ UNCHANGED memory
  BY <1>3, EndStep DEF Open
<1> QED
  BY <1>1, <1>2, <1>3 DEF Open

(* The bytes of a live call are its account's, which is the session's.     *)
LEMMA CommitAction ==
  ASSUME MaterialInv, NEW f \in Flows, Commit(f)
  PROVE  MaterialInv'
<1>1. /\ flow[f] # Idle /\ flow[f].at = "commit" /\ Holds(flow[f])
      /\ UNCHANGED <<session, variants>>
  BY DEF Commit, At, Holds, server
<1>2. CASE flow[f].live
  <2> DEFINE t == Then(f, "install")
  <2>1. /\ cache' = [buf |-> flow[f].buf, acknowledged |-> flow[f].acknowledged]
        /\ bytes' = Zeroed
        /\ Goes(f, [t EXCEPT !.buf = None]) \/ Goes(f, Idle)
    BY <1>2 DEF Commit, Goes, Ends
  <2>2. /\ flow[f].account = owner /\ owner # None /\ flow[f].acknowledged = TRUE
        /\ flow[f].buf \in Buffers /\ bytes[flow[f].buf] = owner
        /\ cache # None => cache.buf # flow[f].buf
    BY <1>1, <1>2, FlowFacts, NoneAssumption DEF CallSound, MaterialInv, BuffersOwned
  <2>3. /\ cache'.buf = flow[f].buf /\ cache'.acknowledged = TRUE
        /\ bytes' \in [Buffers -> Accounts \cup {None}]
        /\ bytes'[flow[f].buf] = owner
        /\ \A g \in Flows : Holds(flow[g]) => bytes'[flow[g].buf] = bytes[flow[g].buf]
    BY <2>1, <2>2 DEF Zeroed, MaterialInv, Shapes, BuffersOwned
  <2>4. PICK c : Goes(f, c) /\ ~Holds(c) /\ (c # Idle => CallSound(c, operating, owner))
    <3>1. Continues(t, flow[f], "install")
      BY <1>1, FlowFacts, ThenIsCall
    <3> HIDE DEF t
    <3> DEFINE c == [t EXCEPT !.buf = None]
    <3>2. Continues(c, flow[f], "install")
      BY <3>1, WithBuffer DEF Continues
    <3>3. Goes(f, c) \/ Goes(f, Idle)
      BY <2>1
    <3> HIDE DEF c
    <3>4. CallSound(c, operating, owner) /\ ~Holds(c)
      BY <1>1, <3>2, FlowFacts, ContinuesSound DEF Holds, Continues
    <3> QED
      BY <3>3, <3>4 DEF Holds
  <2>5. /\ flow' = [g \in Flows |-> flow'[g]]
        /\ flow'[f] = c /\ \A g \in Flows \ {f} : flow'[g] = flow[g]
        /\ CallsSound'
    BY <1>1, <2>4, SlotStep DEF session
  <2>6. Shapes'
    BY <1>1, <2>2, <2>3, <2>5 DEF session, MaterialInv, Shapes
  <2>7. BuffersOwned'
    <3>1. \A g \in Flows : Holds(flow'[g]) =>
            g # f /\ Holds(flow[g]) /\ flow'[g] = flow[g] /\ flow[g].buf # flow[f].buf
      BY <1>1, <2>4, <2>5 DEF MaterialInv, BuffersOwned
    <3> QED
      BY <2>3, <3>1 DEF MaterialInv, BuffersOwned
  <2>8. CacheBacked' /\ VariantsHold'
    BY <1>1, <2>2, <2>3 DEF session, MaterialInv, CacheBacked, VariantsHold
  <2> QED
    BY <2>5, <2>6, <2>7, <2>8 DEF MaterialInv
<1>3. CASE ~flow[f].live
  BY <1>1, <1>3, ZeroStep DEF Commit
<1> QED
  BY <1>2, <1>3

LEMMA ReceiptAction ==
  ASSUME MaterialInv, NEW f \in Flows, Receipt(f)
  PROVE  MaterialInv'
<1>1. /\ flow[f] # Idle /\ flow[f].at = "receipt" /\ Holds(flow[f])
      /\ UNCHANGED <<session, cache, variants>>
  BY DEF Receipt, At, Holds, server
<1>2. CASE Goes(f, [Then(f, "commit") EXCEPT !.acknowledged = TRUE]) /\ UNCHANGED bytes
  <2> DEFINE t == Then(f, "commit")
             c == [t EXCEPT !.acknowledged = TRUE]
  <2>1. Continues(t, flow[f], "commit") /\ t.buf = flow[f].buf
    BY <1>1, FlowFacts, ThenIsCall
  <2>2. Goes(f, c)
    BY <1>2
  <2> HIDE DEF t
  <2>3. /\ IsCall(c) /\ c.account = flow[f].account /\ c.at = "commit"
        /\ c.live = flow[f].live /\ c.acknowledged = TRUE /\ c.buf = flow[f].buf
    BY <2>1, WithReceipt DEF Continues
  <2> HIDE DEF c
  <2>4. CallSound(c, operating, owner)
    BY <1>1, <2>3, FlowFacts DEF CallSound
  <2>5. /\ flow' = [g \in Flows |-> flow'[g]]
        /\ flow'[f] = c /\ \A g \in Flows \ {f} : flow'[g] = flow[g]
        /\ CallsSound'
    BY <1>1, <2>2, <2>4, SlotStep DEF session
  <2>6. BuffersOwned'
    <3>1. \A g \in Flows : Holds(flow'[g]) =>
            Holds(flow[g]) /\ flow'[g].buf = flow[g].buf /\ flow'[g].account = flow[g].account
      BY <1>1, <2>3, <2>5
    <3> QED
      BY <1>1, <1>2, <3>1 DEF MaterialInv, BuffersOwned
  <2>7. Shapes' /\ CacheBacked' /\ VariantsHold'
    BY <1>1, <1>2, <2>5 DEF session, MaterialInv, Shapes, CacheBacked, VariantsHold
  <2> QED
    BY <2>5, <2>6, <2>7 DEF MaterialInv
<1>3. CASE Ends(f) /\ bytes' = [bytes EXCEPT ![flow[f].buf] = None]
  BY <1>1, <1>3, ZeroStep
<1> QED
  BY <1>2, <1>3 DEF Receipt

(* A matched variant holds the account's key; the rest changes no session. *)
LEMMA MatchStep ==
  ASSUME MaterialInv, NEW f \in Flows, NEW c, NEW prf, Match(f, c, prf),
         flow[f] # Idle, flow[f].at = "ceremony", UNCHANGED <<memory, variants>>
  PROVE  MaterialInv'
<1> DEFINE result == UnlockCandidates(VariantsOf(flow[f].account, c), c, prf, Profile)
           goes(stage, output) == Asserted(f, stage, c, output)
<1>1. \/ /\ result.status = "matched" /\ flow[f].live
         /\ Installed(f, result.variant.envelope.uvk) /\ Goes(f, goes("extract", None))
      \/ Goes(f, goes("repair", prf)) /\ UNCHANGED session
      \/ Ends(f) /\ UNCHANGED session
  BY Zenon DEF Match
<1>2. \A stage, output : Continues(goes(stage, output), flow[f], stage)
  BY FlowFacts, AssertedIsCall
<1> HIDE DEF goes
<1>3. CASE /\ result.status = "matched" /\ flow[f].live
           /\ Installed(f, result.variant.envelope.uvk) /\ Goes(f, goes("extract", None))
  <2>1. result.variant \in VariantsOf(flow[f].account, c)
    BY <1>3, MatchedIsStored
  <2> HIDE DEF result
  <2>2. result.variant.envelope.uvk = flow[f].account
    BY <2>1 DEF VariantsOf, MaterialInv, VariantsHold
  <2>3. Installed(f, flow[f].account)
    BY <1>3, <2>2
  <2> DEFINE d == goes("extract", None)
  <2>4. Continues(d, flow[f], "extract") /\ Goes(f, d)
    BY <1>2, <1>3
  <2> HIDE DEF d
  <2>5. CallSound(d, operating, owner) /\ ~Holds(d)
    BY <2>4, FlowFacts, ContinuesSound DEF Holds, Continues
  <2>6. VariantsHold'
    BY DEF MaterialInv, VariantsHold
  <2> QED
    BY <2>3, <2>4, <2>5, <2>6, InstallStep
<1>4. CASE Goes(f, goes("repair", prf)) /\ UNCHANGED session
  <2> DEFINE d == goes("repair", prf)
  <2>1. Continues(d, flow[f], "repair") /\ Goes(f, d)
    BY <1>2, <1>4
  <2> HIDE DEF d
  <2> QED
    BY <1>4, <2>1, ContinueStep
<1>5. CASE Ends(f) /\ UNCHANGED session
  BY <1>5, EndStep
<1> QED
  BY <1>1, <1>3, <1>4, <1>5

LEMMA AnswerAction ==
  ASSUME MaterialInv, NEW f \in Flows, Answer(f)
  PROVE  MaterialInv'
<1>1. flow[f] # Idle /\ flow[f].at = "ceremony" /\ UNCHANGED <<memory, variants>>
  BY DEF Answer, At, server
<1>2. PICK c, prf : \/ Ends(f) /\ UNCHANGED session
                    \/ Goes(f, Sealing(Asserted(f, "rewrap", c, prf))) /\ UNCHANGED session
                    \/ Match(f, c, prf)
  BY Zenon DEF Answer
<1>3. CASE Ends(f) /\ UNCHANGED session
  BY <1>1, <1>3, EndStep
<1>4. CASE Goes(f, Sealing(Asserted(f, "rewrap", c, prf))) /\ UNCHANGED session
  <2> DEFINE t == Asserted(f, "rewrap", c, prf)
             d == Sealing(t)
  <2>1. Continues(t, flow[f], "rewrap")
    BY <1>1, FlowFacts, AssertedIsCall
  <2>2. Goes(f, d)
    BY <1>4
  <2> HIDE DEF t
  <2>3. Continues(d, flow[f], "rewrap")
    BY <2>1, SealingIsCall DEF Continues
  <2> HIDE DEF d
  <2> QED
    BY <1>1, <1>4, <2>2, <2>3, ContinueStep
<1>5. CASE Match(f, c, prf)
  BY <1>1, <1>5, MatchStep
<1> QED
  BY <1>2, <1>3, <1>4, <1>5

LEMMA RepairAction ==
  ASSUME MaterialInv, NEW f \in Flows, Repair(f)
  PROVE  MaterialInv'
<1>1. flow[f] # Idle /\ Ends(f) /\ UNCHANGED memory
  BY DEF Repair, At
<1>2. CASE UNCHANGED <<session, variants>>
  BY <1>1, <1>2, EndStep
<1>3. CASE \E password : LET envelope == AfterIndependentAuthorization(flow[f].account, password, flow[f].prf)
                         IN /\ envelope # None
                            /\ Installed(f, flow[f].account) /\ Store(f, envelope)
  <2> DEFINE e(password) == AfterIndependentAuthorization(flow[f].account, password, flow[f].prf)
  <2>1. PICK password : e(password) # None /\ Installed(f, flow[f].account) /\ Store(f, e(password))
    BY <1>3
  <2> DEFINE envelope == e(password)
             inner == RewrapInner(ExtractInner(
                        CreatePasswordEnvelope(flow[f].account, flow[f].account), password), flow[f].account)
             w == WrapUserVaultKey(flow[f].account, FALSE, inner, flow[f].prf, "none")
  <2>2. envelope \in {None, w}
    BY Zenon DEF AfterIndependentAuthorization
  <2> HIDE DEF inner
  <2>3. w # None => w.uvk = flow[f].account
    BY WrappedHoldsKey
  <2>4. envelope # None /\ Store(f, envelope)
    BY <2>1
  <2> HIDE DEF envelope, w
  <2>5. envelope.uvk = flow[f].account
    BY <2>2, <2>3, <2>4
  <2>6. VariantsHold'
    BY <1>1, <2>4, <2>5, StoreStep
  <2> QED
    BY <1>1, <2>1, <2>6, InstallStep DEF Ends, Goes, Holds
<1> QED
  BY <1>2, <1>3 DEF Repair

(* Bytes that were zeroed are found out; dropping the cache harms no call. *)
LEMMA RewrapAction ==
  ASSUME MaterialInv, NEW f \in Flows, Rewrap(f)
  PROVE  MaterialInv'
<1>1. flow[f] # Idle /\ flow[f].at = "rewrap" /\ UNCHANGED <<session, variants>>
  BY DEF Rewrap, At, server
<1>2. CASE Goes(f, [Then(f, "sealed") EXCEPT !.buf = None]) /\ UNCHANGED memory
  <2> DEFINE t == Then(f, "sealed")
             c == [t EXCEPT !.buf = None]
  <2>1. Continues(t, flow[f], "sealed")
    BY <1>1, FlowFacts, ThenIsCall
  <2>2. Goes(f, c)
    BY <1>2
  <2> HIDE DEF t
  <2>3. Continues(c, flow[f], "sealed")
    BY <2>1, WithBuffer DEF Continues
  <2> HIDE DEF c
  <2>4. UNCHANGED <<session, memory, variants>>
    BY <1>1, <1>2
  <2> QED
    BY <1>1, <2>2, <2>3, <2>4, ContinueStep
<1>3. CASE Ends(f) /\ ClearCachedEntry
  <2>1. Goes(f, Idle)
    BY <1>3 DEF Ends, Goes
  <2> QED
    BY <1>1, <1>3, <2>1, DropStep DEF Holds
<1>4. CASE Ends(f) /\ UNCHANGED memory
  BY <1>1, <1>4, EndStep
<1> QED
  BY <1>2, <1>3, <1>4 DEF Rewrap

LEMMA SealedAction ==
  ASSUME MaterialInv, NEW f \in Flows, Sealed(f)
  PROVE  MaterialInv'
<1> DEFINE inner == [uvk |-> flow[f].account, raw |-> FALSE]
           w == WrapUserVaultKey(flow[f].account, FALSE, inner, flow[f].prf, "none")
<1>1. flow[f] # Idle /\ Ends(f) /\ UNCHANGED <<session, memory>>
  BY DEF Sealed, At
<1>2. UNCHANGED variants \/ Store(f, w)
  BY DEF Sealed
<1>3. CASE UNCHANGED variants
  BY <1>1, <1>3, EndStep
<1>4. CASE Store(f, w)
  <2>1. inner # None
    BY <1>1, FlowFacts, NoneAssumption
  <2>2. w.uvk = flow[f].account
    <3>1. MaterializeInner(flow[f].account, FALSE, inner) = inner
      BY <2>1 DEF MaterializeInner, InnerMatches
    <3>2. w = [EncryptField(flow[f].account, flow[f].prf, "none") EXCEPT !.raw = inner.raw]
      BY <2>1, <3>1, Zenon DEF WrapUserVaultKey
    <3> QED
      BY <3>2 DEF EncryptField
  <2> HIDE DEF w
  <2>3. VariantsHold'
    BY <1>1, <1>4, <2>2, StoreStep
  <2>4. Goes(f, Idle) /\ UNCHANGED <<owner, operating>> /\ ~Holds(Idle)
    BY <1>1 DEF Ends, Goes, session, Holds
  <2>5. /\ flow' = [g \in Flows |-> flow'[g]]
        /\ flow'[f] = Idle /\ \A g \in Flows \ {f} : flow'[g] = flow[g]
        /\ CallsSound'
    BY <2>4, SlotStep
  <2>6. Shapes' /\ CacheBacked' /\ BuffersOwned'
    BY <1>1, <2>5 DEF session, memory, MaterialInv, Shapes, CacheBacked, BuffersOwned, Holds
  <2> QED
    BY <2>3, <2>5, <2>6 DEF MaterialInv
<1> QED
  BY <1>2, <1>3, <1>4

LEMMA DeliverAction ==
  ASSUME MaterialInv, NEW f \in Flows, Deliver(f)
  PROVE  MaterialInv'
<1>1. flow[f] # Idle /\ flow[f].at = "deliver" /\ UNCHANGED <<session, memory, variants>>
  BY DEF Deliver, At, server
<1>2. CASE Goes(f, Then(f, "open"))
  <2> DEFINE c == Then(f, "open")
  <2>1. Continues(c, flow[f], "open")
    BY <1>1, FlowFacts, ThenIsCall
  <2>2. Goes(f, c)
    BY <1>2
  <2> HIDE DEF c
  <2> QED
    BY <1>1, <2>1, <2>2, ContinueStep
<1>3. CASE Ends(f)
  BY <1>1, <1>3, EndStep
<1> QED
  BY <1>2, <1>3 DEF Deliver

-----------------------------------------------------------------------------
(* The theorem.                                                            *)

LEMMA InitMaterial == Init => MaterialInv /\ portable \subseteq Accounts
BY DEF Init, MaterialInv, Shapes, CallsSound, BuffersOwned, Holds, VariantsHold, CacheBacked

LEMMA NextMaterial ==
  ASSUME MaterialInv, portable \subseteq Accounts, [Next]_vars
  PROVE  MaterialInv' /\ portable' \subseteq Accounts
<1>1. MaterialInv'
  <2>1. ASSUME NEW f \in Flows,
               Answer(f) \/ Repair(f) \/ Rewrap(f) \/ Sealed(f) \/ Deliver(f) \/ Receipt(f)
                 \/ Install(f) \/ Extract(f) \/ Open(f) \/ Commit(f)
        PROVE  MaterialInv'
    BY <2>1, AnswerAction, RepairAction, RewrapAction, SealedAction, DeliverAction,
       ReceiptAction, InstallAction, TakeActions, CommitAction
  <2>2. CASE UNCHANGED vars
    BY <2>2 DEF vars, session, memory, server, MaterialInv, Shapes, CallsSound, BuffersOwned,
                VariantsHold, CacheBacked
  <2> QED
    BY <2>1, <2>2, SessionActions, StartActions DEF Next
<1>2. portable' \subseteq Accounts
  <2>1. ASSUME NEW f \in Flows, Sealed(f) PROVE portable' \subseteq Accounts
    <3>1. flow[f] # Idle
      BY <2>1 DEF Sealed, At
    <3>2. UNCHANGED portable \/ portable' = portable \cup {flow[f].account}
      BY <2>1 DEF Sealed
    <3> QED
      BY <3>1, <3>2, FlowFacts
  <2>2. CASE UNCHANGED portable
    BY <2>2
  <2> QED
    BY <2>1, <2>2 DEF Next, vars, server, LockVaultSession, ClearVaultSessionOwner,
       ClearVaultInnerKeyMaterialCache, StartPassword, StartUnlock, StartEnroll, StartPackage,
       StartBroker, Install, Extract, Commit, Answer, Repair, Rewrap, Deliver, Open, Receipt
<1> QED
  BY <1>1, <1>2

(* The session key and the cached bytes are always the current account's,  *)
(* whichever calls are awaited while others lock, sign out or switch.      *)
THEOREM CacheIsTheSessions == Spec => []CacheBacked
<1>1. Init => MaterialInv /\ portable \subseteq Accounts
  BY InitMaterial
<1>2. (MaterialInv /\ portable \subseteq Accounts) /\ [Next]_vars
        => (MaterialInv /\ portable \subseteq Accounts)'
  BY NextMaterial
<1>3. MaterialInv => CacheBacked
  BY DEF MaterialInv
<1> QED
  BY <1>1, <1>2, <1>3, PTL DEF Spec
=============================================================================
