------------------------- MODULE VaultSessionProofs -------------------------
(***************************************************************************)
(* Proofs, for every set of accounts, of calls in flight and of listener   *)
(* outcomes, of the safety properties of VaultSession.                     *)
(***************************************************************************)
EXTENDS VaultSession, TLAPS

USE DEF Vaults

-----------------------------------------------------------------------------
(* Most steps of a call only move the call itself: the session stays.      *)
SessionStays == UNCHANGED <<identity, held, pinned, lockState>>

(* Starting a call, up to its first await, changes nothing but its slot.   *)
LEMMA StartKeepsSession ==
  ASSUME NEW f \in Flows, StartCall(f)
  PROVE  SessionStays
BY DEF StartCall, StartRoute, StartUnlock, StartCache, StartExit, StartDelete,
       Start, SessionStays

(* Of the steps that resume a call, four change the session: installing a *)
(* key, caching its inner bytes, a verified exit, a finished deletion.     *)
LEMMA ResumeCases ==
  ASSUME NEW f \in Flows, Resume(f)
  PROVE  \/ SessionStays
         \/ \E throws \in ListenerThrows : Install(f, throws)
         \/ Matched(f)
         \/ Exited(f)
         \/ \E throws \in ListenerThrows : Purged(f, throws)
BY DEF Resume, Unwrapped, Announce, Announced, Extracted, DeleteAuthorized,
       PurgeDone, Fail, Cancel, SessionStays

(* Only a waiting call resumes, and it then waits elsewhere or is gone.    *)
LEMMA ResumeFlow ==
  ASSUME NEW f \in Flows, Resume(f)
  PROVE  /\ flow[f].pc \in Waits
         /\ Return(f) \/ \E pc \in Waits : Goto(f, pc)
<1>1. flow[f].pc \in Waits
  BY DEF Resume, Unwrapped, Install, Announce, Announced, Extracted, Matched,
         Exited, DeleteAuthorized, PurgeDone, Purged, Fail, Cancel, At, Waits
<1>2. Return(f) \/ \E pc \in Waits : Goto(f, pc)
  BY DEF Resume, Unwrapped, Install, Announce, Announced, Extracted, Matched,
         Exited, DeleteAuthorized, PurgeDone, Purged, Fail, Cancel, Waits
<1>. QED
  BY <1>1, <1>2

(* What a call carries is fixed when it starts: an allowed token, and a    *)
(* key of the account the token belongs to.                                *)
LEMMA StartFlow ==
  ASSUME NEW f \in Flows, StartCall(f)
  PROVE  \E a \in Owners, c \in {op, NoOp}, pc \in Waits, v \in Vaults, r \in Vaults :
           /\ c # NoOp => a = c.owner
           /\ Start(f, pc, c, [acct |-> a, vault |-> v], r)
<1> PICK a \in Owners, c \in {op, NoOp} :
      \/ \E method \in {"password", "passkey", "candidates"}, signal \in BOOLEAN :
           StartRoute(f, a, c, method, signal)
      \/ StartUnlock(f, a, c)
      \/ \E v \in Vaults : StartCache(f, a, c, v)
      \/ StartExit(f, a, c)
      \/ \E withPassword \in BOOLEAN : StartDelete(f, a, c, withPassword)
  BY DEF StartCall
<1> DEFINE Started == \E pc \in Waits, v \in Vaults, r \in Vaults :
                        /\ c # NoOp => a = c.owner
                        /\ Start(f, pc, c, [acct |-> a, vault |-> v], r)
<1>1. ASSUME NEW method \in {"password", "passkey", "candidates"},
             NEW signal \in BOOLEAN, StartRoute(f, a, c, method, signal)
      PROVE  Started
  <2> DEFINE t == Target(signal)
             v == Envelope(a, t, method)
  <2>1. t \in Vaults /\ v \in Vaults
    BY DEF Target, Envelope
  <2>2. Start(f, "unwrap", c, [acct |-> a, vault |-> v], t)
    BY <1>1 DEF StartRoute
  <2>. QED
    BY <1>1, <2>1, <2>2 DEF StartRoute, MayCall, Waits
<1>2. ASSUME StartUnlock(f, a, c) PROVE Started
  BY <1>2 DEF StartUnlock, MayCall, Waits
<1>3. ASSUME NEW v \in Vaults, StartCache(f, a, c, v) PROVE Started
  BY <1>3 DEF StartCache, MayCall, Waits
<1>4. ASSUME StartExit(f, a, c) PROVE Started
  BY <1>4 DEF StartExit, MayCall, Waits
<1>5. ASSUME NEW w \in BOOLEAN, StartDelete(f, a, c, w) PROVE Started
  BY <1>5 DEF StartDelete, MayCall, Waits
<1>. QED
  BY <1>1, <1>2, <1>3, <1>4, <1>5

-----------------------------------------------------------------------------
(* Type correctness, one lemma per part of the type invariant.             *)

(* A call that waits carries a token or none, a key and a role.            *)
LEMMA CallType ==
  ASSUME FlowsOK, NEW f \in Flows, flow[f].pc \in Waits
  PROVE  /\ flow[f] \in Calls
         /\ flow[f].op \in Tokens \cup {NoOp}
         /\ flow[f].key \in Keys
         /\ flow[f].role \in Vaults
<1>1. flow[f] \in Calls
  BY DEF FlowsOK, Idle, Waits
<1>. QED
  BY <1>1 DEF Calls

(* The flags stay Boolean (ownershipModeEnabled, manuallyLocked, the       *)
(* handle of the inactivity timer).                                        *)
LEMMA FlagsStep ==
  ASSUME FlagsOK, [Next]_vars
  PROVE  FlagsOK'
<1> USE DEF FlagsOK, identity, held, lockState
<1>1. ASSUME Ownership PROVE FlagsOK'
  BY <1>1 DEF Ownership, Begin, BeginWithPurge, Issue, ClearOwner, Lock,
              AutoLock, LockSession
<1>2. ASSUME Guarded PROVE FlagsOK'
  BY <1>2 DEF Guarded, EnterEmergency, ClearPin, ClearCache, Touch, ClearTimer,
              ResetLockState, ScheduleAutoLock
<1>3. ASSUME NEW f \in Flows, StartCall(f) PROVE FlagsOK'
  BY <1>3, StartKeepsSession DEF SessionStays
<1>4. ASSUME NEW f \in Flows, Resume(f) PROVE FlagsOK'
  <2>1. CASE SessionStays
    BY <2>1 DEF SessionStays
  <2>2. ASSUME NEW throws \in ListenerThrows, Install(f, throws) PROVE FlagsOK'
    BY <2>2 DEF Install, ScheduleAutoLock
  <2>3. CASE Matched(f)
    BY <2>3 DEF Matched
  <2>4. CASE Exited(f)
    BY <2>4 DEF Exited, LockSession
  <2>5. ASSUME NEW throws \in ListenerThrows, Purged(f, throws) PROVE FlagsOK'
    BY <2>5, ListenerThrowsAssumption DEF Purged
  <2>. QED
    BY <1>4, <2>1, <2>2, <2>3, <2>4, <2>5, ResumeCases
<1>5. CASE UNCHANGED vars
  BY <1>5 DEF vars
<1>. QED
  BY <1>1, <1>2, <1>3, <1>4, <1>5 DEF Next, AtBound

(* The session's variables keep their types: what is installed comes from  *)
(* a well-typed call, a new epoch is a successor.                          *)
LEMMA SessionStep ==
  ASSUME SessionOK, FlowsOK, [Next]_vars
  PROVE  SessionOK'
<1> USE DEF SessionOK, identity, held
<1>1. ASSUME NEW o \in Owners, Begin(o) PROVE SessionOK'
  BY <1>1 DEF Begin, Issue, Tokens
<1>2. ASSUME NEW o \in Owners, NEW throws \in ListenerThrows,
             BeginWithPurge(o, throws)
      PROVE  SessionOK'
  BY <1>2 DEF BeginWithPurge, Issue, Tokens, LockSession, ClearHeld
<1>3. ASSUME NEW throws \in ListenerThrows, ClearOwner(throws) PROVE SessionOK'
  BY <1>3 DEF ClearOwner, LockSession, ClearHeld
<1>4. ASSUME Lock \/ AutoLock PROVE SessionOK'
  BY <1>4 DEF Lock, AutoLock, LockSession, ClearHeld
<1>5. ASSUME Guarded PROVE SessionOK'
  BY <1>5 DEF Guarded, EnterEmergency, ClearPin, ClearCache, Touch, ClearTimer,
              ResetLockState
<1>6. ASSUME NEW f \in Flows, StartCall(f) PROVE SessionOK'
  BY <1>6, StartKeepsSession DEF SessionStays
<1>7. ASSUME NEW f \in Flows, Resume(f) PROVE SessionOK'
  <2>c. /\ flow[f].op \in Tokens \cup {NoOp}
        /\ flow[f].key \in Keys
        /\ flow[f].role \in Vaults
    BY <1>7, ResumeFlow, CallType
  <2>1. CASE SessionStays
    BY <2>1 DEF SessionStays
  <2>2. ASSUME NEW throws \in ListenerThrows, Install(f, throws) PROVE SessionOK'
    <3>1. LeaseFor(flow[f]) \in Leases \cup {NoLease}
      BY <2>c DEF LeaseFor, Leases, Tokens
    <3>2. PinFor(flow[f]) \in Owners \cup {NoOwner}
      BY <2>c DEF PinFor, Keys
    <3>. QED
      BY <2>2, <2>c, <3>1, <3>2 DEF Install
  <2>3. CASE Matched(f)
    BY <2>3, <2>c DEF Matched
  <2>4. CASE Exited(f)
    BY <2>4 DEF Exited, LockSession, ClearHeld
  <2>5. ASSUME NEW throws \in ListenerThrows, Purged(f, throws) PROVE SessionOK'
    BY <2>5 DEF Purged, ClearHeld
  <2>. QED
    BY <1>7, <2>1, <2>2, <2>3, <2>4, <2>5, ResumeCases
<1>8. CASE UNCHANGED vars
  BY <1>8 DEF vars
<1>. QED
  BY <1>1, <1>2, <1>3, <1>4, <1>5, <1>6, <1>7, <1>8 DEF Next, Ownership, AtBound

(* Steps outside the calls leave the slots alone.                          *)
LEMMA OtherStepsKeepFlow ==
  ASSUME Ownership \/ Guarded \/ UNCHANGED vars
  PROVE  UNCHANGED flow
BY DEF Ownership, Begin, BeginWithPurge, ClearOwner, Lock, AutoLock, Guarded,
       EnterEmergency, ClearPin, ClearCache, Touch, ClearTimer, ResetLockState,
       vars

(* The calls in flight keep their types.                                   *)
LEMMA FlowsStep ==
  ASSUME SessionOK, FlowsOK, [Next]_vars
  PROVE  FlowsOK'
<1>1. ASSUME NEW f \in Flows, StartCall(f) PROVE FlowsOK'
  <2>1. PICK a \in Owners, c \in {op, NoOp}, pc \in Waits, v \in Vaults, r \in Vaults :
          Start(f, pc, c, [acct |-> a, vault |-> v], r)
    BY <1>1, StartFlow
  <2>2. c \in Tokens \cup {NoOp} /\ [acct |-> a, vault |-> v] \in Keys
    BY DEF SessionOK, Keys
  <2>3. [pc |-> pc, op |-> c, key |-> [acct |-> a, vault |-> v], role |-> r] \in Calls
    BY <2>2 DEF Calls
  <2>. QED
    BY <2>1, <2>3 DEF FlowsOK, Start
<1>2. ASSUME NEW f \in Flows, Resume(f) PROVE FlowsOK'
  <2>1. flow[f].pc \in Waits
    BY <1>2, ResumeFlow
  <2>2. CASE Return(f)
    BY <2>2 DEF FlowsOK, Return
  <2>3. ASSUME NEW pc \in Waits, Goto(f, pc) PROVE FlowsOK'
    <3>1. [flow[f] EXCEPT !.pc = pc] \in Calls
      BY <2>1, CallType DEF Calls
    <3>. QED
      BY <2>3, <3>1 DEF FlowsOK, Goto
  <2>. QED
    BY <1>2, <2>2, <2>3, ResumeFlow
<1>3. CASE UNCHANGED flow
  BY <1>3 DEF FlowsOK
<1>. QED
  BY <1>1, <1>2, <1>3, OtherStepsKeepFlow DEF Next, AtBound

(* Every variable keeps its type (the module state of the session files).  *)
THEOREM TypeCorrect == Spec => []TypeOK
<1>1. Init => TypeOK
  <2>1. Init => FlagsOK
    BY DEF Init, FlagsOK
  <2>2. Init => SessionOK
    BY DEF Init, SessionOK
  <2>3. Init => FlowsOK
    BY DEF Init, FlowsOK
  <2>. QED
    BY <2>1, <2>2, <2>3 DEF TypeOK
<1>2. TypeOK /\ [Next]_vars => TypeOK'
  BY FlagsStep, SessionStep, FlowsStep DEF TypeOK
<1>. QED
  BY <1>1, <1>2, PTL DEF Spec

-----------------------------------------------------------------------------
(* The inductive invariant.                                                *)

(* The values that stand for null are none of the values they stand for.   *)
LEMMA Sentinels ==
  /\ NoOp \notin Tokens /\ NoKey \notin Keys /\ NoLease \notin Leases
  /\ NoOp.owner = NoOwner /\ NoOp.epoch = 0
  /\ NoKey.acct = NoOwner /\ NoLease.owner = NoOwner
BY OwnersAssumption DEF NoOp, Tokens, NoKey, Keys, NoLease, Leases

(* A step that purges the session establishes what the invariant says of   *)
(* it whatever came before.                                                *)
LEMMA ClearedSession ==
  ASSUME ClearHeld, pinned' = NoOwner \/ (OwnerIsolation /\ UNCHANGED <<owned, owner, pinned>>),
         op' = NoOp \/ op'.owner = owner'
  PROVE  OwnerIsolation' /\ LeaseDescribesSession' /\ LockedHoldsNothing'
BY Sentinels DEF ClearHeld, OwnerIsolation, LeaseDescribesSession,
                 LockedHoldsNothing, Unlocked

(* The current token keeps the epoch and the owner of the moment: each     *)
(* step that changes one of them issues a new token or cancels it.         *)
LEMMA TokenStep ==
  ASSUME SessionInv, [Next]_vars
  PROVE  TokenIsOwners'
<1> USE DEF TokenIsOwners, identity
<1>0. TokenIsOwners
  BY DEF SessionInv
<1>1. ASSUME NEW o \in Owners, Begin(o) PROVE TokenIsOwners'
  BY <1>1 DEF Begin, Issue
<1>2. ASSUME NEW o \in Owners, NEW throws \in ListenerThrows,
             BeginWithPurge(o, throws)
      PROVE  TokenIsOwners'
  BY <1>0, <1>2 DEF BeginWithPurge, Issue, LockSession
<1>3. ASSUME NEW throws \in ListenerThrows, ClearOwner(throws)
      PROVE  TokenIsOwners'
  BY <1>0, <1>3 DEF ClearOwner, LockSession
<1>4. ASSUME Lock \/ AutoLock PROVE TokenIsOwners'
  BY <1>0, <1>4 DEF Lock, AutoLock, LockSession
<1>5. ASSUME UNCHANGED identity PROVE TokenIsOwners'
  BY <1>0, <1>5
<1>6. ASSUME Guarded PROVE UNCHANGED identity
  BY <1>6 DEF Guarded, EnterEmergency, ClearPin, ClearCache, Touch, ClearTimer,
              ResetLockState
<1>7. ASSUME NEW f \in Flows, StartCall(f) \/ Resume(f) PROVE TokenIsOwners'
  <2>1. CASE SessionStays
    BY <2>1, <1>5 DEF SessionStays
  <2>2. ASSUME NEW throws \in ListenerThrows, Install(f, throws)
        PROVE  TokenIsOwners'
    BY <2>2, <1>5 DEF Install
  <2>3. CASE Matched(f)
    BY <2>3, <1>5 DEF Matched
  <2>4. CASE Exited(f)
    BY <1>0, <2>4 DEF Exited, LockSession
  <2>5. ASSUME NEW throws \in ListenerThrows, Purged(f, throws)
        PROVE  TokenIsOwners'
    BY <1>0, <2>5 DEF Purged
  <2>. QED
    BY <1>7, <2>1, <2>2, <2>3, <2>4, <2>5, StartKeepsSession, ResumeCases
<1>8. CASE UNCHANGED vars
  BY <1>8, <1>5 DEF vars
<1>. QED
  BY <1>1, <1>2, <1>3, <1>4, <1>5, <1>6, <1>7, <1>8 DEF Next, Ownership, AtBound

(* The epoch never goes back.                                              *)
LEMMA EpochGrows ==
  ASSUME SessionOK, [Next]_vars
  PROVE  epoch <= epoch'
<1> USE DEF SessionOK, identity
<1>1. ASSUME Ownership PROVE epoch <= epoch'
  BY <1>1 DEF Ownership, Begin, BeginWithPurge, Issue, ClearOwner, Lock,
              AutoLock, LockSession
<1>2. ASSUME Guarded \/ UNCHANGED vars PROVE epoch <= epoch'
  BY <1>2 DEF Guarded, EnterEmergency, ClearPin, ClearCache, Touch, ClearTimer,
              ResetLockState, vars
<1>3. ASSUME NEW f \in Flows, StartCall(f) \/ Resume(f) PROVE epoch <= epoch'
  <2>1. CASE SessionStays
    BY <2>1 DEF SessionStays
  <2>2. ASSUME NEW throws \in ListenerThrows, Install(f, throws)
        PROVE  epoch <= epoch'
    BY <2>2 DEF Install
  <2>3. CASE Matched(f)
    BY <2>3 DEF Matched
  <2>4. CASE Exited(f)
    BY <2>4 DEF Exited, LockSession
  <2>5. ASSUME NEW throws \in ListenerThrows, Purged(f, throws)
        PROVE  epoch <= epoch'
    BY <2>5 DEF Purged
  <2>. QED
    BY <1>3, <2>1, <2>2, <2>3, <2>4, <2>5, StartKeepsSession, ResumeCases
<1>. QED
  BY <1>1, <1>2, <1>3 DEF Next, AtBound

(* What a call in flight carries is not touched, and the epoch its token   *)
(* was issued in stays in the past.                                        *)
LEMMA CallsStep ==
  ASSUME SessionInv, [Next]_vars
  PROVE  CallsAreOwners'
<1>0. CallsAreOwners /\ SessionOK /\ FlowsOK /\ TokenIsOwners
  BY DEF SessionInv, TypeOK
<1>e. epoch \in Nat /\ epoch' \in Nat /\ epoch <= epoch'
  BY <1>0, EpochGrows, SessionStep DEF SessionOK
<1>o. \A g \in Flows : flow[g].op \in Tokens \cup {NoOp}
  BY <1>0, CallType DEF FlowsOK, Calls, Idle
<1> DEFINE Same(g) == flow'[g].op = flow[g].op /\ flow'[g].key = flow[g].key
           Fits(g) == flow'[g].op # NoOp =>
                        /\ flow'[g].key.acct = flow'[g].op.owner
                        /\ flow'[g].op.epoch <= epoch'
<1>1. ASSUME NEW g \in Flows, Same(g) PROVE Fits(g)
  BY <1>0, <1>1, <1>e, <1>o DEF CallsAreOwners, Tokens
<1>2. ASSUME NEW f \in Flows, StartCall(f), NEW g \in Flows PROVE Fits(g)
  <2>1. PICK a \in Owners, c \in {op, NoOp}, pc \in Waits, v \in Vaults, r \in Vaults :
          /\ c # NoOp => a = c.owner
          /\ Start(f, pc, c, [acct |-> a, vault |-> v], r)
    BY <1>2, StartFlow
  <2>2. CASE g # f
    BY <2>1, <2>2, <1>0, <1>1 DEF Start, FlowsOK
  <2>3. CASE g = f
    <3>1. flow'[g] = [pc |-> pc, op |-> c, key |-> [acct |-> a, vault |-> v], role |-> r]
      BY <2>1, <2>3, <1>0 DEF Start, FlowsOK
    <3>2. c # NoOp => c.epoch <= epoch'
      BY <1>0, <1>e DEF TokenIsOwners
    <3>. QED
      BY <2>1, <3>1, <3>2
  <2>. QED
    BY <2>2, <2>3
<1>3. ASSUME NEW f \in Flows, Resume(f), NEW g \in Flows PROVE Fits(g)
  <2>1. CASE Return(f)
    <3>1. CASE g # f
      BY <2>1, <3>1, <1>0, <1>1 DEF Return, FlowsOK
    <3>2. CASE g = f
      BY <2>1, <3>2, <1>0 DEF Return, FlowsOK, Idle
    <3>. QED
      BY <3>1, <3>2
  <2>2. ASSUME NEW pc \in Waits, Goto(f, pc) PROVE Fits(g)
    <3>1. flow[f] \in Calls
      BY <1>3, <1>0, ResumeFlow, CallType
    <3>2. Same(g)
      BY <2>2, <3>1, <1>0 DEF Goto, FlowsOK, Calls
    <3>. QED
      BY <3>2, <1>1
  <2>. QED
    BY <1>3, <2>1, <2>2, ResumeFlow
<1>4. ASSUME UNCHANGED flow, NEW g \in Flows PROVE Fits(g)
  BY <1>4, <1>1
<1>5. \A g \in Flows : Fits(g)
  BY <1>2, <1>3, <1>4, OtherStepsKeepFlow DEF Next, AtBound
<1>. QED
  BY <1>5 DEF CallsAreOwners

(* The step that installs a key: an allowed call carries the current       *)
(* owner's token, and its key with it.                                     *)
LEMMA InstallStep ==
  ASSUME SessionInv, NEW f \in Flows, NEW throws \in ListenerThrows, Install(f, throws)
  PROVE  OwnerIsolation' /\ LeaseDescribesSession' /\ LockedHoldsNothing'
<1> DEFINE call == flow[f]
<1>0. /\ OwnerIsolation /\ LeaseDescribesSession /\ CallsAreOwners
      /\ TokenIsOwners /\ FlowsOK
  BY DEF SessionInv, TypeOK
<1>1. call.pc \in Waits /\ Allowed(call.op)
  BY DEF Install, At, Waits
<1>2. call.key \in Keys /\ call.role \in Vaults
  BY <1>0, <1>1, CallType
<1>3. /\ key' = call.key /\ role' = call.role /\ lease' = LeaseFor(call)
      /\ pinned' = PinFor(call) /\ cache' = cache
      /\ owned' = owned /\ owner' = owner /\ op' = op
  BY DEF Install, identity
<1>4. Unlocked'
  BY <1>2, <1>3, Sentinels DEF Unlocked
<1>5. CASE call.op # NoOp
  <2>1. call.op = op /\ op # NoOp /\ op.owner = owner
    BY <1>1, <1>5 DEF Allowed, IsCurrent
  <2>2. call.key.acct = owner
    BY <1>0, <1>5, <2>1 DEF CallsAreOwners
  <2>3. lease' = [owner |-> owner, epoch |-> op.epoch, role |-> role', key |-> key']
    BY <1>3, <1>5, <2>1 DEF LeaseFor
  <2>4. owned
    BY <1>0, <2>1 DEF TokenIsOwners
  <2>5. pinned' \in {owner, NoOwner} /\ cache.acct \in {owner, NoOwner}
    BY <1>0, <1>3, <2>2, <2>4 DEF PinFor, OwnerIsolation
  <2>6. OwnerIsolation'
    BY <1>3, <2>1, <2>2, <2>3, <2>5 DEF OwnerIsolation
  <2>7. LeaseDescribesSession'
    BY <1>3, <1>4, <2>3, <2>4 DEF LeaseDescribesSession
  <2>8. LockedHoldsNothing'
    BY <1>3, <2>1 DEF LockedHoldsNothing
  <2>. QED
    BY <2>6, <2>7, <2>8
<1>6. CASE call.op = NoOp
  <2>1. ~owned'
    BY <1>1, <1>3, <1>6 DEF Allowed
  <2>2. lease' = NoLease
    BY <1>3, <1>6 DEF LeaseFor
  <2>. QED
    BY <2>1, <2>2 DEF OwnerIsolation, LeaseDescribesSession, LockedHoldsNothing
<1>. QED
  BY <1>5, <1>6

(* The step that caches inner bytes: an allowed call's bytes are the       *)
(* current owner's.                                                        *)
LEMMA MatchedStep ==
  ASSUME SessionInv, NEW f \in Flows, Matched(f)
  PROVE  OwnerIsolation' /\ LeaseDescribesSession' /\ LockedHoldsNothing'
<1>0. /\ OwnerIsolation /\ LeaseDescribesSession /\ LockedHoldsNothing
      /\ CallsAreOwners
  BY DEF SessionInv
<1>1. Allowed(flow[f].op)
  BY DEF Matched, At
<1>2. /\ cache' = flow[f].key
      /\ UNCHANGED <<owned, epoch, owner, op, lease, key, role, pinned>>
  BY DEF Matched, identity
<1>3. owned => op # NoOp /\ cache'.acct = owner
  BY <1>0, <1>1, <1>2 DEF Allowed, IsCurrent, CallsAreOwners
<1>. QED
  BY <1>0, <1>2, <1>3
     DEF OwnerIsolation, LeaseDescribesSession, LockedHoldsNothing, Unlocked

(* A new token: only the same owner, or the first one over an empty        *)
(* session, gets it without a purge.                                       *)
LEMMA BeginStep ==
  ASSUME SessionInv, NEW o \in Owners, Begin(o)
  PROVE  OwnerIsolation' /\ LeaseDescribesSession' /\ LockedHoldsNothing'
<1>0. /\ OwnerIsolation /\ LeaseDescribesSession /\ TokenIsOwners /\ SessionOK
  BY DEF SessionInv, TypeOK
<1>1. /\ owned' = TRUE /\ owner' = o /\ op' = [epoch |-> epoch + 1, owner |-> o]
      /\ UNCHANGED <<lease, key, role, cache, pinned>>
      /\ ~MustPurge(o)
  BY DEF Begin, Issue, held
<1>2. op' # NoOp
  BY <1>0, <1>1 DEF SessionOK, NoOp
<1>3. CASE owner = NoOwner
  <2>1. key = NoKey /\ cache = NoKey /\ pinned = NoOwner
    BY <1>1, <1>3 DEF MustPurge, Unlocked, Emergency
  <2>2. lease = NoLease
    BY <1>0, <2>1 DEF LeaseDescribesSession, Unlocked
  <2>. QED
    BY <1>1, <1>2, <2>1, <2>2, Sentinels
       DEF OwnerIsolation, LeaseDescribesSession, LockedHoldsNothing, Unlocked
<1>4. CASE owner # NoOwner
  <2>1. owner = o /\ owned
    BY <1>0, <1>1, <1>4 DEF MustPurge, TokenIsOwners
  <2>. QED
    BY <1>0, <1>1, <1>2, <2>1
       DEF OwnerIsolation, LeaseDescribesSession, LockedHoldsNothing, Unlocked
<1>. QED
  BY <1>3, <1>4

(* Account isolation, the exact lease and the empty locked session are     *)
(* preserved together: a step needs all three to preserve one.             *)
LEMMA IsolationStep ==
  ASSUME SessionInv, [Next]_vars
  PROVE  OwnerIsolation' /\ LeaseDescribesSession' /\ LockedHoldsNothing'
<1> DEFINE Goal == OwnerIsolation' /\ LeaseDescribesSession' /\ LockedHoldsNothing'
<1>0. /\ OwnerIsolation /\ LeaseDescribesSession /\ LockedHoldsNothing
      /\ TokenIsOwners
  BY DEF SessionInv
<1>1. ASSUME NEW o \in Owners, Begin(o) PROVE Goal
  BY <1>1, BeginStep
<1>2. ASSUME NEW o \in Owners, NEW throws \in ListenerThrows,
             BeginWithPurge(o, throws)
      PROVE  Goal
  BY <1>0, <1>2, ClearedSession DEF BeginWithPurge, Issue, LockSession
<1>3. ASSUME NEW throws \in ListenerThrows, ClearOwner(throws) PROVE Goal
  BY <1>0, <1>3, ClearedSession DEF ClearOwner, LockSession
<1>4. ASSUME Lock \/ AutoLock PROVE Goal
  BY <1>0, <1>4, ClearedSession DEF Lock, AutoLock, LockSession
<1>5. ASSUME NEW a \in Owners, NEW c \in {op, NoOp},
             EnterEmergency(a, c) \/ ClearPin(a, c) \/ ClearCache(a, c)
      PROVE  Goal
  <2>1. owned => a = owner
    BY <1>5 DEF EnterEmergency, ClearPin, ClearCache, MayCall, Allowed, IsCurrent
  <2>. QED
    BY <1>0, <1>5, <2>1, Sentinels
       DEF EnterEmergency, ClearPin, ClearCache, OwnerIsolation, identity, held,
           LeaseDescribesSession, LockedHoldsNothing, Unlocked
<1>6. ASSUME UNCHANGED <<identity, held, pinned>> PROVE Goal
  BY <1>0, <1>6 DEF OwnerIsolation, LeaseDescribesSession, LockedHoldsNothing,
                    Unlocked, identity, held
<1>7. ASSUME Touch \/ ClearTimer \/ ResetLockState \/ UNCHANGED vars PROVE Goal
  BY <1>6, <1>7 DEF Touch, ClearTimer, ResetLockState, vars
<1>8. ASSUME NEW f \in Flows, StartCall(f) \/ Resume(f) PROVE Goal
  <2>1. CASE SessionStays
    BY <2>1, <1>6 DEF SessionStays
  <2>2. ASSUME NEW throws \in ListenerThrows, Install(f, throws) PROVE Goal
    BY <2>2, InstallStep
  <2>3. CASE Matched(f)
    BY <2>3, MatchedStep
  <2>4. CASE Exited(f)
    BY <1>0, <2>4, ClearedSession DEF Exited, LockSession
  <2>5. ASSUME NEW throws \in ListenerThrows, Purged(f, throws) PROVE Goal
    BY <1>0, <2>5, ClearedSession DEF Purged
  <2>. QED
    BY <1>8, <2>1, <2>2, <2>3, <2>4, <2>5, StartKeepsSession, ResumeCases
<1>. QED
  BY <1>1, <1>2, <1>3, <1>4, <1>5, <1>7, <1>8 DEF Next, Ownership, Guarded, AtBound

(* A step that installs a key arms the timer, because manuallyLocked is    *)
(* reset and the key is set before the timer is scheduled.                 *)
LEMMA InstallArms ==
  ASSUME FlowsOK, NEW f \in Flows, NEW throws \in ListenerThrows, Install(f, throws)
  PROVE  timer' = TRUE /\ manual' = FALSE /\ key' # NoKey
<1>1. flow[f].pc \in Waits
  BY DEF Install, At, Waits
<1>2. flow[f].key # NoKey
  BY <1>1, CallType, Sentinels
<1>. QED
  BY <1>2 DEF Install, ScheduleAutoLock

(* The timer is armed only over an unlocked session, and a lock disarms it.*)
LEMMA ArmedStep ==
  ASSUME FlowsOK, ArmedOnlyWhileUnlocked, [Next]_vars
  PROVE  ArmedOnlyWhileUnlocked'
<1> USE DEF ArmedOnlyWhileUnlocked, Unlocked
<1>1. ASSUME Ownership PROVE ArmedOnlyWhileUnlocked'
  BY <1>1 DEF Ownership, Begin, BeginWithPurge, ClearOwner, Lock, AutoLock,
              LockSession, held, lockState
<1>2. ASSUME UNCHANGED <<key, lockState>> PROVE ArmedOnlyWhileUnlocked'
  BY <1>2 DEF lockState
<1>3. ASSUME Guarded \/ UNCHANGED vars PROVE ArmedOnlyWhileUnlocked'
  BY <1>3, <1>2 DEF Guarded, EnterEmergency, ClearPin, ClearCache, Touch,
              ClearTimer, ResetLockState, ScheduleAutoLock, vars, held
<1>4. ASSUME NEW f \in Flows, StartCall(f) \/ Resume(f)
      PROVE  ArmedOnlyWhileUnlocked'
  <2>1. CASE SessionStays
    BY <2>1, <1>2 DEF SessionStays, held
  <2>2. ASSUME NEW throws \in ListenerThrows, Install(f, throws)
        PROVE  ArmedOnlyWhileUnlocked'
    BY <2>2, InstallArms
  <2>3. CASE Matched(f)
    BY <2>3, <1>2 DEF Matched
  <2>4. CASE Exited(f)
    BY <2>4 DEF Exited, LockSession
  <2>5. ASSUME NEW throws \in ListenerThrows, Purged(f, throws)
        PROVE  ArmedOnlyWhileUnlocked'
    BY <2>5 DEF Purged
  <2>. QED
    BY <1>4, <2>1, <2>2, <2>3, <2>4, <2>5, StartKeepsSession, ResumeCases
<1>. QED
  BY <1>1, <1>3, <1>4 DEF Next, AtBound

(* The inductive invariant holds in every reachable state: the session     *)
(* variables of vault-session-operation.ts, memory-session.ts and the      *)
(* cache agree with each other whatever is in flight.                      *)
THEOREM SessionInvariant == Spec => []SessionInv
<1>1. Init => SessionInv
  <2> SUFFICES ASSUME Init PROVE SessionInv
    OBVIOUS
  <2>1. FlagsOK
    BY DEF Init, FlagsOK
  <2>2. SessionOK
    BY DEF Init, SessionOK
  <2>3. FlowsOK
    BY DEF Init, FlowsOK
  <2>4. TokenIsOwners
    BY DEF Init, TokenIsOwners
  <2>5. CallsAreOwners
    BY DEF Init, CallsAreOwners, Idle
  <2>6. OwnerIsolation /\ LeaseDescribesSession /\ LockedHoldsNothing
    BY DEF Init, OwnerIsolation, LeaseDescribesSession, LockedHoldsNothing
  <2>7. ArmedOnlyWhileUnlocked
    BY DEF Init, ArmedOnlyWhileUnlocked
  <2>. QED
    BY <2>1, <2>2, <2>3, <2>4, <2>5, <2>6, <2>7 DEF SessionInv, TypeOK
<1>2. SessionInv /\ [Next]_vars => SessionInv'
  BY FlagsStep, SessionStep, FlowsStep, TokenStep, CallsStep, IsolationStep, ArmedStep
     DEF SessionInv, TypeOK
<1>. QED
  BY <1>1, <1>2, PTL DEF Spec

(* Once an owner has been named, whatever the session holds is the current *)
(* owner's (beginVaultSessionUnlock, unlockVaultSession).                  *)
THEOREM AccountIsolation == Spec => []OwnerIsolation
BY SessionInvariant, PTL DEF SessionInv

(* In owner-scoped mode the lease exists exactly while a key does, and     *)
(* describes it (commitVaultSessionLease).                                 *)
THEOREM LeaseIsExact == Spec => []LeaseDescribesSession
BY SessionInvariant, PTL DEF SessionInv

(* Without a live token an owner-scoped session holds no key and no inner  *)
(* bytes (lockVaultSession against calls in flight).                       *)
THEOREM LockIsFinal == Spec => []LockedHoldsNothing
BY SessionInvariant, PTL DEF SessionInv

-----------------------------------------------------------------------------
(* What a step may never do.                                               *)

(* A step that clears what is held ends the lease with the key.            *)
LEMMA ClearEndsLease ==
  ASSUME ClearHeld
  PROVE  lease' = NoLease /\ ~Unlocked'
BY DEF ClearHeld, Unlocked

(* A lease changes by being cleared with the key, or by an installation    *)
(* under the newest token.                                                 *)
LEMMA LeaseStep ==
  ASSUME SessionInv, [Next]_vars, lease' # lease
  PROVE  \/ lease' = NoLease /\ ~Unlocked'
         \/ lease'.epoch = epoch /\ lease'.owner = owner
<1> DEFINE Goal == \/ lease' = NoLease /\ ~Unlocked'
                   \/ lease'.epoch = epoch /\ lease'.owner = owner
<1>1. ASSUME Ownership PROVE Goal
  BY <1>1, ClearEndsLease DEF Ownership, Begin, BeginWithPurge, ClearOwner,
                              Lock, AutoLock, LockSession, held
<1>2. ASSUME Guarded \/ UNCHANGED vars PROVE FALSE
  BY <1>2 DEF Guarded, EnterEmergency, ClearPin, ClearCache, Touch, ClearTimer,
              ResetLockState, vars, held
<1>3. ASSUME NEW f \in Flows, StartCall(f) \/ Resume(f) PROVE Goal
  <2>1. CASE SessionStays
    BY <2>1 DEF SessionStays, held
  <2>2. ASSUME NEW throws \in ListenerThrows, Install(f, throws) PROVE Goal
    <3>1. lease' = LeaseFor(flow[f]) /\ Allowed(flow[f].op)
      BY <2>2 DEF Install, At
    <3>2. CASE flow[f].op = NoOp
      <4>1. ~owned
        BY <3>1, <3>2 DEF Allowed
      <4>2. lease = NoLease /\ lease' = NoLease
        BY <3>1, <3>2, <4>1 DEF SessionInv, LeaseDescribesSession, LeaseFor
      <4>. QED
        BY <4>2
    <3>3. CASE flow[f].op # NoOp
      BY <3>1, <3>3 DEF LeaseFor, Allowed, IsCurrent
    <3>. QED
      BY <3>2, <3>3
  <2>3. CASE Matched(f)
    BY <2>3 DEF Matched
  <2>4. CASE Exited(f)
    BY <2>4, ClearEndsLease DEF Exited, LockSession
  <2>5. ASSUME NEW throws \in ListenerThrows, Purged(f, throws) PROVE Goal
    BY <2>5, ClearEndsLease DEF Purged
  <2>. QED
    BY <1>3, <2>1, <2>2, <2>3, <2>4, <2>5, StartKeepsSession, ResumeCases
<1>. QED
  BY <1>1, <1>2, <1>3 DEF Next, AtBound

(* Last operation wins: only the newest token commits a lease, and nothing *)
(* but a commit or the loss of the key ends one.                           *)
THEOREM LastOperationWins == Spec => LeaseChanges
<1>1. SessionInv /\ [Next]_vars =>
        [lease' # lease => \/ lease' = NoLease /\ ~Unlocked'
                           \/ lease'.epoch = epoch /\ lease'.owner = owner]_vars
  BY LeaseStep
<1>. QED
  BY <1>1, SessionInvariant, PTL DEF Spec, LeaseChanges

(* A new token is newer than every token issued before it, and losing the  *)
(* key leaves no old token current.                                        *)
LEMMA TokenChanges ==
  ASSUME SessionInv, [Next]_vars
  PROVE  /\ \/ op' = op /\ epoch' = epoch /\ owner' = owner
            \/ op' = NoOp
            \/ op'.epoch > epoch
         /\ Unlocked /\ ~Unlocked' => op' = NoOp \/ op'.epoch > epoch
<1> DEFINE New == op' = NoOp \/ op'.epoch > epoch
           Goal == /\ \/ op' = op /\ epoch' = epoch /\ owner' = owner
                      \/ New
                   /\ Unlocked /\ ~Unlocked' => New
<1>0. epoch \in Nat
  BY DEF SessionInv, TypeOK, SessionOK
<1>1. ASSUME NEW o \in Owners, Begin(o) PROVE New
  BY <1>0, <1>1 DEF Begin, Issue
<1>2. ASSUME NEW o \in Owners, NEW throws \in ListenerThrows,
             BeginWithPurge(o, throws)
      PROVE  New
  BY <1>0, <1>2 DEF BeginWithPurge, Issue, LockSession
<1>3. ASSUME NEW throws \in ListenerThrows, ClearOwner(throws) PROVE New
  BY <1>3 DEF ClearOwner, LockSession
<1>4. ASSUME Lock \/ AutoLock PROVE New
  BY <1>4 DEF Lock, AutoLock, LockSession
<1>5. ASSUME UNCHANGED identity, key' = key \/ Unlocked' PROVE Goal
  BY <1>5 DEF identity, Unlocked
<1>6. ASSUME Guarded \/ UNCHANGED vars PROVE Goal
  BY <1>5, <1>6 DEF Guarded, EnterEmergency, ClearPin, ClearCache, Touch,
                    ClearTimer, ResetLockState, vars, held
<1>7. ASSUME NEW f \in Flows, StartCall(f) \/ Resume(f) PROVE Goal
  <2>1. CASE SessionStays
    BY <2>1, <1>5 DEF SessionStays, held
  <2>2. ASSUME NEW throws \in ListenerThrows, Install(f, throws) PROVE Goal
    <3>1. flow[f].key \in Keys
      BY <2>2, CallType DEF Install, At, Waits, SessionInv, TypeOK
    <3>. QED
      BY <2>2, <3>1, <1>5, Sentinels DEF Install, Unlocked
  <2>3. CASE Matched(f)
    BY <2>3, <1>5 DEF Matched
  <2>4. CASE Exited(f)
    BY <2>4 DEF Exited, LockSession
  <2>5. ASSUME NEW throws \in ListenerThrows, Purged(f, throws) PROVE Goal
    BY <2>5 DEF Purged
  <2>. QED
    BY <1>7, <2>1, <2>2, <2>3, <2>4, <2>5, StartKeepsSession, ResumeCases
<1>. QED
  BY <1>1, <1>2, <1>3, <1>4, <1>6, <1>7 DEF Next, Ownership, AtBound

(* A token cancelled once stays cancelled, and every token dies with the   *)
(* session (isVaultSessionOperationCurrent across lockVaultSession).       *)
THEOREM NoRevival == Spec => LockRevokesTokens
<1> DEFINE Revoked ==
      \A f \in Flows :
        LET c == flow[f].op
        IN  c # NoOp /\ flow'[f].op = c /\ (~Allowed(c) \/ (Unlocked /\ ~Unlocked'))
              => ~Allowed(c)'
<1>1. SessionInv /\ [Next]_vars => Revoked
  <2> SUFFICES ASSUME SessionInv, [Next]_vars, NEW f \in Flows,
                      flow[f].op # NoOp, flow'[f].op = flow[f].op,
                      ~Allowed(flow[f].op) \/ (Unlocked /\ ~Unlocked')
               PROVE  ~Allowed(flow[f].op)'
    OBVIOUS
  <2> DEFINE c == flow[f].op
  <2>1. c.epoch <= epoch /\ c.epoch \in Nat /\ epoch \in Nat
    <3>1. c \in Tokens
      BY CallType DEF SessionInv, TypeOK, FlowsOK, Calls, Idle
    <3>. QED
      BY <3>1 DEF SessionInv, CallsAreOwners, Tokens, TypeOK, SessionOK
  <2>2. CASE op' = NoOp \/ op'.epoch > epoch
    <3>1. c # op'
      BY <2>1, <2>2
    <3>2. flow'[f].op # op' /\ flow'[f].op # NoOp
      BY <3>1
    <3>. QED
      BY <3>2 DEF Allowed, IsCurrent
  <2>3. CASE ~Allowed(c) /\ op' = op /\ epoch' = epoch /\ owner' = owner
    BY <2>3 DEF Allowed, IsCurrent
  <2>. QED
    BY <2>2, <2>3, TokenChanges
<1>2. SessionInv /\ [Next]_vars => [Revoked]_vars
  BY <1>1
<1>. QED
  BY <1>2, SessionInvariant, PTL DEF Spec, LockRevokesTokens

-----------------------------------------------------------------------------
(* The inactivity timer and the emergency pin.                             *)

(* The automatic lock armed for one session never outlives it, whatever    *)
(* the application resets (lockVaultSession, resetVaultSessionLockState).  *)
THEOREM TimerDiesWithSession == Spec => []ArmedOnlyWhileUnlocked
BY SessionInvariant, PTL DEF SessionInv

(* A key other than the one held comes only from an installation.          *)
LEMMA KeyChanges ==
  ASSUME [Next]_vars, key' # key
  PROVE  \/ key' = NoKey
         \/ \E f \in Flows, throws \in ListenerThrows : Install(f, throws)
<1> DEFINE Goal == \/ key' = NoKey
                   \/ \E f \in Flows, throws \in ListenerThrows : Install(f, throws)
<1>1. ASSUME Ownership PROVE Goal
  BY <1>1 DEF Ownership, Begin, BeginWithPurge, ClearOwner, Lock, AutoLock,
              LockSession, ClearHeld, held
<1>2. ASSUME Guarded \/ UNCHANGED vars PROVE FALSE
  BY <1>2 DEF Guarded, EnterEmergency, ClearPin, ClearCache, Touch, ClearTimer,
              ResetLockState, vars, held
<1>3. ASSUME NEW f \in Flows, StartCall(f) \/ Resume(f) PROVE Goal
  <2>1. CASE SessionStays \/ Matched(f)
    BY <2>1 DEF SessionStays, Matched, held
  <2>2. CASE Exited(f)
    BY <2>2 DEF Exited, LockSession, ClearHeld
  <2>3. ASSUME NEW throws \in ListenerThrows, Purged(f, throws) PROVE Goal
    BY <2>3 DEF Purged, ClearHeld
  <2>. QED
    BY <1>3, <2>1, <2>2, <2>3, StartKeepsSession, ResumeCases
<1>. QED
  BY <1>1, <1>2, <1>3 DEF Next, AtBound

(* No key is installed without its automatic lock (unlockVaultSession).    *)
THEOREM NoUntimedInstall == Spec => InstallArmsTimer
<1>1. TypeOK /\ [Next]_vars => [key' # key /\ Unlocked' => timer']_vars
  BY KeyChanges, InstallArms DEF TypeOK, Unlocked
<1>. QED
  BY <1>1, TypeCorrect, PTL DEF Spec, InstallArmsTimer

(* How the pin can go: cleared by hand, with the owner, or by an exit.     *)
LEMMA PinStep ==
  ASSUME TypeOK, [Next]_vars, pinned # NoOwner, pinned' = NoOwner
  PROVE  \/ UNCHANGED <<identity, held, flow>>
         \/ /\ ~Unlocked'
            /\ \/ owner' # owner
               \/ owner = NoOwner
               \/ \E f \in Flows : flow[f].pc = "verifyExit" /\ flow'[f] = Idle
<1> DEFINE Exit(f) == flow[f].pc = "verifyExit" /\ flow'[f] = Idle
           Goal == \/ UNCHANGED <<identity, held, flow>>
                   \/ /\ ~Unlocked'
                      /\ owner' # owner \/ owner = NoOwner \/ \E f \in Flows : Exit(f)
<1>1. ASSUME NEW o \in Owners, Begin(o) PROVE FALSE
  BY <1>1 DEF Begin
<1>2. ASSUME NEW o \in Owners, NEW throws \in ListenerThrows,
             BeginWithPurge(o, throws)
      PROVE  Goal
  BY <1>2, ClearEndsLease DEF BeginWithPurge, MustPurge, Issue, LockSession
<1>3. ASSUME NEW throws \in ListenerThrows, ClearOwner(throws) PROVE Goal
  BY <1>3, ClearEndsLease DEF ClearOwner
<1>4. ASSUME Lock \/ AutoLock PROVE FALSE
  BY <1>4 DEF Lock, AutoLock
<1>5. ASSUME Guarded PROVE Goal
  BY <1>5 DEF Guarded, EnterEmergency, ClearPin, ClearCache, Touch, ClearTimer,
              ResetLockState
<1>6. ASSUME NEW f \in Flows, StartCall(f) \/ Resume(f) PROVE Goal
  <2>1. CASE SessionStays
    BY <2>1 DEF SessionStays
  <2>2. ASSUME NEW throws \in ListenerThrows, Install(f, throws) PROVE FALSE
    <3>1. flow[f].key \in Keys
      BY <2>2, CallType DEF Install, At, Waits, TypeOK
    <3>. QED
      BY <2>2, <3>1, OwnersAssumption DEF Install, PinFor, Keys
  <2>3. CASE Matched(f)
    BY <2>3 DEF Matched
  <2>4. CASE Exited(f)
    <3>1. flow'[f] = Idle
      BY <2>4 DEF Exited, Return, TypeOK, FlowsOK
    <3>2. Exit(f)
      BY <2>4, <3>1 DEF Exited, At
    <3>. QED
      BY <2>4, <3>2, ClearEndsLease DEF Exited, LockSession
  <2>5. ASSUME NEW throws \in ListenerThrows, Purged(f, throws) PROVE FALSE
    BY <2>5 DEF Purged
  <2>. QED
    BY <1>6, <2>1, <2>2, <2>3, <2>4, <2>5, StartKeepsSession, ResumeCases
<1>7. CASE UNCHANGED vars
  BY <1>7 DEF vars
<1>. QED
  BY <1>1, <1>2, <1>3, <1>4, <1>5, <1>6, <1>7 DEF Next, Ownership, AtBound

(* Emergency mode is latched: neither a lock, nor a deletion, nor a        *)
(* primary unlock ends it (setSessionKeyRole, exitEmergencyMode).          *)
THEOREM EmergencyLatch == Spec => EmergencyIsLatched
<1>1. TypeOK /\ [Next]_vars =>
        [pinned # NoOwner /\ pinned' = NoOwner =>
           \/ UNCHANGED <<identity, held, flow>>
           \/ /\ ~Unlocked'
              /\ \/ owner' # owner
                 \/ owner = NoOwner
                 \/ \E f \in Flows : flow[f].pc = "verifyExit" /\ flow'[f] = Idle]_vars
  BY PinStep
<1>. QED
  BY <1>1, TypeCorrect, PTL DEF Spec, EmergencyIsLatched

-----------------------------------------------------------------------------
(* VaultSession implements AccountSession: every step of the session code, *)
(* under its refinement mapping, is a step of AccountSession or none.      *)

USE DEF Account!Closed

(* What the abstract specification sees of the session.                    *)
Seen == <<owned, owner, epoch, op.epoch,
          [account |-> key.acct, vault |-> key.vault, attempt |-> lease.epoch]>>

(* A step that clears what is held closes the abstract session             *)
(* (lockVaultSession, in every path that reaches it).                      *)
LEMMA ClearCloses ==
  ASSUME ClearHeld
  PROVE  [account |-> key'.acct, vault |-> key'.vault, attempt |-> lease'.epoch]
           = Account!Closed
BY DEF ClearHeld, NoKey, NoLease

(* A lock alone is the abstract Close.                                     *)
LEMMA LockCloses ==
  ASSUME ClearHeld, epoch' = epoch + 1, op' = NoOp, UNCHANGED <<owned, owner>>
  PROVE  Account!Close
BY ClearCloses DEF Account!Close, NoOp

(* beginVaultSessionUnlock, without a previous session to purge, keeps a   *)
(* session of the same owner and finds none of another.                    *)
LEMMA BeginRefines ==
  ASSUME SessionInv, NEW o \in Owners, Begin(o)
  PROVE  Account!Begin(o)
<1>1. /\ owned' = TRUE /\ owner' = o /\ epoch' = epoch + 1
      /\ op' = [epoch |-> epoch + 1, owner |-> o]
      /\ UNCHANGED <<lease, key>>
      /\ ~MustPurge(o)
  BY DEF Begin, Issue, held
<1>2. CASE owner = o
  BY <1>1, <1>2 DEF Account!Begin
<1>3. CASE owner # o
  <2>1. owner = NoOwner /\ key = NoKey
    BY <1>1, <1>3 DEF MustPurge, Unlocked
  <2>2. lease = NoLease
    BY <2>1 DEF SessionInv, LeaseDescribesSession, Unlocked
  <2>. QED
    BY <1>1, <1>3, <2>1, <2>2 DEF Account!Begin, NoKey, NoLease
<1>. QED
  BY <1>2, <1>3

(* With a purge, the session that ends is never the new owner's.           *)
LEMMA PurgeRefines ==
  ASSUME NEW o \in Owners, NEW throws \in ListenerThrows, BeginWithPurge(o, throws)
  PROVE  Account!Begin(o) \/ Account!Close
<1>1. CASE throws
  BY <1>1, LockCloses DEF BeginWithPurge, LockSession
<1>2. CASE ~throws
  <2>1. ClearHeld /\ Issue(o, epoch + 2) /\ owner # o
    BY <1>2, OwnersAssumption DEF BeginWithPurge, MustPurge
  <2>. QED
    BY <2>1, ClearCloses DEF Account!Begin, Issue
<1>. QED
  BY <1>1, <1>2

(* An allowed installation opens the vault of the token's account, under   *)
(* the newest attempt.                                                     *)
LEMMA InstallRefines ==
  ASSUME SessionInv, NEW f \in Flows, NEW throws \in ListenerThrows, Install(f, throws)
  PROVE  \E a \in Owners, v \in Vaults : Account!Open(a, v)
<1> DEFINE call == flow[f]
<1>0. CallsAreOwners /\ TokenIsOwners /\ FlowsOK /\ SessionOK
  BY DEF SessionInv, TypeOK
<1>1. call.pc \in Waits /\ Allowed(call.op)
  BY DEF Install, At, Waits
<1>2. call.key \in Keys
  BY <1>0, <1>1, CallType
<1>3. call.key.acct \in Owners /\ call.key.vault \in Vaults
  BY <1>2 DEF Keys
<1>4. /\ key' = call.key /\ lease' = LeaseFor(call)
      /\ UNCHANGED <<owned, epoch, owner, op>>
  BY DEF Install, identity
<1>5. CASE call.op = NoOp
  <2>1. ~owned /\ op = NoOp
    BY <1>0, <1>1, <1>5 DEF Allowed, TokenIsOwners
  <2>2. lease'.epoch = 0 /\ op.epoch = 0
    BY <1>4, <1>5, <2>1 DEF LeaseFor, NoLease, NoOp
  <2>3. Account!Open(call.key.acct, call.key.vault)
    BY <1>4, <2>1, <2>2 DEF Account!Open
  <2>. QED
    BY <1>3, <2>3
<1>6. CASE call.op # NoOp
  <2>1. call.op = op /\ op # NoOp /\ owned /\ op.owner = owner
    BY <1>0, <1>1, <1>6 DEF Allowed, IsCurrent, TokenIsOwners
  <2>2. call.key.acct = owner
    BY <1>0, <1>6, <2>1 DEF CallsAreOwners
  <2>3. op.epoch # 0
    BY <1>0, <2>1 DEF SessionOK, Tokens
  <2>4. lease'.epoch = op.epoch
    BY <1>4, <1>6, <2>1 DEF LeaseFor
  <2>5. Account!Open(call.key.acct, call.key.vault)
    BY <1>4, <2>1, <2>2, <2>3, <2>4 DEF Account!Open
  <2>. QED
    BY <1>3, <2>5
<1>. QED
  BY <1>5, <1>6

(* Every step of the session is an abstract step or changes nothing that   *)
(* the abstract specification sees.                                        *)
LEMMA StepRefines ==
  ASSUME SessionInv, [Next]_vars
  PROVE  [Account!Next]_(Account!vars)
<1> DEFINE Goal == Account!Next \/ UNCHANGED Seen
<1>1. ASSUME NEW o \in Owners, Begin(o) PROVE Goal
  BY <1>1, BeginRefines DEF Account!Next
<1>2. ASSUME NEW o \in Owners, NEW throws \in ListenerThrows,
             BeginWithPurge(o, throws)
      PROVE  Goal
  BY <1>2, PurgeRefines DEF Account!Next
<1>3. ASSUME NEW throws \in ListenerThrows, ClearOwner(throws) PROVE Goal
  <2>1. CASE throws
    BY <1>3, <2>1, LockCloses DEF ClearOwner, LockSession, Account!Next
  <2>2. CASE ~throws
    BY <1>3, <2>2, ClearCloses DEF ClearOwner, Account!Leave, Account!Next, NoOp
  <2>. QED
    BY <2>1, <2>2
<1>4. ASSUME Lock \/ AutoLock PROVE Goal
  BY <1>4, LockCloses DEF Lock, AutoLock, LockSession, Account!Next
<1>5. ASSUME UNCHANGED <<identity, lease, key>> PROVE Goal
  BY <1>5 DEF identity, Seen
<1>6. ASSUME Guarded \/ UNCHANGED vars PROVE Goal
  BY <1>5, <1>6 DEF Guarded, EnterEmergency, ClearPin, ClearCache, Touch,
                    ClearTimer, ResetLockState, vars, held
<1>7. ASSUME NEW f \in Flows, StartCall(f) \/ Resume(f) PROVE Goal
  <2>1. CASE SessionStays
    BY <2>1, <1>5 DEF SessionStays, held
  <2>2. ASSUME NEW throws \in ListenerThrows, Install(f, throws) PROVE Goal
    BY <2>2, InstallRefines DEF Account!Next
  <2>3. CASE Matched(f)
    BY <2>3, <1>5 DEF Matched
  <2>4. CASE Exited(f)
    BY <2>4, LockCloses DEF Exited, LockSession, Account!Next
  <2>5. ASSUME NEW throws \in ListenerThrows, Purged(f, throws) PROVE Goal
    BY <2>5, LockCloses DEF Purged, Account!Next
  <2>. QED
    BY <1>7, <2>1, <2>2, <2>3, <2>4, <2>5, StartKeepsSession, ResumeCases
<1>8. Goal
  BY <1>1, <1>2, <1>3, <1>4, <1>6, <1>7 DEF Next, Ownership, AtBound
<1>. QED
  BY <1>8 DEF Seen, Account!vars

(* For every set of accounts, calls in flight and listener outcomes, the   *)
(* session module of the library implements the account session.           *)
THEOREM SessionImplementsAccountSession == Spec => ImplementsAccountSession
<1>1. Init => Account!Init
  BY DEF Init, Account!Init, NoKey, NoLease, NoOp
<1>2. SessionInv /\ [Next]_vars => [Account!Next]_(Account!vars)
  BY StepRefines
<1>. QED
  BY <1>1, <1>2, SessionInvariant, PTL DEF Spec, ImplementsAccountSession, Account!Spec

=============================================================================
