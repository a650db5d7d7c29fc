---------------------------- MODULE VaultSession ----------------------------
(***************************************************************************)
(* The browser session of vault-core: one vault key in memory, owned by    *)
(* one account, and the asynchronous calls that install it, cache its      *)
(* inner bytes, exit emergency mode or delete the vault.                   *)
(*                                                                         *)
(* The code is single threaded.  A call runs without interruption from one *)
(* await to the next, so each action below is one such stretch, and the    *)
(* calls in flight (flow) interleave only at their awaits.                 *)
(*                                                                         *)
(* A vault key is named by the account and the vault ("primary", "decoy")  *)
(* whose envelope it was unwrapped from.  The emergency pin, a flag in the *)
(* code, also remembers the account it was set for.                        *)
(***************************************************************************)
EXTENDS Naturals

CONSTANTS
  Owners,          \* account identifiers
  NoOwner,         \* currentOwnerId = null
  Flows,           \* calls that may be in flight at the same time
  DecoyRecord,     \* per account: "none", "passwordOnly" (no decoy passkey), "full"
  CallKinds,       \* the calls the application makes
  ListenerThrows,  \* may a session-change listener throw: a set of outcomes
  MaxEpoch         \* bound: nothing new is started from this epoch on

AllCallKinds ==
  {"route", "unlock", "cache", "exit", "delete", "pin", "clearPin", "disarm"}

ASSUME OwnersAssumption == NoOwner \notin Owners
ASSUME DecoyRecordAssumption ==
  DecoyRecord \in [Owners -> {"none", "passwordOnly", "full"}]
ASSUME CallKindsAssumption == CallKinds \subseteq AllCallKinds
ASSUME ListenerThrowsAssumption == ListenerThrows \subseteq BOOLEAN
ASSUME MaxEpochAssumption == MaxEpoch \in Nat

VARIABLES
  owned,   \* ownershipModeEnabled
  epoch,   \* currentEpoch
  owner,   \* currentOwnerId
  op,      \* currentOperation
  lease,   \* currentLease
  key,     \* sessionVaultKey
  role,    \* sessionKeyRole
  pinned,  \* emergencyModePinned and sessionMode, always set together
  manual,  \* manuallyLocked
  timer,   \* inactivityTimer is armed
  cache,   \* cachedEntry: the key its inner bytes belong to
  flow     \* the calls in flight

identity == <<owned, epoch, owner, op>>
held     == <<lease, key, role, cache>>
lockState == <<manual, timer>>
vars == <<identity, held, pinned, lockState, flow>>

-----------------------------------------------------------------------------
Vaults == {"primary", "decoy"}
Keys == [acct : Owners, vault : Vaults]
NoKey == [acct |-> NoOwner, vault |-> "none"]

Tokens == [epoch : Nat \ {0}, owner : Owners]
NoOp == [epoch |-> 0, owner |-> NoOwner]

Leases == [owner : Owners, epoch : Nat \ {0}, role : Vaults, key : Keys]
NoLease == [owner |-> NoOwner, epoch |-> 0, role |-> "none", key |-> NoKey]

(* Where a call in flight waits, and what it carries over the await.       *)
Waits == {"unwrap", "install", "announce", "persist",
          "verifyExit", "verifyDelete", "purge", "purged", "extract", "match"}
Calls == [pc : Waits, op : Tokens \cup {NoOp}, key : Keys, role : Vaults]
Idle == [pc |-> "idle", op |-> NoOp, key |-> NoKey, role |-> "none"]

FlagsOK == owned \in BOOLEAN /\ manual \in BOOLEAN /\ timer \in BOOLEAN

SessionOK ==
  /\ epoch \in Nat
  /\ owner \in Owners \cup {NoOwner}
  /\ op \in Tokens \cup {NoOp}
  /\ lease \in Leases \cup {NoLease}
  /\ key \in Keys \cup {NoKey}
  /\ role \in Vaults \cup {"none"}
  /\ pinned \in Owners \cup {NoOwner}
  /\ cache \in Keys \cup {NoKey}

FlowsOK == flow \in [Flows -> Calls \cup {Idle}]

TypeOK == FlagsOK /\ SessionOK /\ FlowsOK

Init ==
  /\ owned = FALSE
  /\ epoch = 0
  /\ owner = NoOwner
  /\ op = NoOp
  /\ lease = NoLease
  /\ key = NoKey
  /\ role = "none"
  /\ pinned = NoOwner
  /\ manual = FALSE
  /\ timer = FALSE
  /\ cache = NoKey
  /\ flow = [f \in Flows |-> Idle]

-----------------------------------------------------------------------------
(* Reading the session.                                                    *)

Unlocked == key # NoKey

Emergency == (Unlocked /\ role = "decoy") \/ pinned # NoOwner

IsCurrent(c) == c = op /\ c.epoch = epoch /\ c.owner = owner

(* assertVaultSessionMutationAllowed: c is the token the call carries,     *)
(* NoOp when it carries none.                                              *)
Allowed(c) == IF c # NoOp THEN IsCurrent(c) ELSE ~owned

LeaseAllowed == owned => lease # NoLease /\ lease.owner = owner

-----------------------------------------------------------------------------
(* Locking and ownership.                                                  *)

ClearHeld ==
  /\ key' = NoKey
  /\ role' = "none"
  /\ lease' = NoLease
  /\ cache' = NoKey

(* Mutations: a lock that does not cancel the operation; one that leaves   *)
(* the inactivity timer armed.                                             *)
LockKeepsToken ==
  /\ ClearHeld
  /\ timer' = FALSE
  /\ manual' = TRUE
  /\ UNCHANGED <<epoch, op>>

LockKeepsTimer ==
  /\ epoch' = epoch + 1
  /\ op' = NoOp
  /\ ClearHeld
  /\ manual' = TRUE
  /\ UNCHANGED timer

LockSession ==
  /\ epoch' = epoch + 1
  /\ op' = NoOp
  /\ ClearHeld
  /\ timer' = FALSE
  /\ manual' = TRUE

Issue(o, e) ==
  /\ owned' = TRUE
  /\ epoch' = e
  /\ owner' = o
  /\ op' = [epoch |-> e, owner |-> o]

(* Mutation: only unowned state is purged, not another owner's.            *)
MustPurgeUnowned(o) ==
  owner = NoOwner /\ (Unlocked \/ cache # NoKey \/ Emergency)

MustPurge(o) ==
  \/ owner \notin {NoOwner, o}
  \/ owner = NoOwner /\ (Unlocked \/ cache # NoKey \/ Emergency)

(* Mutation: a newer attempt takes the lease away at once.                 *)
BeginDropsLease(o) ==
  /\ epoch < MaxEpoch
  /\ ~MustPurge(o)
  /\ Issue(o, epoch + 1)
  /\ lease' = NoLease
  /\ UNCHANGED <<key, role, cache, pinned, lockState, flow>>

Begin(o) ==
  /\ epoch < MaxEpoch
  /\ ~MustPurge(o)
  /\ Issue(o, epoch + 1)
  /\ UNCHANGED <<held, pinned, lockState, flow>>

(* The previous session goes first.  A listener that throws during the     *)
(* lock leaves the pin and the owner as they were, and no token is issued. *)
BeginWithPurge(o, throws) ==
  /\ epoch < MaxEpoch
  /\ MustPurge(o)
  /\ IF throws
     THEN LockSession /\ UNCHANGED <<owned, owner, pinned>>
     ELSE /\ ClearHeld
          /\ timer' = FALSE
          /\ manual' = TRUE
          /\ pinned' = NoOwner
          /\ Issue(o, epoch + 2)
  /\ UNCHANGED flow

Lock ==
  /\ epoch < MaxEpoch
  /\ LockSession
  /\ UNCHANGED <<owned, owner, pinned, flow>>

AutoLock ==
  /\ timer
  /\ LockSession
  /\ UNCHANGED <<owned, owner, pinned, flow>>

ClearOwner(throws) ==
  /\ epoch < MaxEpoch
  /\ IF throws
     THEN LockSession /\ UNCHANGED <<owner, pinned>>
     ELSE /\ epoch' = epoch + 2
          /\ op' = NoOp
          /\ owner' = NoOwner
          /\ ClearHeld
          /\ timer' = FALSE
          /\ manual' = TRUE
          /\ pinned' = NoOwner
  /\ UNCHANGED <<owned, flow>>

-----------------------------------------------------------------------------
(* Synchronous guarded mutations.                                          *)

(* A call the application makes for account a with the token c it holds.   *)
MayCall(kind, a, c) ==
  /\ kind \in CallKinds
  /\ epoch < MaxEpoch
  /\ Allowed(c)
  /\ c # NoOp => a = c.owner

EnterEmergency(a, c) ==
  /\ MayCall("pin", a, c)
  /\ pinned' = a
  /\ UNCHANGED <<identity, held, lockState, flow>>

ClearPin(a, c) ==
  /\ MayCall("clearPin", a, c)
  /\ pinned' = NoOwner
  /\ UNCHANGED <<identity, held, lockState, flow>>

ClearCache(a, c) ==
  /\ MayCall("cache", a, c)
  /\ cache' = NoKey
  /\ UNCHANGED <<identity, lease, key, role, pinned, lockState, flow>>

(* Mutation: schedules before manuallyLocked is reset.                     *)
ScheduleBeforeReset == timer' = IF key' # NoKey /\ ~manual THEN TRUE ELSE timer

(* scheduleVaultAutoLockInternal, after key and manuallyLocked are set.    *)
ScheduleAutoLock == timer' = IF key' # NoKey /\ ~manual' THEN TRUE ELSE timer

Touch ==
  /\ Unlocked /\ ~manual
  /\ LeaseAllowed
  /\ UNCHANGED <<identity, held, pinned, manual, flow>>
  /\ ScheduleAutoLock

ClearTimer ==
  /\ "disarm" \in CallKinds
  /\ timer' = FALSE
  /\ UNCHANGED <<identity, held, pinned, manual, flow>>

ResetLockState ==
  /\ "disarm" \in CallKinds
  /\ manual' = FALSE
  /\ timer' = FALSE
  /\ UNCHANGED <<identity, held, pinned, flow>>

-----------------------------------------------------------------------------
(* Calls in flight.  Each starts in a free slot and goes on only while the *)
(* mutation it announced is still allowed.                                 *)

Start(f, pc, c, k, r) ==
  /\ flow[f] = Idle
  /\ flow' = [flow EXCEPT ![f] = [pc |-> pc, op |-> c, key |-> k, role |-> r]]
  /\ UNCHANGED <<identity, held, pinned, lockState>>

(* Mutation: the token is not checked again after the await.               *)
AtUnchecked(f, pc) == flow[f].pc = pc

At(f, pc) == flow[f].pc = pc /\ Allowed(flow[f].op)

Goto(f, pc) == flow' = [flow EXCEPT ![f].pc = pc]
Return(f) == flow' = [flow EXCEPT ![f] = Idle]

(* The awaited work rejects: wrong password or phrase, no match, a failed  *)
(* purge or callback.  The call rejects and has changed nothing.           *)
Fail(f) ==
  /\ flow[f].pc \in Waits \ {"announce", "purged"}
  /\ Return(f)
  /\ UNCHANGED <<identity, held, pinned, lockState>>

(* The call resumes and finds its token stale or missing.                  *)
Cancel(f) ==
  /\ flow[f].pc \in Waits \ {"purge"}
  /\ ~Allowed(flow[f].op)
  /\ Return(f)
  /\ UNCHANGED <<identity, held, pinned, lockState>>

(* Routing: the target is chosen here, before the envelope is unwrapped.   *)
Target(signal) == IF signal \/ Emergency THEN "decoy" ELSE "primary"

(* The envelope a target selects; a passkey falls back to the primary one. *)
Envelope(a, target, method) ==
  IF target = "decoy" /\ method = "passkey" /\ DecoyRecord[a] = "passwordOnly"
  THEN "primary" ELSE target

StartRoute(f, a, c, method, signal) ==
  /\ MayCall("route", a, c)
  /\ LET target == Target(signal)
     IN  /\ target = "decoy" =>
              /\ DecoyRecord[a] # "none"
              /\ method = "candidates" => DecoyRecord[a] = "full"
         /\ Start(f, "unwrap", c,
                  [acct |-> a, vault |-> Envelope(a, target, method)], target)

Unwrapped(f) ==
  /\ At(f, "unwrap")
  /\ Goto(f, "install")
  /\ UNCHANGED <<identity, held, pinned, lockState>>

(* unlockVaultSession called with a key the application already has, after *)
(* setup, recovery or a broker unlock.                                     *)
StartUnlock(f, a, c) ==
  /\ MayCall("unlock", a, c)
  /\ Start(f, "install", c, [acct |-> a, vault |-> "primary"], "primary")

(* Mutations: the lease takes the role from before the installation; a     *)
(* primary key clears the pin.                                             *)
LeaseWithOldRole(call) ==
  IF call.op = NoOp THEN NoLease
  ELSE [owner |-> call.op.owner, epoch |-> call.op.epoch,
        role |-> role, key |-> call.key]

PinFollowsRole(call) == IF call.role = "decoy" THEN call.key.acct ELSE NoOwner

PinFor(call) == IF call.role = "decoy" THEN call.key.acct ELSE pinned

LeaseFor(call) ==
  IF call.op = NoOp THEN NoLease
  ELSE [owner |-> call.op.owner, epoch |-> call.op.epoch,
        role |-> call.role, key |-> call.key]

Install(f, throws) ==
  LET call == flow[f]
  IN  /\ At(f, "install")
      /\ key' = call.key
      /\ role' = call.role
      /\ pinned' = PinFor(call)
      /\ lease' = LeaseFor(call)
      /\ manual' = FALSE
      /\ ScheduleAutoLock
      /\ IF call.role = "decoy" /\ ~throws THEN Goto(f, "announce") ELSE Return(f)
      /\ UNCHANGED <<identity, cache>>

(* onEmergencyEntered, between two checks of the token.                    *)
Announce(f) ==
  /\ At(f, "announce")
  /\ Goto(f, "persist")
  /\ UNCHANGED <<identity, held, pinned, lockState>>

Announced(f) ==
  /\ At(f, "persist")
  /\ Return(f)
  /\ UNCHANGED <<identity, held, pinned, lockState>>

StartCache(f, a, c, v) ==
  /\ MayCall("cache", a, c)
  /\ Start(f, "extract", c, [acct |-> a, vault |-> v], v)

Extracted(f) ==
  /\ At(f, "extract")
  /\ Goto(f, "match")
  /\ UNCHANGED <<identity, held, pinned, lockState>>

Matched(f) ==
  /\ At(f, "match")
  /\ cache' = flow[f].key
  /\ Return(f)
  /\ UNCHANGED <<identity, lease, key, role, pinned, lockState>>

StartExit(f, a, c) ==
  /\ MayCall("exit", a, c)
  /\ Emergency
  /\ Start(f, "verifyExit", c, [acct |-> a, vault |-> "primary"], "primary")

Exited(f) ==
  /\ At(f, "verifyExit")
  /\ pinned' = NoOwner
  /\ LockSession
  /\ Return(f)
  /\ UNCHANGED <<owned, owner>>

StartDelete(f, a, c, withPassword) ==
  /\ MayCall("delete", a, c)
  /\ Start(f, IF withPassword THEN "verifyDelete" ELSE "purge", c,
           [acct |-> a, vault |-> "primary"], "primary")

DeleteAuthorized(f) ==
  /\ At(f, "verifyDelete")
  /\ Goto(f, "purge")
  /\ UNCHANGED <<identity, held, pinned, lockState>>

(* purgePersistedVault has deleted the stored vault, whatever has happened *)
(* to the token meanwhile.                                                 *)
PurgeDone(f) ==
  /\ flow[f].pc = "purge"
  /\ Goto(f, "purged")
  /\ UNCHANGED <<identity, held, pinned, lockState>>

(* A listener that throws during the lock skips the reset of               *)
(* manuallyLocked.                                                         *)
Purged(f, throws) ==
  /\ At(f, "purged")
  /\ epoch' = epoch + 1
  /\ op' = NoOp
  /\ ClearHeld
  /\ timer' = FALSE
  /\ manual' = throws
  /\ Return(f)
  /\ UNCHANGED <<owned, owner, pinned>>

-----------------------------------------------------------------------------
Ownership ==
  \/ \E o \in Owners : Begin(o)
  \/ \E o \in Owners, throws \in ListenerThrows : BeginWithPurge(o, throws)
  \/ \E throws \in ListenerThrows : ClearOwner(throws)
  \/ Lock
  \/ AutoLock

Guarded ==
  \/ \E a \in Owners, c \in {op, NoOp} :
       EnterEmergency(a, c) \/ ClearPin(a, c) \/ ClearCache(a, c)
  \/ Touch
  \/ ClearTimer
  \/ ResetLockState

StartCall(f) ==
  \E a \in Owners, c \in {op, NoOp} :
    \/ \E method \in {"password", "passkey", "candidates"}, signal \in BOOLEAN :
         StartRoute(f, a, c, method, signal)
    \/ StartUnlock(f, a, c)
    \/ \E v \in Vaults : StartCache(f, a, c, v)
    \/ StartExit(f, a, c)
    \/ \E withPassword \in BOOLEAN : StartDelete(f, a, c, withPassword)

Resume(f) ==
  \/ Unwrapped(f)
  \/ \E throws \in ListenerThrows : Install(f, throws)
  \/ Announce(f)
  \/ Announced(f)
  \/ Extracted(f)
  \/ Matched(f)
  \/ Exited(f)
  \/ DeleteAuthorized(f)
  \/ PurgeDone(f)
  \/ \E throws \in ListenerThrows : Purged(f, throws)
  \/ Fail(f)
  \/ Cancel(f)

(* Not a step of the code: past MaxEpoch nothing new starts, and the model *)
(* stays put once the calls in flight have returned.                       *)
AtBound == epoch >= MaxEpoch /\ UNCHANGED vars

Next ==
  \/ Ownership
  \/ Guarded
  \/ \E f \in Flows : StartCall(f) \/ Resume(f)
  \/ AtBound

Spec == Init /\ [][Next]_vars

-----------------------------------------------------------------------------
(* Properties.                                                             *)

(* Account isolation: once an owner has been named, whatever the session   *)
(* holds (key, cached inner bytes, pin, lease, token) is the current       *)
(* owner's, however the calls of two accounts interleave and whatever      *)
(* listener throws (beginVaultSessionUnlock, clearVaultSessionOwner).      *)
OwnerIsolation ==
  owned => {key.acct, cache.acct, pinned, lease.owner, op.owner}
             \subseteq {owner, NoOwner}

(* The lease is an exact description of the installed session: in          *)
(* owner-scoped mode there is a lease exactly while there is a key, with   *)
(* that key, that role and the owner's identity (commitVaultSessionLease   *)
(* runs after the setters, lock and begin clear one after the other).      *)
LeaseDescribesSession ==
  IF owned /\ Unlocked
  THEN lease = [owner |-> owner, epoch |-> lease.epoch, role |-> role, key |-> key]
  ELSE lease = NoLease

(* After a lock, a deletion, an exit or a logout in owner-scoped mode the  *)
(* memory holds neither key nor inner bytes until a new operation begins:  *)
(* nothing that was awaiting at the time brings them back.                 *)
LockedHoldsNothing ==
  owned /\ op = NoOp => ~Unlocked /\ cache = NoKey

(* Last operation wins, and only a winner replaces: a lease ends by losing *)
(* the key or by a commit of the newest token; a newer attempt of the same *)
(* owner alone leaves it installed (isVaultSessionLeaseCurrent).           *)
LeaseChanges ==
  [][lease' # lease =>
       \/ lease' = NoLease /\ ~Unlocked'
       \/ lease'.epoch = epoch /\ lease'.owner = owner]_vars

(* A token is dead for good once cancelled, and every token dies with the  *)
(* session: no call in flight across a lock is ever allowed again.         *)
LockRevokesTokens ==
  [][\A f \in Flows :
       LET c == flow[f].op
       IN  c # NoOp /\ flow'[f].op = c /\ (~Allowed(c) \/ (Unlocked /\ ~Unlocked'))
             => ~Allowed(c)']_vars

(* Emergency mode is latched.  Clearing the pin by hand aside, which leaves *)
(* keys, owner and calls alone, the pin goes only in a locked session, by  *)
(* a verified exit or with the owner; a lock keeps it, and so does a       *)
(* primary unlock that was in flight when it was set.                      *)
EmergencyIsLatched ==
  [][pinned # NoOwner /\ pinned' = NoOwner =>
       \/ UNCHANGED <<identity, held, flow>>
       \/ /\ ~Unlocked'
          /\ \/ owner' # owner
             \/ owner = NoOwner
             \/ \E f \in Flows : flow[f].pc = "verifyExit" /\ flow'[f] = Idle]_vars

(* Every installation of a key arms the inactivity timer, also from a      *)
(* manually locked state: no vault is opened without its automatic lock    *)
(* (unlockVaultSession resets manuallyLocked before it schedules).         *)
InstallArmsTimer == [][key' # key /\ Unlocked' => timer']_vars

(* Whatever the application disarms and resets, a timer armed for one      *)
(* session never survives it to lock the next one.                         *)
ArmedOnlyWhileUnlocked == timer => Unlocked /\ ~manual

-----------------------------------------------------------------------------
(* The session implements AccountSession: an open vault is an installed    *)
(* key, the attempt it is due to is the epoch of its lease; the calls in   *)
(* flight, the cache, the role, the pin and the timer are hidden.          *)
Account == INSTANCE AccountSession WITH
  Accounts <- Owners, Nobody <- NoOwner,
  scoped <- owned, current <- owner, issued <- epoch, attempt <- op.epoch,
  session <- [account |-> key.acct, vault |-> key.vault, attempt |-> lease.epoch]

ImplementsAccountSession == Account!Spec

-----------------------------------------------------------------------------
(* The inductive strengthening: a current token carries the epoch and the  *)
(* owner of the moment, before the first owner there is none, and a call   *)
(* carries a key of its token's account and a token issued in the past.    *)
TokenIsOwners ==
  /\ op # NoOp => owned /\ op.epoch = epoch /\ op.owner = owner
  /\ ~owned => owner = NoOwner

CallsAreOwners ==
  \A f \in Flows : LET c == flow[f].op
                   IN  c # NoOp => flow[f].key.acct = c.owner /\ c.epoch <= epoch

(* The session's variables agree with each other and with what is in       *)
(* flight: with the invariants above these are preserved by every step of  *)
(* the session code, which the timer of a session does not survive.        *)
SessionInv ==
  /\ TypeOK
  /\ TokenIsOwners
  /\ CallsAreOwners
  /\ OwnerIsolation
  /\ LeaseDescribesSession
  /\ LockedHoldsNothing
  /\ ArmedOnlyWhileUnlocked

-----------------------------------------------------------------------------
(* What the documentation says and the code does not do.                   *)

(* docs/INTEGRATING_EMERGENCY_DURESS_MODE.md:25: in emergency mode the     *)
(* real UVK never enters the session.  Routing reads the mode before it    *)
(* awaits the unwrapping, the installation does not read it again.         *)
PrimaryNotInstalledInEmergency ==
  [][key' # key /\ Unlocked' /\ Emergency => key'.vault = "decoy"]_vars

(* The same line, and :524 of the same guide: a duress passkey unlock      *)
(* opens the decoy UVK.  Without a decoy passkey envelope the code unwraps *)
(* the primary envelope and installs its key under the decoy role.         *)
DecoySessionHoldsDecoyKey == role = "decoy" => key.vault = "decoy"

(* vault-deletion.ts:30: completing a deletion clears the in-memory        *)
(* session.  A newer operation of the same owner, begun while the purge is *)
(* awaited, makes the call return with the deleted vault's key installed.  *)
DeletionEndsLocked ==
  [][\A f \in Flows :
       flow[f].pc = "purged" /\ flow'[f] = Idle
         => key'.acct # flow[f].key.acct]_vars

=============================================================================
