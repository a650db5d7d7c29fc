# vault-core in TLA+

A verification project for **vault-core**, a TypeScript library that lets a web
application keep an end-to-end encrypted vault per account: the vault key (UVK)
lives in memory only, envelopes encrypted under a password, a recovery phrase or
a passkey (WebAuthn PRF) unwrap it, an inactivity timer locks it, and an
emergency mode opens a decoy vault under duress.  Source paths below are those
of the repository (`src/` in `PROJECT.json` is the repository's root, so the
library's own `src/session/...` reads `src/src/session/...` there).

1. [The system](#1-the-system)
2. [Modules and their correspondence to the code](#2-modules-and-their-correspondence-to-the-code)
3. [Runs](#3-runs)
4. [What is proved](#4-what-is-proved)
5. [Disagreements between code and documentation](#5-disagreements-between-code-and-documentation)
6. [What is not modelled](#6-what-is-not-modelled)
7. [Plan](#7-plan)

## 1. The system

All of it runs in one JavaScript thread.  There is no preemption: the only
concurrency is that of *calls in flight*, suspended at an `await`, and of timers
and callbacks that run between them.  That is where it is hard: nearly every
operation that changes the session reads something (a token, the emergency mode,
a rate-limit decision), awaits cryptography or the application, and then acts.

### State-keeping components

| Component | State | Operations | Interacts with | Hard behaviour | Correct when |
|---|---|---|---|---|---|
| Session ownership (`session/vault-session-operation.ts`) | `ownershipModeEnabled`, `currentEpoch`, `currentOwnerId`, `currentOperation`, `currentLease` | issue, commit lease, invalidate, clear, assert | every guarded mutation calls its assertion, before and after each await | tokens of older attempts resume in any order | only the newest token mutates; the lease describes what is installed |
| Memory session (`session/memory-session.ts`) | key, role, emergency pin and mode | setters, clear, pin, unpin | locking, routing | role, pin and key are set apart | the pin survives locks; nothing of another account stays |
| Locking and automatic lock (`session/auto-lock.ts`) | `manuallyLocked`, inactivity timer, configuration, last activity | begin, unlock, lock, logout, touch, schedule, reset | all of the above, cleanup handlers, session-change listeners | timer firing between two steps of a call; listeners that throw | a locked session holds nothing; an open one is timed |
| Inner key cache (`session/inner-key-material-cache.ts`) | bytes of the unwrapped key | fill, read, match, clear | unlocks fill it, enrollment and rotation read it, locks clear it | references to shared byte arrays held over an await | bytes are those of the installed key, zeroed when dropped |
| Emergency routing and exit (`emergency/browser-emergency.ts`, `unlock-routing.ts`) | none of its own; the pin and the persisted flag | three unlock routes, exit, hydrate | memory session, locking, the application's callbacks | mode read before the unwrap, used after it; reload between install and persist | in emergency mode the primary vault stays shut |
| Deletion (`session/vault-deletion.ts`) | none | with password, after authorization | application's purge, locking | purge awaited, token checked after | a deleted vault's key is not left in memory |
| Rate limits (`rate-limit/*.ts`) | bucket per key: window start, count, lockout end | check, consume, record failure or success | wraps unlock attempts and API requests | check and recording on two sides of an await; bounded table | failures per window are bounded; a refusal ends when it says |
| Portable broker (`browser/portable-vault-broker.ts`, `crypto/portable-vault-broker-envelope.ts`) | one-use private key | open session, unlock response, enroll | cache, session | delivery twice, cancellation after a receipt is consumed | one response opens at most once, nothing is left behind |
| Automatic-lock preference (`react/session/use-vault-auto-lock-preference.ts`, `session/user-auto-lock-preference.ts`) | stored minutes | load, save | lease, timer | lease captured before an await | a preference is applied only to its own session |
| The demo's record (`apps/consumer-demo/src/lib/vault-demo-*.ts`, the vault, settings, unlock and exit pages) | stored record, emergency metadata, what each page holds | create, unlock, recover, save, rotate, upgrade, link, enroll a decoy, delete, exit | session, routing, envelopes | read whole, awaited, written whole; locks, reloads and page changes in between | all stored parts open with one key; honey and the real payload never mix |
| Lock cleanup registry (`session/vault-lock-cleanup.ts`) | handlers | register, run | called inside every lock | handlers throw (swallowed) | every handler runs once per lock |
| Status dock, quick unlock, long press (`react/status-dock/*`, `react/emergency/*`) | refs, UI timers, dedupe slot, latches | expand, collapse, automatic start, attempt, long press | routes, the application's duress signal | effects of three components in React's order; a delayed start fires after unmount, rebind or success | a prompt starts once and only where it is shown; a ceremony is told what was pressed |

### Components without state of their own

Envelopes for password, recovery and passkey (`envelopes/`), rotation
(`rotation/`), keys (`keys/`), crypto primitives and KDF (`crypto/`, `kdf/`),
payload encryption (`payload/`), legacy unlock and AAD checks
(`envelopes/legacy-vault-key-unlock.ts`, `validation/aad-assert.ts`), passkey
model and device binding (`passkey/`), WebAuthn options (`browser/`), admin
configuration (`admin/`), schemas and password policy (`validation/`), errors
(`errors/`), the recovery kit (`recovery/`), and the React pages.  They are
functions of their arguments; what matters about them is what they select
(which envelope, which credential, which context) and in which order they try.
Those that decide anything are operators of `Envelopes` and `PasskeyOptions`.

## 2. Modules and their correspondence to the code

| Module | Models | Kind |
|---|---|---|
| `AccountSession` | what the session promises an application | abstract specification |
| `VaultSession` | `vault-session-operation.ts`, `memory-session.ts`, `auto-lock.ts` (without the clock), the key of the inner cache, `browser-emergency.ts` routes and exit, `vault-deletion.ts` | component and its composition |
| `MCVaultSession` | instances of it | TLC |
| `VaultSessionProofs` | theorems on `VaultSession`, and that it implements `AccountSession` | TLAPS |
| `AutoLockTimer` | the clock of `auto-lock.ts`, `use-vault-auto-lock-preference.ts`, `user-auto-lock-preference.ts` | component |
| `MCAutoLockTimer` | instances of it | TLC |
| `AutoLockTimerProofs` | theorems on it | TLAPS |
| `RateLimit` | `fixed-window.ts`, `vault-unlock-rate-limit.ts`, `vault-api-rate-limit.ts` | component |
| `MCRateLimit` | instances of it | TLC |
| `RateLimitProofs` | theorems on `RateLimit` | TLAPS |
| `Envelopes` | `envelopes/password.ts`, `recovery.ts`, `legacy-vault-key-unlock.ts`, `vault-key-envelope.ts`, `rotation/*`, payload encryption | operators |
| `EnvelopesProofs` | theorems on them | TLAPS |
| `TwoVaults` | what the demo's tab promises its user | abstract specification |
| `DemoVault` | the consumer demo's record, emergency flag, session and pages in one tab | composition |
| `MCDemoVault` | instances of it | TLC |
| `DemoVaultProofs` | theorems on `DemoVault`, and that it implements `TwoVaults` | TLAPS |
| `PasskeyOptions` | `passkey/device-binding/*`, `browser/*-auth-options.ts`, `webauthn-prf-options.ts`, `passkey-prf-enrollment.ts`, `passkey-prf-output.ts`, `passkey-prf-candidates.ts` | operators |
| `PasskeyVault` | passkey and portable unlocks, enrollments, the inner key cache with its buffers | composition |
| `MCPasskeyVault` | instances of it | TLC |
| `PasskeyVaultProofs` | `PasskeyVault`'s session, buffers and cache | TLAPS |
| `PasskeyCallsProofs` | what its calls carry: envelopes, outputs, the broker's key | TLAPS |
| `StatusDock` | `vault-status-dock.tsx`, `vault-dock-quick-unlock.tsx`, `passkey-auto-start-dedupe.ts`, `use-long-press-duress-signal.ts`, the demo's wiring | component |
| `MCStatusDock` | instance of it | TLC |
| `StatusDockProofs` | theorems on it | TLAPS |

### VaultSession

The variables are the module-level variables of the code, under shorter names
(the declaration gives each its own): `owned`, `epoch`, `owner`, `op`, `lease`
from `vault-session-operation.ts`; `key`, `role`, `pinned` from
`memory-session.ts`; `manual`, `timer` from `auto-lock.ts`; `cache` from the
inner key cache.  `flow` holds the calls in flight: where each waits (`pc`) and
what its closure carries over the await (its token, the key it is unwrapping,
the role it chose).

An action is the code between two awaits.  `StartRoute` is a routed unlock up to
the await of the unwrapping, including the choice of target and envelope;
`Unwrapped` and `Install` are what follows each await; `Announce` and
`Announced` are the two checks around `onEmergencyEntered`.  Caching, exit and
deletion have the same form.  `Fail` is the awaited work rejecting, `Cancel` is
the call finding its token no longer allowed (`VAULT_SESSION_CANCELLED`).  Begin,
lock, logout, touch, the timer and the emergency pin are single actions,
because the code does not await in them; the locks and purges they call are part
of them.

Abstractions, all of data:

- A key is named by the account and the vault (`primary` or `decoy`) whose
  envelope it came from.  The code compares `CryptoKey` objects; two unlocks of
  one vault give two objects that hold the same key, and the model identifies
  them.
- `pinned` is a Boolean in the code.  The model also remembers whose emergency
  it is, so that isolation can be stated of it.  No guard reads the account.
- The application passes a call the token it obtained for the account whose
  record it passes (`c # NoOp => a = c.owner` in `MayCall`).  The library cannot
  see which account a record belongs to, so this is the caller's part of the
  contract (`docs/IMPLEMENTATION_GUIDE.md`), and without it isolation is not the
  library's to give.
- A record's decoy is absent, has only a password envelope, or has both
  (`DecoyRecord`), which is what the routes tell apart.
- A session-change listener may throw (`ListenerThrows`): the lock has cleared
  the key by then, and what the caller would have done next is skipped.  Cleanup
  handlers are inside a `try` that swallows their exceptions, so they can
  change nothing here.
- Identifiers are not parsed, durations are not counted: whenever the timer is
  armed it may fire (`AutoLock`).

`MaxEpoch` bounds the exploration only: past it no new operation, lock by hand or
call starts, while the calls in flight and the timer go on to their end.
`AtBound` is the stutter that lets TLC tell that end from a deadlock.  It is not
a step of the code.

The `Start...` actions leave a token's staleness to be found by the checks that
follow: a call starts with the current token or none, as an assertion at its
start would refuse any other, and every older token in the model is one that a
call has carried over an await.

### AutoLockTimer

What `VaultSession` leaves out of `auto-lock.ts`: durations.  The session is
`open` or not; `armed`, `left` and `armedFor` are the inactivity timeout, `idle`
and `active` the time since `lastActivityAt`, `config` what
`configureVaultSession` was given last.  `hook` is a mounted
`useVaultAutoLockPreference` with its state, its props and whether an effect is
`pending`: React runs `applySessionAutoLock` some time after the render that
asked for it, and the session may have ended meanwhile.  A component's lease is
`omitted` (applications that never name an owner), `null`, the `current` one or
a `stale` one; a lock or a new key makes the current one stale.  `Touch`,
`Activity` and the hook share one lease prop.

Time is relative, so no clock has to be bounded: `idle` counts up to `Longest`,
past which every countdown is zero, and `left` down to zero, where the timeout
is due but may come late.  Minutes are whole (the code rounds what it clamps);
a preference below one behaves as one.  Administrators' minutes lie within the
limits of the admin configuration, which the hook is given after resolution.

### RateLimit

`bucket` is the map of the limiter, `attempt` the awaited unlock attempts, `now`
the clock.  `Decision`, `Refresh`, `Prune`, `Open` and `Consumed` are the
functions of `fixed-window.ts`, of an explicit time; `Try` is
`withVaultUnlockRateLimit` up to the await, `Succeed`, `Failed` and `Limited` the
three ways on, `Request` a consumed API request.  The eviction takes the first
inserted of the oldest buckets; the model takes any of the oldest.  `charged` and
`promise` are history variables no action reads.  `MCRateLimit` runs the two
limiters of the library side by side: `kind` says, from the start, whether it is
that of unlock attempts or, built without a lockout, that of API requests.

### Envelopes

A vault key is a name, an envelope a record of the secret it is sealed under, the
key inside, the KDF version, whether older releases sealed bare bytes (`raw`),
and two contexts: the one written beside the ciphertext (`stored`) and the one
authenticated with it (`bound`), which older releases let differ.  `DecryptField`
yields the key or `None`, as authenticated encryption does.  What the code
decides around it is translated: which contexts are allowed, refused and tried
(`UnwrapWithLegacyAadFallback`), that a session key cannot be exported and is
wrapped again only from inner material that holds it (`MaterializeInner`,
`RewrapInner`), what a rotation or an upgrade checks before it writes.  `None`
is every exception.

### DemoVault

`record` and `meta` are the two entries of local storage, `key`, `role` and `pin`
the session, `page`, `payload`, `loading`, `load` and `pending` what the mounted
page holds, `calls` the operations awaited.  An operation is two actions, before
and after its await: `Begin` takes the record, the key and the typed secret into
the closure, the second (`Created`, `Unlocked`, `Saved`, `Rewritten`, ...) computes
and stores.  A passkey unlock has three, as the routing is decided when the
authenticator has answered.  `Navigate` unmounts a page without ending its calls;
`Reload` ends everything in memory and applies the stored emergency flag again.
The settings page's busy flag is `OnSettings`; setting up a decoy ignores it, as
in the code.

`TwoVaults` is the same tab as its user knows it: a vault and a decoy with their
contents, a stored emergency, and a screen.  `raised` is the emergency flag of
`meta`, `real` and `honey` are the contents sealed in the record, `screen` is the
payload on the vault page; pin, key, role, page and awaited calls are hidden.

Bounds: `Keys` and `Phrases` are what the tab can generate, `MaxNotes` the notes
added.  `SlowAes` is an assumption about time: where it is `FALSE`, as in the run
`vault`, the vault page's own AES operation, milliseconds long, ends before the
session is locked or replaced, while key derivations (seconds) may end at any
time.  The code does not enforce it: what it hides is finding 7, and the theorems
do without it.

`Orderly` names the steps that are no race.  A call may end after a lock, a page
change or another call, but what it read is still what is stored (`SameVault`; a passkey unlinked and a recovery phrase rotated
meanwhile do not count), no session was opened before its own, and a save ends in
the mode it began in (`Current`); the vault page's decryption does not outlast its
session.  Nothing in the code enforces this either.  It is a way to say of a
property that races alone take it away, and the theorems use it so.

### PasskeyVault and PasskeyOptions

`PasskeyOptions` has the decisions around a WebAuthn ceremony, from the unlock
plan over the options given to the browser to the output read from the answer
and the variant opened with it.  An authenticator's output is named by
credential, salt, ceremony and device, which is all that tells two outputs
apart: a registration may yield another value than an authentication, and a
synced credential another one on every device.

`PasskeyVault` runs them against one session.  `bytes` are the buffers of inner
key material, shared by reference: `cache` and a call may hold the same one, and
zeroing it is seen by both.  A buffer is tracked while it is meant for the cache.
Each `flow` is a call with the token it was begun under (`live`), the stage of
the await it is at and what its closure holds.  Session, locks and sign-outs are
the owner-scoped mode of `VaultSession` at the grain this module needs: a call
cancelled by any of them sees it at its next assertion.  The server (verified
assertions, stored variants), the authenticator and the broker are external,
modelled by what the code makes of their answers, all shapes of them.

### StatusDock

One record holds the refs and state of the dock, of its quick unlock and of the
application around them.  Its operators are the functions of the components
(`Trigger`, `Fire`, `Bind`, `Collapse`, ...), and `Settled` runs what follows an
event in React's order: layout effects of the child, then of the parent, the
passive effects, and the render that these cause, if they start an attempt or
close the dock.  An event with its effects is one step; the delay, the slot's time to live, long presses, navigation, locks
and the end of an attempt interleave freely.  The handle's effect runs whenever
the application renders, since the demo passes a new callback each time;
`Navigate` renders twice, as the server snapshot is read in an effect.
`owed`, `stray` and `misheard` are history.

## 3. Runs

| Run | Instance | Shows |
|---|---|---|
| `session` | 2 accounts, 2 calls in flight of any kind, `MaxEpoch` 4, throwing listeners; 484 000 states | `SessionInv` (the inductive invariant), `OwnerIsolation`, `LeaseDescribesSession`, `LockedHoldsNothing`, `LeaseChanges`, `LockRevokesTokens`, `EmergencyIsLatched`, `InstallArmsTimer`, `ImplementsAccountSession` |
| `timer` | ceilings 1 and 2, wishes 1 and 4, limit 3, application configurations above and below; 34 600 states | `TypeOK`, `TimerIsIdleClock`, `PreferenceInForce`, `LeftAloneLocks`, `PreferenceApplied` |
| `limits` | 3 keys, 3 clients, 2 buckets, 2 attempts, lockout longer than the window; 549 000 states | `TypeOK`, `FailuresBounded`, `RequestsBounded`, `RetryAfterIsHonest`, `TrackedBounded`, `KeysIndependent` |
| `vault` | 3 keys, 3 phrases, 2 passwords of which one signals duress, records of this and an older release, 1 awaited call; 359 000 states | `TypeOK`, `BlobsOpen`, `PrimaryHidden`, `EmergencyKept`, `DecoySessionChangesNothing`, `TwoVaultsKeptApart` |
| `passkeys` | 2 accounts, 2 credentials, 2 devices, 2 calls, 3 buffers; 543 000 states | `TypeOK`, `EnvelopesOpen`, `VariantsUsable`, `NoStrayMaterial`, `CacheBacked`, `UnsealedOnce`, `BoundCredentialAnswers` |
| `dock` | with and without emergency mode, all of the finite state; 10 900 states | `TypeOK`, `AutoStartOnce`, `QuietUnlessShown`, `ClosingCancels`, `StartsWhenItCan`, `DuressHeard` |
| `route_race` | 1 account, 2 unlocks | violates `PrimaryNotInstalledInEmergency` |
| `passkey_fallback` | 1 account without a decoy passkey envelope | violates `DecoySessionHoldsDecoyKey` |
| `deletion` | 1 account, an unlock and a deletion | violates `DeletionEndsLocked` |
| `countdown` | reconfiguration of an open session | violates `CountdownIsTimer` |
| `lockout` | 1 key, lockout longer than the window | violates `LockoutHolds` |
| `lost_update` | 2 keys, 2 awaited calls | violates `PayloadKept` |

Six more configurations are kept to be run by hand.  Five give the traces of
findings 7 to 11; the sixth passes, on 966 000 states in about a minute and a half.

| Configuration | Instance | Shows |
|---|---|---|
| `MCDemoVault_late_decryption.cfg` | 1 key, 1 awaited call, `SlowAes` | violates `LockedPageIsEmpty` |
| `MCDemoVault_mode_race.cfg` | 2 keys, 2 awaited calls | violates `HoneySavedToDecoy` |
| `MCDemoVault_deletion_emergency.cfg` | 2 keys, 1 awaited call | violates `DeletionUnconfigures` |
| `MCStatusDock_lock_starts.cfg` | as `dock` | violates `LockStartsNothing` |
| `MCStatusDock_button_press.cfg` | as `dock` | violates `ButtonHeard` |
| `MCDemoVault_overlap.cfg` | 2 keys, 1 password, a stored vault without a passkey, 2 awaited calls on any pages, `SlowAes`, steps that are `Orderly` | `VaultsApart`: `BlobsOpen`, `PrimaryHidden` and `EmergencyKept` together |

Why the bounds are enough.  *Session*: isolation takes two accounts, and a race
takes two calls and a step of the session (begin, lock, timer) between them; with
four epochs an account can begin, be replaced or locked, begin again and have a
call of the first attempt return at the end, and the first owner can be named
while calls without a token are in flight.  The proofs of section 4 lift the
bounds altogether.  Owners and flows are interchangeable, so symmetry is sound;
the temporal properties are safety properties.  *Rate limit*: three keys over two
buckets force eviction, two overlapping attempts force a failure recorded after
the limit was reached, and five ticks pass the end of a window and of a
lockout at least once.  `FailuresBounded` shows that the bound a window really
gives is `Max` plus the attempts already admitted, not `Max`.

*Vault*: three keys are a vault, a decoy and a replacement of either; one awaited
call is what a user who waits for each operation sees, between whose two halves
every lock, reload, page change and immediate operation fits.  What the second
call adds is in two places: the races in `lost_update` and
`MCDemoVault_mode_race.cfg`, and all other ways to overlap in the theorems of
section 4 and `MCDemoVault_overlap.cfg`, which starts from a stored vault and has
room for one decoy of it, the least that tells the two apart.  *Passkeys*: a stale buffer takes two calls and a
lock, a foreign one two accounts, a wrong output two credentials or two devices;
three buffers are the cached one and one of each call.  *Dock*: nothing is
bounded.

What the properties say together: a call is worthless the moment a newer
operation, a lock, a logout or a deletion has happened, at whatever await it is
(`LockRevokesTokens`, `LeaseChanges`); so the memory holds one account's material
(`OwnerIsolation`), exactly described by the lease that the React hooks and the
preference code compare against (`LeaseDescribesSession`), and after a lock none
at all (`LockedHoldsNothing`).  Emergency mode, once pinned, outlives locks and
primary unlocks (`EmergencyIsLatched`).  Every installation is under the
inactivity timer (`InstallArmsTimer`), and a timer never outlives its session
(`ArmedOnlyWhileUnlocked`, a conjunct of `SessionInv`).

`EmergencyIsLatched` makes an exception for the exported `clearEmergencyModePin`
call that clears the pin by hand: it must then leave keys, owner and calls alone.

*Timer*: minutes up to 3 give every order of wish, ceiling, default and limit,
and the state is finite without any bound on time.  `PreferenceInForce` says
that two functions written apart, what the hook shows and what the session
resolves, agree; `LeftAloneLocks` that nothing short of a new key, a touch or an
effective preference postpones the lock for ever, in particular no provider that
re-renders and reconfigures all the time.

*Vault*: `BlobsOpen` says that whatever was stored last, every envelope holds the
key the payload is sealed for; `PrimaryHidden`, `EmergencyKept` and
`DecoySessionChangesNothing` are what emergency mode promises, against the ways
it could leak: a save that straddles a change of session, a rewrite under a decoy
session, a reload at the wrong moment.  `TwoVaultsKeptApart` says the same from
the outside and of every step: what is on the screen belongs to the vault that the
stored emergency selects, an edit reaches that one only, only an unlock with a
decoy there raises an emergency and only a recovery phrase of a vault that exists
ends it, in each case with nothing left on the screen.  An emergency that a reload
fails to hydrate breaks it, after which the real vault is shown while the flag
says otherwise.  *Passkeys*: an envelope that was stored
opens at a later sign-in (`EnvelopesOpen`), which is the property a failed
enrollment violates only weeks later; the variants of one credential do not get in
each other's way, up to and at the number that one unlock tries
(`VariantsUsable`: two devices and a limit of two reach it); no inner bytes outlive their use
(`NoStrayMaterial`) and none is cached under another account or before its
receipt (`CacheBacked`).  *Dock*: `AutoStartOnce` and `QuietUnlessShown` bound
when the browser's passkey prompt appears unasked (that it may appear at a lock
is finding 10), `DuressHeard` says that what was pressed on the handle, and only
what was pressed, reaches the ceremony (of the button alone: finding 11).

**Fairness.**  Only `AutoLockTimer` assumes any: weak fairness of the clock, of a
due timeout and of the effect of a render.  The browser's event loop gives all
three: a timeout stays due until it runs or is cleared, and React runs the
effects of a committed render.  No activity of the user or the application is
assumed fair.  Everything else is a safety property.

## 4. What is proved

The theorems on the session hold for every set of accounts, any number of calls in
flight, every choice of decoy records, call kinds and throwing listeners, and
every `MaxEpoch` (which thereby bounds nothing).  Those on the timer hold for all
minutes and configurations, those on the limiter for every finite set of keys and
of attempts and every limit, those on envelopes for all secrets, keys and
profiles, those on `PasskeyVault` for any accounts, finitely many credentials, any
calls, buffers, devices and browsers, those on `DemoVault` for any keys, phrases,
passwords and number of notes and any record of an older release.  `StatusDock`
has no constants.

The assumptions on constants are those the modules declare, and say two things:
the constants have their types, and the values that stand for "nothing" (`NoOwner`,
`None`, `NoAttempt`) are none of the things they are compared with.

`DemoTypeCorrect` and `DecoyIsEmergency` hold of every execution of `DemoVault`.
The other theorems on it are about any number of operations awaited at once, on
any pages and of any length, and are conditional, as the code is: `BlobsOpen`,
`PrimaryHidden` and `EmergencyKept` are false of it where operations race
(findings 6 to 8 in section 5).  `Spec /\ [][Orderly]_vars => []P` says that an
execution which loses `P` has a step that is not `Orderly`, so that no interleaving
but those races loses it; `Orderly` speaks of the one call that ends and of what
that call began with, never of the property.

| Theorem | Property |
|---|---|
| `TypeCorrect` | `TypeOK` |
| `SessionInvariant` | `SessionInv` |
| `AccountIsolation` | `OwnerIsolation` |
| `LeaseIsExact` | `LeaseDescribesSession` |
| `LockIsFinal` | `LockedHoldsNothing` |
| `TimerDiesWithSession` | `ArmedOnlyWhileUnlocked`, a conjunct of `SessionInv` |
| `LastOperationWins` | `LeaseChanges` |
| `NoRevival` | `LockRevokesTokens` |
| `NoUntimedInstall` | `InstallArmsTimer` |
| `EmergencyLatch` | `EmergencyIsLatched` |
| `SessionImplementsAccountSession` | `ImplementsAccountSession` |
| `TimerTypeCorrect`, `TimerFollowsIdleTime`, `SettledPreferenceHolds` | `TypeOK`, `TimerIsIdleClock`, `PreferenceInForce` of `AutoLockTimer` |
| `LimiterTypeCorrect` | `LimiterOK`, the limiter's own part of `TypeOK` |
| `RefusalsEnd` | `RetryAfterIsHonest` |
| `TableBounded` | `TrackedBounded` |
| `RefusalsIndependent` | `KeysIndependent` |
| `HistoriesTyped`, `FailuresStayBounded`, `RequestsStayBounded` | `TypeOK`, `FailuresBounded`, `RequestsBounded` of `RateLimit` |
| `CacheIsTheSessions` | `CacheBacked` of `PasskeyVault` |
| `PasskeyTypeCorrect`, `NoBytesLeftBehind`, `StoredEnvelopesOpen` | its `TypeOK`, `NoStrayMaterial`, `EnvelopesOpen` |
| `VariantsSideBySide` | its `VariantsUsable` |
| `OneSealedKeyOpened`, `BoundCallsAnswered` | its `UnsealedOnce`, `BoundCredentialAnswers` |
| `DemoTypeCorrect` | `TypeOK` of `DemoVault` |
| `DecoyIsEmergency` | the session's half of its `EmergencyKept` |
| `VaultOpens`, `HoneyShown`, `EmergencyStays` | if `Orderly`: its `BlobsOpen`, `PrimaryHidden`, `EmergencyKept` |
| `DecoyChangesNothing`, `TabIsTwoVaults` | if `Orderly`: its `DecoySessionChangesNothing`, `TwoVaultsKeptApart` |
| `DockInvariant` | `DockInv`, what the six properties below rest on |
| `DockTypeCorrect`, `OneStartPerSlot`, `NoPromptUnasked` | `TypeOK`, `AutoStartOnce`, `QuietUnlessShown` of `StatusDock` |
| `NothingDueWhenClosed`, `NoStartForgotten`, `HandlePressesAreTold` | its `ClosingCancels`, `StartsWhenItCan`, `DuressHeard` |
| `OpensUnderItsSecret`, `LegacyStaysInScope` | what opening an envelope needs and yields |
| `RotationKeepsKey`, `UpgradesKeepKey`, `RecoveryRotationKeepsKey` | what rotations and upgrades yield |

**The inductive invariant** is `SessionInv`:

- `OwnerIsolation`, `LeaseDescribesSession` and `LockedHoldsNothing` are what is
  wanted, and none is inductive by itself.  A call that resumes could install
  anything unless its closure is known about.
- `CallsAreOwners`: a call with a token carries a key of the token's account, and
  its token was issued in the past.  With it, `Allowed` at the resumption means
  that what is installed is the current owner's.  The bound on the epoch is what
  keeps a new token from coinciding with an old one, which `NoRevival` rests on.
- `TokenIsOwners`: a current token has the epoch and the owner of the moment, and
  before an owner is named there is none, so that a call without a token is
  allowed only while `owned` is false.
- `TypeOK`, for the arithmetic on epochs and the ranges of record fields.
- `ArmedOnlyWhileUnlocked`, which of the others needs only types.

The action properties are proved from `SessionInv` in the state before the step,
case by case over the actions, several of which are grouped by what they leave
unchanged (a call that only starts or moves on disturbs `flow` alone).

**The refinement** hides the cache, the role, the pin, the timer and the calls in
flight.  An abstract `session` is the installed key with the epoch of its lease,
an abstract attempt is the epoch of the current token.  `Begin` and a completed
`BeginWithPurge` map to the abstract `Begin`, an installation to `Open`, locks,
exits, deletions and a purge aborted by a listener to `Close`, a logout to
`Leave`, everything else to a stutter.  `Open` of a current account is where the
invariant is needed: an allowed call's key is the owner's.

**The timer** needs one more fact than the three it is about, `HookSettled`:
while no effect is pending and nobody else has configured the session, the
configuration is the hook's and the timer is armed from it.  That the session
resolves this configuration to the minutes shown is `HookConfigShown`.

**The rate limiter**'s refusals rest on its types: a count never passes its
maximum, as `consume` decides again after the await.  A refused bucket is
therefore up to date, and neither pruned nor refreshed by traffic on other keys
(`OpenKeepsRefused`).

That failures stay bounded needs an account of what a window has been charged,
`AccountInv`.  The bound is about the past, the bucket only about the present, and
the two drift apart as soon as the limit is reached: attempts admitted before it
still fail after it, and are charged to the history but no longer counted.  `Sound`
relates them for each key.  The charges of one moment are numbered below their
quantity, so that a new one is never one that is there (`Numbered`); those of a
window lie within it, before the end of a lockout, and a key without a bucket has
none (`Windowed`); and (`Tally`) below the limit the count is the number of
charges in the window, while from the limit on the charges and the attempts still
awaited together are fewer than `Max` plus the number of attempts there can be.
A failure moves one from the awaited to the charged and leaves the sum, and no new
attempt is admitted, which is the argument.  A bucket that is pruned or evicted
takes its charges with it, so the bound is on what the bucket there is has seen.

**The cache of a passkey vault** needs `MaterialInv`, with three facts besides
`CacheBacked`.  `CallsSound`: a live token belongs to the current operation, and
only a broker call before its receipt is unacknowledged.  `BuffersOwned`: a
buffer a call still has to commit or zero holds its account's key and is neither
the cached one nor another call's, so that a lock which zeroes the cached buffer
in place, or a commit which replaces it, touches no other.  `VariantsHold`: a
stored variant holds its account's key, which is what makes a matched variant
safe to install.  One lemma per way an action may touch the session and the
buffers (`IdleStep`, `InstallStep`, `TakeStep`, `ZeroStep`, `DropStep`,
`CancelStep`, `EnterStep`) carries the invariant, and each action is an instance.

**The calls of a passkey vault** need `CallsInv`, over `MaterialInv`.  What a step
stores was decided two or three awaits earlier, so the invariant says what a call
carries at each stage: `CallBound`, a ceremony is prepared with the user's own salt
and, for a bound call, with its one credential; `CallSeals`, a call about to store
an envelope has the output that its own account's credential yields at an
*authentication*, whatever the registration yielded; and a credential never
changes its account (`registered` only grows), without which an envelope stored
earlier would not stay good (`VariantsOpen`).  That variants stay usable side by
side needs no more: an envelope that opens for some device is well formed, so a
list of them is not refused for its contents, and whichever is matched holds the
account's key.  `OpenOnce` is stronger than
`UnsealedOnce` on the broker: while the private key is held nothing was opened or
is being opened, and afterwards at most one call still has it.  `NoStrayMaterial`
becomes inductive with `BuffersOwned`.

**The demo's vault** needs `DemoInv`.  `Sealed`, of the stored record: one key in
the payload and every envelope of the vault, others for the decoy, contents on
their own side.  `SessionInv`: outside an emergency a session's key is the vault's,
and an enabled and stored emergency is a pinned one.  `ViewInv`: what a page holds,
or is decrypting, is of the present mode and fits the present key (`Shows`).
`CallOK`: a call took along a record that was well sealed and, for a save, a key of
the vault its payload is of.  All of that but `Shows` stays true of a call whatever
becomes of the tab meanwhile, which is why any number of calls may be awaited; what
a call took is only compared with the present when it ends, and there `Current`
says it is the same.  So a save, which takes the key from before the encryption
and the mode from after it, still puts honey in the decoy and the rest in the
vault.  The types alone (`TypeInv`) need no such comparison: a call that ends over
another record stores a whole record all the same, the wrong one perhaps.  `PasskeyAnswers` keeps the
invariant although it may open a decoy session with the vault's own key (finding
2): that key decrypts nothing of the decoy, and `DecoySessionChangesNothing` is
therefore stated of the decoy's key.

**Two vaults.**  The refinement hides everything of the session, so each step of
the tab must be shown to be allowed by the stored flag although the code decides
it by the pin.  `DemoInv` says that an enabled and stored emergency is a pinned
one; the other direction is `ModeInv`: the pin is set only for a stored emergency
of a feature that is on, and a call that was routed to the decoy, is enrolling one
or is exiting (`Routed`) was begun with the feature on, which only a reload turns off, ending
the call.  Then an unlock of the decoy is `Raise` (or nothing, in an emergency), an exit
`End`, the end of the page's decryption `Show`, a save `Edit`, a reload `Restart`;
creation, enrollment and deletion are the actions of their names, a lock or a
change of page `Hide`, and the rest stutters.  That `Raise` and `End` happen over
an empty screen, and that what is shown is of the vault selected, is `ViewInv`.

**The dock.**  The module's state is finite and the run `dock` visits all of it, so
the proof does not extend the run to more instances; it says why the properties
hold.  `Sound` is kept by every operator at whatever point of a step it is applied:
a start that is due was taken once, is not yet paid for, and belongs to a dock
whose stored preference is open, and no press or signal exists outside emergency
mode.  `Steady`, the inductive invariant, holds between steps only: a handler is
bound for a quick unlock that may start, and what the application would tell a
ceremony is what was pressed.  In between, the first render of any sound dock
mounts the quick unlock and opens the dock (`Mounted`, `Opened`), whose layout
effect may start a ceremony; the passive effect and the second render, where there
is one, then find nothing more to start, and drop the handler of one that is
running.

**Envelopes** have no state: the theorems are about single calls.  All rotations
rest on `OpensUnderItsSecret` and `RewrapKeepsKey`.

`SessionInv` is also an invariant of the run `session`.  The others were checked on
the instances of section 3 before they were proved.

**Only model-checked**: the two liveness properties of `AutoLockTimer`
(`LeftAloneLocks`, `PreferenceApplied`), which rest on fairness and `ENABLED` and
are out of the prover's reach.  No theorem is about what a recursive definition computes for every input.

## 5. Disagreements between code and documentation

1. `route_race`.  `unlockVaultWithPasswordRouting` and its two siblings choose
   the target from `isVaultEmergencyMode()` before awaiting the unwrapping and
   do not look again.  Of two unlocks in flight under one token, a primary one
   may install the primary key after the other entered emergency mode, where
   `docs/INTEGRATING_EMERGENCY_DURESS_MODE.md:25` says the real UVK never enters
   the session.
2. `passkey_fallback`.  Without a decoy passkey envelope,
   `selectPasskeyEnvelope` returns the primary one.  What it unwraps to is the
   primary key, installed under role `decoy`.  The guide (`:524`) describes it as
   unwrapping the decoy.
3. `deletion`.  `deleteVaultAfterAuthorization` asserts its token after the purge
   and before the lock.  If a newer operation of the same account began during
   the purge, the vault is deleted and the session remains open, where the
   function's comment says it clears the session.
4. `countdown`.  `getVaultAutoLockRemainingMs` computes with the configuration of
   the moment, the timeout was armed with that of the last activity, and
   `configureVaultSession` does not arm it again.  The countdown that
   `use-vault-auto-lock-countdown.ts:58` calls live until the automatic lock may
   reach zero early or be cut short.
5. `lockout`.  `refreshBucketIfExpired` starts a new bucket when the failure
   window ends, also during a lockout.  With the shipped defaults (15-minute
   window, 30-minute lockout) a lockout ends when the window does, where
   `docs/IMPLEMENTATION_GUIDE.md:1120` announces 30 minutes.

6. `lost_update`.  Every operation of the consumer demo reads the stored record
   whole, awaits its cryptography and stores the record it read around the one
   new part (`apps/consumer-demo/src/lib/vault-demo-security.ts:100`).  A page is
   left while its operation is awaited, and a note saved on the next page is
   overwritten, where `src/rotation/password.ts:37` says that encrypted payloads
   stay unchanged.  For the same reason a decoy enrolled, a passkey unlinked or a
   vault deleted meanwhile may be undone.  An upgrade awaited since before a decoy
   was enrolled takes the decoy away again, after which honey is saved over the
   vault's own payload (`EmergencyKept`).

7. `MCDemoVault_late_decryption.cfg`.  A lock does not cancel the vault page's
   decryption (`vault-client-page.tsx:29`): one that ends late puts the payload
   back into React state of a locked page, where
   `docs/CONSUMER_SECURITY_REQUIREMENTS.md:110` asks that none be rendered.
   With it `PrimaryHidden` fails too: a decoy session that cannot decrypt
   (finding 2) leaves on the page what it finds there.
8. `MCDemoVault_mode_race.cfg`.  `saveDemoPayload` takes the key before it
   awaits the encryption and looks at the mode after it
   (`vault-demo-crypto.ts:362`).  Honey whose save is awaited while the
   emergency is exited on another page is stored as the vault's own payload,
   under the decoy's key, where `docs/INTEGRATING_EMERGENCY_DURESS_MODE.md:359`
   says that it goes to the decoy only.  The other way round, a save that
   outlives a lock and a decoy unlock stores the vault's note in the decoy,
   under the vault's key (`BlobsOpen`, `PrimaryHidden`).
9. `MCDemoVault_deletion_emergency.cfg`.  Deleting the demo's vault in an
   emergency leaves the stored flag and the pin (`vault-demo-security.ts:223`):
   the next vault is asked for a decoy it does not have until the emergency is
   exited.  `src/session/vault-deletion.ts:31` says that the client returns to
   an unconfigured state.
10. `MCStatusDock_lock_starts.cfg`.  Expanding an *open* dock consumes the
    automatic start and leaves it due (`vault-status-dock.tsx:366`).  When the
    vault then locks under the open dock, the quick unlock mounts, binds its
    handler and the passkey prompt starts, before the passive effect closes the
    dock.  `docs/ADOPTING_VAULT_CORE_1_1_0.md:531` describes the start as
    synchronous with the user's expansion.
11. `MCStatusDock_button_press.cfg`.  The dock's passive effect reports the
    handle's latch alone (`vault-status-dock.tsx:321`).  With the documented
    wiring it overwrites the signal of a long press of the *button* whenever the
    application renders before the ceremony, which then goes ahead as a plain
    one (`docs/INTEGRATING_EMERGENCY_DURESS_MODE.md:332`).

Met while modelling, without a run of their own, as no line of the repository says
otherwise:

12. Linking a passkey from the demo's settings page always fails after the
    credential has been registered: the session key cannot be exported and no
    inner blob is given (`vault-demo-security.ts:138`).
13. A failed enrollment clears the cache of inner key material whoever filled it
    meanwhile (`envelopes/passkey-prf.ts:135`).
14. With the two-second delay of emergency mode, options that become ready after
    it never start a ceremony; an attempt started by hand does not cancel the
    delayed one, which follows it.  A dock open under `emergency_unlocked` is not
    closed when it locks, as the effect names `unlocked` alone.
15. A session-change listener that throws lets `unlockVaultSession` reject with the
    key installed (`auto-lock.ts:142`), and the application's `onEmergencyEntered`
    is then not called.

## 6. What is not modelled

- WebCrypto, Argon2id, encodings and zod schemas: calls of external libraries and
  checks of shape.  That a wrong secret does not unwrap is `None` in `Envelopes`.
- Wording, HTTP bodies, rendering, layout.
- `vault-lock-cleanup.ts` beyond what section 2 says of it.
- The admin configuration (`src/admin/`): a pure resolution of settings.  Around
  it there is some concurrency that a model could show and none does yet: the
  API loads overrides and configuration apart (`api/vault/admin/config/route.ts:52`),
  the page's saves overlap, and the demo's limiters are built once from the
  environment and never see an override.
- `VaultUnlockPanel`, the protected gate and the admin pages: rendering over the
  modelled state.
- In the modelled parts: several tabs of the demo, authorization of a passkey
  variant by recovery phrase (the path of the password), `resolveInnerVaultKeyBlobForWrap`
  (the path of `Rewrap`), the password form of the quick unlock, failing browser
  storage, limits on stored passkey metadata.

## 7. Plan

The components that carry the library's own logic have their modules, and every
safety property of the passing runs is proved, most of `DemoVault`'s for `Orderly`
executions.  What the plan has left:

| Module | Theorems |
|---|---|
| `DemoVault` | `Orderly` call by call: which of its conjuncts each property can do without, and that operations of the settings page alone keep it |
| `PasskeyOptions` | lemmas on the operators by themselves: the credentials a ceremony allows |
| `RateLimit` | two limiters at once, if the API's and the unlock's ever share a table |

and, should a further disagreement be worth a run, the admin configuration and a
second tab of the demo.
