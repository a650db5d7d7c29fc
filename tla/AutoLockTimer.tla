---------------------------- MODULE AutoLockTimer ----------------------------
(***************************************************************************)
(* The inactivity timer of an open session, the configuration it is armed  *)
(* from, and the React hook that applies a user's preference to it.  The   *)
(* session itself (who owns it, what it holds) is VaultSession's; here it  *)
(* is open or not.                                                         *)
(*                                                                         *)
(* Time is relative and counted in minutes: left until the armed timeout   *)
(* is due, idle since the last activity.  A lease is told apart only as    *)
(* the current one or a stale one.                                         *)
(***************************************************************************)
EXTENDS Naturals

CONSTANTS
  AdminMinutes,  \* ceilings the administrator may set
  UserMinutes,   \* values a user may ask for or storage may hold
  AppConfigs,    \* what the application itself passes to configureVaultSession
  Default,       \* DEFAULT_VAULT_AUTO_LOCK_MINUTES
  Longest        \* MAX_VAULT_AUTO_LOCK_MINUTES

Unset == 0       \* undefined, null, not finite or not positive

ASSUME MinutesAssumption ==
  /\ Longest \in Nat /\ Default \in 1..Longest
  /\ AdminMinutes \subseteq 1..Longest
  /\ UserMinutes \subseteq Nat \ {0}
  /\ AppConfigs \subseteq [fixed : Nat, resolved : Nat]

VARIABLES
  open,        \* isVaultUnlocked()
  manual,      \* manuallyLocked
  armed,       \* inactivityTimer # null
  left,        \* until it is due
  armedFor,    \* history: the minutes it was armed with
  idle,        \* since lastActivityAt, up to Longest
  active,      \* lastActivityAt # 0
  suppressed,  \* Date.now() < activitySuppressedUntil
  config,      \* sessionConfig, and whether the hook wrote it
  stored,      \* the preference in localStorage
  hook         \* the mounted preference hook

clock == <<armed, left, armedFor, idle, active>>
vars == <<open, manual, clock, suppressed, config, stored, hook>>

Configs == [fixed : Nat, resolved : Nat, byHook : BOOLEAN]

(* The lease a component was rendered with: omitted by applications that   *)
(* never name an owner, null while locked.                                 *)
LeaseProps == {"omitted", "null", "current", "stale"}

Hooks == [admin : AdminMinutes, user : UserMinutes \cup {Unset} \cup 1..Longest,
          lease : LeaseProps, ready : BOOLEAN, pending : BOOLEAN]

TypeOK ==
  /\ open \in BOOLEAN /\ manual \in BOOLEAN /\ suppressed \in BOOLEAN
  /\ armed \in BOOLEAN /\ active \in BOOLEAN
  /\ left \in 0..Longest /\ armedFor \in 0..Longest /\ idle \in 0..Longest
  /\ config \in Configs
  /\ stored \in UserMinutes \cup 1..Longest \cup {Unset}
  /\ hook \in Hooks

Init ==
  /\ open = FALSE /\ manual = FALSE /\ suppressed = FALSE
  /\ armed = FALSE /\ left = 0 /\ armedFor = 0 /\ idle = 0 /\ active = FALSE
  /\ config = [fixed |-> Unset, resolved |-> Unset, byHook |-> FALSE]
  /\ stored \in UserMinutes \cup {Unset}
  /\ hook \in [admin : AdminMinutes, user : UserMinutes \cup {Unset},
               lease : {"omitted", "null"}, ready : BOOLEAN, pending : {TRUE}]
  /\ ~hook.ready => hook.user = Unset

-----------------------------------------------------------------------------
(* Minutes.                                                                *)

Larger(x, y) == IF x > y THEN x ELSE y
Smaller(x, y) == IF x < y THEN x ELSE y

Clamp(m, max) == Smaller(Larger(m, 1), Larger(1, max))

OrElse(x, y) == IF x # Unset THEN x ELSE y

(* Mutation: configured minutes are not held to the ceilings.              *)
AutoLockMinutesUncapped(c) == OrElse(OrElse(c.resolved, c.fixed), Default)

(* getVaultAutoLockMinutes.                                                *)
AutoLockMinutes(c) ==
  LET ceiling == Clamp(OrElse(c.fixed, Default), Longest)
  IN  Clamp(OrElse(OrElse(c.resolved, c.fixed), Default), ceiling)

(* resolveVaultAutoLockMinutesPreference: what the hook's component shows. *)
Shown == Clamp(OrElse(hook.user, hook.admin), hook.admin)

(* getVaultAutoLockRemainingMs, while it is not null.                      *)
HasCountdown == open /\ ~manual /\ active
Countdown ==
  IF AutoLockMinutes(config) > idle THEN AutoLockMinutes(config) - idle ELSE 0

-----------------------------------------------------------------------------
(* The session.                                                            *)

LeaseAllowed == hook.lease \in {"omitted", "current"}

(* Whatever lease a component holds, a lock or a new key makes it stale.   *)
Outdated(h) == IF h.lease = "current" THEN [h EXCEPT !.lease = "stale"] ELSE h

(* Mutation: the armed timeout keeps its old due time.                     *)
RearmKeepsDue(c) ==
  /\ armed' = TRUE
  /\ left' = IF armed THEN left ELSE AutoLockMinutes(c)
  /\ armedFor' = IF armed THEN armedFor ELSE AutoLockMinutes(c)
  /\ idle' = 0 /\ active' = TRUE

Rearm(c) ==
  /\ armed' = TRUE
  /\ left' = AutoLockMinutes(c)
  /\ armedFor' = AutoLockMinutes(c)
  /\ idle' = 0 /\ active' = TRUE

(* clearVaultAutoLockTimer.                                                *)
Disarm == armed' = FALSE /\ left' = 0 /\ armedFor' = 0

Install ==
  /\ open' = TRUE
  /\ manual' = FALSE
  /\ Rearm(config)
  /\ hook' = Outdated(hook)
  /\ UNCHANGED <<suppressed, config, stored>>

LockSession ==
  /\ open' = FALSE
  /\ manual' = TRUE
  /\ Disarm
  /\ idle' = 0 /\ active' = FALSE
  /\ hook' = Outdated(hook)
  /\ UNCHANGED <<suppressed, config, stored>>

(* By hand, on pagehide, on a change of owner.                             *)
Lock == LockSession

AutoLock == armed /\ left = 0 /\ LockSession

(* touchVaultSession with the lease of the component that calls it.        *)
Touch ==
  /\ open /\ ~manual
  /\ LeaseAllowed
  /\ Rearm(config)
  /\ UNCHANGED <<open, manual, suppressed, config, stored, hook>>

Activity == ~suppressed /\ Touch

Suppress ==
  /\ suppressed' = TRUE
  /\ UNCHANGED <<open, manual, clock, config, stored, hook>>

SuppressionEnds ==
  /\ suppressed /\ suppressed' = FALSE
  /\ UNCHANGED <<open, manual, clock, config, stored, hook>>

ClearTimer ==
  /\ Disarm
  /\ UNCHANGED <<open, manual, idle, active, suppressed, config, stored, hook>>

ResetLockState ==
  /\ manual' = FALSE
  /\ Disarm
  /\ idle' = 0 /\ active' = FALSE
  /\ UNCHANGED <<open, suppressed, config, stored, hook>>

(* Mutation: configuring the session arms its timer again.                 *)
ConfigureRearms(c) ==
  /\ config' = [fixed |-> c.fixed, resolved |-> c.resolved, byHook |-> FALSE]
  /\ IF open /\ ~manual THEN Rearm(config') ELSE UNCHANGED clock
  /\ UNCHANGED <<open, manual, suppressed, stored, hook>>

(* configureVaultSession, by the application or a session provider: it     *)
(* does not arm the timer again.                                           *)
Configure(c) ==
  /\ config' = [fixed |-> c.fixed, resolved |-> c.resolved, byHook |-> FALSE]
  /\ UNCHANGED <<open, manual, clock, suppressed, stored, hook>>

Tick ==
  /\ armed \/ active
  /\ left' = IF left > 0 THEN left - 1 ELSE 0
  /\ idle' = IF active THEN Smaller(idle + 1, Longest) ELSE idle
  /\ UNCHANGED <<open, manual, armed, armedFor, active, suppressed, config, stored, hook>>

-----------------------------------------------------------------------------
(* The preference hook.  A change of its state or props is rendered, and   *)
(* its effect runs some time after.                                        *)

Rendered(h) == [h EXCEPT !.pending = hook.pending \/ h # hook]

OnlyHook == UNCHANGED <<open, manual, clock, suppressed, config>>

Hydrate ==
  /\ ~hook.ready
  /\ hook' = Rendered([hook EXCEPT !.ready = TRUE, !.user = stored])
  /\ OnlyHook /\ UNCHANGED stored

SetMinutes(m) ==
  /\ stored' = Clamp(m, hook.admin)
  /\ hook' = Rendered([hook EXCEPT !.user = stored'])
  /\ OnlyHook

ResetToAdminDefault ==
  /\ stored' = Unset
  /\ hook' = Rendered([hook EXCEPT !.user = Unset])
  /\ OnlyHook

(* The application renders it with the administrator's value and with the  *)
(* lease of the moment, or still with the one it had.                      *)
Render(admin) ==
  /\ \E lease \in {hook.lease, IF open THEN "current" ELSE "null"} :
       /\ hook.lease = "omitted" => lease = "omitted"
       /\ hook' = Rendered([hook EXCEPT !.admin = admin, !.lease = lease])
  /\ OnlyHook /\ UNCHANGED stored

(* Mutation: the administrator's value is not passed on as the ceiling.    *)
HookConfigNoCeiling ==
  [fixed |-> Unset,
   resolved |-> Clamp(OrElse(hook.user, hook.admin), hook.admin),
   byHook |-> TRUE]

HookConfig ==
  [fixed |-> hook.admin,
   resolved |-> IF hook.user = Unset THEN Unset ELSE Clamp(hook.user, hook.admin),
   byHook |-> TRUE]

(* A hook without a lease has nothing to say about an open session.        *)
EffectApplies ==
  hook.lease = "omitted" \/ hook.lease = "current" \/ (hook.lease = "null" /\ ~open)

(* Mutation: the preference waits for the next activity.                   *)
RunEffectLazily ==
  /\ hook.pending
  /\ hook' = [hook EXCEPT !.pending = FALSE]
  /\ config' = IF EffectApplies THEN HookConfig ELSE config
  /\ UNCHANGED <<open, manual, clock, suppressed, stored>>

(* applySessionAutoLock.                                                   *)
RunEffect ==
  /\ hook.pending
  /\ hook' = [hook EXCEPT !.pending = FALSE]
  /\ config' = IF EffectApplies THEN HookConfig ELSE config
  /\ IF EffectApplies /\ open /\ ~manual
     THEN Rearm(config') ELSE UNCHANGED clock
  /\ UNCHANGED <<open, manual, suppressed, stored>>

-----------------------------------------------------------------------------
Next ==
  \/ Install \/ Lock \/ AutoLock
  \/ Touch \/ Activity \/ Suppress \/ SuppressionEnds
  \/ ClearTimer \/ ResetLockState
  \/ \E c \in AppConfigs : Configure(c)
  \/ Tick
  \/ Hydrate
  \/ \E m \in UserMinutes : SetMinutes(m)
  \/ ResetToAdminDefault
  \/ \E admin \in AdminMinutes : Render(admin)
  \/ RunEffect

(* The clock runs, and the event loop gets round to a due timeout and to   *)
(* the effect of what was rendered.                                        *)
Fairness == WF_vars(Tick) /\ WF_vars(AutoLock) /\ WF_vars(RunEffect)

Spec == Init /\ [][Next]_vars /\ Fairness

-----------------------------------------------------------------------------
(* Properties.                                                             *)

(* Timer and last activity are one clock: whatever arms, disarms, resets   *)
(* or locks, a timeout is due exactly when the session has been idle for   *)
(* the minutes it was armed with, at most Longest, and only an open        *)
(* session has one (scheduleVaultAutoLockInternal, lockVaultSession).      *)
TimerIsIdleClock ==
  armed => /\ open /\ ~manual /\ active
           /\ armedFor \in 1..Longest
           /\ left = IF armedFor > idle THEN armedFor - idle ELSE 0

(* Once the hook's effect has run for the current session, and nobody else *)
(* has configured it since, the session locks after the minutes the hook   *)
(* shows, though hook and session compute them separately                  *)
(* (resolveVaultAutoLockMinutesPreference, getVaultAutoLockMinutes).       *)
PreferenceInForce ==
  ~hook.pending /\ config.byHook /\ armed /\ LeaseAllowed => armedFor = Shown

(* Left alone, a session locks itself: when no new key, touch or effective *)
(* preference renews it any more, its timer does not stay armed for ever,  *)
(* whatever the application configures, renders or suppresses meanwhile.   *)
Renews == Install \/ Touch \/ (RunEffect /\ EffectApplies)

LeftAloneLocks == <>[][~Renews]_vars => []<>~armed

(* What was chosen is applied: a preference chosen for the current session *)
(* comes into force, unless that session ends first.                       *)
PreferenceApplied ==
  (hook.pending /\ hook.lease = "current")
    ~> (hook.lease # "current" \/ (config.byHook /\ armedFor = Shown))

-----------------------------------------------------------------------------
(* use-vault-auto-lock-countdown.ts shows a live countdown until the       *)
(* automatic lock.  It is computed from the configuration of the moment,   *)
(* the timeout was armed from that of the last activity.                   *)
CountdownIsTimer == armed /\ HasCountdown => Countdown = left

=============================================================================
