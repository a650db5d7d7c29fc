------------------------- MODULE AutoLockTimerProofs -------------------------
(***************************************************************************)
(* Theorems about the inactivity timer and the preference hook, for all    *)
(* minutes, limits and configurations.  That a session left alone locks is *)
(* left to TLC.                                                            *)
(***************************************************************************)
EXTENDS AutoLockTimer, TLAPS

-----------------------------------------------------------------------------
(* Clamping lands between one and the ceiling (clampVaultAutoLockMinutes). *)
LEMMA ClampRange ==
  ASSUME NEW m \in Nat, NEW max \in Nat \ {0}
  PROVE  Clamp(m, max) \in 1..max
BY DEF Clamp, Smaller, Larger

(* Clamping keeps what is within the ceiling already.                      *)
LEMMA ClampIdempotent ==
  ASSUME NEW max \in Nat \ {0}, NEW m \in 1..max
  PROVE  Clamp(m, max) = m
BY DEF Clamp, Smaller, Larger

(* Whatever is configured, the session's minutes are within the package's  *)
(* limits (getVaultAutoLockMinutes).                                       *)
LEMMA MinutesRange ==
  ASSUME NEW c \in Configs
  PROVE  AutoLockMinutes(c) \in 1..Longest
<1> DEFINE ceiling == Clamp(OrElse(c.fixed, Default), Longest)
           minutes == OrElse(OrElse(c.resolved, c.fixed), Default)
<1>1. Longest \in Nat \ {0} /\ Default \in Nat
  BY MinutesAssumption
<1>2. c.fixed \in Nat /\ c.resolved \in Nat
  BY DEF Configs
<1>3. OrElse(c.fixed, Default) \in Nat /\ minutes \in Nat
  BY <1>1, <1>2 DEF OrElse
<1>4. ceiling \in 1..Longest
  BY <1>1, <1>3, ClampRange
<1>5. AutoLockMinutes(c) = Clamp(minutes, ceiling)
  BY DEF AutoLockMinutes
<1> HIDE DEF ceiling, minutes
<1>6. Clamp(minutes, ceiling) \in 1..ceiling
  BY <1>1, <1>3, <1>4, ClampRange
<1> QED BY <1>1, <1>4, <1>5, <1>6

(* The session resolves the hook's configuration to the minutes the hook   *)
(* shows: two functions of the code agree on it.                           *)
LEMMA HookConfigShown ==
  ASSUME TypeOK
  PROVE  HookConfig \in Configs /\ AutoLockMinutes(HookConfig) = Shown
<1>1. /\ hook.admin \in 1..Longest /\ hook.user \in Nat
      /\ Longest \in Nat \ {0} /\ Default \in 1..Longest
  <2>1. hook.admin \in AdminMinutes /\ hook.user \in UserMinutes \cup {Unset} \cup 1..Longest
    BY DEF TypeOK, Hooks
  <2>2. AdminMinutes \subseteq 1..Longest /\ UserMinutes \subseteq Nat
        /\ Longest \in Nat \ {0} /\ Default \in 1..Longest
    BY MinutesAssumption
  <2>3. 1..Longest \subseteq Nat
    OBVIOUS
  <2>4. hook.user \in UserMinutes \/ hook.user = 0 \/ hook.user \in 1..Longest
    BY <2>1 DEF Unset
  <2>5. hook.user \in Nat
    <3>1. CASE hook.user \in UserMinutes
      BY <2>2, <3>1, Zenon
    <3>2. CASE hook.user = 0
      BY <3>2
    <3>3. CASE hook.user \in 1..Longest
      BY <2>3, <3>3, Zenon
    <3> QED BY <2>4, <3>1, <3>2, <3>3
  <2> QED BY <2>1, <2>2, <2>5
<1>2. Clamp(hook.admin, Longest) = hook.admin
  BY <1>1, ClampIdempotent
<1>3. Clamp(hook.admin, hook.admin) = hook.admin
  BY <1>1, ClampIdempotent
<1>4. Clamp(hook.user, hook.admin) \in 1..hook.admin
  BY <1>1, ClampRange
<1>5. Clamp(Clamp(hook.user, hook.admin), hook.admin) = Clamp(hook.user, hook.admin)
  BY <1>1, <1>4, ClampIdempotent
<1>6. HookConfig \in Configs
  BY <1>1, <1>4 DEF HookConfig, Configs, Unset
<1>7. OrElse(HookConfig.fixed, Default) = hook.admin
  BY <1>1 DEF HookConfig, OrElse, Unset
<1>8. CASE hook.user = Unset
  <2>1. OrElse(OrElse(HookConfig.resolved, HookConfig.fixed), Default) = hook.admin
    BY <1>1, <1>8 DEF HookConfig, OrElse, Unset
  <2>2. AutoLockMinutes(HookConfig) = hook.admin
    BY <1>2, <1>3, <1>7, <2>1 DEF AutoLockMinutes
  <2> QED BY <1>3, <1>6, <1>8, <2>2 DEF Shown, OrElse
<1>9. CASE hook.user # Unset
  <2>1. OrElse(OrElse(HookConfig.resolved, HookConfig.fixed), Default)
          = Clamp(hook.user, hook.admin)
    BY <1>1, <1>4, <1>9 DEF HookConfig, OrElse, Unset
  <2>2. AutoLockMinutes(HookConfig) = Clamp(hook.user, hook.admin)
    BY <1>2, <1>5, <1>7, <2>1 DEF AutoLockMinutes
  <2> QED BY <1>6, <1>9, <2>2 DEF Shown, OrElse
<1> QED BY <1>8, <1>9

-----------------------------------------------------------------------------
(* What a lock or a new key does to the hook's lease.                      *)
LEMMA OutdatedType ==
  ASSUME NEW h \in Hooks
  PROVE  /\ Outdated(h) \in Hooks
         /\ Outdated(h).admin = h.admin /\ Outdated(h).user = h.user
         /\ Outdated(h).pending = h.pending
         /\ h.lease = "omitted" => Outdated(h) = h
         /\ h.lease # "omitted" => Outdated(h).lease \in {"null", "stale"}
BY DEF Outdated, Hooks, LeaseProps

(* The steps that only set the hook's state or props render it again.      *)
HookSteps ==
  \/ Hydrate
  \/ \E m \in UserMinutes : SetMinutes(m)
  \/ ResetToAdminDefault
  \/ \E admin \in AdminMinutes : Render(admin)

LEMMA HookStepsType ==
  ASSUME TypeOK, HookSteps
  PROVE  /\ hook' \in Hooks /\ stored' \in UserMinutes \cup 1..Longest \cup {Unset}
         /\ hook'.pending \/ hook' = hook
         /\ UNCHANGED <<open, manual, clock, suppressed, config>>
<1> USE DEF OnlyHook
<1>0. hook \in Hooks /\ stored \in UserMinutes \cup 1..Longest \cup {Unset}
  BY DEF TypeOK
<1>1. ASSUME NEW h \in Hooks
      PROVE  /\ Rendered(h) \in Hooks
             /\ Rendered(h).pending \/ Rendered(h) = hook
  BY <1>0 DEF Rendered, Hooks
<1>2. CASE Hydrate
  <2>1. [hook EXCEPT !.ready = TRUE, !.user = stored] \in Hooks
    BY <1>0 DEF Hooks
  <2> QED BY <1>0, <1>1, <1>2, <2>1 DEF Hydrate
<1>3. ASSUME NEW m \in UserMinutes, SetMinutes(m)
      PROVE  /\ hook' \in Hooks /\ stored' \in 1..Longest
             /\ hook'.pending \/ hook' = hook
             /\ UNCHANGED <<open, manual, clock, suppressed, config>>
  <2>1. stored' \in 1..Longest
    <3>1. hook.admin \in 1..Longest /\ m \in Nat /\ Longest \in Nat
      BY <1>0, MinutesAssumption DEF Hooks
    <3>2. Clamp(m, hook.admin) \in 1..hook.admin
      BY <3>1, ClampRange
    <3> QED BY <1>3, <3>1, <3>2 DEF SetMinutes
  <2>2. [hook EXCEPT !.user = stored'] \in Hooks
    BY <1>0, <2>1 DEF Hooks
  <2> QED BY <1>1, <1>3, <2>1, <2>2 DEF SetMinutes
<1>4. CASE ResetToAdminDefault
  <2>1. [hook EXCEPT !.user = Unset] \in Hooks
    BY <1>0 DEF Hooks
  <2> QED BY <1>1, <1>4, <2>1 DEF ResetToAdminDefault
<1>5. ASSUME NEW admin \in AdminMinutes, Render(admin)
      PROVE  /\ hook' \in Hooks /\ stored' = stored
             /\ hook'.pending \/ hook' = hook
             /\ UNCHANGED <<open, manual, clock, suppressed, config>>
  <2>1. PICK lease \in {hook.lease, IF open THEN "current" ELSE "null"} :
          hook' = Rendered([hook EXCEPT !.admin = admin, !.lease = lease])
    BY <1>5 DEF Render
  <2>2. [hook EXCEPT !.admin = admin, !.lease = lease] \in Hooks
    BY <1>0 DEF Hooks, LeaseProps
  <2> QED BY <1>1, <1>5, <2>1, <2>2 DEF Render
<1> QED BY <1>0, <1>2, <1>3, <1>4, <1>5 DEF HookSteps

-----------------------------------------------------------------------------
(* The hook's effect has run and nobody has configured the session since:  *)
(* the configuration is still the hook's, and the timer is armed from it.  *)
HookSettled ==
  ~hook.pending /\ config.byHook /\ LeaseAllowed
    => config = HookConfig /\ (armed => armedFor = AutoLockMinutes(config))

TimerInv == TypeOK /\ TimerIsIdleClock /\ HookSettled

(* Every step of the timer keeps its type, its agreement with the idle     *)
(* time and what is known of a settled hook.                               *)
LEMMA TimerInvStep ==
  ASSUME TimerInv, [Next]_vars
  PROVE  TimerInv'
<1> USE DEF TimerInv
<1>0. /\ hook \in Hooks /\ config \in Configs
      /\ Longest \in Nat
      /\ left \in Nat /\ armedFor \in Nat /\ idle \in Nat
      /\ 0 \in 0..Longest
  BY MinutesAssumption DEF TypeOK
<1>1. CASE Install
  <2>1. open' = TRUE /\ manual' = FALSE /\ hook' = Outdated(hook)
        /\ UNCHANGED <<suppressed, config, stored>>
    BY <1>1 DEF Install
  <2>5. armed' = TRUE /\ active' = TRUE /\ idle' = 0
        /\ armedFor' = AutoLockMinutes(config)
        /\ armedFor' \in 0..Longest /\ armedFor' \in 1..Longest /\ left' = armedFor'
    BY <1>0, <1>1, MinutesRange DEF Install, Rearm
  <2>6. hook' \in Hooks
    BY <1>0, <2>1, OutdatedType
  <2>2. TypeOK'
    BY <1>0, <2>1, <2>5, <2>6 DEF TypeOK
  <2>3. TimerIsIdleClock'
    BY <1>0, <2>1, <2>5 DEF TimerIsIdleClock
  <2>4. HookSettled'
    <3>1. LeaseAllowed' => hook' = hook
      BY <1>0, <2>1, OutdatedType DEF LeaseAllowed
    <3> QED BY <1>0, <2>1, <3>1, <2>5 DEF HookSettled, HookConfig, LeaseAllowed
  <2> QED BY <2>2, <2>3, <2>4
<1>2. CASE LockSession
  <2>1. /\ open' = FALSE /\ manual' = TRUE /\ armed' = FALSE /\ active' = FALSE
        /\ left' = 0 /\ armedFor' = 0 /\ idle' = 0 /\ hook' = Outdated(hook)
        /\ UNCHANGED <<suppressed, config, stored>>
    BY <1>2 DEF LockSession, Disarm
  <2>6. hook' \in Hooks
    BY <1>0, <2>1, OutdatedType
  <2>2. TypeOK'
    BY <1>0, <2>1, <2>6 DEF TypeOK
  <2>3. TimerIsIdleClock'
    BY <2>1 DEF TimerIsIdleClock
  <2>4. HookSettled'
    <3>1. LeaseAllowed' => hook' = hook
      BY <1>0, <2>1, OutdatedType DEF LeaseAllowed
    <3> QED BY <2>1, <3>1 DEF HookSettled, HookConfig, LeaseAllowed
  <2> QED BY <2>2, <2>3, <2>4
<1>3. CASE Touch
  <2>1. open' /\ ~manual' /\ UNCHANGED <<open, manual, suppressed, config, stored, hook>>
    BY <1>3 DEF Touch
  <2>5. armed' = TRUE /\ active' = TRUE /\ idle' = 0
        /\ armedFor' = AutoLockMinutes(config)
        /\ armedFor' \in 0..Longest /\ armedFor' \in 1..Longest /\ left' = armedFor'
    BY <1>0, <1>3, MinutesRange DEF Touch, Rearm
  <2>2. TypeOK'
    BY <1>0, <2>1, <2>5 DEF TypeOK
  <2>3. TimerIsIdleClock'
    BY <1>0, <2>1, <2>5 DEF TimerIsIdleClock
  <2>4. HookSettled'
    BY <1>0, <2>1, <2>5 DEF HookSettled, HookConfig, LeaseAllowed
  <2> QED BY <2>2, <2>3, <2>4
<1>4. CASE Suppress \/ SuppressionEnds
  <2>1. suppressed' \in BOOLEAN /\ UNCHANGED <<open, manual, clock, config, stored, hook>>
    BY <1>4 DEF Suppress, SuppressionEnds
  <2> QED BY <2>1 DEF clock, TypeOK, TimerIsIdleClock, HookSettled, HookConfig, LeaseAllowed
<1>5. CASE ClearTimer
  <2>1. /\ armed' = FALSE /\ left' = 0 /\ armedFor' = 0
        /\ UNCHANGED <<open, manual, idle, active, suppressed, config, stored, hook>>
    BY <1>5 DEF ClearTimer, Disarm
  <2>2. TypeOK'
    BY <1>0, <2>1 DEF TypeOK
  <2>3. TimerIsIdleClock'
    BY <2>1 DEF TimerIsIdleClock
  <2>4. HookSettled'
    BY <2>1 DEF HookSettled, HookConfig, LeaseAllowed
  <2> QED BY <2>2, <2>3, <2>4
<1>6. CASE ResetLockState
  <2>1. /\ manual' = FALSE /\ armed' = FALSE /\ left' = 0 /\ armedFor' = 0
        /\ idle' = 0 /\ active' = FALSE
        /\ UNCHANGED <<open, suppressed, config, stored, hook>>
    BY <1>6 DEF ResetLockState, Disarm
  <2>2. TypeOK'
    BY <1>0, <2>1 DEF TypeOK
  <2>3. TimerIsIdleClock'
    BY <2>1 DEF TimerIsIdleClock
  <2>4. HookSettled'
    BY <2>1 DEF HookSettled, HookConfig, LeaseAllowed
  <2> QED BY <2>2, <2>3, <2>4
<1>7. ASSUME NEW c \in AppConfigs, Configure(c) PROVE TimerInv'
  <2>1. config' \in Configs /\ ~config'.byHook
        /\ UNCHANGED <<open, manual, clock, suppressed, stored, hook>>
    BY <1>7, MinutesAssumption DEF Configure, Configs
  <2> QED BY <2>1 DEF clock, TypeOK, TimerIsIdleClock, HookSettled
<1>8. CASE Tick
  <2>1. /\ left' = IF left > 0 THEN left - 1 ELSE 0
        /\ idle' = IF active THEN Smaller(idle + 1, Longest) ELSE idle
        /\ UNCHANGED <<open, manual, armed, armedFor, active, suppressed, config, stored, hook>>
    BY <1>8 DEF Tick
  <2>2. TypeOK'
    BY <1>0, <2>1 DEF TypeOK, Smaller
  <2>3. TimerIsIdleClock'
    BY <1>0, <2>1 DEF TypeOK, TimerIsIdleClock, Smaller
  <2>4. HookSettled'
    BY <2>1 DEF HookSettled, HookConfig, LeaseAllowed
  <2> QED BY <2>2, <2>3, <2>4
<1>9. CASE HookSteps
  <2>1. /\ hook' \in Hooks /\ stored' \in UserMinutes \cup 1..Longest \cup {Unset}
        /\ hook'.pending \/ hook' = hook
        /\ UNCHANGED <<open, manual, clock, suppressed, config>>
    BY <1>9, HookStepsType
  <2> QED BY <2>1 DEF clock, TypeOK, TimerIsIdleClock, HookSettled, HookConfig, LeaseAllowed
<1>10. CASE RunEffect
  <2>1. /\ hook' = [hook EXCEPT !.pending = FALSE]
        /\ config' = IF EffectApplies THEN HookConfig ELSE config
        /\ IF EffectApplies /\ open /\ ~manual THEN Rearm(config') ELSE UNCHANGED clock
        /\ UNCHANGED <<open, manual, suppressed, stored>>
    BY <1>10 DEF RunEffect
  <2>2. hook' \in Hooks /\ config' \in Configs
    BY <1>0, <2>1, HookConfigShown DEF Hooks
  <2>3. TypeOK' /\ TimerIsIdleClock'
    <3>1. CASE EffectApplies /\ open /\ ~manual
      <4>1. Rearm(config')
        BY <2>1, <3>1
      <4>2. /\ armed' = TRUE /\ active' = TRUE /\ idle' = 0
            /\ armedFor' \in 1..Longest /\ left' = armedFor'
        BY <2>2, <4>1, MinutesRange DEF Rearm
      <4> QED BY <1>0, <2>1, <2>2, <3>1, <4>2 DEF TypeOK, TimerIsIdleClock
    <3>2. CASE ~(EffectApplies /\ open /\ ~manual)
      BY <2>1, <2>2, <3>2 DEF clock, TypeOK, TimerIsIdleClock
    <3> QED BY <3>1, <3>2
  <2>4. HookSettled'
    <3>1. SUFFICES ASSUME LeaseAllowed'
                   PROVE  config' = HookConfig' /\ (armed' => armedFor' = AutoLockMinutes(config'))
      BY DEF HookSettled
    <3>2. EffectApplies
      BY <1>0, <2>1, <3>1 DEF EffectApplies, LeaseAllowed, Hooks
    <3>3. config' = HookConfig /\ HookConfig' = HookConfig
      BY <1>0, <2>1, <3>2 DEF HookConfig, Hooks
    <3>4. armed' => armedFor' = AutoLockMinutes(config')
      BY <2>1, <3>2 DEF Rearm, clock, TimerIsIdleClock
    <3> QED BY <3>3, <3>4
  <2> QED BY <2>3, <2>4
<1>11. CASE UNCHANGED vars
  BY <1>11 DEF vars, clock, TypeOK, TimerIsIdleClock, HookSettled, HookConfig, LeaseAllowed
<1> QED BY <1>1, <1>2, <1>3, <1>4, <1>5, <1>6, <1>7, <1>8, <1>9, <1>10, <1>11
        DEF Next, Lock, AutoLock, Activity, HookSteps

LEMMA TimerInvInit == Init => TimerInv
<1> SUFFICES ASSUME Init PROVE TimerInv
  OBVIOUS
<1>1. hook \in Hooks
  BY DEF Init, Hooks, LeaseProps
<1>2. config \in Configs
  BY DEF Init, Configs, Unset
<1>3. TypeOK
  <2>1. 0 \in 0..Longest
    BY MinutesAssumption
  <2>2. stored \in UserMinutes \cup 1..Longest \cup {Unset}
    BY DEF Init
  <2> QED BY <1>1, <1>2, <2>1, <2>2 DEF Init, TypeOK
<1>4. TimerIsIdleClock /\ HookSettled
  BY DEF Init, TimerIsIdleClock, HookSettled
<1> QED BY <1>3, <1>4 DEF TimerInv

LEMMA TimerInvariant == Spec => []TimerInv
<1>1. TimerInv /\ [Next]_vars => TimerInv'
  BY TimerInvStep
<1> QED BY <1>1, TimerInvInit, PTL DEF Spec

(* Every variable of the timer keeps its type, its minutes within the      *)
(* package's limits (auto-lock.ts).                                        *)
THEOREM TimerTypeCorrect == Spec => []TypeOK
<1>1. TimerInv => TypeOK
  BY DEF TimerInv
<1> QED BY <1>1, TimerInvariant, PTL

(* A timeout is due exactly when the session has been idle for what it was *)
(* armed with, and only an open session has one.                           *)
THEOREM TimerFollowsIdleTime == Spec => []TimerIsIdleClock
<1>1. TimerInv => TimerIsIdleClock
  BY DEF TimerInv
<1> QED BY <1>1, TimerInvariant, PTL

(* A settled preference is in force: the timer is armed with the minutes   *)
(* the hook shows (useVaultAutoLockPreference).                            *)
THEOREM SettledPreferenceHolds == Spec => []PreferenceInForce
<1>1. TimerInv => PreferenceInForce
  BY HookConfigShown DEF TimerInv, HookSettled, PreferenceInForce
<1> QED BY <1>1, TimerInvariant, PTL

=============================================================================
