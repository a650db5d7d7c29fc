\* The user may ask for more than the ceiling; the application may
\* reconfigure the session with minutes above and below what is armed.
CONSTANTS
  AdminMinutes = {1, 2}
  UserMinutes = {1, 4}
  AppConfigs <- Providers
  Default = 1
  Longest = 3
SPECIFICATION Spec
INVARIANTS TypeOK TimerIsIdleClock PreferenceInForce
PROPERTIES LeftAloneLocks PreferenceApplied
