\* The application configures the session again while it is open.
CONSTANTS
  AdminMinutes = {2}
  UserMinutes = {1}
  AppConfigs <- Providers
  Default = 1
  Longest = 3
SPECIFICATION Spec
INVARIANT CountdownIsTimer
