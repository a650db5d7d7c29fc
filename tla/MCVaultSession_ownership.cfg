\* Two accounts, two calls in flight, every call the library offers.
CONSTANTS
  NoOwner = NoOwner
  Owners = {o1, o2}
  Flows = {f1, f2}
  DecoyRecord <- FullDecoys
  CallKinds = {"route", "unlock", "cache", "exit", "delete", "pin", "clearPin", "disarm"}
  ListenerThrows = {FALSE, TRUE}
  MaxEpoch = 4
SPECIFICATION Spec
SYMMETRY Symmetry
INVARIANTS SessionInv OwnerIsolation LeaseDescribesSession LockedHoldsNothing
PROPERTIES LeaseChanges LockRevokesTokens EmergencyIsLatched InstallArmsTimer ImplementsAccountSession
