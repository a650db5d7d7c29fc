\* An account whose decoy has no passkey envelope.
CONSTANTS
  NoOwner = NoOwner
  Owners = {o1}
  Flows = {f1}
  DecoyRecord <- PasswordOnlyDecoys
  CallKinds = {"route"}
  ListenerThrows = {FALSE}
  MaxEpoch = 3
SPECIFICATION Spec
INVARIANT DecoySessionHoldsDecoyKey
