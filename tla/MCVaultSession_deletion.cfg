\* A deletion overtaken by a newer operation of the same account.
CONSTANTS
  NoOwner = NoOwner
  Owners = {o1}
  Flows = {f1, f2}
  DecoyRecord <- FullDecoys
  CallKinds = {"unlock", "delete"}
  ListenerThrows = {FALSE}
  MaxEpoch = 3
SPECIFICATION Spec
PROPERTY DeletionEndsLocked
