\* Two overlapping unlocks of one account.
CONSTANTS
  NoOwner = NoOwner
  Owners = {o1}
  Flows = {f1, f2}
  DecoyRecord <- FullDecoys
  CallKinds = {"route"}
  ListenerThrows = {FALSE}
  MaxEpoch = 3
SPECIFICATION Spec
PROPERTY PrimaryNotInstalledInEmergency
