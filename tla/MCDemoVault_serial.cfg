\* One operation awaited at a time, as a user waits for each; locks, reloads and
\* page changes at any time. Three keys: the vault, a decoy, and another of either.
CONSTANTS
  None = None
  Keys = {k1, k2, k3}
  Phrases = {f1, f2, f3}
  Passwords = {p, d}
  DuressPasswords = {d}
  Prf = prf
  Calls = {c1}
  OlderContexts <- MCOlderContexts
  SlowAes = FALSE
  MaxNotes = 1
SPECIFICATION Spec
SYMMETRY Symmetry
INVARIANTS TypeOK BlobsOpen PrimaryHidden EmergencyKept
PROPERTIES DecoySessionChangesNothing TwoVaultsKeptApart
