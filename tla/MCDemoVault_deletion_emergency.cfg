\* One awaited operation; the vault is deleted from a decoy session.
CONSTANTS
  None = None
  Keys = {k1, k2}
  Phrases = {f1, f2}
  Passwords = {p, d}
  DuressPasswords = {d}
  Prf = prf
  Calls = {c1}
  OlderContexts <- MCOlderContexts
  SlowAes = FALSE
  MaxNotes = 0
SPECIFICATION Spec
SYMMETRY Symmetry
INVARIANT DeletionUnconfigures
