\* One awaited operation; the vault page's own decryption may end after a lock.
CONSTANTS
  None = None
  Keys = {k1}
  Phrases = {f1}
  Passwords = {p, d}
  DuressPasswords = {d}
  Prf = prf
  Calls = {c1}
  OlderContexts <- MCOlderContexts
  SlowAes = TRUE
  MaxNotes = 0
SPECIFICATION Spec
SYMMETRY Symmetry
INVARIANT LockedPageIsEmpty
