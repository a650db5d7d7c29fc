\* Two operations awaited at once, on an existing vault: the second is started
\* on another page while the first derives its key.
CONSTANTS
  None = None
  Keys = {k1, k2}
  Phrases = {f1, f2}
  Passwords = {p, d}
  DuressPasswords = {d}
  Prf = prf
  Calls = {c1, c2}
  OlderContexts <- MCOlderContexts
  SlowAes = TRUE
  MaxNotes = 1
SPECIFICATION Spec
SYMMETRY Symmetry
PROPERTY PayloadKept
