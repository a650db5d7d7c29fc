\* A save awaited while the emergency it was begun in is exited on another page.
CONSTANTS
  None = None
  Keys = {k1, k2}
  Phrases = {f1, f2}
  Passwords = {d}
  DuressPasswords = {d}
  Prf = prf
  Calls = {c1, c2}
  OlderContexts <- MCOlderContexts
  SlowAes = FALSE
  MaxNotes = 1
SPECIFICATION Spec
SYMMETRY Symmetry
PROPERTY HoneySavedToDecoy
