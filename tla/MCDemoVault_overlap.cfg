CONSTANTS
  None = None
  Keys = {k1, k2}
  Phrases = {f1, f2}
  Passwords = {d}
  DuressPasswords = {d}
  Prf = prf
  Calls = {c1, c2}
  OlderContexts <- OneOlderContext
  SlowAes = TRUE
  MaxNotes = 1
SPECIFICATION OrderlySpec
SYMMETRY OverlapSymmetry
INVARIANT VaultsApart
