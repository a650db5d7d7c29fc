--------------------------- MODULE MCVaultSession ---------------------------
(* Instances of VaultSession for TLC.                                      *)
EXTENDS VaultSession, TLC

FullDecoys == [o \in Owners |-> "full"]
PasswordOnlyDecoys == [o \in Owners |-> "passwordOnly"]

Symmetry == Permutations(Owners) \cup Permutations(Flows)
=============================================================================
