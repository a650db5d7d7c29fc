--------------------------- MODULE MCPasskeyVault ---------------------------
(* Instances of PasskeyVault for TLC.                                      *)
EXTENDS PasskeyVault, TLC

Capable == [credentials |-> TRUE, extensionResults |-> TRUE, appleMobile |-> FALSE, outdated |-> FALSE]

\* A desktop, and a phone too old for PRF.
MCBrowsers == {Capable, [Capable EXCEPT !.appleMobile = TRUE, !.outdated = TRUE]}

Symmetry == Permutations(Accounts) \cup Permutations(Credentials)
              \cup Permutations(Devices) \cup Permutations(Flows) \cup Permutations(Buffers)
=============================================================================
