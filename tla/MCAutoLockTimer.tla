--------------------------- MODULE MCAutoLockTimer ---------------------------
(* Instances of AutoLockTimer for TLC.                                     *)
EXTENDS AutoLockTimer

Fixed(m) == [fixed |-> m, resolved |-> Unset]
Providers == {Fixed(5), [fixed |-> Unset, resolved |-> 3]}
=============================================================================
