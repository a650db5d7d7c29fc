---------------------------- MODULE MCStatusDock ----------------------------
(* StatusDock for TLC: the module has no constants, its state is finite.   *)
EXTENDS StatusDock
=============================================================================
