------------------------------ MODULE TwoVaults ------------------------------
(***************************************************************************)
(* What the demo promises its user: a vault and, once there is a decoy, a  *)
(* second one of honey. An emergency, raised by an unlock and ended by a   *)
(* recovery phrase, decides which of the two the tab shows and edits; it   *)
(* outlives reloads, and while it lasts the other one stays as it is.      *)
(* Keys, envelopes, sessions, pages and awaited calls do not appear here.  *)
(***************************************************************************)
CONSTANTS Real, Honey, None \* the contents of each vault; no content

VARIABLES
  on,     \* is the emergency feature offered
  raised, \* is an emergency stored
  real,   \* what the vault contains, or None when there is none
  honey,  \* what the decoy contains, or None when there is none
  screen  \* what is shown, or None

vars == <<on, raised, real, honey, screen>>

Emergency == on /\ raised
Own == IF Emergency THEN Honey ELSE Real
Stored == IF Emergency THEN honey ELSE real

Init ==
  /\ on \in BOOLEAN /\ raised = FALSE
  /\ real \in Real \cup {None} /\ honey = None
  /\ screen = None

Create ==
  /\ real = None
  /\ real' \in Real
  /\ UNCHANGED <<on, raised, honey, screen>>

(* Also for the decoy there is, which is lost then.                        *)
Enroll ==
  /\ on /\ real # None
  /\ honey' \in Honey
  /\ UNCHANGED <<on, raised, real, screen>>

(* What is shown may be older than what is stored, never of the other      *)
(* vault.                                                                  *)
Show ==
  /\ Stored # None
  /\ screen' \in Own
  /\ UNCHANGED <<on, raised, real, honey>>

Hide == screen' = None /\ UNCHANGED <<on, raised, real, honey>>

Edit(c) ==
  /\ Stored # None /\ c \in Own
  /\ IF Emergency THEN honey' = c /\ real' = real ELSE real' = c /\ honey' = honey
  /\ screen' \in {screen, c}
  /\ UNCHANGED <<on, raised>>

(* Nothing is on the screen when the vaults are exchanged.                 *)
Raise ==
  /\ on /\ ~raised /\ honey # None
  /\ screen = None
  /\ raised' = TRUE
  /\ UNCHANGED <<on, real, honey, screen>>

End ==
  /\ Emergency /\ real # None
  /\ raised' = FALSE /\ screen' = None
  /\ UNCHANGED <<on, real, honey>>

(* Both go, and an emergency stays.                                        *)
Delete ==
  /\ real # None
  /\ real' = None /\ honey' = None /\ screen' = None
  /\ UNCHANGED <<on, raised>>

Restart(b) ==
  /\ on' = b /\ screen' = None
  /\ UNCHANGED <<raised, real, honey>>

Next ==
  \/ Create \/ Enroll \/ Show \/ Hide \/ Raise \/ End \/ Delete
  \/ \E c \in Real \cup Honey : Edit(c)
  \/ \E b \in BOOLEAN : Restart(b)

Spec == Init /\ [][Next]_vars
=============================================================================
