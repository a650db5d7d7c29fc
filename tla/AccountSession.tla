--------------------------- MODULE AccountSession ---------------------------
(***************************************************************************)
(* What the browser session of vault-core promises an application: at most *)
(* one account's vault is open; an attempt to open or replace it counts    *)
(* only while it is the newest one; ending the session ends every attempt; *)
(* another account's attempt ends the session of the account before it.    *)
(* How calls interleave, what is cached and who is in emergency mode does  *)
(* not appear here.                                                        *)
(***************************************************************************)
EXTENDS Naturals

CONSTANTS Accounts, Nobody, Vaults

VARIABLES
  scoped,   \* has an account ever been named
  current,  \* the account named last, Nobody after a logout
  issued,   \* how many attempts have been issued or ended
  attempt,  \* the attempt that counts, 0 when there is none
  session   \* the open vault: its account, which vault, the attempt it is due to

vars == <<scoped, current, issued, attempt, session>>

Closed == [account |-> Nobody, vault |-> "none", attempt |-> 0]

Init ==
  /\ scoped = FALSE
  /\ current = Nobody
  /\ issued = 0
  /\ attempt = 0
  /\ session = Closed

(* A new attempt of account a; ending the session before it counts too.    *)
Begin(a) ==
  /\ scoped' = TRUE
  /\ current' = a
  /\ issued' \in {issued + 1, issued + 2}
  /\ attempt' = issued'
  /\ session' = IF current = a THEN session ELSE Closed

(* Only the attempt that counts opens a vault, and only its own account's. *)
(* Before the first account is named, any call may.                        *)
Open(a, v) ==
  /\ IF scoped THEN attempt # 0 /\ a = current ELSE attempt = 0
  /\ session' = [account |-> a, vault |-> v, attempt |-> attempt]
  /\ UNCHANGED <<scoped, current, issued, attempt>>

Close ==
  /\ issued' = issued + 1
  /\ attempt' = 0
  /\ session' = Closed
  /\ UNCHANGED <<scoped, current>>

Leave ==
  /\ issued' = issued + 2
  /\ attempt' = 0
  /\ session' = Closed
  /\ current' = Nobody
  /\ UNCHANGED scoped

Next ==
  \/ \E a \in Accounts : Begin(a)
  \/ \E a \in Accounts, v \in Vaults : Open(a, v)
  \/ Close
  \/ Leave

Spec == Init /\ [][Next]_vars
=============================================================================
