----------------------------- MODULE StatusDock -----------------------------
(***************************************************************************)
(* The status dock with its passkey quick unlock, as the consumer demo     *)
(* wires them: what opens and closes the dock, when a passkey ceremony     *)
(* starts on its own, and what a long press tells that ceremony.           *)
(*                                                                         *)
(* The dock and the quick unlock talk through refs, effects and timers;    *)
(* the whole of it is one record that operators transform, in the order    *)
(* React runs them: the event, the layout effects of the quick unlock,     *)
(* those of the dock, then the dock's passive effects and the render they  *)
(* cause.  That sequence is one step; steps interleave freely, so that the *)
(* long press, the delay and the time to live of the session storage slot  *)
(* may end at any moment.  A passkey is configured, storage works, and the *)
(* stored preference is written by this tab alone.                         *)
(***************************************************************************)
EXTENDS Integers

VARIABLE dock

vars == <<dock>>

Statuses == {"locked", "unlocked", "emergency_locked", "emergency_unlocked"}
Unread == [status |-> "none", expanded |-> FALSE]

(* emergency   emergencyModeEnabled: long presses count, starts are delayed
   unlocked    the session is open
   active      emergencyModeActive of the server snapshot last read
   page        where the app is: on the full unlock page or elsewhere
   ready       passkeyReady and passkeyOptionsReady
   loading     the app's flag: an attempt is awaited
   expansion   the expansion state, Unread before the first one
   pref        the stored preference
   handler     autoStartHandlerRef holds the quick unlock's handler
   pending, consumed, timer   the refs of the automatic start
   slot        the session storage slot was taken less than its TTL ago
   press, latch     long press of the handle: its timer, its latch
   bpress, blatch   the same of the quick unlock's button
   signal      the app's duressSignaledRef
   owed        history: slots taken less automatic ceremonies, since the last
   stray       history: an automatic ceremony started unasked
   misheard    history: a ceremony was not told what was pressed            *)
Flags == {"emergency", "unlocked", "active", "ready", "loading", "handler",
          "pending", "consumed", "timer", "slot", "press", "latch", "bpress",
          "blatch", "signal", "stray", "misheard"}

(* A timer runs only where starts are delayed, for a start still due, and  *)
(* nothing is pressed or signalled where emergency mode is off.            *)
TypeOK ==
  /\ \A f \in Flags : dock[f] \in BOOLEAN
  /\ dock.page \in {"app", "unlock"}
  /\ dock.pref \in {"none", "collapsed", "expanded"}
  /\ dock.expansion \in [status : Statuses, expanded : BOOLEAN] \cup {Unread}
  /\ dock.owed \in -1..1
  /\ dock.timer => dock.emergency /\ dock.pending
  /\ dock.emergency \/ ~(dock.signal \/ dock.latch \/ dock.blatch)

-----------------------------------------------------------------------------
(* What is shown.                                                          *)

(* resolveVaultClientStatus of a configured vault with PRF support.        *)
Status(d) ==
  IF d.emergency /\ d.active
  THEN IF d.unlocked THEN "emergency_unlocked" ELSE "emergency_locked"
  ELSE IF d.unlocked THEN "unlocked" ELSE "locked"

Expanded(d) ==
  /\ d.unlocked \/ d.page # "unlock"
  /\ IF d.expansion.status = Status(d) THEN d.expansion.expanded
     ELSE d.pref = "expanded"

(* The quick unlock is mounted.                                            *)
Shown(d) == Expanded(d) /\ ~d.unlocked

CanAutoStart(d) == Shown(d) /\ d.ready /\ ~d.loading

-----------------------------------------------------------------------------
(* A ceremony: submitPasskey up to its await.                              *)

Ceremony(d) ==
  [d EXCEPT !.loading = TRUE,
            !.misheard = @ \/ (d.latch /\ ~d.signal)
                           \/ (d.signal /\ ~d.latch /\ ~d.blatch)]

(* Mutation: a start that has been made stays due.                         *)
FireKeepsPending(d) ==
  IF ~d.handler THEN d
  ELSE [Ceremony(d) EXCEPT !.owed = @ - 1, !.stray = @ \/ ~CanAutoStart(d)]

(* fire: does nothing, and leaves the start due, while no handler is bound.*)
Fire(d) ==
  IF ~d.handler THEN d
  ELSE [Ceremony(d) EXCEPT !.pending = FALSE, !.owed = @ - 1,
                           !.stray = @ \/ ~CanAutoStart(d)]

(* Mutation: every start is delayed.                                       *)
TriggerDelayed(d) ==
  IF d.consumed THEN d
  ELSE IF d.slot THEN [d EXCEPT !.consumed = TRUE]
  ELSE [d EXCEPT !.consumed = TRUE, !.pending = TRUE, !.slot = TRUE,
                 !.owed = 1, !.timer = TRUE]

(* triggerPasskeyAutoStart.                                                *)
Trigger(d) ==
  LET taken == [d EXCEPT !.consumed = TRUE, !.pending = TRUE, !.slot = TRUE,
                         !.owed = 1]
  IN  IF d.consumed THEN d
      ELSE IF d.slot THEN [d EXCEPT !.consumed = TRUE]
      ELSE IF d.emergency THEN [taken EXCEPT !.timer = TRUE]
      ELSE Fire(taken)

(* Mutation: a handler that comes late finds nothing to start.             *)
BindOnly(d, bound) == [d EXCEPT !.handler = bound]

(* bindAutoStartPasskey: a start that is due and not delayed is made now.  *)
Bind(d, bound) ==
  LET b == [d EXCEPT !.handler = bound]
  IN  IF bound /\ d.pending /\ ~d.emergency THEN Fire(b) ELSE b

(* Mutation: closing leaves the timer running and the start due.           *)
CollapseKeepsTimer(d) ==
  [d EXCEPT !.expansion = [status |-> Status(d), expanded |-> FALSE],
            !.pref = "collapsed", !.consumed = FALSE,
            !.press = FALSE, !.latch = FALSE]

Collapse(d) ==
  [d EXCEPT !.expansion = [status |-> Status(d), expanded |-> FALSE],
            !.pref = "collapsed",
            !.consumed = FALSE, !.pending = FALSE, !.timer = FALSE,
            !.press = FALSE, !.latch = FALSE]

-----------------------------------------------------------------------------
(* A render and its effects.                                               *)

(* Mutation: the quick unlock reports its own button only.                 *)
ReportedButton(d) == d.blatch

(* What the quick unlock tells the app: combinedDuressSignaled.            *)
Reported(d) == d.emergency /\ (d.latch \/ d.blatch)

(* Mutation: the unmounted quick unlock leaves its handler behind.         *)
QuickUnlockStays(d) ==
  IF Shown(d) THEN Bind([d EXCEPT !.signal = Reported(d)], CanAutoStart(d))
  ELSE [d EXCEPT !.bpress = FALSE, !.blatch = FALSE]

(* Layout effects of the quick unlock, or its cleanup once it is gone.     *)
QuickUnlock(d) ==
  IF Shown(d) THEN Bind([d EXCEPT !.signal = Reported(d)], CanAutoStart(d))
  ELSE [d EXCEPT !.handler = FALSE, !.bpress = FALSE, !.blatch = FALSE]

(* Layout effect of the dock: open and locked, it starts the passkey.      *)
OpenStarts(d) == IF Shown(d) THEN Trigger(d) ELSE d

(* The dock reports the handle's latch when it changed, and, the app's     *)
(* callback being a new one then, on every render of the app.              *)
HandleReported(d, changed) ==
  IF changed THEN [d EXCEPT !.signal = d.latch] ELSE d

(* An open dock closes when the vault is locked or unlocked under it; the  *)
(* effect names "unlocked" alone, not "emergency_unlocked".                *)
StatusFollowed(d, was) ==
  IF /\ Expanded(d)
     /\ \/ was = "unlocked" /\ ~d.unlocked
        \/ was \in {"locked", "emergency_locked"} /\ d.unlocked
  THEN Collapse(d) ELSE d

Effects(d, changed) == HandleReported(OpenStarts(QuickUnlock(d)), changed)

(* The dock d after an event, rendered and settled, when it was rendered   *)
(* with status was and handle latch held before; app: the app renders too. *)
(* Another render comes only of effects that start an attempt or close it. *)
Settled(d, was, held, app) ==
  LET one == Effects(d, app \/ d.latch # held)
      two == StatusFollowed(one, was)
  IN  IF two = one /\ one.loading = d.loading THEN one
      ELSE Effects(two, two.loading # d.loading \/ two.latch # d.latch)

(* The step of an event that leaves d.                                     *)
Step(d) ==
  dock' = Settled(d, Status(dock), dock.latch, d.loading # dock.loading)

-----------------------------------------------------------------------------
(* Events.                                                                 *)

Blank ==
  [expansion |-> Unread, unlocked |-> FALSE, loading |-> FALSE,
   handler |-> FALSE, pending |-> FALSE, consumed |-> FALSE, timer |-> FALSE,
   press |-> FALSE, latch |-> FALSE, bpress |-> FALSE, blatch |-> FALSE,
   signal |-> FALSE, owed |-> 0, stray |-> FALSE, misheard |-> FALSE]

(* A page just loaded: nothing but storage and the server remains.         *)
Loaded(e, a, p, r, stored, taken) ==
  [f \in DOMAIN Blank \cup {"emergency", "active", "page", "ready", "pref", "slot"} |->
     CASE f = "emergency" -> e [] f = "active" -> a /\ e [] f = "page" -> p
       [] f = "ready" -> r [] f = "pref" -> stored [] f = "slot" -> taken
       [] OTHER -> Blank[f]]

Init == \E e, r \in BOOLEAN : dock = Loaded(e, FALSE, "app", r, "none", FALSE)

Reload ==
  LET d == [Loaded(dock.emergency, dock.active, dock.page, dock.ready,
                   dock.pref, dock.slot)
            EXCEPT !.stray = dock.stray, !.misheard = dock.misheard]
  IN  dock' = Settled(d, "none", FALSE, TRUE)

(* A click on the handle of a closed dock, or the app's expand event,      *)
(* whatever the dock shows.                                                *)
Expand ==
  Step(Trigger([dock EXCEPT
                  !.expansion = [status |-> Status(dock), expanded |-> TRUE],
                  !.pref = "expanded"]))

(* A click outside, Escape.                                                *)
Dismiss == Expanded(dock) /\ ~dock.loading /\ Step(Collapse(dock))

(* The link to the full unlock page; the navigation is a step of its own.  *)
OpenFullUnlockPage == Shown(dock) /\ Step(Collapse(dock))

LockNow ==
  /\ Expanded(dock) /\ dock.unlocked
  /\ Step([Collapse(dock) EXCEPT !.unlocked = FALSE])

(* The session opens or is locked, for whatever reason.                    *)
SessionChanges == Step([dock EXCEPT !.unlocked = ~@])

(* The app reads the server snapshot again on the page it comes to.        *)
Navigate(p, a) ==
  LET there == [dock EXCEPT !.page = p]
      d     == Settled(there, Status(dock), dock.latch, TRUE)
      read  == [d EXCEPT !.active = a /\ d.emergency]
  IN  dock' = Settled(read, Status(d), d.latch, TRUE)

OptionsChange ==
  LET d == [dock EXCEPT !.ready = ~@]
  IN  dock' = Settled(d, Status(dock), dock.latch, TRUE)

ClickPasskey ==
  Shown(dock) /\ dock.ready /\ ~dock.loading /\ Step(Ceremony(dock))

(* The attempt ends, well or not, and its two finally blocks run; a fatal  *)
(* failure closes the dock and has the app navigate.                       *)
AttemptEnds(fatal) ==
  LET d == IF fatal THEN Collapse(dock) ELSE dock
  IN  /\ dock.loading
      /\ Step([d EXCEPT !.loading = FALSE, !.signal = FALSE,
                        !.press = FALSE, !.latch = FALSE,
                        !.bpress = FALSE, !.blatch = FALSE])

DelayEnds ==
  /\ dock.timer
  /\ LET d == Fire([dock EXCEPT !.timer = FALSE])
     IN  IF d.loading # dock.loading THEN Step(d) ELSE dock' = d

SlotExpires == dock.slot /\ dock' = [dock EXCEPT !.slot = FALSE]

PressHandle == dock.emergency /\ ~dock.press /\ dock' = [dock EXCEPT !.press = TRUE]

PressButton ==
  /\ dock.emergency /\ Shown(dock) /\ dock.ready /\ ~dock.loading /\ ~dock.bpress
  /\ dock' = [dock EXCEPT !.bpress = TRUE]

(* Up, left or cancelled before the threshold.                             *)
Release ==
  \/ dock.press /\ dock' = [dock EXCEPT !.press = FALSE]
  \/ dock.bpress /\ dock' = [dock EXCEPT !.bpress = FALSE]

HandleHeld == dock.press /\ Step([dock EXCEPT !.press = FALSE, !.latch = TRUE])

(* Only the quick unlock renders: the dock does not report.                *)
ButtonHeld ==
  /\ dock.bpress
  /\ dock' = [dock EXCEPT !.bpress = FALSE, !.blatch = TRUE, !.signal = TRUE]

Next ==
  \/ Expand \/ Dismiss \/ OpenFullUnlockPage \/ LockNow \/ Reload
  \/ SessionChanges \/ OptionsChange
  \/ \E p \in {"app", "unlock"}, a \in BOOLEAN : Navigate(p, a)
  \/ ClickPasskey \/ \E fatal \in BOOLEAN : AttemptEnds(fatal)
  \/ DelayEnds \/ SlotExpires
  \/ PressHandle \/ PressButton \/ Release \/ HandleHeld \/ ButtonHeld

Spec == Init /\ [][Next]_vars

-----------------------------------------------------------------------------
(* Properties.                                                             *)

(* A slot pays for one automatic ceremony: whatever order expansion,       *)
(* binding, delay, loading and locking come in, the passkey prompt does    *)
(* not come back on its own for an expansion it was already shown for.     *)
AutoStartOnce == dock.owed >= 0

(* No prompt comes out of nowhere: an automatic ceremony starts only while *)
(* the quick unlock is on the screen of a locked vault, its options are    *)
(* ready and no other attempt is awaited, even when a delay ends late.     *)
QuietUnlessShown == ~dock.stray

(* Closing the dock cancels the start that was due: away from the full     *)
(* unlock page, a closed dock has no timer running and nothing pending.    *)
ClosingCancels ==
  ~Expanded(dock) /\ dock.page # "unlock" => ~dock.timer /\ ~dock.pending

(* Where starts are not delayed, none waits for a handler that is there:   *)
(* a start asked for before the options were ready is made when they are.  *)
StartsWhenItCan == ~dock.emergency => ~(dock.pending /\ dock.handler)

(* No ceremony is told of a long press nobody made or an earlier attempt   *)
(* has used up, and none started with the handle's latch set goes ahead as *)
(* a plain one, whatever was closed, reopened, reloaded or navigated to in *)
(* between.  (A press of the button alone: see ButtonHeard.)               *)
DuressHeard == ~dock.misheard

-----------------------------------------------------------------------------
(* What the guides say, and the code does not do.                          *)

(* docs/ADOPTING_VAULT_CORE_1_1_0.md:531: the automatic start runs          *)
(* synchronously on expansion, within the user's gesture.  An expansion of *)
(* a dock that is open takes the start and leaves it due, and a lock under *)
(* the open dock makes it (triggerPasskeyAutoStart, bindAutoStartPasskey). *)
LockStartsNothing ==
  [][(SessionChanges \/ LockNow) /\ dock.unlocked /\ ~dock.loading
       => ~dock'.loading]_vars

(* docs/INTEGRATING_EMERGENCY_DURESS_MODE.md:332: a long press of the       *)
(* passkey button, then the passkey, opens the decoy.  The dock's effect   *)
(* reports the handle's latch on every render of the app, and takes the    *)
(* button's signal back (vault-status-dock.tsx:321).                       *)
ButtonHeard == [][ClickPasskey /\ dock.blatch => dock.signal]_vars

=============================================================================
