-------------------------- MODULE StatusDockProofs --------------------------
(***************************************************************************)
(* Proofs of the safety properties of StatusDock. The state is finite and  *)
(* TLC visits all of it; what the proofs add is why the properties hold:   *)
(* which facts each operator keeps, in whatever order a render, its        *)
(* effects and the events apply them.                                      *)
(***************************************************************************)
EXTENDS StatusDock, TLAPS

(* The fields of the dock, and what they hold.                             *)
Fields == Flags \cup {"page", "pref", "expansion", "owed"}

Typed(d) ==
  /\ DOMAIN d = Fields
  /\ \A f \in Flags : d[f] \in BOOLEAN
  /\ d.page \in {"app", "unlock"}
  /\ d.pref \in {"none", "collapsed", "expanded"}
  /\ d.expansion \in [status : Statuses, expanded : BOOLEAN] \cup {Unread}
  /\ d.owed \in -1..1

(* What no operator breaks, wherever in a step it is applied: a start that *)
(* is due was taken once, is not yet paid for, and belongs to a dock whose *)
(* stored preference is open; what is pressed or signalled is pressed in   *)
(* emergency mode; and nothing went wrong so far.                          *)
Sound(d) ==
  /\ Typed(d)
  /\ d.expansion # Unread => d.expansion.expanded = (d.pref = "expanded")
  /\ d.timer => d.emergency /\ d.pending
  /\ d.pending => d.consumed /\ d.owed = 1 /\ d.pref = "expanded"
  /\ d.owed >= 0
  /\ d.emergency \/ ~(d.signal \/ d.press \/ d.latch \/ d.bpress \/ d.blatch)
  /\ ~d.stray /\ ~d.misheard

(* The app's ref agrees with the latches enough for a ceremony to be told. *)
Told(d) == (d.latch => d.signal) /\ (d.signal => d.latch \/ d.blatch)

(* A ceremony may start on its own, and will be told what was pressed.     *)
Ready(d) == CanAutoStart(d) /\ Told(d)

(* Where starts are not delayed, none waits for a handler that is there.   *)
NoneWaits(d) == d.emergency \/ ~(d.pending /\ d.handler)

(* Between two steps: a handler is there only for a quick unlock that may  *)
(* start. This is the inductive invariant.                                 *)
Steady(d) ==
  /\ Sound(d)
  /\ d.handler => CanAutoStart(d)
  /\ NoneWaits(d)
  /\ Shown(d) => Told(d)

DockInv == Steady(dock)

-----------------------------------------------------------------------------
(* What is shown.                                                          *)

(* Whatever the status it was set for, an expansion agrees with the stored *)
(* preference: an expanded dock is one whose preference is open.           *)
LEMMA ExpandedIsPreferred ==
  ASSUME NEW d, Sound(d)
  PROVE  Expanded(d) <=> (d.unlocked \/ d.page # "unlock") /\ d.pref = "expanded"
<1>1. Status(d) \in Statuses
  BY DEF Status, Statuses
<1>2. Status(d) # "none"
  BY DEF Status
<1>3. d.expansion.status = Status(d) => d.expansion # Unread
  BY <1>2 DEF Unread
<1>4. d.expansion.status = Status(d) => d.expansion.expanded = (d.pref = "expanded")
  BY <1>3 DEF Sound
<1> HIDE DEF Status
<1> QED BY <1>4 DEF Expanded

LEMMA ShownIsPreferred ==
  ASSUME NEW d, Sound(d)
  PROVE  Shown(d) <=> ~d.unlocked /\ d.page # "unlock" /\ d.pref = "expanded"
BY ExpandedIsPreferred DEF Shown

-----------------------------------------------------------------------------
(* The operators on the dock.                                              *)

(* A ceremony is told what was pressed, and only marks an attempt awaited. *)
LEMMA CeremonySound ==
  ASSUME NEW d, Sound(d), Told(d)
  PROVE  /\ Sound(Ceremony(d)) /\ Ceremony(d).loading
         /\ \A f \in Fields \ {"loading", "misheard"} : Ceremony(d)[f] = d[f]
<1>1. ~(d.latch /\ ~d.signal) /\ ~(d.signal /\ ~d.latch /\ ~d.blatch)
  BY DEF Told
<1>2. \A f \in Fields \ {"loading", "misheard"} : Ceremony(d)[f] = d[f]
  BY DEF Sound, Typed, Ceremony, Fields, Flags
<1>3. Ceremony(d).loading
  BY DEF Sound, Typed, Ceremony, Fields, Flags
<1>4. Sound(Ceremony(d))
  BY <1>1 DEF Sound, Typed, Ceremony, Fields, Flags
<1> QED BY <1>2, <1>3, <1>4

(* Closing the dock: nothing is due any more.                              *)
LEMMA CollapseSound ==
  ASSUME NEW d, Sound(d)
  PROVE  Sound(Collapse(d)) /\ ~Shown(Collapse(d))
<1> DEFINE x == [status |-> Status(d), expanded |-> FALSE]
           c == Collapse(d)
<1>1. x \in [status : Statuses, expanded : BOOLEAN] /\ x.expanded = FALSE
  BY DEF Status, Statuses
<1>2. c = [d EXCEPT !.expansion = x, !.pref = "collapsed", !.consumed = FALSE,
                    !.pending = FALSE, !.timer = FALSE, !.press = FALSE, !.latch = FALSE]
  BY DEF Collapse
<1> HIDE DEF x, c
<1>3. /\ DOMAIN c = Fields /\ c.expansion = x /\ c.pref = "collapsed"
      /\ ~c.consumed /\ ~c.pending /\ ~c.timer /\ ~c.press /\ ~c.latch
      /\ \A f \in Fields \ {"expansion", "pref", "consumed", "pending", "timer",
                            "press", "latch"} : c[f] = d[f]
  BY <1>2 DEF Sound, Typed, Fields, Flags
<1>4. /\ c.page = d.page /\ c.owed = d.owed /\ c.emergency = d.emergency
      /\ c.signal = d.signal /\ c.bpress = d.bpress /\ c.blatch = d.blatch
      /\ c.stray = d.stray /\ c.misheard = d.misheard
  BY <1>3 DEF Fields, Flags
<1>5. \A f \in Flags : c[f] \in BOOLEAN
  BY <1>2 DEF Sound, Typed, Fields, Flags
<1>6. Typed(c)
  BY <1>1, <1>3, <1>4, <1>5 DEF Sound, Typed
<1>7. Sound(c)
  BY <1>1, <1>3, <1>4, <1>6 DEF Sound
<1> QED BY <1>3, <1>7, ShownIsPreferred DEF c

(* fire: with a handler it pays for the slot that was taken, and nothing   *)
(* is due after it; without one it does nothing.                           *)
LEMMA FireSound ==
  ASSUME NEW d, Sound(d), d.handler, Ready(d), d.owed = 1, ~d.timer
  PROVE  /\ Sound(Fire(d)) /\ Fire(d).loading /\ ~Fire(d).pending
         /\ \A f \in Fields \ {"loading", "misheard", "pending", "owed", "stray"} :
              Fire(d)[f] = d[f]
<1> DEFINE c == Ceremony(d)
           e == [c EXCEPT !.pending = FALSE, !.owed = @ - 1, !.stray = @ \/ ~CanAutoStart(d)]
<1>1. /\ Sound(c) /\ c.loading
      /\ \A f \in Fields \ {"loading", "misheard"} : c[f] = d[f]
  BY CeremonySound DEF Ready
<1>2. Fire(d) = e
  BY DEF Fire
<1>3. c.owed = 1 /\ ~c.timer
  BY <1>1 DEF Fields, Flags
<1> HIDE DEF c
<1>4. CanAutoStart(d)
  BY DEF Ready
<1>5. Sound(e)
  BY <1>1, <1>3, <1>4 DEF Sound, Typed, Fields, Flags
<1>6. e.loading /\ ~e.pending
  BY <1>1 DEF Sound, Typed, Fields, Flags
<1>7. \A f \in Fields \ {"loading", "misheard", "pending", "owed", "stray"} : e[f] = c[f]
  BY <1>1 DEF Sound, Typed, Fields, Flags
<1>8. \A f \in Fields \ {"loading", "misheard", "pending", "owed", "stray"} : c[f] = d[f]
  BY <1>1
<1> QED BY <1>2, <1>5, <1>6, <1>7, <1>8

(* triggerPasskeyAutoStart: it takes the slot once, and the ceremony it    *)
(* starts, at once or after the delay, is the one owed for it.             *)
LEMMA TriggerSound ==
  ASSUME NEW d, Sound(d), d.pref = "expanded", d.handler /\ ~d.consumed => Ready(d)
  PROVE  /\ Sound(Trigger(d)) /\ Trigger(d).consumed
         /\ d.consumed => Trigger(d) = d
         /\ NoneWaits(d) => NoneWaits(Trigger(d))
         /\ ~d.consumed /\ Trigger(d).loading => d.loading \/ ~Trigger(d).pending
         /\ d.loading => Trigger(d).loading
         /\ \A f \in Fields \ {"consumed", "pending", "slot", "owed", "timer",
                                "loading", "misheard", "stray"} : Trigger(d)[f] = d[f]
<1> DEFINE moved == {"consumed", "pending", "slot", "owed", "timer", "loading", "misheard", "stray"}
           taken == [d EXCEPT !.consumed = TRUE, !.pending = TRUE, !.slot = TRUE, !.owed = 1]
           due   == [taken EXCEPT !.timer = TRUE]
           none  == [d EXCEPT !.consumed = TRUE]
<1>1. CASE d.consumed
  BY <1>1 DEF Trigger
<1>2. CASE ~d.consumed /\ d.slot
  <2>1. Trigger(d) = none
    BY <1>2 DEF Trigger
  <2>2. Sound(none) /\ none.consumed
    BY <1>2 DEF Sound, Typed, Fields, Flags
  <2>3. none.loading = d.loading /\ (NoneWaits(d) => NoneWaits(none))
    BY DEF Sound, Typed, Fields, Flags, NoneWaits
  <2>4. \A f \in Fields \ moved : none[f] = d[f]
    BY DEF Sound, Typed, Fields, Flags
  <2> QED BY <1>2, <2>1, <2>2, <2>3, <2>4
<1>3. CASE ~d.consumed /\ ~d.slot /\ d.emergency
  <2>1. Trigger(d) = due
    BY <1>3 DEF Trigger
  <2>2. Sound(due) /\ due.consumed
    BY <1>3 DEF Sound, Typed, Fields, Flags
  <2>3. due.loading = d.loading /\ (NoneWaits(d) => NoneWaits(due))
    BY <1>3 DEF Sound, Typed, Fields, Flags, NoneWaits
  <2>4. \A f \in Fields \ moved : due[f] = d[f]
    BY DEF Sound, Typed, Fields, Flags
  <2> QED BY <1>3, <2>1, <2>2, <2>3, <2>4
<1>4. CASE ~d.consumed /\ ~d.slot /\ ~d.emergency
  <2>1. Trigger(d) = Fire(taken)
    BY <1>4 DEF Trigger
  <2>2. Sound(taken) /\ taken.consumed /\ taken.owed = 1 /\ ~taken.timer
    BY <1>4 DEF Sound, Typed, Fields, Flags
  <2>3. \A f \in Fields \ moved : taken[f] = d[f]
    BY DEF Sound, Typed, Fields, Flags
  <2>4. taken.loading = d.loading /\ taken.handler = d.handler
    BY DEF Sound, Typed, Fields, Flags
  <2> HIDE DEF taken
  <2>5. CASE d.handler
    <3>1. Ready(d)
      BY <1>4, <2>5
    <3>2. Told(taken)
      BY <2>3, <3>1 DEF Ready, Told, Fields, Flags
    <3>3. Shown(taken)
      BY <2>2, <2>3, <3>1, ShownIsPreferred DEF Ready, CanAutoStart, Fields, Flags
    <3>4. Ready(taken)
      BY <2>3, <2>4, <3>1, <3>2, <3>3 DEF Ready, CanAutoStart, Fields, Flags
    <3>5. /\ Sound(Fire(taken)) /\ ~Fire(taken).pending
          /\ \A f \in Fields \ {"loading", "misheard", "pending", "owed", "stray"} :
               Fire(taken)[f] = taken[f]
      BY <2>2, <2>4, <2>5, <3>4, FireSound
    <3> Fire(taken).loading
      BY <2>2, <2>4, <2>5, <3>4, FireSound
    <3>6. Fire(taken).consumed
      BY <2>2, <3>5 DEF Fields, Flags
    <3>7. \A f \in Fields \ moved : Fire(taken)[f] = d[f]
      BY <2>3, <3>5
    <3> QED BY <1>4, <2>1, <3>5, <3>6, <3>7 DEF NoneWaits
  <2>6. CASE ~d.handler
    <3>1. Fire(taken) = taken
      BY <2>4, <2>6 DEF Fire
    <3> QED BY <1>4, <2>1, <2>2, <2>3, <2>4, <2>6, <3>1 DEF NoneWaits
  <2> QED BY <2>5, <2>6
<1> QED BY <1>1, <1>2, <1>3, <1>4

-----------------------------------------------------------------------------
(* A render and its effects.                                               *)

(* After the quick unlock's layout effects, and until the next render: its *)
(* handler is there whenever it may start, and stays while an attempt that *)
(* was just started keeps it from starting another.                        *)
Mounted(d) ==
  /\ Sound(d) /\ NoneWaits(d)
  /\ Shown(d) => Told(d)
  /\ d.handler => Shown(d) /\ d.ready /\ (d.loading => d.consumed /\ ~d.pending)
  /\ CanAutoStart(d) => d.handler

(* After the dock's layout effect as well: an open dock has consumed its   *)
(* start.                                                                  *)
Opened(d) == Mounted(d) /\ (Shown(d) => d.consumed)

(* The unmounted quick unlock leaves nothing behind.                       *)
LEMMA HiddenSteady ==
  ASSUME NEW d, Sound(d), ~Shown(d)
  PROVE  Steady(QuickUnlock(d)) /\ ~Shown(QuickUnlock(d))
<1> DEFINE u == [d EXCEPT !.handler = FALSE, !.bpress = FALSE, !.blatch = FALSE]
<1>1. QuickUnlock(d) = u
  BY DEF QuickUnlock
<1>2. Sound(u) /\ ~u.handler
  BY DEF Sound, Typed, Fields, Flags
<1>3. u.unlocked = d.unlocked /\ u.page = d.page /\ u.pref = d.pref
  BY DEF Sound, Typed, Fields, Flags
<1> HIDE DEF u
<1>4. ~Shown(u)
  BY <1>2, <1>3, ShownIsPreferred
<1> QED BY <1>1, <1>2, <1>4 DEF Steady, NoneWaits

(* What a mounted quick unlock reports, and the handler it binds.          *)
Bound(d) == [[d EXCEPT !.signal = Reported(d)] EXCEPT !.handler = CanAutoStart(d)]

LEMMA BoundSound ==
  ASSUME NEW d, Sound(d), Shown(d)
  PROVE  /\ Sound(Bound(d)) /\ Told(Bound(d)) /\ Shown(Bound(d))
         /\ Bound(d).handler <=> CanAutoStart(d)
         /\ CanAutoStart(Bound(d)) <=> CanAutoStart(d)
         /\ \A f \in Fields \ {"signal", "handler"} : Bound(d)[f] = d[f]
<1> DEFINE e == [d EXCEPT !.signal = Reported(d)]
           b == [e EXCEPT !.handler = CanAutoStart(d)]
<1>1. Bound(d) = b
  BY DEF Bound
<1>2. Reported(d) \in BOOLEAN /\ (Reported(d) <=> d.emergency /\ (d.latch \/ d.blatch))
  BY DEF Reported
<1>3. Sound(e) /\ Told(e)
  BY <1>2 DEF Sound, Typed, Told, Fields, Flags
<1>4. \A f \in Fields \ {"signal"} : e[f] = d[f]
  BY DEF Sound, Typed, Fields, Flags
<1>5. CanAutoStart(d) \in BOOLEAN
  BY DEF CanAutoStart
<1> HIDE DEF e
<1>6. Sound(b) /\ Told(b) /\ (b.handler <=> CanAutoStart(d))
  BY <1>3, <1>5 DEF Sound, Typed, Told, Fields, Flags
<1>7. \A f \in Fields \ {"signal", "handler"} : b[f] = d[f]
  BY <1>3, <1>4 DEF Sound, Typed, Fields, Flags
<1> HIDE DEF b
<1>8. Shown(b)
  BY <1>6, <1>7, ShownIsPreferred DEF Fields, Flags
<1>9. CanAutoStart(b) <=> CanAutoStart(d)
  BY <1>7, <1>8 DEF CanAutoStart, Fields, Flags
<1> QED BY <1>1, <1>6, <1>7, <1>8, <1>9

(* bindAutoStartPasskey: what is due and not delayed is started now.       *)
LEMMA QuickUnlockBinds ==
  ASSUME NEW d, Sound(d), Shown(d)
  PROVE  /\ CanAutoStart(d) /\ d.pending /\ ~d.emergency => QuickUnlock(d) = Fire(Bound(d))
         /\ ~(CanAutoStart(d) /\ d.pending /\ ~d.emergency) => QuickUnlock(d) = Bound(d)
<1> DEFINE e == [d EXCEPT !.signal = Reported(d)]
<1>1. e.pending = d.pending /\ e.emergency = d.emergency
  BY DEF Sound, Typed, Fields, Flags
<1>2. Bound(d) = [e EXCEPT !.handler = CanAutoStart(d)]
  BY DEF Bound
<1>3. QuickUnlock(d) = Bind(e, CanAutoStart(d))
  BY DEF QuickUnlock
<1> HIDE DEF e
<1> QED BY <1>1, <1>2, <1>3 DEF Bind

(* The layout effects of the quick unlock make a mounted dock of any sound *)
(* one: what was due while it could not start is started, once.            *)
LEMMA QuickUnlockMounts ==
  ASSUME NEW d, Sound(d)
  PROVE  Mounted(QuickUnlock(d))
<1>1. CASE ~Shown(d)
  BY <1>1, HiddenSteady DEF Steady, Mounted, CanAutoStart
<1>2. CASE Shown(d)
  <2> DEFINE b == Bound(d)
  <2>1. /\ Sound(b) /\ Told(b) /\ Shown(b)
        /\ b.handler <=> CanAutoStart(d)
        /\ CanAutoStart(b) <=> CanAutoStart(d)
        /\ \A f \in Fields \ {"signal", "handler"} : b[f] = d[f]
    BY <1>2, BoundSound
  <2>2. b.pending = d.pending /\ b.emergency = d.emergency /\ b.timer = d.timer
    BY <2>1 DEF Fields, Flags
  <2>3. QuickUnlock(d) \in {b, Fire(b)}
    BY <1>2, QuickUnlockBinds
  <2>4. CASE CanAutoStart(d) /\ d.pending /\ ~d.emergency
    <3>1. QuickUnlock(d) = Fire(b)
      BY <1>2, <2>4, QuickUnlockBinds
    <3> HIDE DEF b
    <3>2. b.owed = 1 /\ ~b.timer /\ b.consumed /\ b.handler
      BY <2>1, <2>2, <2>4 DEF Sound
    <3>3. /\ Sound(Fire(b)) /\ Fire(b).loading /\ ~Fire(b).pending
          /\ \A f \in Fields \ {"loading", "misheard", "pending", "owed", "stray"} :
               Fire(b)[f] = b[f]
      BY <2>1, <2>4, <3>2, FireSound DEF Ready
    <3>4. /\ Fire(b).page = b.page /\ Fire(b).pref = b.pref /\ Fire(b).unlocked = b.unlocked
          /\ Fire(b).latch = b.latch /\ Fire(b).blatch = b.blatch /\ Fire(b).signal = b.signal
          /\ Fire(b).consumed = b.consumed /\ Fire(b).ready = b.ready
      BY <3>3 DEF Fields, Flags
    <3>5. Shown(Fire(b))
      BY <2>1, <3>3, <3>4, ShownIsPreferred
    <3>6. Told(Fire(b)) /\ b.ready
      BY <2>1, <2>4, <3>4 DEF Told, CanAutoStart
    <3> QED BY <3>1, <3>2, <3>3, <3>4, <3>5, <3>6 DEF Mounted, NoneWaits, CanAutoStart
  <2>5. CASE ~(CanAutoStart(d) /\ d.pending /\ ~d.emergency)
    <3>1. QuickUnlock(d) = b
      BY <1>2, <2>5, QuickUnlockBinds
    <3> HIDE DEF b
    <3>2. b.handler => CanAutoStart(b)
      BY <2>1
    <3> QED BY <2>1, <2>2, <2>5, <3>1, <3>2 DEF Mounted, NoneWaits, CanAutoStart
  <2> QED BY <2>4, <2>5
<1> QED BY <1>1, <1>2

(* The dock's layout effect: open and locked, it has consumed its start.   *)
LEMMA OpenStartsOpens ==
  ASSUME NEW d, Mounted(d)
  PROVE  Opened(OpenStarts(d))
<1>1. CASE ~Shown(d)
  BY <1>1 DEF OpenStarts, Opened
<1>2. CASE Shown(d)
  <2> DEFINE t == Trigger(d)
  <2>1. OpenStarts(d) = t
    BY <1>2 DEF OpenStarts
  <2>2. Sound(d) /\ Told(d) /\ d.pref = "expanded"
    BY <1>2, ShownIsPreferred DEF Mounted
  <2>3. d.handler /\ ~d.consumed => Ready(d)
    BY <1>2, <2>2 DEF Mounted, Ready, CanAutoStart
  <2>4. /\ Sound(t) /\ t.consumed
        /\ d.consumed => t = d
        /\ NoneWaits(d) => NoneWaits(t)
        /\ ~d.consumed /\ t.loading => d.loading \/ ~t.pending
        /\ d.loading => t.loading
        /\ \A f \in Fields \ {"consumed", "pending", "slot", "owed", "timer",
                               "loading", "misheard", "stray"} : t[f] = d[f]
    BY <2>2, <2>3, TriggerSound
  <2> HIDE DEF t
  <2>5. /\ t.page = d.page /\ t.pref = d.pref /\ t.unlocked = d.unlocked
        /\ t.latch = d.latch /\ t.blatch = d.blatch /\ t.signal = d.signal
        /\ t.handler = d.handler /\ t.ready = d.ready
    BY <2>4 DEF Fields, Flags
  <2>6. Shown(t) /\ Told(t)
    BY <1>2, <2>2, <2>4, <2>5, ShownIsPreferred DEF Told
  <2>7. t.handler /\ t.loading => ~t.pending
    BY <2>4, <2>5 DEF Mounted
  <2>8. CanAutoStart(t) => t.handler
    BY <1>2, <2>4, <2>5 DEF Mounted, CanAutoStart
  <2>9. NoneWaits(t) /\ (t.handler => t.ready)
    BY <2>4, <2>5 DEF Mounted
  <2> QED BY <2>1, <2>4, <2>6, <2>7, <2>8, <2>9 DEF Opened, Mounted
<1> QED BY <1>1, <1>2

(* The handle's latch reported to the app: what is told stays told.        *)
Report(d) == [d EXCEPT !.signal = d.latch]

LEMMA ReportSound ==
  ASSUME NEW d, Sound(d)
  PROVE  /\ Sound(Report(d)) /\ Told(Report(d))
         /\ \A f \in Fields \ {"signal"} : Report(d)[f] = d[f]
BY DEF Report, Sound, Typed, Told, Fields, Flags

(* What a render's effects leave, whether the handle reports or not.       *)
Outcomes(d) == {OpenStarts(QuickUnlock(d)), Report(OpenStarts(QuickUnlock(d)))}

LEMMA ReportKeeps ==
  ASSUME NEW d, Sound(d)
  PROVE  /\ Opened(d) => Opened(Report(d))
         /\ Steady(d) => Steady(Report(d))
<1> DEFINE r == Report(d)
<1>1. /\ Sound(r) /\ Told(r)
      /\ \A f \in Fields \ {"signal"} : r[f] = d[f]
  BY ReportSound
<1>2. /\ r.page = d.page /\ r.pref = d.pref /\ r.unlocked = d.unlocked /\ r.ready = d.ready
      /\ r.loading = d.loading /\ r.handler = d.handler /\ r.pending = d.pending
      /\ r.consumed = d.consumed /\ r.emergency = d.emergency
  BY <1>1 DEF Fields, Flags
<1> HIDE DEF r
<1>3. Shown(r) <=> Shown(d)
  BY <1>1, <1>2, ShownIsPreferred
<1>4. CanAutoStart(r) <=> CanAutoStart(d)
  BY <1>2, <1>3 DEF CanAutoStart
<1>5. NoneWaits(r) <=> NoneWaits(d)
  BY <1>2 DEF NoneWaits
<1>6. Opened(d) => Opened(r)
  BY <1>1, <1>2, <1>3, <1>4, <1>5 DEF Opened, Mounted
<1>7. Steady(d) => Steady(r)
  BY <1>1, <1>2, <1>3, <1>4, <1>5 DEF Steady
<1> QED BY <1>6, <1>7 DEF r

(* The first render after an event, whatever the event left.               *)
LEMMA EffectsOpen ==
  ASSUME NEW d, Sound(d), NEW x \in Outcomes(d)
  PROVE  Opened(x)
<1>1. Opened(OpenStarts(QuickUnlock(d)))
  BY QuickUnlockMounts, OpenStartsOpens
<1> QED BY <1>1, ReportKeeps DEF Outcomes, Opened, Mounted

(* The second render finds nothing to start, and drops the handler of what *)
(* the first one started.                                                  *)
LEMMA QuickUnlockSettles ==
  ASSUME NEW d, Opened(d), Shown(d)
  PROVE  Steady(QuickUnlock(d)) /\ QuickUnlock(d).consumed
<1> DEFINE b == Bound(d)
<1>1. Sound(d) /\ d.consumed
  BY DEF Opened, Mounted
<1>2. /\ Sound(b) /\ Told(b) /\ Shown(b)
      /\ b.handler <=> CanAutoStart(d)
      /\ CanAutoStart(b) <=> CanAutoStart(d)
      /\ \A f \in Fields \ {"signal", "handler"} : b[f] = d[f]
  BY <1>1, BoundSound
<1>3. b.pending = d.pending /\ b.emergency = d.emergency /\ b.consumed = d.consumed
  BY <1>2 DEF Fields, Flags
<1>4. ~(CanAutoStart(d) /\ d.pending /\ ~d.emergency)
  BY DEF Opened, Mounted, NoneWaits
<1>5. QuickUnlock(d) = b
  BY <1>1, <1>4, QuickUnlockBinds
<1> HIDE DEF b
<1> QED BY <1>1, <1>2, <1>3, <1>4, <1>5 DEF Steady, NoneWaits

(* A handler is bound for a quick unlock that could start before its       *)
(* effects ran, and neither a start nor a report changes it.               *)
LEMMA StartsKeepHandler ==
  ASSUME NEW d, Sound(d)
  PROVE  Fire(d).handler = d.handler /\ Trigger(d).handler = d.handler
<1> DEFINE taken == [d EXCEPT !.consumed = TRUE, !.pending = TRUE, !.slot = TRUE, !.owed = 1]
<1>1. \A e : DOMAIN e = Fields => Fire(e).handler = e.handler
  BY DEF Fire, Ceremony, Fields, Flags
<1>2. DOMAIN d = Fields /\ DOMAIN taken = Fields /\ taken.handler = d.handler
  BY DEF Sound, Typed, Fields, Flags
<1>3. Fire(taken).handler = d.handler /\ Fire(d).handler = d.handler
  BY <1>1, <1>2
<1>4. Trigger(d) \in {d, [d EXCEPT !.consumed = TRUE], [taken EXCEPT !.timer = TRUE], Fire(taken)}
  BY DEF Trigger
<1>5. [d EXCEPT !.consumed = TRUE].handler = d.handler /\ [taken EXCEPT !.timer = TRUE].handler = d.handler
  BY <1>2 DEF Fields, Flags
<1> QED BY <1>3, <1>4, <1>5

LEMMA EffectsBind ==
  ASSUME NEW d, Sound(d), NEW x \in Outcomes(d), x.handler
  PROVE  CanAutoStart(d)
<1> DEFINE q == QuickUnlock(d)
           o == OpenStarts(q)
<1>1. Sound(q) /\ Sound(o)
  BY QuickUnlockMounts, OpenStartsOpens DEF Mounted, Opened
<1>2. o.handler = q.handler
  BY <1>1, StartsKeepHandler DEF OpenStarts
<1>3. x \in {o, Report(o)}
  BY DEF Outcomes
<1>4. Report(o).handler = o.handler
  BY <1>1, ReportSound DEF Fields, Flags
<1>5. q.handler
  BY <1>2, <1>3, <1>4
<1>6. Shown(d)
  <2>1. CASE ~Shown(d)
    <3>1. ~q.handler
      BY <2>1 DEF QuickUnlock, Sound, Typed, Fields, Flags
    <3> QED BY <1>5, <3>1
  <2> QED BY <2>1
<1>7. q \in {Bound(d), Fire(Bound(d))}
  BY <1>6, QuickUnlockBinds
<1>8. Sound(Bound(d)) /\ (Bound(d).handler <=> CanAutoStart(d))
  BY <1>6, BoundSound
<1>9. Fire(Bound(d)).handler = Bound(d).handler
  BY <1>8, StartsKeepHandler
<1> HIDE DEF q
<1> QED BY <1>5, <1>7, <1>8, <1>9

LEMMA SecondRenderSteady ==
  ASSUME NEW d, Sound(d), Shown(d) => Opened(d), NEW x \in Outcomes(d)
  PROVE  Steady(x)
<1> DEFINE q == QuickUnlock(d)
<1>1. Steady(q) /\ OpenStarts(q) = q
  <2>1. CASE ~Shown(d)
    BY <2>1, HiddenSteady DEF OpenStarts
  <2>2. CASE Shown(d)
    <3>1. Steady(q) /\ q.consumed
      BY <2>2, QuickUnlockSettles
    <3> QED BY <3>1 DEF OpenStarts, Trigger
  <2> QED BY <2>1, <2>2
<1>2. Sound(q)
  BY <1>1 DEF Steady
<1> QED BY <1>1, <1>2, ReportKeeps DEF Outcomes

(* An event's renders and effects, from any sound dock, settle in a steady *)
(* one.                                                                    *)
LEMMA SettledSteady ==
  ASSUME NEW d, Sound(d), NEW was, NEW held, NEW app
  PROVE  Steady(Settled(d, was, held, app))
<1> DEFINE one == Effects(d, app \/ d.latch # held)
           two == StatusFollowed(one, was)
<1>1. one \in Outcomes(d)
  BY DEF Effects, HandleReported, Report, Outcomes
<1>2. \/ Settled(d, was, held, app) \in Outcomes(two)
      \/ Settled(d, was, held, app) = one /\ two = one /\ one.loading = d.loading
  BY DEF Settled, Effects, HandleReported, Report, Outcomes
<1> HIDE DEF one
<1>3. Opened(one) /\ Sound(one)
  BY <1>1, EffectsOpen DEF Opened, Mounted
<1>4. two \in {one, Collapse(one)}
  BY DEF StatusFollowed
<1> HIDE DEF two
<1>5. Sound(two) /\ (Shown(two) => Opened(two))
  BY <1>3, <1>4, CollapseSound
<1>6. one.loading = d.loading => Steady(one)
  <2> SUFFICES ASSUME one.loading = d.loading PROVE Steady(one)
    OBVIOUS
  <2>1. one.handler => ~one.loading
    BY <1>1, EffectsBind DEF CanAutoStart
  <2> QED BY <1>3, <2>1 DEF Opened, Mounted, Steady, CanAutoStart
<1> QED BY <1>2, <1>5, <1>6, SecondRenderSteady

-----------------------------------------------------------------------------
(* The events.                                                             *)

(* The dock of a reloaded page, with nothing gone wrong so far.            *)
Reloaded(e, a, p, r, stored, taken) ==
  [Loaded(e, a, p, r, stored, taken) EXCEPT !.stray = FALSE, !.misheard = FALSE]

(* What an event hands to its renders is sound.                            *)
LEMMA ReloadSound ==
  ASSUME NEW e \in BOOLEAN, NEW a \in BOOLEAN, NEW p \in {"app", "unlock"}, NEW r \in BOOLEAN,
         NEW stored \in {"none", "collapsed", "expanded"}, NEW taken \in BOOLEAN
  PROVE  /\ Steady(Loaded(e, a, p, r, stored, taken))
         /\ Sound(Reloaded(e, a, p, r, stored, taken))
<1> DEFINE l == Loaded(e, a, p, r, stored, taken)
           m == [l EXCEPT !.stray = FALSE, !.misheard = FALSE]
<1>1. DOMAIN l = Fields
  BY DEF Loaded, Blank, Fields, Flags
<1>2. /\ l.emergency = e /\ l.active = (a /\ e) /\ l.page = p /\ l.ready = r
      /\ l.pref = stored /\ l.slot = taken /\ l.expansion = Unread /\ l.owed = 0
  BY DEF Loaded, Blank, Fields, Flags
<1>3. \A f \in Flags \ {"emergency", "active", "ready", "slot"} : l[f] = FALSE
  BY DEF Loaded, Blank, Fields, Flags
<1> HIDE DEF l
<1>4. Sound(l)
  <2>1. \A f \in Flags : l[f] \in BOOLEAN
    BY <1>2, <1>3 DEF Flags
  <2>2. /\ ~l.timer /\ ~l.pending /\ ~l.signal /\ ~l.press /\ ~l.latch /\ ~l.bpress /\ ~l.blatch
        /\ ~l.stray /\ ~l.misheard
    BY <1>3 DEF Flags
  <2>3. Typed(l)
    BY <1>1, <1>2, <2>1 DEF Typed
  <2> QED BY <1>2, <2>2, <2>3 DEF Sound
<1>5. Sound(m)
  BY <1>4 DEF Sound, Typed, Fields, Flags
<1>6. Steady(l)
  BY <1>3, <1>4 DEF Steady, NoneWaits, Told, Fields, Flags
<1>7. Reloaded(e, a, p, r, stored, taken) = m
  BY DEF Reloaded, l
<1> HIDE DEF m
<1> QED BY <1>5, <1>6, <1>7 DEF l

LEMMA InitSteady == Init => DockInv
BY ReloadSound DEF Init, DockInv

LEMMA ExpandStep == DockInv /\ Expand => DockInv'
<1> SUFFICES ASSUME DockInv, Expand PROVE DockInv'
  OBVIOUS
<1> DEFINE d == [dock EXCEPT !.expansion = [status |-> Status(dock), expanded |-> TRUE],
                             !.pref = "expanded"]
<1>1. Sound(dock)
  BY DEF DockInv, Steady
<1>2. Sound(d) /\ d.pref = "expanded"
  BY <1>1 DEF Sound, Typed, Fields, Flags, Status, Statuses, Unread
<1>3. \A f \in Fields \ {"expansion", "pref"} : d[f] = dock[f]
  BY <1>1 DEF Sound, Typed, Fields, Flags
<1>4. Step(Trigger(d))
  BY DEF Expand
<1> HIDE DEF d
<1>5. d.handler => Ready(d)
  <2> SUFFICES ASSUME d.handler PROVE Ready(d)
    OBVIOUS
  <2>1. CanAutoStart(dock) /\ Told(dock)
    BY <1>3 DEF DockInv, Steady, CanAutoStart, Fields, Flags
  <2>2. /\ d.unlocked = dock.unlocked /\ d.page = dock.page /\ d.ready = dock.ready
        /\ d.loading = dock.loading /\ d.latch = dock.latch /\ d.signal = dock.signal
        /\ d.blatch = dock.blatch
    BY <1>3 DEF Fields, Flags
  <2>3. Shown(d)
    BY <1>1, <1>2, <2>1, <2>2, ShownIsPreferred DEF CanAutoStart
  <2> QED BY <2>1, <2>2, <2>3 DEF Ready, CanAutoStart, Told
<1>6. Sound(Trigger(d))
  BY <1>2, <1>5, TriggerSound
<1> QED BY <1>4, <1>6, SettledSteady DEF Step, DockInv

LEMMA ReloadStep == DockInv /\ Reload => DockInv'
<1> SUFFICES ASSUME DockInv, Reload PROVE DockInv'
  OBVIOUS
<1>1. /\ dock.emergency \in BOOLEAN /\ dock.active \in BOOLEAN /\ dock.page \in {"app", "unlock"}
      /\ dock.ready \in BOOLEAN /\ dock.pref \in {"none", "collapsed", "expanded"}
      /\ dock.slot \in BOOLEAN /\ dock.stray = FALSE /\ dock.misheard = FALSE
  BY DEF DockInv, Steady, Sound, Typed, Fields, Flags
<1>2. PICK e \in BOOLEAN, a \in BOOLEAN, r \in BOOLEAN, t \in BOOLEAN :
        dock.emergency = e /\ dock.active = a /\ dock.ready = r /\ dock.slot = t
  BY <1>1
<1>3. PICK p \in {"app", "unlock"}, s \in {"none", "collapsed", "expanded"} :
        dock.page = p /\ dock.pref = s
  BY <1>1
<1>4. Sound(Reloaded(e, a, p, r, s, t))
  BY ReloadSound
<1>5. dock' = Settled(Reloaded(e, a, p, r, s, t), "none", FALSE, TRUE)
  BY <1>1, <1>2, <1>3 DEF Reload, Reloaded
<1> QED BY <1>4, <1>5, SettledSteady DEF DockInv

(* Closing it: a click outside, the link, the lock button.                 *)
LEMMA CloseStep == DockInv /\ (Dismiss \/ OpenFullUnlockPage \/ LockNow) => DockInv'
<1> SUFFICES ASSUME DockInv, Dismiss \/ OpenFullUnlockPage \/ LockNow PROVE DockInv'
  OBVIOUS
<1> DEFINE c == Collapse(dock)
           l == [c EXCEPT !.unlocked = FALSE]
<1>1. Sound(c)
  BY CollapseSound DEF DockInv, Steady
<1>2. Step(c) \/ Step(l)
  BY DEF Dismiss, OpenFullUnlockPage, LockNow
<1> HIDE DEF c
<1>3. Sound(l)
  BY <1>1 DEF Sound, Typed, Fields, Flags
<1> HIDE DEF l
<1> QED BY <1>1, <1>2, <1>3, SettledSteady DEF Step, DockInv

(* The session opens or closes, or the options come or go, under the dock. *)
LEMMA ChangeStep == DockInv /\ (SessionChanges \/ OptionsChange) => DockInv'
<1> SUFFICES ASSUME DockInv, SessionChanges \/ OptionsChange PROVE DockInv'
  OBVIOUS
<1> DEFINE u == [dock EXCEPT !.unlocked = ~@]
           r == [dock EXCEPT !.ready = ~@]
<1>1. Sound(u) /\ Sound(r)
  BY DEF DockInv, Steady, Sound, Typed, Fields, Flags
<1>2. CASE SessionChanges
  <2>1. Step(u)
    BY <1>2 DEF SessionChanges
  <2> HIDE DEF u
  <2> QED BY <1>1, <2>1, SettledSteady DEF Step, DockInv
<1>3. CASE OptionsChange
  <2>1. dock' = Settled(r, Status(dock), dock.latch, TRUE)
    BY <1>3 DEF OptionsChange
  <2> HIDE DEF r
  <2> QED BY <1>1, <2>1, SettledSteady DEF DockInv
<1> QED BY <1>2, <1>3

(* A page change settles twice: before and after the app has read the      *)
(* server snapshot.                                                        *)
LEMMA NavigateStep ==
  ASSUME NEW p \in {"app", "unlock"}, NEW a \in BOOLEAN, DockInv, Navigate(p, a)
  PROVE  DockInv'
<1> DEFINE there == [dock EXCEPT !.page = p]
           d     == Settled(there, Status(dock), dock.latch, TRUE)
           read  == [d EXCEPT !.active = a /\ d.emergency]
<1>1. Sound(there)
  BY DEF DockInv, Steady, Sound, Typed, Fields, Flags
<1>2. dock' = Settled(read, Status(d), d.latch, TRUE)
  BY DEF Navigate
<1> HIDE DEF there
<1>3. Sound(d)
  BY <1>1, SettledSteady DEF Steady
<1> HIDE DEF d
<1>4. Sound(read)
  BY <1>3 DEF Sound, Typed, Fields, Flags
<1> HIDE DEF read
<1> QED BY <1>2, <1>4, SettledSteady DEF DockInv

(* A click on the button of a quick unlock that is shown.                  *)
LEMMA ClickStep == DockInv /\ ClickPasskey => DockInv'
<1> SUFFICES ASSUME DockInv, ClickPasskey PROVE DockInv'
  OBVIOUS
<1>1. Sound(Ceremony(dock)) /\ Step(Ceremony(dock))
  BY CeremonySound DEF ClickPasskey, DockInv, Steady
<1> QED BY <1>1, SettledSteady DEF Step, DockInv

(* The attempt's finally blocks: nothing is latched or signalled any more. *)
LEMMA AttemptEndsStep ==
  ASSUME NEW fatal \in BOOLEAN, DockInv, AttemptEnds(fatal)
  PROVE  DockInv'
<1> DEFINE d == IF fatal THEN Collapse(dock) ELSE dock
           e == [d EXCEPT !.loading = FALSE, !.signal = FALSE, !.press = FALSE,
                          !.latch = FALSE, !.bpress = FALSE, !.blatch = FALSE]
<1>1. Sound(d)
  BY CollapseSound DEF DockInv, Steady
<1>2. Step(e)
  BY DEF AttemptEnds
<1> HIDE DEF d
<1>3. Sound(e)
  BY <1>1 DEF Sound, Typed, Fields, Flags
<1> HIDE DEF e
<1> QED BY <1>2, <1>3, SettledSteady DEF Step, DockInv

(* Of what a steady dock's steadiness is made.                             *)
LEMMA SteadySame ==
  ASSUME NEW d, Steady(d), NEW e, Sound(e),
         \A f \in Fields \ {"slot", "press", "bpress", "timer", "signal", "blatch"} : e[f] = d[f],
         Shown(d) => Told(e)
  PROVE  Steady(e)
<1>1. /\ e.page = d.page /\ e.pref = d.pref /\ e.unlocked = d.unlocked /\ e.ready = d.ready
      /\ e.loading = d.loading /\ e.handler = d.handler /\ e.pending = d.pending
      /\ e.emergency = d.emergency
  BY DEF Fields, Flags
<1>2. Sound(d)
  BY DEF Steady
<1>3. Shown(e) <=> Shown(d)
  BY <1>1, <1>2, ShownIsPreferred
<1> QED BY <1>1, <1>3 DEF Steady, CanAutoStart, NoneWaits

(* The delay ends: a handler that is there starts the ceremony, and where  *)
(* there is none the start stays due.                                      *)
LEMMA DelayEndsStep == DockInv /\ DelayEnds => DockInv'
<1> SUFFICES ASSUME DockInv, DelayEnds PROVE DockInv'
  OBVIOUS
<1> DEFINE w == [dock EXCEPT !.timer = FALSE]
<1>1. Sound(dock) /\ dock.timer /\ Steady(dock)
  BY DEF DelayEnds, DockInv, Steady
<1>2. Sound(w) /\ ~w.timer /\ w.owed = 1
  BY <1>1 DEF Sound, Typed, Fields, Flags
<1>3. \A f \in Fields \ {"timer"} : w[f] = dock[f]
  BY <1>1 DEF Sound, Typed, Fields, Flags
<1>4. \/ Fire(w).loading # dock.loading /\ Step(Fire(w))
      \/ Fire(w).loading = dock.loading /\ dock' = Fire(w)
  BY DEF DelayEnds
<1> HIDE DEF w
<1>5. /\ w.latch = dock.latch /\ w.blatch = dock.blatch /\ w.signal = dock.signal
      /\ w.handler = dock.handler /\ w.loading = dock.loading
  BY <1>3 DEF Fields, Flags
<1>6. Steady(w)
  BY <1>1, <1>2, <1>3, <1>5, SteadySame DEF Steady, Told
<1>7. CASE w.handler
  <2>1. Ready(w) /\ ~w.loading
    BY <1>6, <1>7 DEF Steady, CanAutoStart, Ready
  <2>2. Sound(Fire(w)) /\ Fire(w).loading
    BY <1>2, <1>7, <2>1, FireSound
  <2>3. Step(Fire(w))
    BY <1>4, <1>5, <2>1, <2>2
  <2> QED BY <2>2, <2>3, SettledSteady DEF Step, DockInv
<1>8. CASE ~w.handler
  <2>1. Fire(w) = w
    BY <1>8 DEF Fire
  <2> QED BY <1>4, <1>5, <1>6, <2>1 DEF DockInv
<1> QED BY <1>7, <1>8

(* The latch of the handle, which the dock reports.                        *)
LEMMA HandleHeldStep == DockInv /\ HandleHeld => DockInv'
<1> SUFFICES ASSUME DockInv, HandleHeld PROVE DockInv'
  OBVIOUS
<1> DEFINE h == [dock EXCEPT !.press = FALSE, !.latch = TRUE]
<1>1. Sound(h)
  BY DEF HandleHeld, DockInv, Steady, Sound, Typed, Fields, Flags
<1>2. Step(h)
  BY DEF HandleHeld
<1> HIDE DEF h
<1> QED BY <1>1, <1>2, SettledSteady DEF Step, DockInv

(* What only moves a press, the button's latch or the slot: no render.     *)
LEMMA QuietStep ==
  DockInv /\ (SlotExpires \/ PressHandle \/ PressButton \/ Release \/ ButtonHeld) => DockInv'
<1> SUFFICES ASSUME DockInv,
                    SlotExpires \/ PressHandle \/ PressButton \/ Release \/ ButtonHeld
             PROVE  DockInv'
  OBVIOUS
<1>1. Sound(dock) /\ Steady(dock)
  BY DEF DockInv, Steady
<1> DEFINE moved == {"slot", "press", "bpress", "timer", "signal", "blatch"}
<1>2. CASE SlotExpires
  <2> DEFINE e == [dock EXCEPT !.slot = FALSE]
  <2>1. dock' = e
    BY <1>2 DEF SlotExpires
  <2>2. Sound(e) /\ (Shown(dock) => Told(e)) /\ \A f \in Fields \ moved : e[f] = dock[f]
    BY <1>1, <1>2 DEF Steady, Sound, Typed, Told, Fields, Flags, SlotExpires
  <2> HIDE DEF e
  <2>3. Steady(e)
    BY <1>1, <2>2, SteadySame
  <2> QED BY <2>1, <2>3 DEF DockInv
<1>3. CASE PressHandle
  <2> DEFINE e == [dock EXCEPT !.press = TRUE]
  <2>1. dock' = e
    BY <1>3 DEF PressHandle
  <2>2. Sound(e) /\ (Shown(dock) => Told(e)) /\ \A f \in Fields \ moved : e[f] = dock[f]
    BY <1>1, <1>3 DEF Steady, Sound, Typed, Told, Fields, Flags, PressHandle
  <2> HIDE DEF e
  <2>3. Steady(e)
    BY <1>1, <2>2, SteadySame
  <2> QED BY <2>1, <2>3 DEF DockInv
<1>4. CASE PressButton
  <2> DEFINE e == [dock EXCEPT !.bpress = TRUE]
  <2>1. dock' = e
    BY <1>4 DEF PressButton
  <2>2. Sound(e) /\ (Shown(dock) => Told(e)) /\ \A f \in Fields \ moved : e[f] = dock[f]
    BY <1>1, <1>4 DEF Steady, Sound, Typed, Told, Fields, Flags, PressButton
  <2> HIDE DEF e
  <2>3. Steady(e)
    BY <1>1, <2>2, SteadySame
  <2> QED BY <2>1, <2>3 DEF DockInv
<1>5. CASE dock.press /\ dock' = [dock EXCEPT !.press = FALSE]
  <2> DEFINE e == [dock EXCEPT !.press = FALSE]
  <2>1. dock' = e
    BY <1>5
  <2>2. Sound(e) /\ (Shown(dock) => Told(e)) /\ \A f \in Fields \ moved : e[f] = dock[f]
    BY <1>1, <1>5 DEF Steady, Sound, Typed, Told, Fields, Flags
  <2> HIDE DEF e
  <2>3. Steady(e)
    BY <1>1, <2>2, SteadySame
  <2> QED BY <2>1, <2>3 DEF DockInv
<1>6. CASE dock.bpress /\ dock' = [dock EXCEPT !.bpress = FALSE]
  <2> DEFINE e == [dock EXCEPT !.bpress = FALSE]
  <2>1. dock' = e
    BY <1>6
  <2>2. Sound(e) /\ (Shown(dock) => Told(e)) /\ \A f \in Fields \ moved : e[f] = dock[f]
    BY <1>1, <1>6 DEF Steady, Sound, Typed, Told, Fields, Flags
  <2> HIDE DEF e
  <2>3. Steady(e)
    BY <1>1, <2>2, SteadySame
  <2> QED BY <2>1, <2>3 DEF DockInv
<1>7. CASE ButtonHeld
  <2> DEFINE e == [dock EXCEPT !.bpress = FALSE, !.blatch = TRUE, !.signal = TRUE]
  <2>1. dock' = e
    BY <1>7 DEF ButtonHeld
  <2>2. Sound(e) /\ (Shown(dock) => Told(e)) /\ \A f \in Fields \ moved : e[f] = dock[f]
    BY <1>1, <1>7 DEF Steady, Sound, Typed, Told, Fields, Flags, ButtonHeld
  <2> HIDE DEF e
  <2>3. Steady(e)
    BY <1>1, <2>2, SteadySame
  <2> QED BY <2>1, <2>3 DEF DockInv
<1> QED BY <1>2, <1>3, <1>4, <1>5, <1>6, <1>7 DEF Release

LEMMA DockStep == DockInv /\ [Next]_vars => DockInv'
<1> SUFFICES ASSUME DockInv, [Next]_vars PROVE DockInv'
  OBVIOUS
<1>1. CASE UNCHANGED vars
  BY <1>1 DEF vars, DockInv
<1>2. CASE Next
  BY <1>2, ExpandStep, CloseStep, ReloadStep, ChangeStep, NavigateStep, ClickStep,
     AttemptEndsStep, DelayEndsStep, HandleHeldStep, QuietStep
  DEF Next
<1> QED BY <1>1, <1>2

(* The dock is steady between any two steps: what React runs in one go, in *)
(* the order it runs it, leaves nothing half done for the next event.      *)
THEOREM DockInvariant == Spec => []DockInv
BY InitSteady, DockStep, PTL DEF Spec

-----------------------------------------------------------------------------
(* The properties.                                                         *)

(* Every field keeps its type; a timer runs only for a start that is due   *)
(* and delayed, and nothing is pressed or signalled outside emergency mode.*)
THEOREM DockTypeCorrect == Spec => []TypeOK
<1>1. DockInv => TypeOK
  BY DEF DockInv, Steady, Sound, Typed, TypeOK, Fields, Flags
<1> QED BY <1>1, DockInvariant, PTL

(* triggerPasskeyAutoStart and its session storage slot: a slot pays for   *)
(* one automatic ceremony, in any order of expansion, binding, delay,      *)
(* loading and locking.                                                    *)
THEOREM OneStartPerSlot == Spec => []AutoStartOnce
<1>1. DockInv => AutoStartOnce
  BY DEF DockInv, Steady, Sound, AutoStartOnce
<1> QED BY <1>1, DockInvariant, PTL

(* fire calls the handler of the quick unlock on the screen, of a locked   *)
(* vault with its options ready and no attempt awaited, or none.           *)
THEOREM NoPromptUnasked == Spec => []QuietUnlessShown
<1>1. DockInv => QuietUnlessShown
  BY DEF DockInv, Steady, Sound, QuietUnlessShown
<1> QED BY <1>1, DockInvariant, PTL

(* collapse cancels the delay and the start that was due: away from the    *)
(* full unlock page a closed dock has neither.                             *)
THEOREM NothingDueWhenClosed == Spec => []ClosingCancels
<1>1. DockInv => ClosingCancels
  <2> SUFFICES ASSUME DockInv PROVE ClosingCancels
    OBVIOUS
  <2>1. Sound(dock)
    BY DEF DockInv, Steady
  <2> QED BY <2>1, ExpandedIsPreferred DEF Sound, ClosingCancels
<1> QED BY <1>1, DockInvariant, PTL

(* bindAutoStartPasskey makes the start that came before its handler: where*)
(* starts are not delayed, none waits for a handler that is there.         *)
THEOREM NoStartForgotten == Spec => []StartsWhenItCan
<1>1. DockInv => StartsWhenItCan
  BY DEF DockInv, Steady, NoneWaits, StartsWhenItCan
<1> QED BY <1>1, DockInvariant, PTL

(* The app's duressSignaledRef tells a ceremony of a long press only when  *)
(* one is latched that no earlier attempt has used up, and of every one of *)
(* the handle. (Not of every one of the button: ButtonHeard.)              *)
THEOREM HandlePressesAreTold == Spec => []DuressHeard
<1>1. DockInv => DuressHeard
  BY DEF DockInv, Steady, Sound, DuressHeard
<1> QED BY <1>1, DockInvariant, PTL
=============================================================================
