\* Both modes, every order of the events.
SPECIFICATION Spec
INVARIANTS TypeOK AutoStartOnce QuietUnlessShown ClosingCancels StartsWhenItCan DuressHeard
