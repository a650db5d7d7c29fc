\* Both modes, every order of the events.
SPECIFICATION Spec
PROPERTY ButtonHeard
