CONSTANTS
  Proc = {p1, p2}
  Victims = {}
  Nobody = Nobody
SPECIFICATION Spec
INVARIANT SleeperQueued
CHECK_DEADLOCK FALSE
