CONSTANTS
  Thread = {t1, t2, t3}
  Block = {b1, b2, b3}
  NVAL = 2
  MAXOPBLOCKS = 1
  LOGSIZE = 3
  NLOG = 3
  OPBLOCKS = 1
  MaxCrashes = 0
SPECIFICATION Spec
INVARIANT NoPanic
CHECK_DEADLOCK FALSE
