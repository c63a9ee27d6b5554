CONSTANTS
  Thread = {t1, t2}
  Block = {b1, b2}
  NVAL = 3
  MAXOPBLOCKS = 1
  LOGSIZE = 3
  NLOG = 3
  OPBLOCKS = 2
  MaxCrashes = 2
SPECIFICATION FairSpec
INVARIANTS OnlyFullPanics QuietDurable
PROPERTIES LogIsAtomic SleepersWoken
CHECK_DEADLOCK FALSE
