CONSTANTS
  CPU = {c1, c2}
  NLOCK = 2
  NoCPU = NoCPU
  Thread = {t1, t2}
  Timer = Timer
  Nobody = Nobody
  Width = 2
  Durations = {0, 1, 2}
  MaxLag = 3
  p1 = p1
  p2 = p2
  p3 = p3
  s1 = s1
  s2 = s2
  Proc = {p1, p2, p3}
  Sem = {s1, s2}
  NoHolder = NoHolder
  Initial <- PingPongInit
  Script <- PingPong
  Victims = {p1, p2}
SPECIFICATION SyncSpec
INVARIANTS MutualExclusion NoPanic SpinsOnRunningOwner InterruptsRestored NoMissedWakeup DownsCovered NobodyStranded
PROPERTIES SleepIsAtomic SleepReturns PingPongEnds
