CONSTANTS
  CPU = {c1, c2}
  NoCPU = NoCPU
  NPROC = 3
  MaxPid = 4
  KillPids = {0, 2, 3}
SPECIFICATION Spec
INVARIANTS OneCPU StackLive ChildrenAwaited
