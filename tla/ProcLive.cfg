CONSTANTS
  CPU = {c1}
  NoCPU = NoCPU
  NPROC = 4
  MaxPid = 4
  KillPids = {3}
SPECIFICATION FairSpec
PROPERTIES ZombiesReaped KilledExit
