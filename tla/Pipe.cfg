CONSTANTS
  Writer = {w1, w2}
  Reader = {r1}
  Late = {w2}
  Nobody = Nobody
  PIPESIZE = 2
  Width = 2
  WriteLen = 3
  ReadLen = 2
  MaxWrites = 1
SPECIFICATION FairSpec
INVARIANTS FirstInFirstOut FreedUnused
PROPERTY EverybodyFinishes
CHECK_DEADLOCK FALSE
