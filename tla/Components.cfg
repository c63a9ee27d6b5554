SPECIFICATION AllSpec
CONSTANTS
  NBUF = 2
  NBLOCKS = 3
  Proc = {p1, p2}
  NVAL = 3
  MaxPins = 1
  MaxCalls = 3
  USize = 4
  N = 2
  Writers = {"w1", "w2"}
  Readers = {"r1", "r2"}
  Calls = 2
  INPUT_BUF = 3
  CWidth = 6
  Codes = {"d", "enter", "ctl"}
  Serial = {"a", "^U", "^H"}
  NREADERS = 2
  ReadSize = 2
  MaxBytes = 7
  MaxReads = 1
INVARIANTS CacheCurrent InputInOrder BytesInOrder ListsAreSequences HeapTiled AlgorithmsRight
PROPERTY CallsReturn
CHECK_DEADLOCK FALSE
