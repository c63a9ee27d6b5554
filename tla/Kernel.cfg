CONSTANTS
  NBLOCK = 30
  NINODES = 20
  NINODE = 6
  BSIZE = 4
  NDIRECT = 2
  DIRSIZ = 14
  NPROC = 5
  NFILE = 8
  NOFILE = 7
  NPIPE = 1
  PIPESIZE = 2
  MaxChunk = 2
  N = 2
  NCHILD = 2
  ROUNDS = 1
  MAXARGS = 10
SPECIFICATION Spec
INVARIANTS ProgramsSatisfied CacheCoherent CommitsConsistent CountsExact
