\* init and a child, and too little memory for two large ones.
SPECIFICATION Spec
CONSTANTS
  NPAGES = 13
  PGSIZE = 2
  NPTE = 8
  KERNPAGES = 16
  KTABS = 1
  NPROC = 2
  VA1 = 12
  VA2 = 14
  NSHARED = 2
  MAXARGS = 2
  Images <- MCImages
  Grows <- MCGrows
  Allocators = {1}
VIEW View
INVARIANTS PagesAccounted SharedCounted SizeMapped
