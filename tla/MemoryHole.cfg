\* Memory for two large processes and more: no kalloc() fails.
SPECIFICATION Spec
CONSTANTS
  NPAGES = 40
  PGSIZE = 2
  NPTE = 8
  KERNPAGES = 16
  KTABS = 1
  NPROC = 3
  VA1 = 12
  VA2 = 14
  NSHARED = 2
  MAXARGS = 2
  Images <- MCImages
  Grows <- MCGrows
  Allocators = {1}
VIEW View
INVARIANT CopyFindsPages
