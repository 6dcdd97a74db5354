SPECIFICATION Spec
CONSTANTS
  Parent = parent
  Child = child
  Procs = {parent, child}
  None = None
  Names = {"cat", "dd", "ff", "xx", "C0", "C1", "C2"}
  NInodes = 9
  NINODE = 5
  NOFILE = 2
  NFILE = 3
  BSIZE = 3
  NDIRECT = 3
  FSSIZE = 16
  NMeta = 2
  MAXOPBLOCKS = 2
  Rounds = 2
INVARIANT EntriesAllocated
CHECK_DEADLOCK FALSE
