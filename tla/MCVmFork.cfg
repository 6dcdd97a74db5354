SPECIFICATION FairSpec
CONSTANTS
  Procs = {p1, p2}
  InitProc = p1
  NFrames = 6
  None = None
  NPages = 2
  PGSIZE = 1
  Contents = {0, 1}
  Zero = 0
  Junk = 1
  Sum <- MCSum0
  TextPages = {}
  TlbSize = 0
INVARIANTS NoPanic
PROPERTIES ImplementsAddrSpace StoreCompletes
