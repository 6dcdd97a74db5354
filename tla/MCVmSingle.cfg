SPECIFICATION Spec
VIEW FrameView
CONSTANTS
  Procs = {p1}
  InitProc = p1
  NFrames = 7
  None = None
  NPages = 3
  PGSIZE = 2
  Contents <- MCContents
  Zero = 0
  Junk = 1
  Sum <- MCSum
  TextPages = {1}
  TlbSize = 0
INVARIANTS TypeOK RefsExact ReadOnlyIsCow NoPanic
PROPERTIES DedupPreservesLoads DedupMergesNeighbours ImplementsAddrSpace
