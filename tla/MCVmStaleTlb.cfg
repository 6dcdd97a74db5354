SPECIFICATION Spec
VIEW FrameView
CONSTANTS
  Procs = {p1}
  InitProc = p1
  NFrames = 5
  None = None
  NPages = 2
  PGSIZE = 1
  Contents = {0, 1}
  Zero = 0
  Junk = 1
  Sum <- MCSum0
  TextPages = {}
  TlbSize = 1
PROPERTIES DedupPreservesLoads
