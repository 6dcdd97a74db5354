SPECIFICATION Spec
VIEW FrameView
CONSTANTS
  Procs = {p1, p2}
  InitProc = p1
  NFrames = 6
  None = None
  NPages = 2
  PGSIZE = 1
  Contents = {0}
  Zero = 0
  Junk = 0
  Sum <- MCSum1
  TextPages = {}
  TlbSize = 1
INVARIANTS SharedIsCow
