SPECIFICATION Spec
CONSTANTS
  Procs = {p1, p2}
  None = None
  Blocks = {b1, b2, b3}
  Vals = {old, new}
  MAXOPBLOCKS = 2
  LOGSIZE = 6
  nlog = 6
  AfterLog = b1
  OpWrites = 2
SYMMETRY Symmetry
VIEW LogView
INVARIANTS TypeOK NoLostWakeup
PROPERTIES ImplementsAtomicDisk WriteAhead
