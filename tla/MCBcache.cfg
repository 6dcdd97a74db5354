SPECIFICATION Spec
CONSTANTS
  Procs = {p1, p2}
  None = None
  NBUF = 3
  Blocks = {b1, b2, b3, b4}
  BadBlocks = {b4}
  Vals = {v1, v2}
  Written = {b1, b4}
  Inner = {b1}
  MaxSpurious = 1
SYMMETRY Symmetry
VIEW BufView
INVARIANTS PanicsOnlyWhenFull NoLostRequest
PROPERTIES ImplementsBlockStore
