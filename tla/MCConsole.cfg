SPECIFICATION Spec
CONSTANTS
  CPUs = {c0, c1}
  IntrCpu = c0
  None = None
  Locks = {"input", "ptable"}
  NPROC = 2
  INPUT_BUF = 2
  UintMod = 4
  Chars = {"x"}
  Sizes = {2}
  MaxKills = 1
INVARIANTS NoPanic HaltsInterruptible NoLostWakeup
PROPERTIES ImplementsLineBuffer
VIEW RingView
