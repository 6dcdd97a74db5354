SPECIFICATION Spec
CONSTANTS
  NPROC = 3
  CPUs = {c0, c1}
  Cpu0 = c0
  None = None
  MaxPid = 3
  TickMod = 3
  SleepTimes = {0, 2}
CHECK_DEADLOCK FALSE
INVARIANTS TypeOK RunningOnOneCpu ParentCanWait NoMissedWakeup PidsDiffer
