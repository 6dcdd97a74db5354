SPECIFICATION FairSpec
CONSTANTS
  NPROC = 2
  CPUs = {c0, c1}
  Cpu0 = c0
  None = None
  MaxPid = 3
  TickMod = 2
  SleepTimes = {1}
CHECK_DEADLOCK FALSE
PROPERTIES KilledExits ZombieReaped
