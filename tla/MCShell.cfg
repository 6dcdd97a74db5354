SPECIFICATION Spec
CONSTANTS
  Sh = Sh
  Left = Left
  Right = Right
  Procs <- MCProcs
  None = None
  NFILE = 3
  NOFILE = 5
  PIPESIZE = 2
  UintMod = 4
  MaxN = 4
  MaxKills = 1
  MaxCalls <- MCCalls
CHECK_DEADLOCK FALSE
INVARIANTS EndsFollowDescriptors NoLostWakeup Wired
PROPERTIES ImplementsPipeQueue PipelineEnds
