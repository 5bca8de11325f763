CONSTANTS
  c1 = c1
  c2 = c2
  CPU <- MCCPU
  MaxTime = 3
SPECIFICATION FairSpec
INVARIANTS
  TimeoutOnlyWhenDue
  NoExpireAfterFree
  TimerInv
PROPERTIES
  TimedWaitEnds
  TerminateCompletes
CHECK_DEADLOCK FALSE
