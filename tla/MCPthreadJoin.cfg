SPECIFICATION FairSpec
CHECK_DEADLOCK FALSE
CONSTANTS
  Thread = {t1, t2, t3, t4}
  Target = target
  Ops <- MCOps
  Interrupts <- MCInterrupts
  Overlap = FALSE
INVARIANTS
  OneCatcher
  FreedIsUnused

  
