CONSTANTS
  Thread = {t1}
  Target = target
  Ops = {"join"}
  Interrupts = {}
  Overlap = FALSE
SPECIFICATION FairSpec
CHECK_DEADLOCK FALSE
PROPERTIES
  JoinReturns
