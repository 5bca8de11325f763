CONSTANTS
  t1 = t1
  t2 = t2
  t3 = t3
  t4 = t4
  Thread <- MCFour
  ReadCountSize = 5
SPECIFICATION FairSpec
INVARIANTS
  LockInv
  SleepersSeen
PROPERTIES
  WriterAdmitted
