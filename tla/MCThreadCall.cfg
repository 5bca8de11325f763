CONSTANTS
  e1 = e1
  i1 = i1
  x1 = x1
  x2 = x2
  x3 = x3
  cpu0 = cpu0
  cpu1 = cpu1
  Callout <- MCCalls
  Internal = {i1}
  Stuck = {e1}
  CallThread <- MCThreads
  CPU = {cpu0, cpu1}
  MaxDelay = 1
  thread_lowat = 2
SPECIFICATION CallFairSpec
INVARIANTS
  Bookkeeping
  TimerCovers
  PendingServed
PROPERTIES
  CallsProceed
