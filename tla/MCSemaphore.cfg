CONSTANTS
  t1 = t1
  t2 = t2
  t3 = t3
  k1 = k1
  s1 = s1
  s2 = s2
  Thread <- MCPair
  WaitQ = {s1}
  Event = {SemEvent}
  Aborter = {k1}
  VMPrivileged = {}
  NoQueue = NoQueue
  NoEvent = NoEvent
  Idle = Idle
  SEMAPHORE_EVENT = SemEvent
  MaxCount = 1
  Ops = {"wait", "timedwait", "signal", "signal_one", "create", "destroy"}
SPECIFICATION FairSpec
INVARIANTS
  SuccessIffGranted
  TimedOutOnlyIfTimed
PROPERTIES
  ImplementsContract
  DestroyReleasesWaiters
  TimedWaitReturns
