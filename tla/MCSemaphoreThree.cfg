CONSTANTS
  t1 = t1
  t2 = t2
  t3 = t3
  k1 = k1
  s1 = s1
  s2 = s2
  Thread <- MCThree
  WaitQ = {s1}
  Event = {SemEvent}
  Aborter = {k1}
  VMPrivileged = {}
  NoQueue = NoQueue
  NoEvent = NoEvent
  Idle = Idle
  SEMAPHORE_EVENT = SemEvent
  MaxCount = 1
  Ops = {"wait", "poll", "signal", "signal_all", "destroy"}
SPECIFICATION Spec
SYMMETRY ThreadSymmetry
INVARIANTS
  WaitersSeen
