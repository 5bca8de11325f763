CONSTANTS
  t1 = t1
  t2 = t2
  t3 = t3
  k1 = k1
  s1 = s1
  s2 = s2
  Thread <- MCPair
  WaitQ = {s1, s2}
  Event = {SemEvent}
  Aborter = {k1}
  VMPrivileged = {}
  NoQueue = NoQueue
  NoEvent = NoEvent
  Idle = Idle
  SEMAPHORE_EVENT = SemEvent
  MaxCount = 1
  Ops = {"wait", "wait_signal", "signal_thread", "destroy"}
SPECIFICATION Spec
SYMMETRY ThreadSymmetry
INVARIANTS
  ReferencesCounted
  FreedIsUnused
PROPERTIES
  ImplementsContract
