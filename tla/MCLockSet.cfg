CONSTANTS
  q1 = q1
  k1 = k1
  Thread = {t1, t2, t3}
  WaitQ = {q1}
  LOCK_SET_EVENT = LockSetEvent
  LOCK_SET_HANDOFF = LockSetHandoff
  Event = {LockSetEvent, LockSetHandoff}
  Aborter = {k1}
  VMPrivileged = {}
  NoQueue = NoQueue
  NoEvent = NoEvent
  Idle = Idle
  Nobody = Nobody
  Ops = {"acquire", "try", "release", "handoff", "accept", "destroy"}
SPECIFICATION Spec
VIEW MCView
SYMMETRY ThreadSymmetry
INVARIANTS
  Exclusion
  AcquirersSeen
  HandoffMeets
