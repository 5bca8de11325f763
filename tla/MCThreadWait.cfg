CONSTANTS
  t1 = t1
  t2 = t2
  t3 = t3
  k1 = k1
  e1 = e1
  e2 = e2
  q1 = q1
  Thread <- MCThread
  WaitQ = {q1}
  Event <- MCEvent
  Aborter = {k1}
  VMPrivileged <- MCPrivileged
  NoQueue = NoQueue
  NoEvent = NoEvent
  Idle = Idle
  wait_hash <- MCHash
  WaitMode = {"UNINT", "ABORTSAFE"}
  WakeResult = {"AWAKENED"}
SPECIFICATION WaitFairSpec
INVARIANTS
  WaitInv
PROPERTIES
  ResultDecidedOnce
  AbortNotLost
