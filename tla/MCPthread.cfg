CONSTANTS
  t1 = t1
  t2 = t2
  t3 = t3
  t4 = t4
  s1 = s1
  s2 = s2
  Thread <- MCFour
  Sem <- MCSem
  NoSem = NoSem
  NoThread = NoThread
  Static = "first"
  Interrupts = {"cond_signal", "cond_blocked"}
  Ops = {"lock", "trylock", "wait", "timedwait", "signal", "signal_thread", "broadcast", "signal_unlocked", "broadcast_unlocked"}
SPECIFICATION FairSpec
INVARIANTS
  MutualExclusion
  PoolSound
  CountsExact
PROPERTIES
  LockProgress
  TryLockReturns
