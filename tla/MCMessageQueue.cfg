CONSTANTS
  t1 = t1
  t2 = t2
  t3 = t3
  p1 = p1
  k1 = k1
  m1 = m1
  m2 = m2
  m3 = m3
  Thread <- MCThreads
  Sender <- MCSenders
  Receiver <- MCReceivers
  Aborter = {k1}
  VMPrivileged = {}
  Port = {p1}
  PSet = PSet
  WaitQ <- MCQueues
  FULL = FULL
  RECEIVE = RECEIVE
  Event = {FULL, RECEIVE}
  NoQueue = NoQueue
  NoEvent = NoEvent
  Idle = Idle
  Msg <- MCMsg
  NoMsg = NoMsg
  Big = {m1}
  Small = {t2}
  Always = {m1}
  InitLimit = 2
  Limits = {1}
  CountSize = 4
  Admin = Admin
  Nobody = Nobody
SPECIFICATION Spec
SYMMETRY MessageSymmetry
VIEW MCView
INVARIANTS
  MessagesKept
  NoMissedMessage
  SpaceReserved
  NoSenderStranded
  LockHolderRuns
