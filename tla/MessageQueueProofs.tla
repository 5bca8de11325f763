-------------------------- MODULE MessageQueueProofs --------------------------
(***************************************************************************)
(* Message queues for any number of threads, ports, messages, limits and   *)
(* aborting contexts: no message is lost or delivered twice, no receiver   *)
(* sleeps beside a message, and as long as no limit is raised the slots    *)
(* are counted exactly and no sender waits without need.                   *)
(***************************************************************************)
EXTENDS MessageQueue, WaitQueueProofs, FiniteSetTheorems, FunctionTheorems

\* What a thread has in its hands at each place of a send or a receive
Roles ==
  \A t \in Thread :
    /\ pc[t] \in {"send", "send_block", "post", "deliver"} =>
         t \in Sender /\ dest[t] \in Port /\ kmsg[t] # NoMsg
    /\ pc[t] \in {"idle", "rcv", "scan"} => kmsg[t] = NoMsg
    /\ pc[t] = "rcv_block" /\ waiting[t] => kmsg[t] = NoMsg
    /\ pc[t] = "scan" => dest[t] = PSet

\* Who waits, where and for what
Waits ==
  \A t \in Thread :
    waiting[t] =>
      /\ wait_queue[t] = dest[t]
      /\ \/ pc[t] = "send_block" /\ wait_event[t] = FULL
         \/ pc[t] = "rcv_block" /\ wait_event[t] = RECEIVE

Aborts == \A k \in Aborter : removing[k] # Idle => removing[k].result = "INTERRUPTED"

\* Who holds the locks: a post the port's, a search the set's, ipc_mqueue_add
\* that of the one port it is matching
Locks ==
  /\ \A t \in Thread, p \in Port : imq_lock[p] = t <=> pc[t] = "deliver" /\ dest[t] = p
  /\ \A t \in Thread : imq_lock[PSet] = t <=> pc[t] = "scan"
  /\ imq_lock[PSet] # Admin
  /\ \A p \in Port : imq_lock[p] = Admin => p \in adding
  /\ \A p, q \in adding : p = q

IsQueued(m, p, i) == i \in 1 .. Len(messages[p]) /\ messages[p][i] = m

\* Every message is in one place: MessagesKept without the counting
OnePlace ==
  /\ \A m \in Msg, p, q \in Port, i, j \in Nat :
       IsQueued(m, p, i) /\ IsQueued(m, q, j) => p = q /\ i = j
  /\ \A t, u \in Thread : kmsg[t] = kmsg[u] /\ kmsg[t] # NoMsg => t = u
  /\ \A m \in Msg, p \in Port, i \in Nat :
       IsQueued(m, p, i) => m \notin free /\ \A t \in Thread : kmsg[t] # m
  /\ \A t \in Thread : kmsg[t] \notin free
  /\ \A m \in Msg : \/ m \in free
                    \/ \E t \in Thread : kmsg[t] = m
                    \/ \E p \in Port, i \in Nat : IsQueued(m, p, i)

\* What a search of the set has found: the ports it has been to are empty
Searched ==
  \A t \in Thread, p \in Port :
    pc[t] = "scan" /\ p \in scanned \intersect linked => messages[p] = <<>>

\* The inductive invariant behind MessagesKept and NoMissedMessage
QueueInv ==
  /\ TypeOK /\ WaitingIffQueued /\ QueueOrder
  /\ Roles /\ Waits /\ Aborts /\ Locks /\ OnePlace /\ Searched /\ NoMissedMessage

-----------------------------------------------------------------------------
(* The cases of a step: the branches of the actions, with the locks and    *)
(* the waits they touch written out                                        *)

\* A send ends without a slot: a time-out of 0, or a wait that did
SendFails(t) ==
  /\ \/ pc[t] = "send"
     \/ pc[t] = "send_block" /\ ~waiting[t] /\ wait_result[t] # "AWAKENED"
  /\ PutMessage(t) /\ Return(t)
  /\ UNCHANGED <<wqVars, imq_lock, queueVars, adminVars, scanned>>

SendGoes(t) ==
  /\ pc[t] = "send_block" /\ ~waiting[t] /\ wait_result[t] = "AWAKENED"
  /\ Goto(t, "post")
  /\ UNCHANGED <<wqVars, imq_lock, queueVars, adminVars, free, dest, kmsg, scanned>>

\* ipc_mqueue_post queues its message, ...
PostQueues(t) ==
  LET p == dest[t] IN
  /\ pc[t] = "deliver"
  /\ p \in linked => Unlocked(PSet)
  /\ Waiters(p, RECEIVE) = {} /\ (p \in linked => Waiters(PSet, RECEIVE) = {})
  /\ messages' = [messages EXCEPT ![p] = Append(@, kmsg[t])]
  /\ kmsg' = [kmsg EXCEPT ![t] = NoMsg]
  /\ imq_lock' = [imq_lock EXCEPT ![p] = Nobody]
  /\ Return(t)
  /\ UNCHANGED <<wqVars, msgcount, qlimit, fullwaiters, adminVars, free, scanned>>

\* ... or sends receiver r away, for which it is too large, ...
PostRefused(t, r) ==
  /\ pc[t] = "deliver"
  /\ waiting[r] /\ wait_event[r] = RECEIVE
  /\ GoLocked({r}, "AWAKENED")
  /\ UNCHANGED <<aborting, removing, imq_lock, queueVars, adminVars, free, threadVars>>

\* ... or hands it to r, and its slot to the first blocked sender
PostHands(t, r) ==
  LET p == dest[t] IN
  /\ pc[t] = "deliver"
  /\ waiting[r] /\ wait_event[r] = RECEIVE
  /\ kmsg' = [kmsg EXCEPT ![t] = NoMsg, ![r] = kmsg[t]]
  /\ GoLocked({r} \union FullWoken(p), "AWAKENED")
  /\ ReleaseMsgcount(p)
  /\ imq_lock' = [imq_lock EXCEPT ![p] = Nobody]
  /\ Return(t)
  /\ UNCHANGED <<aborting, removing, messages, qlimit, adminVars, free, scanned>>

\* A receiver lets go of the set's lock if it holds it
LetGo(t) == imq_lock' = [imq_lock EXCEPT ![PSet] = IF @ = t THEN Nobody ELSE @]

\* A receive from a port or from the set comes back with nothing, ...
ReceiveReturns(t) ==
  /\ pc[t] \in {"rcv", "scan"}
  /\ LetGo(t) /\ Return(t)
  /\ UNCHANGED <<wqVars, queueVars, adminVars, free, kmsg, scanned>>

\* ... waits, ...
ReceiveBlocks(t) ==
  /\ pc[t] \in {"rcv", "scan"}
  /\ IF dest[t] = PSet THEN pc[t] = "scan" /\ linked \subseteq scanned
                       ELSE pc[t] = "rcv" /\ messages[dest[t]] = <<>>
  /\ AssertWaitLocked(t, dest[t], RECEIVE, "ABORTSAFE")
  /\ LetGo(t) /\ Goto(t, "rcv_block")
  /\ UNCHANGED <<aborting, removing, queueVars, adminVars, free, dest, kmsg, scanned>>

\* ... or takes the first message of p
ReceiveTakes(t, p) ==
  /\ pc[t] \in {"rcv", "scan"} /\ messages[p] # <<>>
  /\ messages' = [messages EXCEPT ![p] = Tail(@)]
  /\ GoLocked(FullWoken(p), "AWAKENED")
  /\ ReleaseMsgcount(p)
  /\ free' = free \union {Head(messages[p])}
  /\ LetGo(t) /\ Return(t)
  /\ UNCHANGED <<aborting, removing, qlimit, adminVars, kmsg, scanned>>

ScanBusy(t) ==
  /\ pc[t] = "scan"
  /\ LetGo(t) /\ Goto(t, "rcv")
  /\ UNCHANGED <<wqVars, queueVars, adminVars, free, dest, kmsg, scanned>>

ScanSkips(t, p) ==
  /\ pc[t] = "scan" /\ messages[p] = <<>>
  /\ scanned' = scanned \union {p}
  /\ UNCHANGED <<wqVars, imq_lock, queueVars, adminVars, free, pc, dest, kmsg>>

\* The second half of ipc_mqueue_add comes to its end, ...
AddDone(p) ==
  /\ adding = {p} /\ imq_lock[p] \in {Nobody, Admin}
  /\ messages[p] = <<>> \/ Waiters(PSet, RECEIVE) = {}
  /\ adding' = {}
  /\ imq_lock' = [imq_lock EXCEPT ![p] = Nobody]
  /\ UNCHANGED <<wqVars, queueVars, linked, phase, free, threadVars>>

\* ... or sends receiver r away, ...
AddRefused(p, r) ==
  /\ p \in adding /\ imq_lock[p] \in {Nobody, Admin}
  /\ waiting[r] /\ wait_event[r] = RECEIVE
  /\ imq_lock' = [imq_lock EXCEPT ![p] = Admin]
  /\ GoLocked({r}, "AWAKENED")
  /\ UNCHANGED <<aborting, removing, queueVars, adminVars, free, threadVars>>

\* ... or gives it the first message
AddHands(p, r) ==
  /\ p \in adding /\ imq_lock[p] \in {Nobody, Admin} /\ messages[p] # <<>>
  /\ waiting[r] /\ wait_event[r] = RECEIVE
  /\ imq_lock' = [imq_lock EXCEPT ![p] = Admin]
  /\ messages' = [messages EXCEPT ![p] = Tail(@)]
  /\ kmsg' = [kmsg EXCEPT ![r] = Head(messages[p])]
  /\ GoLocked({r} \union FullWoken(p), "AWAKENED")
  /\ ReleaseMsgcount(p)
  /\ UNCHANGED <<aborting, removing, qlimit, adminVars, free, pc, dest, scanned>>

\* ipc_mqueue_destroy, with the senders S it rouses
Destroys(p, S) ==
  /\ phase[p] # "active" /\ S \subseteq Waiters(p, FULL)
  /\ GoLocked(S, "AWAKENED")
  /\ \E x \in BOOLEAN : fullwaiters' = [fullwaiters EXCEPT ![p] = x]
  /\ \E x \in {"draining", "gone"} : phase' = [phase EXCEPT ![p] = x]
  /\ \/ UNCHANGED <<messages, free>>
     \/ /\ messages[p] # <<>>
        /\ messages' = [messages EXCEPT ![p] = Tail(@)]
        /\ free' = free \union {Head(messages[p])}
  /\ UNCHANGED <<aborting, removing, imq_lock, msgcount, qlimit, linked, adding,
                 threadVars>>

mqVars == <<imq_lock, queueVars, adminVars, free, threadVars>>

\* What an abort does: nothing to the queues, or it ends one wait
AbortQuiet == UNCHANGED <<waitVars, mqVars>>
AbortEnds(u) == waiting[u] /\ GoLocked({u}, "INTERRUPTED") /\ UNCHANGED mqVars

\* Every step is one of these.
Cases ==
  \/ AbortQuiet
  \/ \E t \in Thread :
       \/ \E p \in Port, m \in Msg : KmsgSend(t, p, m)
       \/ SendReserve(t) \/ SendBlock(t) \/ SendFails(t) \/ SendGoes(t)
       \/ PostLock(t) \/ PostQueues(t)
       \/ \E r \in Thread : PostRefused(t, r) \/ PostHands(t, r)
       \/ \E q \in WaitQ : Copyin(t, q)
       \/ ReceiveReturns(t) \/ ReceiveBlocks(t) \/ \E p \in Port : ReceiveTakes(t, p)
       \/ ScanStart(t) \/ ScanBusy(t) \/ \E p \in Port : ScanSkips(t, p)
       \/ ReceiveResults(t) \/ AbortEnds(t)
  \/ \E p \in Port :
       \/ Add(p) \/ AddDone(p) \/ Remove(p)
       \/ \E r \in Thread : AddRefused(p, r) \/ AddHands(p, r)
       \/ \E n \in Limits : SetQlimit(p, n)
       \/ ClearReceiver(p) \/ \E S \in SUBSET Thread : Destroys(p, S)

-----------------------------------------------------------------------------
\* (A thread that is selected waits for the event it is selected for.)
LEMMA SelectedWaits ==
  ASSUME QueueInv, NEW q \in WaitQ, NEW e \in Event, NEW r \in Thread, SelectOne(q, e, r)
  PROVE  waiting[r] /\ wait_event[r] = e /\ wait_queue[r] = q
BY WaitQueueAssumption DEF SelectOne, Waiters, Members, QueueInv, WaitingIffQueued

\* If no receiver is found, none waits on the port or on its set.
LEMMA NoReceiver ==
  ASSUME QueueInv, NEW p \in Port, ~ReceiverWaits(p)
  PROVE  Waiters(p, RECEIVE) = {} /\ (p \in linked => Waiters(PSet, RECEIVE) = {})
<1>1. WQInv /\ p \in WaitQ /\ PSet \in WaitQ /\ IsFiniteSet(Thread)
  BY MessageQueueAssumption DEF QueueInv, TypeOK, WQInv
<1>2. Waiters(p, RECEIVE) # {} => \E r \in Thread : SelectOne(p, RECEIVE, r)
  BY <1>1, FirstExists
<1>3. Waiters(PSet, RECEIVE) # {} => \E r \in Thread : SelectOne(PSet, RECEIVE, r)
  BY <1>1, FirstExists
<1> QED BY <1>2, <1>3 DEF ReceiverWaits, SelectReceiver

\* The slot goes to one sender, who waits on that port.
LEMMA FullWokenOne ==
  ASSUME QueueInv, NEW p \in Port
  PROVE  /\ FullWoken(p) \subseteq Waiters(p, FULL)
         /\ FullWoken(p) \in SUBSET Thread
         /\ \A u, v \in FullWoken(p) : u = v
         /\ \A u \in FullWoken(p) : waiting[u] /\ wait_event[u] = FULL /\ dest[u] = p
                                      /\ pc[u] = "send_block"
<1>1. FullWoken(p) \subseteq Waiters(p, FULL)
  BY DEF FullWoken, SelectOne
<1>2. p \in WaitQ /\ p # NoQueue /\ FULL # RECEIVE
  BY MessageQueueAssumption, WaitQueueAssumption
<1>3. \A u \in Waiters(p, FULL) : u \in Thread /\ waiting[u] /\ wait_event[u] = FULL
                                  /\ wait_queue[u] = p
  BY <1>2 DEF Waiters, Members, QueueInv, WaitingIffQueued
<1>4. \A u, v \in FullWoken(p) : u = v
  BY <1>2, <1>3 DEF FullWoken, SelectOne, QueueInv, QueueOrder
<1>5. \A u \in Waiters(p, FULL) : dest[u] = p /\ pc[u] = "send_block"
  BY <1>2, <1>3 DEF QueueInv, Waits
<1> QED BY <1>1, <1>3, <1>4, <1>5

\* (Changing no wait is waking nobody.)
LEMMA QuietIsGo ==
  ASSUME WQInv, UNCHANGED waitVars, NEW r PROVE GoLocked({}, r)
<1>1. /\ wait_queue = [t \in Thread |-> wait_queue[t]]
      /\ wait_event = [t \in Thread |-> wait_event[t]]
      /\ ahead = [t \in Thread |-> ahead[t]]
      /\ wait_result = [t \in Thread |-> wait_result[t]]
  BY DEF WQInv, WQTypeOK
<1>2. waiting = [t \in Thread |-> waiting[t]]
  BY DEF WQInv, WQTypeOK
<1>3. waiting' = [t \in Thread |-> t \notin {} /\ waiting[t]]
  BY <1>2 DEF waitVars, WQInv, WQTypeOK
<1>4. ahead' = [t \in Thread |-> IF t \in {} THEN {} ELSE ahead[t] \ {}]
  BY <1>1 DEF waitVars, WQInv, WQTypeOK
<1> QED BY <1>1, <1>3, <1>4 DEF GoLocked, waitVars

\* An abort that finds its thread gone from the queue has no effect, and the
\* first half of one, made at a safe point, only notes what it will do.
LEMMA AbortCases ==
  ASSUME QueueInv, NEW k \in Aborter,
         AbortFinish(k) \/ \E t \in Thread : AbortStart(k, t)
  PROVE  AbortQuiet \/ \E t \in Thread : AbortEnds(t)
<1> USE DEF AbortQuiet, AbortEnds, mqVars
<1>1. ASSUME NEW t \in Thread, AbortStart(k, t) PROVE AbortQuiet
  BY <1>1 DEF AbortStart, ThreadAbortSafely, AtSafePoint, ClearWaitStart, Uninterruptible
<1>2. CASE AbortFinish(k)
  <2> DEFINE c == removing[k]
  <2>1. c \in Removal /\ c.result = "INTERRUPTED"
    BY <1>2 DEF AbortFinish, ClearWaitFinish, QueueInv, TypeOK, WQTypeOK, Aborts, Clearer
  <2>2. c.thread \in Thread /\ c.wq # NoQueue
    BY <2>1, WaitQueueAssumption DEF Removal
  <2>3. CASE wait_queue[c.thread] = c.wq /\ GoLocked({c.thread}, c.result)
    BY <1>2, <2>1, <2>2, <2>3 DEF AbortFinish, QueueInv, WaitingIffQueued
  <2>4. CASE UNCHANGED waitVars
    BY <1>2, <2>4 DEF AbortFinish
  <2> QED BY <1>2, <2>3, <2>4 DEF AbortFinish, ClearWaitFinish
<1> QED BY <1>1, <1>2

\* (A thread that is not searching the set does not hold its lock.)
LEMMA LetGoHolds ==
  ASSUME QueueInv, NEW t \in Thread
  PROVE  /\ pc[t] # "scan" /\ UNCHANGED imq_lock => LetGo(t)
         /\ pc[t] = "scan" /\ imq_lock' = [imq_lock EXCEPT ![PSet] = Nobody] => LetGo(t)
<1>1. imq_lock[PSet] = t <=> pc[t] = "scan"
  BY DEF QueueInv, Locks
<1>2. PSet \in WaitQ /\ imq_lock \in [WaitQ -> Thread \union {Admin, Nobody}]
  BY MessageQueueAssumption DEF QueueInv, TypeOK
<1>3. imq_lock = [imq_lock EXCEPT ![PSet] = imq_lock[PSet]]
  BY <1>2
<1> QED BY <1>1, <1>2, <1>3 DEF LetGo

\* (The cases of a step)
LEMMA NextCases ==
  ASSUME QueueInv, [Next]_vars PROVE Cases
<1> USE DEF Cases
<1>0. QueueInv /\ WQInv /\ PSet \in WaitQ /\ Port \subseteq WaitQ /\ PSet \notin Port /\ RECEIVE \in Event
  BY MessageQueueAssumption DEF QueueInv, TypeOK, WQInv
<1>1. ASSUME UNCHANGED vars PROVE Cases
  BY <1>1 DEF vars, wqVars, AbortQuiet, mqVars
<1>2. ASSUME NEW t \in Thread, SendPoll(t) \/ SendResume(t) PROVE SendFails(t) \/ SendGoes(t)
  BY <1>2 DEF SendPoll, SendResume, SendFails, SendGoes
<1>3. ASSUME NEW p \in Port, NEW r \in Thread, SelectReceiver(p, r)
      PROVE  waiting[r] /\ wait_event[r] = RECEIVE
  BY <1>0, <1>3, SelectedWaits DEF SelectReceiver
<1>4. ASSUME NEW t \in Thread, PostDeliver(t)
      PROVE  PostQueues(t) \/ \E r \in Thread : PostRefused(t, r) \/ PostHands(t, r)
  <2>1. dest[t] \in Port
    BY <1>4 DEF PostDeliver, QueueInv, Roles
  <2>2. CASE ~ReceiverWaits(dest[t]) /\ PostDeliver(t) /\ UNCHANGED waitVars
             /\ messages' = [messages EXCEPT ![dest[t]] = Append(@, kmsg[t])]
             /\ kmsg' = [kmsg EXCEPT ![t] = NoMsg]
             /\ imq_lock' = [imq_lock EXCEPT ![dest[t]] = Nobody]
             /\ Return(t)
             /\ UNCHANGED <<waitVars, msgcount, fullwaiters>>
    <3>1. Waiters(dest[t], RECEIVE) = {} /\ (dest[t] \in linked => Waiters(PSet, RECEIVE) = {})
      BY <2>1, <2>2, NoReceiver
    <3> QED BY <2>2, <3>1 DEF PostDeliver, PostQueues, wqVars
  <2>3. ASSUME NEW r \in Thread, SelectReceiver(dest[t], r), TooLarge(r, kmsg[t]),
               GoLocked({r}, "AWAKENED"), UNCHANGED messages,
               UNCHANGED <<msgcount, fullwaiters, kmsg, pc, dest, imq_lock>>
        PROVE  PostRefused(t, r)
    BY <1>3, <1>4, <2>1, <2>3 DEF PostDeliver, PostRefused, queueVars, threadVars
  <2>4. ASSUME NEW r \in Thread, SelectReceiver(dest[t], r), UNCHANGED messages,
               kmsg' = [kmsg EXCEPT ![t] = NoMsg, ![r] = kmsg[t]],
               GoLocked({r} \union FullWoken(dest[t]), "AWAKENED"),
               ReleaseMsgcount(dest[t]),
               imq_lock' = [imq_lock EXCEPT ![dest[t]] = Nobody],
               Return(t)
        PROVE  PostHands(t, r)
    BY <1>3, <1>4, <2>1, <2>4 DEF PostDeliver, PostHands
  <2> QED BY <1>4, <2>2, <2>3, <2>4 DEF PostDeliver
<1>5. ASSUME NEW t \in Thread, NEW p \in Port, pc[t] \in {"rcv", "scan"},
             messages[p] # <<>>, Select(t, p), LetGo(t), UNCHANGED <<adminVars, scanned>>
      PROVE  ReceiveReturns(t) \/ ReceiveTakes(t, p)
  BY <1>5 DEF Select, ReceiveReturns, ReceiveTakes, wqVars, queueVars
<1>6. ASSUME NEW t \in Thread, ReceivePort(t)
      PROVE  ReceiveReturns(t) \/ ReceiveBlocks(t) \/ \E p \in Port : ReceiveTakes(t, p)
  <2>1. LetGo(t) /\ pc[t] = "rcv" /\ dest[t] \in Port /\ dest[t] # PSet
    BY <1>0, <1>6, LetGoHolds DEF ReceivePort
  <2>2. CASE messages[dest[t]] # <<>> /\ Select(t, dest[t])
    BY <1>5, <1>6, <2>1, <2>2 DEF ReceivePort
  <2>3. CASE messages[dest[t]] = <<>> /\ ReceiveWait(t, dest[t])
             /\ UNCHANGED <<aborting, removing, queueVars, free, kmsg>>
    BY <1>6, <2>1, <2>3 DEF ReceivePort, ReceiveWait, ReceiveReturns, ReceiveBlocks, wqVars
  <2> QED BY <1>6, <2>2, <2>3 DEF ReceivePort
<1>7. ASSUME NEW t \in Thread, NEW p \in Port, ScanPort(t, p)
      PROVE  ScanBusy(t) \/ ScanSkips(t, p) \/ ReceiveReturns(t) \/ ReceiveTakes(t, p)
  <2>1. pc[t] = "scan"
    BY <1>7 DEF ScanPort
  <2>2. CASE /\ imq_lock' = [imq_lock EXCEPT ![PSet] = Nobody]
             /\ Goto(t, "rcv")
             /\ UNCHANGED <<wqVars, queueVars, free, dest, kmsg, scanned>>
    BY <1>7, <2>1, <2>2, LetGoHolds DEF ScanPort, ScanBusy
  <2>3. CASE /\ messages[p] = <<>>
             /\ scanned' = scanned \union {p}
             /\ UNCHANGED <<wqVars, imq_lock, queueVars, free, pc, dest, kmsg>>
    BY <1>7, <2>1, <2>3 DEF ScanPort, ScanSkips
  <2>4. CASE /\ messages[p] # <<>>
             /\ imq_lock' = [imq_lock EXCEPT ![PSet] = Nobody]
             /\ Select(t, p)
             /\ UNCHANGED scanned
    BY <1>5, <1>7, <2>1, <2>4, LetGoHolds DEF ScanPort
  <2> QED BY <1>7, <2>2, <2>3, <2>4 DEF ScanPort
<1>8. ASSUME NEW t \in Thread, ScanEnd(t) PROVE ReceiveReturns(t) \/ ReceiveBlocks(t)
  <2>1. pc[t] = "scan" /\ LetGo(t) /\ dest[t] = PSet
    BY <1>8, LetGoHolds DEF ScanEnd, QueueInv, Roles
  <2> QED BY <1>8, <2>1 DEF ScanEnd, ReceiveWait, ReceiveReturns, ReceiveBlocks, wqVars
<1>9. ASSUME NEW p \in Port, AddMatch(p)
      PROVE  AddDone(p) \/ \E r \in Thread : AddRefused(p, r) \/ AddHands(p, r)
  <2>1. adding = {p} /\ p \in linked
    BY <1>9 DEF AddMatch, QueueInv, Locks, TypeOK
  <2>2. CASE /\ messages[p] = <<>> \/ ~ReceiverWaits(p)
             /\ adding' = {}
             /\ imq_lock' = [imq_lock EXCEPT ![p] = Nobody]
             /\ UNCHANGED <<waitVars, messages, msgcount, fullwaiters, kmsg>>
    <3>1. messages[p] = <<>> \/ Waiters(PSet, RECEIVE) = {}
      BY <2>1, <2>2, NoReceiver
    <3> QED BY <1>9, <2>1, <2>2, <3>1 DEF AddMatch, AddDone, wqVars, queueVars, threadVars
  <2>3. ASSUME NEW r \in Thread, SelectReceiver(p, r), UNCHANGED adding,
               imq_lock' = [imq_lock EXCEPT ![p] = Admin], GoLocked({r}, "AWAKENED"),
               UNCHANGED <<messages, msgcount, fullwaiters, kmsg>>
        PROVE  AddRefused(p, r)
    BY <1>3, <1>9, <2>3 DEF AddMatch, AddRefused, queueVars, adminVars, threadVars
  <2>4. ASSUME NEW r \in Thread, SelectReceiver(p, r), UNCHANGED adding,
               messages[p] # <<>>,
               imq_lock' = [imq_lock EXCEPT ![p] = Admin],
               messages' = [messages EXCEPT ![p] = Tail(@)],
               kmsg' = [kmsg EXCEPT ![r] = Head(messages[p])],
               GoLocked({r} \union FullWoken(p), "AWAKENED"), ReleaseMsgcount(p)
        PROVE  AddHands(p, r)
    BY <1>3, <1>9, <2>4 DEF AddMatch, AddHands, adminVars
  <2> QED BY <1>9, <2>2, <2>3, <2>4 DEF AddMatch
<1>10. ASSUME NEW p \in Port, MqueueDestroy(p) PROVE \E S \in SUBSET Thread : Destroys(p, S)
  <2>1. PICK S \in SUBSET Waiters(p, FULL) : GoLocked(S, "AWAKENED")
    <3>1. CASE UNCHANGED waitVars
      BY <1>0, <3>1, QuietIsGo
    <3> QED BY <1>10, <3>1 DEF MqueueDestroy, WakeupAllLocked
  <2>2. S \in SUBSET Thread /\ phase[p] # "active"
    BY <1>10 DEF Waiters, Members, MqueueDestroy
  <2>3. \E x \in BOOLEAN : fullwaiters' = [fullwaiters EXCEPT ![p] = x]
    <3>1. UNCHANGED fullwaiters => fullwaiters' = [fullwaiters EXCEPT ![p] = fullwaiters[p]]
      BY DEF QueueInv, TypeOK
    <3>2. fullwaiters[p] \in BOOLEAN
      BY DEF QueueInv, TypeOK
    <3> QED BY <1>10, <3>1, <3>2 DEF MqueueDestroy
  <2> QED BY <1>10, <2>1, <2>2, <2>3 DEF MqueueDestroy, Destroys
<1>11. ASSUME NEW k \in Aborter, AbortFinish(k) \/ \E t \in Thread : AbortStart(k, t)
       PROVE  AbortQuiet \/ \E t \in Thread : AbortEnds(t)
  BY <1>11, AbortCases
<1>12. ASSUME NEW t \in Thread,
              \/ \E p \in Port, m \in Msg : KmsgSend(t, p, m)
              \/ \E q \in WaitQ : Copyin(t, q)
              \/ SendStep(t) \/ PostStep(t) \/ ReceiveStep(t)
       PROVE  Cases
  BY <1>2, <1>4, <1>6, <1>7, <1>8, <1>12 DEF SendStep, PostStep, ReceiveStep
<1>13. ASSUME NEW p \in Port,
              \/ Add(p) \/ AddMatch(p) \/ Remove(p)
              \/ \E n \in Limits : SetQlimit(p, n)
              \/ ClearReceiver(p) \/ MqueueDestroy(p)
       PROVE  Cases
  BY <1>9, <1>10, <1>13
<1>14. ASSUME NEW k \in Aborter, AbortFinish(k) \/ \E t \in Thread : AbortStart(k, t)
       PROVE  Cases
  BY <1>11, <1>14
<1> HIDE DEF Cases
<1> QED BY <1>1, <1>12, <1>13, <1>14 DEF Next

-----------------------------------------------------------------------------
(* Types, waits, roles and locks                                           *)

\* An abort that has begun interrupts.
LEMMA AbortsStep ==
  ASSUME QueueInv, [Next]_vars
  PROVE  /\ aborting' \in [Thread -> BOOLEAN]
         /\ removing' \in [Clearer -> Removal \union {Idle}]
         /\ Aborts'
<1>1. /\ aborting \in [Thread -> BOOLEAN] /\ removing \in [Clearer -> Removal \union {Idle}]
      /\ Aborts /\ WQInv
  BY DEF QueueInv, TypeOK, WQTypeOK, WQInv
<1>2. CASE UNCHANGED <<aborting, removing>>
  BY <1>1, <1>2 DEF Aborts
<1>3. ASSUME NEW k \in Aborter, NEW t \in Thread, AbortStart(k, t)
      PROVE  /\ aborting' \in [Thread -> BOOLEAN]
             /\ removing' \in [Clearer -> Removal \union {Idle}]
             /\ Aborts'
  <2>1. WQInv'
    BY <1>1, <1>3, AbortInv DEF AbortStart
  <2>2. \/ UNCHANGED removing
        \/ removing' = [removing EXCEPT ![k] = [thread |-> t, wq |-> wait_queue[t],
                                                result |-> "INTERRUPTED"]]
    BY <1>3 DEF AbortStart, ThreadAbortSafely, ClearWaitStart
  <2>3. Aborts'
    BY <1>1, <2>2 DEF Aborts, Clearer
  <2> QED BY <2>1, <2>3 DEF WQInv, WQTypeOK
<1>4. ASSUME NEW k \in Aborter, AbortFinish(k)
      PROVE  /\ aborting' \in [Thread -> BOOLEAN]
             /\ removing' \in [Clearer -> Removal \union {Idle}]
             /\ Aborts'
  BY <1>1, <1>4 DEF AbortFinish, ClearWaitFinish, Aborts, Clearer
<1>5. ASSUME NEW t \in Thread,
             \/ \E p \in Port, m \in Msg : KmsgSend(t, p, m)
             \/ \E q \in WaitQ : Copyin(t, q)
             \/ SendStep(t)
      PROVE  UNCHANGED <<aborting, removing>>
  BY <1>5 DEF SendStep, KmsgSend, Copyin, SendReserve, SendBlock, SendPoll, SendResume,
              wqVars
<1>6. ASSUME NEW t \in Thread, PostStep(t) \/ ReceiveStep(t)
      PROVE  UNCHANGED <<aborting, removing>>
  BY <1>6 DEF PostStep, ReceiveStep, PostLock, PostDeliver, ReceivePort, ScanStart,
              ScanEnd, ReceiveResults, ScanPort, Select, wqVars
<1>7. ASSUME NEW p \in Port,
             \/ Add(p) \/ AddMatch(p) \/ Remove(p)
             \/ \E n \in Limits : SetQlimit(p, n)
             \/ ClearReceiver(p) \/ MqueueDestroy(p)
      PROVE  UNCHANGED <<aborting, removing>>
  BY <1>7 DEF Add, AddMatch, Remove, SetQlimit, ClearReceiver, MqueueDestroy, wqVars
<1> QED BY <1>2, <1>3, <1>4, <1>5, <1>6, <1>7 DEF Next, vars, wqVars

\* The wait queues stay in order: a thread starts a wait only when it has none.
LEMMA QueuesStep ==
  ASSUME QueueInv, [Next]_vars PROVE WQInv'
<1> USE DEF QueueInv
<1>0. /\ WQInv /\ IsFiniteSet(Thread) /\ {"AWAKENED", "INTERRUPTED", "RESTART"} \subseteq Result
      /\ aborting' \in [Thread -> BOOLEAN]
      /\ removing' \in [Clearer -> Removal \union {Idle}]
  BY AbortsStep, MessageQueueAssumption DEF TypeOK, WQInv, Result
<1>a. ASSUME NEW S \in SUBSET Thread, NEW r \in Result, GoLocked(S, r) PROVE WQInv'
  BY <1>0, <1>a, GoInv
<1>b. UNCHANGED waitVars => WQInv'
  BY <1>0, QuietInv
<1>c. ASSUME NEW t \in Thread, NEW q \in WaitQ, NEW e \in Event, pc[t] \in {"send", "rcv", "scan"},
             AssertWaitLocked(t, q, e, "ABORTSAFE"), UNCHANGED <<aborting, removing>>
      PROVE  WQInv'
  <2>1. ~waiting[t] /\ "ABORTSAFE" \in Mode
    BY <1>c DEF Waits, Mode
  <2> QED BY <1>0, <1>c, <2>1, AssertWaitInv
<1>1. CASE AbortQuiet
  BY <1>1, <1>b DEF AbortQuiet
<1>2. ASSUME NEW t \in Thread, NEW p \in Port, NEW m \in Msg, KmsgSend(t, p, m) PROVE WQInv'
  BY <1>2, <1>b DEF KmsgSend, wqVars
<1>3. ASSUME NEW t \in Thread, SendReserve(t) PROVE WQInv'
  BY <1>3, <1>b DEF SendReserve, wqVars
<1>4. ASSUME NEW t \in Thread, SendBlock(t) PROVE WQInv'
  <2>1. dest[t] \in WaitQ /\ FULL \in Event
    BY MessageQueueAssumption DEF TypeOK
  <2> QED BY <1>4, <1>c, <2>1 DEF SendBlock
<1>5. ASSUME NEW t \in Thread, SendFails(t) PROVE WQInv'
  BY <1>5, <1>b DEF SendFails, wqVars
<1>6. ASSUME NEW t \in Thread, SendGoes(t) PROVE WQInv'
  BY <1>6, <1>b DEF SendGoes, wqVars
<1>7. ASSUME NEW t \in Thread, PostLock(t) PROVE WQInv'
  BY <1>7, <1>b DEF PostLock, wqVars
<1>8. ASSUME NEW t \in Thread, PostQueues(t) PROVE WQInv'
  BY <1>8, <1>b DEF PostQueues, wqVars
<1>9. ASSUME NEW t \in Thread, NEW r \in Thread, PostRefused(t, r) PROVE WQInv'
  BY <1>9, <1>0, <1>a DEF PostRefused
<1>10. ASSUME NEW t \in Thread, NEW r \in Thread, PostHands(t, r) PROVE WQInv'
  <2>1. GoLocked({r} \union FullWoken(dest[t]), "AWAKENED") /\ {r} \union FullWoken(dest[t]) \in SUBSET Thread
    BY <1>10 DEF PostHands, FullWoken
  <2> QED BY <1>0, <1>a, <2>1
<1>11. ASSUME NEW t \in Thread, NEW q \in WaitQ, Copyin(t, q) PROVE WQInv'
  BY <1>11, <1>b DEF Copyin, wqVars
<1>12. ASSUME NEW t \in Thread, ReceiveReturns(t) PROVE WQInv'
  BY <1>12, <1>b DEF ReceiveReturns, wqVars
<1>13. ASSUME NEW t \in Thread, ReceiveBlocks(t) PROVE WQInv'
  <2>1. dest[t] \in WaitQ /\ RECEIVE \in Event
    BY MessageQueueAssumption DEF TypeOK
  <2> QED BY <1>13, <1>c, <2>1 DEF ReceiveBlocks
<1>14. ASSUME NEW t \in Thread, NEW p \in Port, ReceiveTakes(t, p) PROVE WQInv'
  <2>1. GoLocked(FullWoken(p), "AWAKENED") /\ FullWoken(p) \in SUBSET Thread
    BY <1>14 DEF ReceiveTakes, FullWoken
  <2> QED BY <1>0, <1>a, <2>1
<1>15. ASSUME NEW t \in Thread, ScanStart(t) PROVE WQInv'
  BY <1>15, <1>b DEF ScanStart, wqVars
<1>16. ASSUME NEW t \in Thread, ScanBusy(t) PROVE WQInv'
  BY <1>16, <1>b DEF ScanBusy, wqVars
<1>17. ASSUME NEW t \in Thread, NEW p \in Port, ScanSkips(t, p) PROVE WQInv'
  BY <1>17, <1>b DEF ScanSkips, wqVars
<1>18. ASSUME NEW t \in Thread, ReceiveResults(t) PROVE WQInv'
  BY <1>18, <1>b DEF ReceiveResults, wqVars
<1>19. ASSUME NEW t \in Thread, AbortEnds(t) PROVE WQInv'
  BY <1>19, <1>0, <1>a DEF AbortEnds
<1>20. ASSUME NEW p \in Port, Add(p) PROVE WQInv'
  BY <1>20, <1>b DEF Add, wqVars
<1>21. ASSUME NEW p \in Port, AddDone(p) PROVE WQInv'
  BY <1>21, <1>b DEF AddDone, wqVars
<1>22. ASSUME NEW p \in Port, Remove(p) PROVE WQInv'
  BY <1>22, <1>b DEF Remove, wqVars
<1>23. ASSUME NEW p \in Port, NEW r \in Thread, AddRefused(p, r) PROVE WQInv'
  BY <1>23, <1>0, <1>a DEF AddRefused
<1>24. ASSUME NEW p \in Port, NEW r \in Thread, AddHands(p, r) PROVE WQInv'
  <2>1. GoLocked({r} \union FullWoken(p), "AWAKENED") /\ {r} \union FullWoken(p) \in SUBSET Thread
    BY <1>24 DEF AddHands, FullWoken
  <2> QED BY <1>0, <1>a, <2>1
<1>25. ASSUME NEW p \in Port, NEW n \in Limits, SetQlimit(p, n) PROVE WQInv'
  <2>1. PICK S \in SUBSET Thread : GoLocked(S, "AWAKENED")
    BY <1>25 DEF SetQlimit, Waiters, Members
  <2> QED BY <1>0, <1>a, <2>1
<1>26. ASSUME NEW p \in Port, ClearReceiver(p) PROVE WQInv'
  <2>1. PICK S \in SUBSET Thread : GoLocked(S, "RESTART")
    BY <1>26 DEF ClearReceiver, WakeupAllLocked, Waiters, Members
  <2> QED BY <1>0, <1>a, <2>1
<1>27. ASSUME NEW p \in Port, NEW S \in SUBSET Thread, Destroys(p, S) PROVE WQInv'
  BY <1>27, <1>0, <1>a DEF Destroys
<1> QED
  BY <1>1, <1>2, <1>3, <1>4, <1>5, <1>6, <1>7, <1>8, <1>9, <1>10, <1>11, <1>12, <1>13, <1>14,
     <1>15, <1>16, <1>17, <1>18, <1>19, <1>20, <1>21, <1>22, <1>23, <1>24, <1>25, <1>26,
     <1>27, NextCases DEF Cases

\* The counter of a queue is an unsigned number.
LEMMA CountType ==
  /\ CountSize \in Nat /\ CountSize > 0
  /\ \A x \in Nat : x % CountSize \in 0 .. CountSize - 1
<1>1. CountSize \in Nat /\ CountSize > 0
  BY MessageQueueAssumption, FS_CardinalityType
<1> QED BY <1>1

\* ipc_mqueue_release_msgcount keeps the types.
LEMMA ReleaseType ==
  ASSUME TypeOK, NEW p \in Port, ReleaseMsgcount(p)
  PROVE  /\ msgcount' \in [Port -> 0 .. CountSize - 1]
         /\ fullwaiters' \in [Port -> BOOLEAN]
<1>1. msgcount[p] \in 0 .. CountSize - 1 /\ msgcount[p] + CountSize - 1 \in Nat
  BY CountType DEF TypeOK
<1>2. OneLess(p) \in 0 .. CountSize - 1
  BY <1>1, CountType DEF OneLess
<1>3. msgcount' \in [Port -> 0 .. CountSize - 1]
  BY <1>1, <1>2 DEF TypeOK, ReleaseMsgcount
<1>4. (fullwaiters[p] /\ ~(OneLess(p) < qlimit[p] /\ FullWoken(p) = {})) \in BOOLEAN
  OBVIOUS
<1>5. fullwaiters' \in [Port -> BOOLEAN]
  BY <1>4 DEF TypeOK, ReleaseMsgcount
<1> QED BY <1>3, <1>5

\* What is left of a queue when its first message is taken
LEMMA TailFacts ==
  ASSUME NEW s \in Seq(Msg), s # <<>>
  PROVE  /\ Len(s) \in Nat /\ Len(s) > 0
         /\ Head(s) = s[1] /\ Head(s) \in Msg
         /\ Tail(s) \in Seq(Msg) /\ Len(Tail(s)) = Len(s) - 1
         /\ \A i \in 1 .. Len(s) - 1 : Tail(s)[i] = s[i + 1]
OBVIOUS

\* Every step keeps the types; a message that is queued is one the sender had.
LEMMA TypesStep ==
  ASSUME QueueInv, [Next]_vars PROVE TypeOK'
<1> USE DEF QueueInv
<1>0. TypeOK /\ WQTypeOK'
  BY QueuesStep DEF WQInv
<1>a. /\ WaitQ = Port \union {PSet} /\ PSet \notin Port /\ Limits \subseteq Nat
  BY MessageQueueAssumption
<1>1. CASE AbortQuiet
  BY <1>1, <1>0, <1>a
     DEF AbortQuiet, waitVars, mqVars, queueVars, adminVars, threadVars, TypeOK, PC, Roles
<1>2. ASSUME NEW t \in Thread, NEW p \in Port, NEW m \in Msg, KmsgSend(t, p, m)
      PROVE  TypeOK'
  BY <1>2, <1>0, <1>a DEF KmsgSend, Goto, wqVars, queueVars, adminVars, TypeOK, PC, Roles
<1>3. ASSUME NEW t \in Thread, SendReserve(t) PROVE TypeOK'
  <2>1. dest[t] \in Port
    BY <1>3 DEF SendReserve, Roles
  <2>2. msgcount[dest[t]] + 1 \in Nat
    BY <1>0, <2>1, CountType DEF TypeOK
  <2>3. (msgcount[dest[t]] + 1) % CountSize \in 0 .. CountSize - 1
    BY <2>2, CountType
  <2>4. msgcount' \in [Port -> 0 .. CountSize - 1]
    BY <1>3, <1>0, <2>1, <2>3 DEF SendReserve, TypeOK
  <2> QED BY <1>3, <1>0, <2>4 DEF SendReserve, TypeOK, Goto, PC, adminVars
<1>4. ASSUME NEW t \in Thread, SendBlock(t) PROVE TypeOK'
  BY <1>4, <1>0, <1>a DEF SendBlock, Goto, adminVars, TypeOK, PC, Roles
<1>5. ASSUME NEW t \in Thread, SendFails(t) PROVE TypeOK'
  BY <1>5, <1>0, <1>a
     DEF SendFails, PutMessage, Return, Goto, wqVars, queueVars, adminVars, TypeOK, PC,
         Roles
<1>6. ASSUME NEW t \in Thread, SendGoes(t) PROVE TypeOK'
  BY <1>6, <1>0, <1>a DEF SendGoes, Goto, wqVars, queueVars, adminVars, TypeOK, PC, Roles
<1>7. ASSUME NEW t \in Thread, PostLock(t) PROVE TypeOK'
  BY <1>7, <1>0, <1>a
     DEF PostLock, Goto, Unlocked, wqVars, queueVars, adminVars, TypeOK, PC, Roles
<1>8. ASSUME NEW t \in Thread, PostQueues(t) PROVE TypeOK'
  <2>1. dest[t] \in Port /\ kmsg[t] \in Msg
    BY <1>8, <1>0 DEF PostQueues, Roles, TypeOK
  <2>2. Append(messages[dest[t]], kmsg[t]) \in Seq(Msg)
    BY <1>0, <2>1 DEF TypeOK
  <2> QED BY <1>8, <1>0, <1>a, <2>1, <2>2 DEF PostQueues, TypeOK, Return, Goto, PC, adminVars
<1>9. ASSUME NEW t \in Thread, NEW r \in Thread, PostRefused(t, r) PROVE TypeOK'
  BY <1>9, <1>0, <1>a DEF PostRefused, queueVars, adminVars, threadVars, TypeOK, PC, Roles
<1>10. ASSUME NEW t \in Thread, NEW r \in Thread, PostHands(t, r) PROVE TypeOK'
  <2>1. dest[t] \in Port
    BY <1>10 DEF PostHands, Roles
  <2>2. msgcount' \in [Port -> 0 .. CountSize - 1] /\ fullwaiters' \in [Port -> BOOLEAN]
    BY <1>10, <1>0, <2>1, ReleaseType DEF PostHands
  <2> QED BY <1>10, <1>0, <1>a, <2>1, <2>2 DEF TypeOK, PostHands, Return, Goto, adminVars, PC
<1>11. ASSUME NEW t \in Thread, NEW q \in WaitQ, Copyin(t, q) PROVE TypeOK'
  BY <1>11, <1>0, <1>a DEF Copyin, Goto, wqVars, queueVars, adminVars, TypeOK, PC, Roles
<1>12. ASSUME NEW t \in Thread, ReceiveReturns(t) PROVE TypeOK'
  BY <1>12, <1>0, <1>a
     DEF ReceiveReturns, LetGo, Return, Goto, wqVars, queueVars, adminVars, TypeOK, PC,
         Roles
<1>13. ASSUME NEW t \in Thread, ReceiveBlocks(t) PROVE TypeOK'
  BY <1>13, <1>0, <1>a
     DEF ReceiveBlocks, LetGo, Goto, queueVars, adminVars, TypeOK, PC, Roles
<1>14. ASSUME NEW t \in Thread, NEW p \in Port, ReceiveTakes(t, p) PROVE TypeOK'
  <2>1. p \in Port
    BY <1>14 DEF ReceiveTakes, Roles
  <2>2. msgcount' \in [Port -> 0 .. CountSize - 1] /\ fullwaiters' \in [Port -> BOOLEAN]
    BY <1>14, <1>0, <2>1, ReleaseType DEF ReceiveTakes
  <2>3. messages[p] \in Seq(Msg) /\ Head(messages[p]) \in Msg /\ Tail(messages[p]) \in Seq(Msg)
    BY <1>14, <1>0, TailFacts DEF ReceiveTakes, TypeOK
  <2> QED BY <1>14, <1>0, <1>a, <2>1, <2>2, <2>3 DEF TypeOK, ReceiveTakes, LetGo, Return, Goto,
             adminVars, PC
<1>15. ASSUME NEW t \in Thread, ScanStart(t) PROVE TypeOK'
  BY <1>15, <1>0, <1>a
     DEF ScanStart, Unlocked, Goto, wqVars, queueVars, adminVars, TypeOK, PC, Roles
<1>16. ASSUME NEW t \in Thread, ScanBusy(t) PROVE TypeOK'
  BY <1>16, <1>0, <1>a
     DEF ScanBusy, LetGo, Goto, wqVars, queueVars, adminVars, TypeOK, PC, Roles
<1>17. ASSUME NEW t \in Thread, NEW p \in Port, ScanSkips(t, p) PROVE TypeOK'
  BY <1>17, <1>0, <1>a DEF ScanSkips, wqVars, queueVars, adminVars, TypeOK, PC, Roles
<1>18. ASSUME NEW t \in Thread, ReceiveResults(t) PROVE TypeOK'
  BY <1>18, <1>0, <1>a
     DEF ReceiveResults, PutMessage, Return, Goto, wqVars, queueVars, adminVars, TypeOK, PC,
         Roles
<1>19. ASSUME NEW t \in Thread, AbortEnds(t) PROVE TypeOK'
  BY <1>19, <1>0, <1>a
     DEF AbortEnds, mqVars, queueVars, adminVars, threadVars, TypeOK, PC, Roles
<1>20. ASSUME NEW p \in Port, Add(p) PROVE TypeOK'
  BY <1>20, <1>0, <1>a DEF Add, Unlocked, wqVars, queueVars, threadVars, TypeOK, PC, Roles
<1>21. ASSUME NEW p \in Port, AddDone(p) PROVE TypeOK'
  BY <1>21, <1>0, <1>a DEF AddDone, wqVars, queueVars, threadVars, TypeOK, PC, Roles
<1>22. ASSUME NEW p \in Port, Remove(p) PROVE TypeOK'
  BY <1>22, <1>0, <1>a
     DEF Remove, Unlocked, wqVars, queueVars, threadVars, TypeOK, PC, Roles
<1>23. ASSUME NEW p \in Port, NEW r \in Thread, AddRefused(p, r) PROVE TypeOK'
  BY <1>23, <1>0, <1>a DEF AddRefused, queueVars, adminVars, threadVars, TypeOK, PC, Roles
<1>24. ASSUME NEW p \in Port, NEW r \in Thread, AddHands(p, r) PROVE TypeOK'
  <2>1. p \in Port
    BY <1>24 DEF AddHands, Roles
  <2>2. msgcount' \in [Port -> 0 .. CountSize - 1] /\ fullwaiters' \in [Port -> BOOLEAN]
    BY <1>24, <1>0, <2>1, ReleaseType DEF AddHands
  <2>3. messages[p] \in Seq(Msg) /\ Head(messages[p]) \in Msg /\ Tail(messages[p]) \in Seq(Msg)
    BY <1>24, <1>0, TailFacts DEF AddHands, TypeOK
  <2> QED BY <1>24, <1>0, <1>a, <2>1, <2>2, <2>3 DEF TypeOK, AddHands, Goto, adminVars, PC
<1>25. ASSUME NEW p \in Port, NEW n \in Limits, SetQlimit(p, n) PROVE TypeOK'
  <2>1. fullwaiters' \in [Port -> BOOLEAN]
    <3>1. PICK x : fullwaiters' = [fullwaiters EXCEPT ![p] = fullwaiters[p] /\ x]
      BY <1>25 DEF SetQlimit
    <3>2. (fullwaiters[p] /\ x) \in BOOLEAN
      OBVIOUS
    <3> QED BY <1>0, <3>1, <3>2 DEF TypeOK
  <2> QED BY <1>25, <1>0, <1>a, <2>1 DEF SetQlimit, TypeOK, adminVars, threadVars
<1>26. ASSUME NEW p \in Port, ClearReceiver(p) PROVE TypeOK'
  BY <1>26, <1>0, <1>a DEF ClearReceiver, Unlocked, queueVars, threadVars, TypeOK, PC, Roles
<1>27. ASSUME NEW p \in Port, NEW S \in SUBSET Thread, Destroys(p, S) PROVE TypeOK'
  <2>1. messages' \in [Port -> Seq(Msg)] /\ free' \subseteq Msg
    <3>1. CASE UNCHANGED <<messages, free>>
      BY <1>0, <3>1 DEF TypeOK
    <3>2. CASE /\ messages[p] # <<>>
               /\ messages' = [messages EXCEPT ![p] = Tail(@)]
               /\ free' = free \union {Head(messages[p])}
      <4>1. messages[p] \in Seq(Msg) /\ Head(messages[p]) \in Msg /\ Tail(messages[p]) \in Seq(Msg)
        BY <1>0, <3>2, TailFacts DEF TypeOK
      <4> QED BY <1>0, <3>2, <4>1 DEF TypeOK
    <3> QED BY <1>27, <3>1, <3>2 DEF Destroys
  <2> QED BY <1>27, <1>0, <2>1 DEF TypeOK, Destroys, threadVars
<1> QED
  BY <1>1, <1>2, <1>3, <1>4, <1>5, <1>6, <1>7, <1>8, <1>9, <1>10, <1>11, <1>12, <1>13, <1>14,
     <1>15, <1>16, <1>17, <1>18, <1>19, <1>20, <1>21, <1>22, <1>23, <1>24, <1>25, <1>26,
     <1>27, NextCases DEF Cases

\* A sender has its message until it is posted, a receiver none until it is handed one.
LEMMA RolesStep ==
  ASSUME QueueInv, [Next]_vars PROVE Roles'
<1> USE DEF QueueInv
<1>0. WaitQ = Port \union {PSet} /\ PSet \notin Port /\ FULL # RECEIVE /\ NoMsg \notin Msg
  BY MessageQueueAssumption
<1>1. CASE AbortQuiet
  BY <1>1, <1>0
     DEF AbortQuiet, waitVars, mqVars, queueVars, adminVars, threadVars, Roles, Waits,
         TypeOK, WQTypeOK, PC
<1>2. ASSUME NEW t \in Thread, NEW p \in Port, NEW m \in Msg, KmsgSend(t, p, m) PROVE Roles'
  BY <1>2, <1>0
     DEF KmsgSend, Goto, wqVars, queueVars, adminVars, waitVars, Roles, Waits, TypeOK,
         WQTypeOK, PC
<1>3. ASSUME NEW t \in Thread, SendReserve(t) PROVE Roles'
  BY <1>3, <1>0
     DEF SendReserve, Goto, wqVars, adminVars, waitVars, Roles, Waits, TypeOK, WQTypeOK, PC
<1>4. ASSUME NEW t \in Thread, SendBlock(t) PROVE Roles'
  BY <1>4, <1>0
     DEF SendBlock, AssertWaitLocked, Goto, adminVars, Roles, Waits, TypeOK, WQTypeOK, PC
<1>5. ASSUME NEW t \in Thread, SendFails(t) PROVE Roles'
  BY <1>5, <1>0
     DEF SendFails, PutMessage, Return, Goto, wqVars, queueVars, adminVars, waitVars, Roles,
         Waits, TypeOK, WQTypeOK, PC
<1>6. ASSUME NEW t \in Thread, SendGoes(t) PROVE Roles'
  BY <1>6, <1>0
     DEF SendGoes, Goto, wqVars, queueVars, adminVars, waitVars, Roles, Waits, TypeOK,
         WQTypeOK, PC
<1>7. ASSUME NEW t \in Thread, PostLock(t) PROVE Roles'
  BY <1>7, <1>0
     DEF PostLock, Goto, Unlocked, wqVars, queueVars, adminVars, waitVars, Roles, Waits,
         TypeOK, WQTypeOK, PC
<1>8. ASSUME NEW t \in Thread, PostQueues(t) PROVE Roles'
  BY <1>8, <1>0
     DEF PostQueues, Unlocked, Return, Goto, wqVars, adminVars, waitVars, Roles, Waits,
         TypeOK, WQTypeOK, PC
<1>9. ASSUME NEW t \in Thread, NEW r \in Thread, PostRefused(t, r) PROVE Roles'
  BY <1>9, <1>0
     DEF PostRefused, GoLocked, queueVars, adminVars, threadVars, Roles, Waits, TypeOK,
         WQTypeOK, PC
<1>10. ASSUME NEW t \in Thread, NEW r \in Thread, PostHands(t, r) PROVE Roles'
  <2>1. r # t /\ pc[r] = "rcv_block" /\ pc[t] = "deliver"
    BY <1>10, <1>0 DEF PostHands, Waits
  <2>2. \A u \in Thread :
          /\ pc'[u] = IF u = t THEN "idle" ELSE pc[u]
          /\ dest'[u] = IF u = t THEN PSet ELSE dest[u]
          /\ kmsg'[u] = IF u = r THEN kmsg[t] ELSE IF u = t THEN NoMsg ELSE kmsg[u]
          /\ waiting'[u] => /\ waiting[u] /\ u # r
                            /\ wait_queue'[u] = wait_queue[u]
                            /\ wait_event'[u] = wait_event[u]
    BY <1>10, <2>1 DEF PostHands, Return, Goto, GoLocked, TypeOK, WQTypeOK
  <2> QED BY <2>1, <2>2 DEF Roles
<1>11. ASSUME NEW t \in Thread, NEW q \in WaitQ, Copyin(t, q) PROVE Roles'
  BY <1>11, <1>0
     DEF Copyin, Goto, wqVars, queueVars, adminVars, waitVars, Roles, Waits, TypeOK,
         WQTypeOK, PC
<1>12. ASSUME NEW t \in Thread, ReceiveReturns(t) PROVE Roles'
  BY <1>12, <1>0
     DEF ReceiveReturns, LetGo, Return, Goto, wqVars, queueVars, adminVars, waitVars, Roles,
         Waits, TypeOK, WQTypeOK, PC
<1>13. ASSUME NEW t \in Thread, ReceiveBlocks(t) PROVE Roles'
  BY <1>13, <1>0
     DEF ReceiveBlocks, LetGo, AssertWaitLocked, Goto, queueVars, adminVars, Roles, Waits,
         TypeOK, WQTypeOK, PC
<1>14. ASSUME NEW t \in Thread, NEW p \in Port, ReceiveTakes(t, p) PROVE Roles'
  BY <1>14, <1>0
     DEF ReceiveTakes, LetGo, GoLocked, Return, Goto, adminVars, Roles, Waits, TypeOK,
         WQTypeOK, PC
<1>15. ASSUME NEW t \in Thread, ScanStart(t) PROVE Roles'
  BY <1>15, <1>0
     DEF ScanStart, Unlocked, Goto, wqVars, queueVars, adminVars, waitVars, Roles, Waits,
         TypeOK, WQTypeOK, PC
<1>16. ASSUME NEW t \in Thread, ScanBusy(t) PROVE Roles'
  BY <1>16, <1>0
     DEF ScanBusy, LetGo, Goto, wqVars, queueVars, adminVars, waitVars, Roles, Waits, TypeOK,
         WQTypeOK, PC
<1>17. ASSUME NEW t \in Thread, NEW p \in Port, ScanSkips(t, p) PROVE Roles'
  BY <1>17, <1>0
     DEF ScanSkips, wqVars, queueVars, adminVars, waitVars, Roles, Waits, TypeOK, WQTypeOK,
         PC
<1>18. ASSUME NEW t \in Thread, ReceiveResults(t) PROVE Roles'
  BY <1>18, <1>0
     DEF ReceiveResults, PutMessage, Return, Goto, wqVars, queueVars, adminVars, waitVars,
         Roles, Waits, TypeOK, WQTypeOK, PC
<1>19. ASSUME NEW t \in Thread, AbortEnds(t) PROVE Roles'
  BY <1>19, <1>0
     DEF AbortEnds, GoLocked, mqVars, queueVars, adminVars, threadVars, Roles, Waits, TypeOK,
         WQTypeOK, PC
<1>20. ASSUME NEW p \in Port, Add(p) PROVE Roles'
  BY <1>20, <1>0
     DEF Add, Unlocked, wqVars, queueVars, threadVars, waitVars, Roles, Waits, TypeOK,
         WQTypeOK, PC
<1>21. ASSUME NEW p \in Port, AddDone(p) PROVE Roles'
  BY <1>21, <1>0
     DEF AddDone, wqVars, queueVars, threadVars, waitVars, Roles, Waits, TypeOK, WQTypeOK,
         PC
<1>22. ASSUME NEW p \in Port, Remove(p) PROVE Roles'
  BY <1>22, <1>0
     DEF Remove, Unlocked, wqVars, queueVars, threadVars, waitVars, Roles, Waits, TypeOK,
         WQTypeOK, PC
<1>23. ASSUME NEW p \in Port, NEW r \in Thread, AddRefused(p, r) PROVE Roles'
  BY <1>23, <1>0
     DEF AddRefused, GoLocked, queueVars, adminVars, threadVars, Roles, Waits, TypeOK,
         WQTypeOK, PC
<1>24. ASSUME NEW p \in Port, NEW r \in Thread, AddHands(p, r) PROVE Roles'
  <2>1. pc[r] = "rcv_block" /\ Head(messages[p]) \in Msg
    BY <1>24, <1>0, TailFacts DEF AddHands, Waits, TypeOK
  <2>2. \A u \in Thread : /\ kmsg'[u] = IF u = r THEN Head(messages[p]) ELSE kmsg[u]
                         /\ waiting'[u] => waiting[u] /\ u # r
    BY <1>24 DEF AddHands, GoLocked, TypeOK, WQTypeOK
  <2> QED BY <1>24, <2>1, <2>2 DEF AddHands, Roles
<1>25. ASSUME NEW p \in Port, NEW n \in Limits, SetQlimit(p, n) PROVE Roles'
  BY <1>25, <1>0
     DEF SetQlimit, Unlocked, GoLocked, adminVars, threadVars, Roles, Waits, TypeOK,
         WQTypeOK, PC
<1>26. ASSUME NEW p \in Port, ClearReceiver(p) PROVE Roles'
  BY <1>26, <1>0
     DEF ClearReceiver, Unlocked, WakeupAllLocked, GoLocked, queueVars, threadVars, Roles,
         Waits, TypeOK, WQTypeOK, PC
<1>27. ASSUME NEW p \in Port, NEW S \in SUBSET Thread, Destroys(p, S) PROVE Roles'
  BY <1>27, <1>0 DEF Destroys, GoLocked, threadVars, Roles, Waits, TypeOK, WQTypeOK, PC
<1> QED
  BY <1>1, <1>2, <1>3, <1>4, <1>5, <1>6, <1>7, <1>8, <1>9, <1>10, <1>11, <1>12, <1>13, <1>14,
     <1>15, <1>16, <1>17, <1>18, <1>19, <1>20, <1>21, <1>22, <1>23, <1>24, <1>25, <1>26,
     <1>27, NextCases DEF Cases

\* Only a sender without room and a receiver without a message wait.
LEMMA WaitsStep ==
  ASSUME QueueInv, [Next]_vars PROVE Waits'
<1> USE DEF QueueInv
<1>0. WaitQ = Port \union {PSet} /\ PSet \notin Port /\ FULL # RECEIVE /\ NoMsg \notin Msg
  BY MessageQueueAssumption
<1>1. CASE AbortQuiet
  BY <1>1, <1>0
     DEF AbortQuiet, waitVars, mqVars, queueVars, adminVars, threadVars, Waits, Roles,
         TypeOK, WQTypeOK
<1>2. ASSUME NEW t \in Thread, NEW p \in Port, NEW m \in Msg, KmsgSend(t, p, m) PROVE Waits'
  BY <1>2, <1>0
     DEF KmsgSend, Goto, wqVars, queueVars, adminVars, waitVars, Waits, Roles, TypeOK,
         WQTypeOK
<1>3. ASSUME NEW t \in Thread, SendReserve(t) PROVE Waits'
  BY <1>3, <1>0
     DEF SendReserve, Goto, wqVars, adminVars, waitVars, Waits, Roles, TypeOK, WQTypeOK
<1>4. ASSUME NEW t \in Thread, SendBlock(t) PROVE Waits'
  BY <1>4, <1>0
     DEF SendBlock, AssertWaitLocked, Goto, adminVars, Waits, Roles, TypeOK, WQTypeOK
<1>5. ASSUME NEW t \in Thread, SendFails(t) PROVE Waits'
  BY <1>5, <1>0
     DEF SendFails, PutMessage, Return, Goto, wqVars, queueVars, adminVars, waitVars, Waits,
         Roles, TypeOK, WQTypeOK
<1>6. ASSUME NEW t \in Thread, SendGoes(t) PROVE Waits'
  BY <1>6, <1>0
     DEF SendGoes, Goto, wqVars, queueVars, adminVars, waitVars, Waits, Roles, TypeOK,
         WQTypeOK
<1>7. ASSUME NEW t \in Thread, PostLock(t) PROVE Waits'
  BY <1>7, <1>0
     DEF PostLock, Goto, Unlocked, wqVars, queueVars, adminVars, waitVars, Waits, Roles,
         TypeOK, WQTypeOK
<1>8. ASSUME NEW t \in Thread, PostQueues(t) PROVE Waits'
  BY <1>8, <1>0
     DEF PostQueues, Unlocked, Return, Goto, wqVars, adminVars, waitVars, Waits, Roles,
         TypeOK, WQTypeOK
<1>9. ASSUME NEW t \in Thread, NEW r \in Thread, PostRefused(t, r) PROVE Waits'
  BY <1>9, <1>0
     DEF PostRefused, GoLocked, queueVars, adminVars, threadVars, Waits, Roles, TypeOK,
         WQTypeOK
<1>10. ASSUME NEW t \in Thread, NEW r \in Thread, PostHands(t, r) PROVE Waits'
  <2>1. r # t /\ pc[r] = "rcv_block" /\ pc[t] = "deliver"
    BY <1>10, <1>0 DEF PostHands, Waits
  <2>2. \A u \in Thread :
          /\ pc'[u] = IF u = t THEN "idle" ELSE pc[u]
          /\ dest'[u] = IF u = t THEN PSet ELSE dest[u]
          /\ kmsg'[u] = IF u = r THEN kmsg[t] ELSE IF u = t THEN NoMsg ELSE kmsg[u]
          /\ waiting'[u] => /\ waiting[u] /\ u # r
                            /\ wait_queue'[u] = wait_queue[u]
                            /\ wait_event'[u] = wait_event[u]
    BY <1>10, <2>1 DEF PostHands, Return, Goto, GoLocked, TypeOK, WQTypeOK
  <2> QED BY <2>1, <2>2 DEF Waits
<1>11. ASSUME NEW t \in Thread, NEW q \in WaitQ, Copyin(t, q) PROVE Waits'
  BY <1>11, <1>0
     DEF Copyin, Goto, wqVars, queueVars, adminVars, waitVars, Waits, Roles, TypeOK,
         WQTypeOK
<1>12. ASSUME NEW t \in Thread, ReceiveReturns(t) PROVE Waits'
  BY <1>12, <1>0
     DEF ReceiveReturns, LetGo, Return, Goto, wqVars, queueVars, adminVars, waitVars, Waits,
         Roles, TypeOK, WQTypeOK
<1>13. ASSUME NEW t \in Thread, ReceiveBlocks(t) PROVE Waits'
  BY <1>13, <1>0
     DEF ReceiveBlocks, LetGo, AssertWaitLocked, Goto, queueVars, adminVars, Waits, Roles,
         TypeOK, WQTypeOK
<1>14. ASSUME NEW t \in Thread, NEW p \in Port, ReceiveTakes(t, p) PROVE Waits'
  BY <1>14, FullWokenOne, <1>0
     DEF ReceiveTakes, LetGo, GoLocked, Return, Goto, adminVars, Waits, Roles, TypeOK,
         WQTypeOK
<1>15. ASSUME NEW t \in Thread, ScanStart(t) PROVE Waits'
  BY <1>15, <1>0
     DEF ScanStart, Unlocked, Goto, wqVars, queueVars, adminVars, waitVars, Waits, Roles,
         TypeOK, WQTypeOK
<1>16. ASSUME NEW t \in Thread, ScanBusy(t) PROVE Waits'
  BY <1>16, <1>0
     DEF ScanBusy, LetGo, Goto, wqVars, queueVars, adminVars, waitVars, Waits, Roles, TypeOK,
         WQTypeOK
<1>17. ASSUME NEW t \in Thread, NEW p \in Port, ScanSkips(t, p) PROVE Waits'
  BY <1>17, <1>0
     DEF ScanSkips, wqVars, queueVars, adminVars, waitVars, Waits, Roles, TypeOK, WQTypeOK
<1>18. ASSUME NEW t \in Thread, ReceiveResults(t) PROVE Waits'
  BY <1>18, <1>0
     DEF ReceiveResults, PutMessage, Return, Goto, wqVars, queueVars, adminVars, waitVars,
         Waits, Roles, TypeOK, WQTypeOK
<1>19. ASSUME NEW t \in Thread, AbortEnds(t) PROVE Waits'
  BY <1>19, <1>0
     DEF AbortEnds, GoLocked, mqVars, queueVars, adminVars, threadVars, Waits, Roles, TypeOK,
         WQTypeOK
<1>20. ASSUME NEW p \in Port, Add(p) PROVE Waits'
  BY <1>20, <1>0
     DEF Add, Unlocked, wqVars, queueVars, threadVars, waitVars, Waits, Roles, TypeOK,
         WQTypeOK
<1>21. ASSUME NEW p \in Port, AddDone(p) PROVE Waits'
  BY <1>21, <1>0
     DEF AddDone, wqVars, queueVars, threadVars, waitVars, Waits, Roles, TypeOK, WQTypeOK
<1>22. ASSUME NEW p \in Port, Remove(p) PROVE Waits'
  BY <1>22, <1>0
     DEF Remove, Unlocked, wqVars, queueVars, threadVars, waitVars, Waits, Roles, TypeOK,
         WQTypeOK
<1>23. ASSUME NEW p \in Port, NEW r \in Thread, AddRefused(p, r) PROVE Waits'
  BY <1>23, <1>0
     DEF AddRefused, GoLocked, queueVars, adminVars, threadVars, Waits, Roles, TypeOK,
         WQTypeOK
<1>24. ASSUME NEW p \in Port, NEW r \in Thread, AddHands(p, r) PROVE Waits'
  BY <1>24, FullWokenOne, <1>0
     DEF AddHands, GoLocked, adminVars, Waits, Roles, TypeOK, WQTypeOK
<1>25. ASSUME NEW p \in Port, NEW n \in Limits, SetQlimit(p, n) PROVE Waits'
  BY <1>25, <1>0
     DEF SetQlimit, Unlocked, GoLocked, adminVars, threadVars, Waits, Roles, TypeOK,
         WQTypeOK
<1>26. ASSUME NEW p \in Port, ClearReceiver(p) PROVE Waits'
  BY <1>26, <1>0
     DEF ClearReceiver, Unlocked, WakeupAllLocked, GoLocked, queueVars, threadVars, Waits,
         Roles, TypeOK, WQTypeOK
<1>27. ASSUME NEW p \in Port, NEW S \in SUBSET Thread, Destroys(p, S) PROVE Waits'
  BY <1>27, <1>0 DEF Destroys, GoLocked, threadVars, Waits, Roles, TypeOK, WQTypeOK
<1> QED
  BY <1>1, <1>2, <1>3, <1>4, <1>5, <1>6, <1>7, <1>8, <1>9, <1>10, <1>11, <1>12, <1>13, <1>14,
     <1>15, <1>16, <1>17, <1>18, <1>19, <1>20, <1>21, <1>22, <1>23, <1>24, <1>25, <1>26,
     <1>27, NextCases DEF Cases

\* A lock is taken only when it is free and let go by its holder.
LEMMA LocksStep ==
  ASSUME QueueInv, [Next]_vars PROVE Locks'
<1> USE DEF QueueInv
<1>0. WaitQ = Port \union {PSet} /\ PSet \notin Port /\ FULL # RECEIVE /\ NoMsg \notin Msg
  BY MessageQueueAssumption
<1>a. {Admin, Nobody} \intersect Thread = {} /\ Admin # Nobody
  BY MessageQueueAssumption
<1>1. CASE AbortQuiet
  BY <1>1, <1>0, <1>a
     DEF AbortQuiet, waitVars, mqVars, queueVars, adminVars, threadVars, Locks, Roles,
         TypeOK
<1>2. ASSUME NEW t \in Thread, NEW p \in Port, NEW m \in Msg, KmsgSend(t, p, m) PROVE Locks'
  BY <1>2, <1>0, <1>a DEF KmsgSend, Goto, wqVars, queueVars, adminVars, Locks, Roles, TypeOK
<1>3. ASSUME NEW t \in Thread, SendReserve(t) PROVE Locks'
  BY <1>3, <1>0, <1>a DEF SendReserve, Goto, wqVars, adminVars, Locks, Roles, TypeOK
<1>4. ASSUME NEW t \in Thread, SendBlock(t) PROVE Locks'
  BY <1>4, <1>0, <1>a DEF SendBlock, Goto, adminVars, Locks, Roles, TypeOK
<1>5. ASSUME NEW t \in Thread, SendFails(t) PROVE Locks'
  BY <1>5, <1>0, <1>a
     DEF SendFails, PutMessage, Return, Goto, wqVars, queueVars, adminVars, Locks, Roles,
         TypeOK
<1>6. ASSUME NEW t \in Thread, SendGoes(t) PROVE Locks'
  BY <1>6, <1>0, <1>a DEF SendGoes, Goto, wqVars, queueVars, adminVars, Locks, Roles, TypeOK
<1>7. ASSUME NEW t \in Thread, PostLock(t) PROVE Locks'
  BY <1>7, <1>0, <1>a
     DEF PostLock, Goto, Unlocked, wqVars, queueVars, adminVars, Locks, Roles, TypeOK
<1>8. ASSUME NEW t \in Thread, PostQueues(t) PROVE Locks'
  BY <1>8, <1>0, <1>a
     DEF PostQueues, Unlocked, Return, Goto, wqVars, adminVars, Locks, Roles, TypeOK
<1>9. ASSUME NEW t \in Thread, NEW r \in Thread, PostRefused(t, r) PROVE Locks'
  BY <1>9, <1>0, <1>a
     DEF PostRefused, queueVars, adminVars, threadVars, Locks, Roles, TypeOK
<1>10. ASSUME NEW t \in Thread, NEW r \in Thread, PostHands(t, r) PROVE Locks'
  BY <1>10, <1>0, <1>a DEF PostHands, Return, Goto, adminVars, Locks, Roles, TypeOK
<1>11. ASSUME NEW t \in Thread, NEW q \in WaitQ, Copyin(t, q) PROVE Locks'
  BY <1>11, <1>0, <1>a DEF Copyin, Goto, wqVars, queueVars, adminVars, Locks, Roles, TypeOK
<1>12. ASSUME NEW t \in Thread, ReceiveReturns(t) PROVE Locks'
  BY <1>12, <1>0, <1>a
     DEF ReceiveReturns, LetGo, Return, Goto, wqVars, queueVars, adminVars, Locks, Roles,
         TypeOK
<1>13. ASSUME NEW t \in Thread, ReceiveBlocks(t) PROVE Locks'
  BY <1>13, <1>0, <1>a
     DEF ReceiveBlocks, LetGo, Goto, queueVars, adminVars, Locks, Roles, TypeOK
<1>14. ASSUME NEW t \in Thread, NEW p \in Port, ReceiveTakes(t, p) PROVE Locks'
  BY <1>14, <1>0, <1>a
     DEF ReceiveTakes, LetGo, Return, Goto, adminVars, Locks, Roles, TypeOK
<1>15. ASSUME NEW t \in Thread, ScanStart(t) PROVE Locks'
  BY <1>15, <1>0, <1>a
     DEF ScanStart, Unlocked, Goto, wqVars, queueVars, adminVars, Locks, Roles, TypeOK
<1>16. ASSUME NEW t \in Thread, ScanBusy(t) PROVE Locks'
  BY <1>16, <1>0, <1>a
     DEF ScanBusy, LetGo, Goto, wqVars, queueVars, adminVars, Locks, Roles, TypeOK
<1>17. ASSUME NEW t \in Thread, NEW p \in Port, ScanSkips(t, p) PROVE Locks'
  BY <1>17, <1>0, <1>a DEF ScanSkips, wqVars, queueVars, adminVars, Locks, Roles, TypeOK
<1>18. ASSUME NEW t \in Thread, ReceiveResults(t) PROVE Locks'
  BY <1>18, <1>0, <1>a
     DEF ReceiveResults, PutMessage, Return, Goto, wqVars, queueVars, adminVars, Locks,
         Roles, TypeOK
<1>19. ASSUME NEW t \in Thread, AbortEnds(t) PROVE Locks'
  BY <1>19, <1>0, <1>a
     DEF AbortEnds, mqVars, queueVars, adminVars, threadVars, Locks, Roles, TypeOK
<1>20. ASSUME NEW p \in Port, Add(p) PROVE Locks'
  BY <1>20, <1>0, <1>a
     DEF Add, Unlocked, wqVars, queueVars, threadVars, Locks, Roles, TypeOK
<1>21. ASSUME NEW p \in Port, AddDone(p) PROVE Locks'
  BY <1>21, <1>0, <1>a DEF AddDone, wqVars, queueVars, threadVars, Locks, Roles, TypeOK
<1>22. ASSUME NEW p \in Port, Remove(p) PROVE Locks'
  BY <1>22, <1>0, <1>a
     DEF Remove, Unlocked, wqVars, queueVars, threadVars, Locks, Roles, TypeOK
<1>23. ASSUME NEW p \in Port, NEW r \in Thread, AddRefused(p, r) PROVE Locks'
  BY <1>23, <1>0, <1>a
     DEF AddRefused, queueVars, adminVars, threadVars, Locks, Roles, TypeOK
<1>24. ASSUME NEW p \in Port, NEW r \in Thread, AddHands(p, r) PROVE Locks'
  BY <1>24, <1>0, <1>a DEF AddHands, adminVars, Locks, Roles, TypeOK
<1>25. ASSUME NEW p \in Port, NEW n \in Limits, SetQlimit(p, n) PROVE Locks'
  BY <1>25, <1>0, <1>a DEF SetQlimit, Unlocked, adminVars, threadVars, Locks, Roles, TypeOK
<1>26. ASSUME NEW p \in Port, ClearReceiver(p) PROVE Locks'
  BY <1>26, <1>0, <1>a
     DEF ClearReceiver, Unlocked, queueVars, threadVars, Locks, Roles, TypeOK
<1>27. ASSUME NEW p \in Port, NEW S \in SUBSET Thread, Destroys(p, S) PROVE Locks'
  BY <1>27, <1>0, <1>a DEF Destroys, threadVars, Locks, Roles, TypeOK
<1> QED
  BY <1>1, <1>2, <1>3, <1>4, <1>5, <1>6, <1>7, <1>8, <1>9, <1>10, <1>11, <1>12, <1>13, <1>14,
     <1>15, <1>16, <1>17, <1>18, <1>19, <1>20, <1>21, <1>22, <1>23, <1>24, <1>25, <1>26,
     <1>27, NextCases DEF Cases

-----------------------------------------------------------------------------
(* Where the messages are                                                  *)

\* The ways a message moves: not at all, from the pool to a sender, from a
\* thread to the pool, from a sender to the queue of p, from there to the
\* pool, from a sender to a receiver, from the queue of p to a receiver
Stays == UNCHANGED <<messages, kmsg, free>>
Fetched(t, m) ==
  /\ m \in free /\ kmsg[t] = NoMsg
  /\ free' = free \ {m} /\ kmsg' = [kmsg EXCEPT ![t] = m] /\ UNCHANGED messages
PutBack(t) == PutMessage(t) /\ UNCHANGED messages
Queued(t, p) ==
  /\ kmsg[t] # NoMsg
  /\ messages' = [messages EXCEPT ![p] = Append(@, kmsg[t])]
  /\ kmsg' = [kmsg EXCEPT ![t] = NoMsg] /\ UNCHANGED free
Taken(p) ==
  /\ messages[p] # <<>> /\ messages' = [messages EXCEPT ![p] = Tail(@)]
  /\ free' = free \union {Head(messages[p])} /\ UNCHANGED kmsg
Handed(t, r) ==
  /\ t # r /\ kmsg[r] = NoMsg
  /\ kmsg' = [kmsg EXCEPT ![t] = NoMsg, ![r] = kmsg[t]] /\ UNCHANGED <<messages, free>>
Matched(p, r) ==
  /\ messages[p] # <<>> /\ messages' = [messages EXCEPT ![p] = Tail(@)]
  /\ kmsg[r] = NoMsg
  /\ kmsg' = [kmsg EXCEPT ![r] = Head(messages[p])] /\ UNCHANGED free

Moves ==
  \/ Stays
  \/ \E t \in Thread : \/ \E m \in Msg : Fetched(t, m)
                       \/ PutBack(t)
                       \/ \E p \in Port : Queued(t, p)
                       \/ \E r \in Thread : Handed(t, r)
  \/ \E p \in Port : Taken(p) \/ \E r \in Thread : Matched(p, r)

\* Every step moves at most one message, in one of these ways.
LEMMA StepMoves ==
  ASSUME QueueInv, [Next]_vars PROVE Moves
<1> USE DEF QueueInv
<1>a. Stays => Moves
  BY DEF Moves
<1>1. CASE AbortQuiet
  BY <1>1, <1>a DEF AbortQuiet, mqVars, Stays, queueVars, threadVars
<1>2. ASSUME NEW t \in Thread, NEW p \in Port, NEW m \in Msg, KmsgSend(t, p, m) PROVE Moves
  <2>1. Fetched(t, m)
    BY <1>2 DEF KmsgSend, Fetched, queueVars, Roles
  <2> QED BY <2>1 DEF Moves
<1>3. ASSUME NEW t \in Thread, SendReserve(t) PROVE Moves
  BY <1>3, <1>a DEF SendReserve, Stays, queueVars, threadVars
<1>4. ASSUME NEW t \in Thread, SendBlock(t) PROVE Moves
  BY <1>4, <1>a DEF SendBlock, Stays, queueVars, threadVars
<1>5. ASSUME NEW t \in Thread, SendFails(t) PROVE Moves
  BY <1>5 DEF SendFails, PutBack, queueVars, Moves
<1>6. ASSUME NEW t \in Thread, SendGoes(t) PROVE Moves
  BY <1>6, <1>a DEF SendGoes, Stays, queueVars, threadVars
<1>7. ASSUME NEW t \in Thread, PostLock(t) PROVE Moves
  BY <1>7, <1>a DEF PostLock, Stays, queueVars, threadVars
<1>8. ASSUME NEW t \in Thread, PostQueues(t) PROVE Moves
  <2>1. dest[t] \in Port /\ Queued(t, dest[t])
    BY <1>8 DEF PostQueues, Queued, Roles
  <2> QED BY <2>1 DEF Moves
<1>9. ASSUME NEW t \in Thread, NEW r \in Thread, PostRefused(t, r) PROVE Moves
  BY <1>9, <1>a DEF PostRefused, Stays, queueVars, threadVars
<1>10. ASSUME NEW t \in Thread, NEW r \in Thread, PostHands(t, r) PROVE Moves
  <2>1. Handed(t, r)
    BY <1>10, MessageQueueAssumption DEF PostHands, Handed, Roles, Waits
  <2> QED BY <2>1 DEF Moves
<1>11. ASSUME NEW t \in Thread, NEW q \in WaitQ, Copyin(t, q) PROVE Moves
  BY <1>11, <1>a DEF Copyin, Stays, queueVars, threadVars
<1>12. ASSUME NEW t \in Thread, ReceiveReturns(t) PROVE Moves
  BY <1>12, <1>a DEF ReceiveReturns, Stays, queueVars, threadVars
<1>13. ASSUME NEW t \in Thread, ReceiveBlocks(t) PROVE Moves
  BY <1>13, <1>a DEF ReceiveBlocks, Stays, queueVars, threadVars
<1>14. ASSUME NEW t \in Thread, NEW p \in Port, ReceiveTakes(t, p) PROVE Moves
  BY <1>14 DEF ReceiveTakes, Taken, Moves
<1>15. ASSUME NEW t \in Thread, ScanStart(t) PROVE Moves
  BY <1>15, <1>a DEF ScanStart, Stays, queueVars, threadVars
<1>16. ASSUME NEW t \in Thread, ScanBusy(t) PROVE Moves
  BY <1>16, <1>a DEF ScanBusy, Stays, queueVars, threadVars
<1>17. ASSUME NEW t \in Thread, NEW p \in Port, ScanSkips(t, p) PROVE Moves
  BY <1>17, <1>a DEF ScanSkips, Stays, queueVars, threadVars
<1>18. ASSUME NEW t \in Thread, ReceiveResults(t) PROVE Moves
  BY <1>18 DEF ReceiveResults, PutBack, queueVars, Moves
<1>19. ASSUME NEW t \in Thread, AbortEnds(t) PROVE Moves
  BY <1>19, <1>a DEF AbortEnds, mqVars, Stays, queueVars, threadVars
<1>20. ASSUME NEW p \in Port, Add(p) PROVE Moves
  BY <1>20, <1>a DEF Add, Stays, queueVars, threadVars
<1>21. ASSUME NEW p \in Port, AddDone(p) PROVE Moves
  BY <1>21, <1>a DEF AddDone, Stays, queueVars, threadVars
<1>22. ASSUME NEW p \in Port, Remove(p) PROVE Moves
  BY <1>22, <1>a DEF Remove, Stays, queueVars, threadVars
<1>23. ASSUME NEW p \in Port, NEW r \in Thread, AddRefused(p, r) PROVE Moves
  BY <1>23, <1>a DEF AddRefused, Stays, queueVars, threadVars
<1>24. ASSUME NEW p \in Port, NEW r \in Thread, AddHands(p, r) PROVE Moves
  <2>1. Matched(p, r)
    BY <1>24, MessageQueueAssumption DEF AddHands, Matched, Roles, Waits
  <2> QED BY <2>1 DEF Moves
<1>25. ASSUME NEW p \in Port, NEW n \in Limits, SetQlimit(p, n) PROVE Moves
  BY <1>25, <1>a DEF SetQlimit, Stays, queueVars, threadVars
<1>26. ASSUME NEW p \in Port, ClearReceiver(p) PROVE Moves
  BY <1>26, <1>a DEF ClearReceiver, Stays, queueVars, threadVars
<1>27. ASSUME NEW p \in Port, NEW S \in SUBSET Thread, Destroys(p, S) PROVE Moves
  BY <1>27 DEF Destroys, Taken, Stays, threadVars, Moves
<1> QED
  BY <1>1, <1>2, <1>3, <1>4, <1>5, <1>6, <1>7, <1>8, <1>9, <1>10, <1>11, <1>12, <1>13, <1>14,
     <1>15, <1>16, <1>17, <1>18, <1>19, <1>20, <1>21, <1>22, <1>23, <1>24, <1>25, <1>26,
     <1>27, NextCases DEF Cases

\* The positions of a queue that loses its first message ...
LEMMA TailPlaces ==
  ASSUME TypeOK, OnePlace, NEW p \in Port, messages[p] # <<>>,
         messages' = [messages EXCEPT ![p] = Tail(@)]
  PROVE  LET h == Head(messages[p]) IN
         /\ h \in Msg /\ IsQueued(h, p, 1)
         /\ \A q \in Port, m \in Msg, i \in Nat :
              IsQueued(m, q, i)' =>
                /\ m # h
                /\ IF q = p THEN i + 1 \in Nat /\ IsQueued(m, p, i + 1) ELSE IsQueued(m, q, i)
         /\ \A q \in Port, m \in Msg, i \in Nat :
              IsQueued(m, q, i) =>
                IF q = p THEN m = h \/ (i - 1 \in Nat /\ IsQueued(m, p, i - 1)')
                         ELSE IsQueued(m, q, i)'
<1> DEFINE h == Head(messages[p])
<1>1. messages[p] \in Seq(Msg) /\ messages'[p] = Tail(messages[p])
  BY DEF TypeOK
<1>2. /\ Len(messages[p]) \in Nat /\ Len(messages[p]) > 0
      /\ h = messages[p][1] /\ h \in Msg
      /\ Len(messages'[p]) = Len(messages[p]) - 1
      /\ \A i \in 1 .. Len(messages[p]) - 1 : messages'[p][i] = messages[p][i + 1]
  BY <1>1, TailFacts
<1>3. IsQueued(h, p, 1)
  BY <1>2 DEF IsQueued
<1> HIDE DEF h
<1>4. ASSUME NEW q \in Port, NEW m \in Msg, NEW i \in Nat, q # p
      PROVE  IsQueued(m, q, i)' <=> IsQueued(m, q, i)
  BY <1>4 DEF TypeOK, IsQueued
<1>5. ASSUME NEW m \in Msg, NEW i \in Nat, IsQueued(m, p, i)'
      PROVE  i + 1 \in Nat /\ IsQueued(m, p, i + 1) /\ i + 1 # 1
  BY <1>2, <1>5 DEF IsQueued
<1>6. ASSUME NEW m \in Msg, NEW i \in Nat, IsQueued(m, p, i)
      PROVE  m = h \/ (i - 1 \in Nat /\ IsQueued(m, p, i - 1)')
  <2>1. CASE i = 1
    BY <1>2, <1>6, <2>1 DEF IsQueued
  <2>2. CASE i > 1
    BY <1>2, <1>6, <2>2 DEF IsQueued
  <2> QED BY <1>6, <2>1, <2>2 DEF IsQueued
<1>7. ASSUME NEW q \in Port, NEW m \in Msg, NEW i \in Nat, IsQueued(m, q, i)' PROVE m # h
  <2>1. CASE q = p
    <3>1. i + 1 \in Nat /\ IsQueued(m, p, i + 1) /\ i + 1 # 1
      BY <1>5, <1>7, <2>1
    <3> QED BY <1>3, <3>1 DEF OnePlace
  <2>2. CASE q # p
    BY <1>3, <1>4, <1>7, <2>2 DEF OnePlace
  <2> QED BY <2>1, <2>2
<1>8. ASSUME NEW q \in Port, NEW m \in Msg, NEW i \in Nat, IsQueued(m, q, i)'
      PROVE  /\ m # h
             /\ IF q = p THEN i + 1 \in Nat /\ IsQueued(m, p, i + 1) ELSE IsQueued(m, q, i)
  BY <1>4, <1>5, <1>7, <1>8
<1>9. ASSUME NEW q \in Port, NEW m \in Msg, NEW i \in Nat, IsQueued(m, q, i)
      PROVE  IF q = p THEN m = h \/ (i - 1 \in Nat /\ IsQueued(m, p, i - 1)')
                      ELSE IsQueued(m, q, i)'
  BY <1>4, <1>6, <1>9
<1> QED BY <1>2, <1>3, <1>8, <1>9 DEF h

\* ... and of one that gets another behind its last
LEMMA AppendPlaces ==
  ASSUME TypeOK, NEW p \in Port, NEW x \in Msg,
         messages' = [messages EXCEPT ![p] = Append(@, x)]
  PROVE  /\ Len(messages[p]) + 1 \in Nat
         /\ \A q \in Port, m \in Msg, i \in Nat :
              IsQueued(m, q, i)' <=> \/ IsQueued(m, q, i)
                                     \/ q = p /\ i = Len(messages[p]) + 1 /\ m = x
<1>1. messages[p] \in Seq(Msg) /\ messages'[p] = Append(messages[p], x)
  BY DEF TypeOK
<1>2. /\ Len(messages[p]) \in Nat /\ Len(messages'[p]) = Len(messages[p]) + 1
      /\ messages'[p][Len(messages[p]) + 1] = x
      /\ \A i \in 1 .. Len(messages[p]) : messages'[p][i] = messages[p][i]
  BY <1>1
<1>3. ASSUME NEW m \in Msg, NEW i \in Nat
      PROVE  IsQueued(m, p, i)' <=> \/ IsQueued(m, p, i)
                                    \/ i = Len(messages[p]) + 1 /\ m = x
  BY <1>2 DEF IsQueued
<1>4. ASSUME NEW q \in Port, NEW m \in Msg, NEW i \in Nat, q # p
      PROVE  IsQueued(m, q, i)' <=> IsQueued(m, q, i)
  BY <1>4 DEF TypeOK, IsQueued
<1> QED BY <1>2, <1>3, <1>4

\* So each message stays in one place.
LEMMA OnePlaceStep ==
  ASSUME QueueInv, [Next]_vars PROVE OnePlace'
<1>0. TypeOK /\ OnePlace /\ Moves /\ NoMsg \notin Msg
  BY StepMoves, MessageQueueAssumption DEF QueueInv
<1> USE DEF OnePlace
<1>1. CASE Stays
  BY <1>0, <1>1 DEF Stays, IsQueued
<1>2. ASSUME NEW t \in Thread, NEW m \in Msg, Fetched(t, m) PROVE OnePlace'
  <2>1. \A x, p, i : IsQueued(x, p, i)' <=> IsQueued(x, p, i)
    BY <1>2 DEF Fetched, IsQueued
  <2>2. \A u \in Thread : kmsg'[u] = IF u = t THEN m ELSE kmsg[u]
    BY <1>0, <1>2 DEF Fetched, TypeOK
  <2>3. free' = free \ {m} /\ m \in free /\ kmsg[t] = NoMsg /\ m # NoMsg
    BY <1>0, <1>2 DEF Fetched
  <2> QED BY <1>0, <2>1, <2>2, <2>3
<1>3. ASSUME NEW t \in Thread, PutBack(t) PROVE OnePlace'
  <2>1. \A x, p, i : IsQueued(x, p, i)' <=> IsQueued(x, p, i)
    BY <1>3 DEF PutBack, IsQueued
  <2>2. \A u \in Thread : kmsg'[u] = IF u = t THEN NoMsg ELSE kmsg[u]
    BY <1>0, <1>3 DEF PutBack, PutMessage, TypeOK
  <2>3. free' = free \union ({kmsg[t]} \ {NoMsg}) /\ NoMsg \notin free
    BY <1>0, <1>3 DEF PutBack, PutMessage, TypeOK
  <2> QED BY <1>0, <2>1, <2>2, <2>3
<1>4. ASSUME NEW t \in Thread, NEW p \in Port, Queued(t, p) PROVE OnePlace'
  <2>1. kmsg[t] \in Msg
    BY <1>0, <1>4 DEF Queued, TypeOK
  <2>2. /\ Len(messages[p]) + 1 \in Nat
        /\ \A q \in Port, m \in Msg, i \in Nat :
             IsQueued(m, q, i)' <=> \/ IsQueued(m, q, i)
                                    \/ q = p /\ i = Len(messages[p]) + 1 /\ m = kmsg[t]
    <3>1. PICK x \in Msg : x = kmsg[t]
      BY <2>1
    <3>2. messages' = [messages EXCEPT ![p] = Append(@, x)]
      BY <1>4, <3>1 DEF Queued
    <3>3. /\ Len(messages[p]) + 1 \in Nat
          /\ \A q \in Port, m \in Msg, i \in Nat :
               IsQueued(m, q, i)' <=> \/ IsQueued(m, q, i)
                                      \/ q = p /\ i = Len(messages[p]) + 1 /\ m = x
      <4>1. TypeOK
        BY <1>0
      <4> QED BY ONLY <4>1, p \in Port, x \in Msg, <3>2, AppendPlaces
    <3> QED BY ONLY <3>1, <3>3
  <2>3. \A u \in Thread : kmsg'[u] = IF u = t THEN NoMsg ELSE kmsg[u]
    BY <1>0, <1>4 DEF Queued, TypeOK
  <2>4. free' = free /\ NoMsg \notin free
    BY <1>0, <1>4 DEF Queued, TypeOK
  <2> QED BY <1>0, <2>1, <2>2, <2>3, <2>4
<1>5. ASSUME NEW t \in Thread, NEW r \in Thread, Handed(t, r) PROVE OnePlace'
  <2>1. \A x, p, i : IsQueued(x, p, i)' <=> IsQueued(x, p, i)
    BY <1>5 DEF Handed, IsQueued
  <2>2. \A u \in Thread :
          kmsg'[u] = IF u = r THEN kmsg[t] ELSE IF u = t THEN NoMsg ELSE kmsg[u]
    BY <1>0, <1>5 DEF Handed, TypeOK
  <2>3. free' = free /\ t # r /\ kmsg[r] = NoMsg /\ NoMsg \notin free
    BY <1>0, <1>5 DEF Handed, TypeOK
  <2> QED BY <1>0, <2>1, <2>2, <2>3
<1>6. ASSUME NEW p \in Port, messages[p] # <<>>,
             messages' = [messages EXCEPT ![p] = Tail(@)],
             Taken(p) \/ \E r \in Thread : Matched(p, r)
      PROVE  OnePlace'
  <2> DEFINE h == Head(messages[p])
  <2>1. h \in Msg /\ IsQueued(h, p, 1) /\ 1 \in Nat
    BY <1>0, <1>6, TailPlaces
  <2>2. \A q \in Port, m \in Msg, i \in Nat :
          IsQueued(m, q, i)' =>
            /\ m # h
            /\ IF q = p THEN i + 1 \in Nat /\ IsQueued(m, p, i + 1) ELSE IsQueued(m, q, i)
    BY <1>0, <1>6, TailPlaces
  <2>3. \A q \in Port, m \in Msg, i \in Nat :
          IsQueued(m, q, i) =>
            IF q = p THEN m = h \/ (i - 1 \in Nat /\ IsQueued(m, p, i - 1)')
                     ELSE IsQueued(m, q, i)'
    BY <1>0, <1>6, TailPlaces
  <2>4. /\ \A u \in Thread : kmsg'[u] = kmsg[u] \/ (kmsg[u] = NoMsg /\ kmsg'[u] = h)
        /\ \A u, v \in Thread : kmsg'[u] = h /\ kmsg'[v] = h => u = v
        /\ \A m \in free' : m \in free \/ m = h
        /\ free \subseteq free'
        /\ h \in free' <=> ~\E u \in Thread : kmsg'[u] = h
    <3>1. h \notin free /\ \A u \in Thread : kmsg[u] # h
      BY <1>0, <2>1
    <3> HIDE DEF h
    <3>2. CASE Taken(p)
      BY <1>0, <3>1, <3>2 DEF Taken, TypeOK, h
    <3>3. ASSUME NEW r \in Thread, Matched(p, r)
          PROVE  /\ \A u \in Thread : kmsg'[u] = IF u = r THEN h ELSE kmsg[u]
                 /\ kmsg[r] = NoMsg /\ free' = free
      BY <1>0, <3>3 DEF Matched, TypeOK, h
    <3> QED BY <1>6, <3>1, <3>2, <3>3
  <2> HIDE DEF h
  <2>5. h \notin free /\ (\A u \in Thread : kmsg[u] # h) /\ NoMsg \notin free' /\ h # NoMsg
    BY <1>0, <2>1, <2>4 DEF TypeOK
  <2>6. ASSUME NEW m \in Msg, NEW q1 \in Port, NEW q2 \in Port, NEW i \in Nat, NEW j \in Nat,
               IsQueued(m, q1, i)', IsQueued(m, q2, j)'
        PROVE  q1 = q2 /\ i = j
    <3>1. PICK i1 \in Nat : IsQueued(m, q1, i1) /\ i1 = IF q1 = p THEN i + 1 ELSE i
      BY <2>2, <2>6
    <3>2. PICK j1 \in Nat : IsQueued(m, q2, j1) /\ j1 = IF q2 = p THEN j + 1 ELSE j
      BY <2>2, <2>6
    <3>3. q1 = q2 /\ i1 = j1
      BY <1>0, <3>1, <3>2
    <3> QED BY <3>1, <3>2, <3>3
  <2>7. \A u, v \in Thread : kmsg'[u] = kmsg'[v] /\ kmsg'[u] # NoMsg => u = v
    BY <1>0, <2>4, <2>5
  <2>8. ASSUME NEW m \in Msg, NEW q \in Port, NEW i \in Nat, IsQueued(m, q, i)'
        PROVE  m \notin free' /\ \A u \in Thread : kmsg'[u] # m
    <3>1. m # h /\ \E j \in Nat : IsQueued(m, q, j)
      BY <2>2, <2>8
    <3> QED BY <1>0, <2>4, <3>1, MessageQueueAssumption
  <2>9. \A u \in Thread : kmsg'[u] \notin free'
    BY <1>0, <2>4, <2>5
  <2>10. ASSUME NEW m \in Msg
         PROVE  \/ m \in free' \/ \E u \in Thread : kmsg'[u] = m
                \/ \E q \in Port, i \in Nat : IsQueued(m, q, i)'
    <3>1. CASE m = h
      BY <2>4, <3>1
    <3>2. CASE m \in free
      BY <2>4, <3>2
    <3>3. CASE \E u \in Thread : kmsg[u] = m
      BY <1>0, <2>4, <3>3
    <3>4. ASSUME NEW q \in Port, NEW i \in Nat, IsQueued(m, q, i), m # h
          PROVE  \E j \in Nat : IsQueued(m, q, j)'
      BY <2>3, <3>4
    <3> QED BY <1>0, <3>1, <3>2, <3>3, <3>4
  <2> QED BY <2>6, <2>7, <2>8, <2>9, <2>10
<1> QED BY <1>0, <1>1, <1>2, <1>3, <1>4, <1>5, <1>6 DEF Moves, Taken, Matched

-----------------------------------------------------------------------------
(* Receivers and the messages they wait for                                *)

\* While the set's lock is held nothing is posted to a port of the set.
LEMMA SearchedStep ==
  ASSUME QueueInv, [Next]_vars PROVE Searched'
<1> USE DEF QueueInv
<1>0. WaitQ = Port \union {PSet} /\ PSet \notin Port /\ {Admin, Nobody} \intersect Thread = {}
  BY MessageQueueAssumption
<1>1. CASE AbortQuiet
  BY <1>1, <1>0
     DEF AbortQuiet, waitVars, mqVars, queueVars, adminVars, threadVars, Searched, Locks,
         Roles, TypeOK, Unlocked
<1>2. ASSUME NEW t \in Thread, NEW p \in Port, NEW m \in Msg, KmsgSend(t, p, m)
      PROVE  Searched'
  BY <1>2, <1>0
     DEF KmsgSend, Goto, wqVars, queueVars, adminVars, Searched, Locks, Roles, TypeOK,
         Unlocked
<1>3. ASSUME NEW t \in Thread, SendReserve(t) PROVE Searched'
  BY <1>3, <1>0
     DEF SendReserve, Goto, wqVars, adminVars, Searched, Locks, Roles, TypeOK, Unlocked
<1>4. ASSUME NEW t \in Thread, SendBlock(t) PROVE Searched'
  BY <1>4, <1>0 DEF SendBlock, Goto, adminVars, Searched, Locks, Roles, TypeOK, Unlocked
<1>5. ASSUME NEW t \in Thread, SendFails(t) PROVE Searched'
  BY <1>5, <1>0
     DEF SendFails, PutMessage, Return, Goto, wqVars, queueVars, adminVars, Searched, Locks,
         Roles, TypeOK, Unlocked
<1>6. ASSUME NEW t \in Thread, SendGoes(t) PROVE Searched'
  BY <1>6, <1>0
     DEF SendGoes, Goto, wqVars, queueVars, adminVars, Searched, Locks, Roles, TypeOK,
         Unlocked
<1>7. ASSUME NEW t \in Thread, PostLock(t) PROVE Searched'
  BY <1>7, <1>0
     DEF PostLock, Goto, Unlocked, wqVars, queueVars, adminVars, Searched, Locks, Roles,
         TypeOK
<1>8. ASSUME NEW t \in Thread, PostQueues(t) PROVE Searched'
  BY <1>8, <1>0
     DEF PostQueues, Unlocked, Return, Goto, wqVars, adminVars, Searched, Locks, Roles,
         TypeOK
<1>9. ASSUME NEW t \in Thread, NEW r \in Thread, PostRefused(t, r) PROVE Searched'
  BY <1>9, <1>0
     DEF PostRefused, queueVars, adminVars, threadVars, Searched, Locks, Roles, TypeOK,
         Unlocked
<1>10. ASSUME NEW t \in Thread, NEW r \in Thread, PostHands(t, r) PROVE Searched'
  BY <1>10, <1>0
     DEF PostHands, Return, Goto, adminVars, Searched, Locks, Roles, TypeOK, Unlocked
<1>11. ASSUME NEW t \in Thread, NEW q \in WaitQ, Copyin(t, q) PROVE Searched'
  BY <1>11, <1>0
     DEF Copyin, Goto, wqVars, queueVars, adminVars, Searched, Locks, Roles, TypeOK,
         Unlocked
<1>12. ASSUME NEW t \in Thread, ReceiveReturns(t) PROVE Searched'
  BY <1>12, <1>0
     DEF ReceiveReturns, LetGo, Return, Goto, wqVars, queueVars, adminVars, Searched, Locks,
         Roles, TypeOK, Unlocked
<1>13. ASSUME NEW t \in Thread, ReceiveBlocks(t) PROVE Searched'
  BY <1>13, <1>0
     DEF ReceiveBlocks, LetGo, Goto, queueVars, adminVars, Searched, Locks, Roles, TypeOK,
         Unlocked
<1>14. ASSUME NEW t \in Thread, NEW p \in Port, ReceiveTakes(t, p) PROVE Searched'
  <2>1. \A q \in Port : messages[q] = <<>> => messages'[q] = <<>>
    BY <1>14 DEF ReceiveTakes, TypeOK
  <2> QED BY <1>14, <1>0, <2>1 DEF ReceiveTakes, Goto, Return, adminVars, threadVars, Searched,
                                   TypeOK
<1>15. ASSUME NEW t \in Thread, ScanStart(t) PROVE Searched'
  BY <1>15, <1>0
     DEF ScanStart, Unlocked, Goto, wqVars, queueVars, adminVars, Searched, Locks, Roles,
         TypeOK
<1>16. ASSUME NEW t \in Thread, ScanBusy(t) PROVE Searched'
  BY <1>16, <1>0
     DEF ScanBusy, LetGo, Goto, wqVars, queueVars, adminVars, Searched, Locks, Roles, TypeOK,
         Unlocked
<1>17. ASSUME NEW t \in Thread, NEW p \in Port, ScanSkips(t, p) PROVE Searched'
  BY <1>17, <1>0
     DEF ScanSkips, wqVars, queueVars, adminVars, Searched, Locks, Roles, TypeOK, Unlocked
<1>18. ASSUME NEW t \in Thread, ReceiveResults(t) PROVE Searched'
  BY <1>18, <1>0
     DEF ReceiveResults, PutMessage, Return, Goto, wqVars, queueVars, adminVars, Searched,
         Locks, Roles, TypeOK, Unlocked
<1>19. ASSUME NEW t \in Thread, AbortEnds(t) PROVE Searched'
  BY <1>19, <1>0
     DEF AbortEnds, mqVars, queueVars, adminVars, threadVars, Searched, Locks, Roles, TypeOK,
         Unlocked
<1>20. ASSUME NEW p \in Port, Add(p) PROVE Searched'
  BY <1>20, <1>0
     DEF Add, Unlocked, wqVars, queueVars, threadVars, Searched, Locks, Roles, TypeOK
<1>21. ASSUME NEW p \in Port, AddDone(p) PROVE Searched'
  BY <1>21, <1>0
     DEF AddDone, wqVars, queueVars, threadVars, Searched, Locks, Roles, TypeOK, Unlocked
<1>22. ASSUME NEW p \in Port, Remove(p) PROVE Searched'
  BY <1>22, <1>0
     DEF Remove, Unlocked, wqVars, queueVars, threadVars, Searched, Locks, Roles, TypeOK
<1>23. ASSUME NEW p \in Port, NEW r \in Thread, AddRefused(p, r) PROVE Searched'
  BY <1>23, <1>0
     DEF AddRefused, queueVars, adminVars, threadVars, Searched, Locks, Roles, TypeOK,
         Unlocked
<1>24. ASSUME NEW p \in Port, NEW r \in Thread, AddHands(p, r) PROVE Searched'
  <2>1. \A q \in Port : messages[q] = <<>> => messages'[q] = <<>>
    BY <1>24 DEF AddHands, TypeOK
  <2> QED BY <1>24, <1>0, <2>1 DEF AddHands, Goto, Return, adminVars, threadVars, Searched,
                                   TypeOK
<1>25. ASSUME NEW p \in Port, NEW n \in Limits, SetQlimit(p, n) PROVE Searched'
  BY <1>25, <1>0
     DEF SetQlimit, Unlocked, adminVars, threadVars, Searched, Locks, Roles, TypeOK
<1>26. ASSUME NEW p \in Port, ClearReceiver(p) PROVE Searched'
  BY <1>26, <1>0
     DEF ClearReceiver, Unlocked, queueVars, threadVars, Searched, Locks, Roles, TypeOK
<1>27. ASSUME NEW p \in Port, NEW S \in SUBSET Thread, Destroys(p, S) PROVE Searched'
  <2>1. \A q \in Port : messages[q] = <<>> => messages'[q] = <<>>
    BY <1>27 DEF Destroys, TypeOK
  <2> QED BY <1>27, <1>0, <2>1 DEF Destroys, Goto, Return, adminVars, threadVars, Searched,
                                   TypeOK
<1> QED
  BY <1>1, <1>2, <1>3, <1>4, <1>5, <1>6, <1>7, <1>8, <1>9, <1>10, <1>11, <1>12, <1>13, <1>14,
     <1>15, <1>16, <1>17, <1>18, <1>19, <1>20, <1>21, <1>22, <1>23, <1>24, <1>25, <1>26,
     <1>27, NextCases DEF Cases

\* A post finds the receivers, and a receiver the messages.
LEMMA MissedStep ==
  ASSUME QueueInv, [Next]_vars PROVE NoMissedMessage'
<1> USE DEF QueueInv
<1>0. NoMissedMessage /\ WaitQ = Port \union {PSet} /\ PSet \notin Port /\ FULL # RECEIVE
  BY MessageQueueAssumption
<1> DEFINE Fewer == \A q \in WaitQ : Waiters(q, RECEIVE)' \subseteq Waiters(q, RECEIVE)
<1>a. ASSUME Fewer, linked' \ adding' \subseteq linked \ adding,
             \A p \in Port : messages[p] = <<>> => messages'[p] = <<>>
      PROVE  NoMissedMessage'
  BY <1>0, <1>a DEF NoMissedMessage
<1>b. UNCHANGED waitVars => Fewer
  BY DEF Waiters, Members, waitVars
<1>c. ASSUME NEW S, NEW r, GoLocked(S, r) PROVE Fewer
  BY <1>c, WaitQueueAssumption DEF GoLocked, Waiters, Members, TypeOK, WQTypeOK
<1>d. ASSUME NEW t \in Thread, NEW q \in WaitQ, NEW e, AssertWaitLocked(t, q, e, "ABORTSAFE")
      PROVE  \A x \in WaitQ : \A u \in Waiters(x, RECEIVE)' :
               u \in Waiters(x, RECEIVE) \/ (e = RECEIVE /\ x = q)
  BY <1>d DEF AssertWaitLocked, Waiters, Members, TypeOK, WQTypeOK
<1>e. ASSUME NEW p \in Port, messages[p] # <<>>, messages' = [messages EXCEPT ![p] = Tail(@)]
      PROVE  \A q \in Port : messages[q] = <<>> => messages'[q] = <<>>
  BY <1>e DEF TypeOK
<1> HIDE DEF Fewer
<1>1. CASE AbortQuiet
  BY <1>1, <1>a, <1>b DEF AbortQuiet, mqVars, queueVars, adminVars
<1>2. ASSUME NEW t \in Thread, NEW p \in Port, NEW m \in Msg, KmsgSend(t, p, m)
      PROVE  NoMissedMessage'
  BY <1>2, <1>a, <1>b DEF KmsgSend, wqVars, queueVars, adminVars
<1>3. ASSUME NEW t \in Thread, SendReserve(t) PROVE NoMissedMessage'
  BY <1>3, <1>a, <1>b DEF SendReserve, wqVars, queueVars, adminVars
<1>4. ASSUME NEW t \in Thread, SendBlock(t) PROVE NoMissedMessage'
  <2>1. dest[t] \in WaitQ
    BY DEF TypeOK
  <2>2. Fewer
    BY <1>4, <1>0, <1>d, <2>1 DEF SendBlock, Fewer
  <2> QED BY <1>4, <1>a, <2>2 DEF SendBlock, adminVars
<1>5. ASSUME NEW t \in Thread, SendFails(t) PROVE NoMissedMessage'
  BY <1>5, <1>a, <1>b DEF SendFails, wqVars, queueVars, adminVars
<1>6. ASSUME NEW t \in Thread, SendGoes(t) PROVE NoMissedMessage'
  BY <1>6, <1>a, <1>b DEF SendGoes, wqVars, queueVars, adminVars
<1>7. ASSUME NEW t \in Thread, PostLock(t) PROVE NoMissedMessage'
  BY <1>7, <1>a, <1>b DEF PostLock, wqVars, queueVars, adminVars
<1>8. ASSUME NEW t \in Thread, PostQueues(t) PROVE NoMissedMessage'
  <2>1. Fewer /\ dest[t] \in Port
    BY <1>8, <1>b DEF PostQueues, wqVars, Roles
  <2>2. \A p \in Port : p # dest[t] => messages'[p] = messages[p]
    BY <1>8, <2>1 DEF PostQueues, TypeOK
  <2>3. linked' = linked /\ adding' = adding
    BY <1>8 DEF PostQueues, adminVars
  <2>4. Waiters(dest[t], RECEIVE) = {} /\ (dest[t] \in linked => Waiters(PSet, RECEIVE) = {})
    BY <1>8 DEF PostQueues
  <2> QED BY <1>0, <2>1, <2>2, <2>3, <2>4 DEF NoMissedMessage, Fewer
<1>9. ASSUME NEW t \in Thread, NEW r \in Thread, PostRefused(t, r) PROVE NoMissedMessage'
  <2>1. Fewer
    BY <1>9, <1>c DEF PostRefused
  <2> QED BY <1>9, <1>a, <2>1 DEF PostRefused, queueVars, adminVars
<1>10. ASSUME NEW t \in Thread, NEW r \in Thread, PostHands(t, r) PROVE NoMissedMessage'
  <2>1. Fewer
    BY <1>10, <1>c DEF PostHands
  <2> QED BY <1>10, <1>a, <2>1 DEF PostHands, queueVars, adminVars
<1>11. ASSUME NEW t \in Thread, NEW q \in WaitQ, Copyin(t, q) PROVE NoMissedMessage'
  BY <1>11, <1>a, <1>b DEF Copyin, wqVars, queueVars, adminVars
<1>12. ASSUME NEW t \in Thread, ReceiveReturns(t) PROVE NoMissedMessage'
  BY <1>12, <1>a, <1>b DEF ReceiveReturns, wqVars, queueVars, adminVars
<1>13. ASSUME NEW t \in Thread, ReceiveBlocks(t) PROVE NoMissedMessage'
  <2>1. dest[t] \in WaitQ
    BY DEF TypeOK
  <2>2. \A x \in WaitQ : x # dest[t] => Waiters(x, RECEIVE)' \subseteq Waiters(x, RECEIVE)
    BY <1>13, <1>d, <2>1 DEF ReceiveBlocks
  <2>3. messages' = messages /\ linked' = linked /\ adding' = adding
    BY <1>13 DEF ReceiveBlocks, queueVars, adminVars
  <2>4. CASE dest[t] = PSet
    <3>1. \A p \in linked : messages[p] = <<>>
      BY <1>13, <2>4 DEF ReceiveBlocks, Searched, TypeOK
    <3> QED BY <1>0, <2>2, <2>3, <2>4, <3>1 DEF NoMissedMessage
  <2>5. CASE dest[t] # PSet
    <3>1. messages[dest[t]] = <<>>
      BY <1>13, <2>5 DEF ReceiveBlocks
    <3> QED BY <1>0, <2>1, <2>2, <2>3, <2>5, <3>1 DEF NoMissedMessage
  <2> QED BY <2>4, <2>5
<1>14. ASSUME NEW t \in Thread, NEW p \in Port, ReceiveTakes(t, p) PROVE NoMissedMessage'
  <2>1. Fewer
    BY <1>14, <1>c DEF ReceiveTakes
  <2>2. \A q \in Port : messages[q] = <<>> => messages'[q] = <<>>
    BY <1>14, <1>e DEF ReceiveTakes
  <2> QED BY <1>14, <1>a, <2>1, <2>2 DEF ReceiveTakes, adminVars
<1>15. ASSUME NEW t \in Thread, ScanStart(t) PROVE NoMissedMessage'
  BY <1>15, <1>a, <1>b DEF ScanStart, wqVars, queueVars, adminVars
<1>16. ASSUME NEW t \in Thread, ScanBusy(t) PROVE NoMissedMessage'
  BY <1>16, <1>a, <1>b DEF ScanBusy, wqVars, queueVars, adminVars
<1>17. ASSUME NEW t \in Thread, NEW p \in Port, ScanSkips(t, p) PROVE NoMissedMessage'
  BY <1>17, <1>a, <1>b DEF ScanSkips, wqVars, queueVars, adminVars
<1>18. ASSUME NEW t \in Thread, ReceiveResults(t) PROVE NoMissedMessage'
  BY <1>18, <1>a, <1>b DEF ReceiveResults, wqVars, queueVars, adminVars
<1>19. ASSUME NEW t \in Thread, AbortEnds(t) PROVE NoMissedMessage'
  <2>1. Fewer
    BY <1>19, <1>c DEF AbortEnds
  <2> QED BY <1>19, <1>a, <2>1 DEF AbortEnds, mqVars, queueVars, adminVars
<1>20. ASSUME NEW p \in Port, Add(p) PROVE NoMissedMessage'
  BY <1>20, <1>a, <1>b DEF Add, wqVars, queueVars, adminVars
<1>21. ASSUME NEW p \in Port, AddDone(p) PROVE NoMissedMessage'
  <2>1. Fewer /\ messages' = messages
    BY <1>21, <1>b DEF AddDone, wqVars, queueVars
  <2> QED BY <1>21, <1>0, <2>1 DEF AddDone, NoMissedMessage, Fewer
<1>22. ASSUME NEW p \in Port, Remove(p) PROVE NoMissedMessage'
  BY <1>22, <1>a, <1>b DEF Remove, wqVars, queueVars, adminVars
<1>23. ASSUME NEW p \in Port, NEW r \in Thread, AddRefused(p, r) PROVE NoMissedMessage'
  <2>1. Fewer
    BY <1>23, <1>c DEF AddRefused
  <2> QED BY <1>23, <1>a, <2>1 DEF AddRefused, queueVars, adminVars
<1>24. ASSUME NEW p \in Port, NEW r \in Thread, AddHands(p, r) PROVE NoMissedMessage'
  <2>1. Fewer
    BY <1>24, <1>c DEF AddHands
  <2>2. \A q \in Port : messages[q] = <<>> => messages'[q] = <<>>
    BY <1>24, <1>e DEF AddHands
  <2> QED BY <1>24, <1>a, <2>1, <2>2 DEF AddHands, adminVars
<1>25. ASSUME NEW p \in Port, NEW n \in Limits, SetQlimit(p, n) PROVE NoMissedMessage'
  <2>1. Fewer
    BY <1>25, <1>c DEF SetQlimit
  <2> QED BY <1>25, <1>a, <2>1 DEF SetQlimit, queueVars, adminVars
<1>26. ASSUME NEW p \in Port, ClearReceiver(p) PROVE NoMissedMessage'
  <2>1. Fewer
    BY <1>26, <1>c DEF ClearReceiver, WakeupAllLocked
  <2> QED BY <1>26, <1>a, <2>1 DEF ClearReceiver, queueVars
<1>27. ASSUME NEW p \in Port, NEW S \in SUBSET Thread, Destroys(p, S) PROVE NoMissedMessage'
  <2>1. Fewer
    BY <1>27, <1>c DEF Destroys
  <2>2. \A q \in Port : messages[q] = <<>> => messages'[q] = <<>>
    BY <1>27, <1>e DEF Destroys
  <2> QED BY <1>27, <1>a, <2>1, <2>2 DEF Destroys, adminVars
<1> QED
  BY <1>1, <1>2, <1>3, <1>4, <1>5, <1>6, <1>7, <1>8, <1>9, <1>10, <1>11, <1>12, <1>13, <1>14,
     <1>15, <1>16, <1>17, <1>18, <1>19, <1>20, <1>21, <1>22, <1>23, <1>24, <1>25, <1>26,
     <1>27, NextCases DEF Cases

-----------------------------------------------------------------------------
(* The theorems                                                            *)

\* Every step keeps the inductive invariant.
LEMMA QueueInvStep == QueueInv /\ [Next]_vars => QueueInv'
<1> SUFFICES ASSUME QueueInv, [Next]_vars PROVE QueueInv'
  OBVIOUS
<1>1. TypeOK' /\ WaitingIffQueued' /\ QueueOrder'
  BY TypesStep, QueuesStep DEF WQInv
<1>2. Roles' /\ Waits' /\ Aborts' /\ Locks'
  BY RolesStep, WaitsStep, AbortsStep, LocksStep
<1>3. OnePlace' /\ Searched' /\ NoMissedMessage'
  BY OnePlaceStep, SearchedStep, MissedStep
<1> QED BY <1>1, <1>2, <1>3 DEF QueueInv

\* The initial state satisfies the inductive invariant.
LEMMA QueueInvInit == Init => QueueInv
<1> SUFFICES ASSUME Init PROVE QueueInv
  OBVIOUS
<1>1. WQInv
  BY WQInitInv DEF Init
<1>2. \A p \in Port : messages[p] = <<>> /\ Len(messages[p]) = 0
  BY DEF Init
<1>3. TypeOK
  BY <1>1, CountType, MessageQueueAssumption DEF Init, TypeOK, PC, WQInv
<1>4. Roles /\ Waits /\ Locks
  BY MessageQueueAssumption DEF Init, WQInit, Roles, Waits, Locks
<1>5. Aborts
  BY DEF Init, WQInit, Aborts, Clearer
<1>6. \A m, p, i : p \in Port => ~IsQueued(m, p, i)
  BY <1>2 DEF IsQueued
<1>7. OnePlace
  BY <1>6, MessageQueueAssumption DEF Init, OnePlace
<1>8. Searched /\ NoMissedMessage
  BY <1>2 DEF Searched, NoMissedMessage, Init
<1> QED BY <1>1, <1>3, <1>4, <1>5, <1>7, <1>8 DEF QueueInv, WQInv

\* The joint invariant of the message queues, for every behaviour
THEOREM QueueInvariant == Spec => []QueueInv
<1>1. QueueInv /\ [Next]_vars => QueueInv'
  BY QueueInvStep
<1> QED BY <1>1, QueueInvInit, PTL DEF Spec

\* A queue holds no more messages than there are.
LEMMA QueueBound ==
  ASSUME TypeOK, OnePlace, NEW p \in Port
  PROVE  /\ Len(messages[p]) \in Nat
         /\ Len(messages[p]) <= Cardinality(Msg)
         /\ Cardinality({messages[p][i] : i \in 1 .. Len(messages[p])}) = Len(messages[p])
<1> DEFINE s == messages[p]
           n == Len(s)
           R == {s[i] : i \in 1 .. n}
<1>1. s \in Seq(Msg) /\ n \in Nat /\ s \in [1 .. n -> Msg]
  BY DEF TypeOK
<1>2. \A i, j \in 1 .. n : s[i] = s[j] => i = j
  <2> SUFFICES ASSUME NEW i \in 1 .. n, NEW j \in 1 .. n, s[i] = s[j] PROVE i = j
    OBVIOUS
  <2>1. IsQueued(s[i], p, i) /\ IsQueued(s[i], p, j) /\ s[i] \in Msg /\ i \in Nat /\ j \in Nat
    BY <1>1 DEF IsQueued
  <2> QED BY <2>1 DEF OnePlace
<1> HIDE DEF s, n
<1>3. IsFiniteSet(1 .. n) /\ Cardinality(1 .. n) = n
  BY <1>1, FS_Interval
<1>4. s \in Injection(1 .. n, Msg)
  BY <1>1, <1>2, Fun_IsInj
<1>5. n <= Cardinality(Msg)
  BY <1>3, <1>4, FS_Injection, MessageQueueAssumption
<1>6. s \in [1 .. n -> R] /\ \A x \in R : \E i \in 1 .. n : s[i] = x
  BY <1>1
<1> HIDE DEF R
<1>7. s \in Surjection(1 .. n, R) /\ s \in Injection(1 .. n, R)
  BY <1>2, <1>6, Fun_IsInj, Fun_IsSurj
<1>8. Cardinality(R) = n
  BY <1>3, <1>7, FS_Surjection
<1> QED BY <1>1, <1>5, <1>8 DEF s, n, R

\* Counting the places of a message
LEMMA KeptCounts == TypeOK /\ OnePlace => MessagesKept
<1> SUFFICES ASSUME TypeOK, OnePlace, NEW m \in Msg
             PROVE  Cardinality({x \in Port \X (1 .. Cardinality(Msg)) :
                                   x[2] <= Len(messages[x[1]]) /\ messages[x[1]][x[2]] = m})
                      + Cardinality({t \in Thread : kmsg[t] = m})
                      + Cardinality({m} \intersect free) = 1
  BY DEF MessagesKept
<1> DEFINE A == {x \in Port \X (1 .. Cardinality(Msg)) :
                   x[2] <= Len(messages[x[1]]) /\ messages[x[1]][x[2]] = m}
           B == {t \in Thread : kmsg[t] = m}
           C == {m} \intersect free
<1>1. \A p \in Port : /\ Len(messages[p]) \in Nat /\ Len(messages[p]) <= Cardinality(Msg)
                      /\ Cardinality(Msg) \in Nat
  BY QueueBound, FS_CardinalityType, MessageQueueAssumption
<1>2. \A p \in Port, i \in Nat : IsQueued(m, p, i) <=> <<p, i>> \in A
  BY <1>1 DEF IsQueued
<1>3. \A x \in A : \E p \in Port, i \in Nat : x = <<p, i>> /\ IsQueued(m, p, i)
  <2> SUFFICES ASSUME NEW x \in A PROVE \E p \in Port, i \in Nat : x = <<p, i>> /\ IsQueued(m, p, i)
    OBVIOUS
  <2>1. x[1] \in Port /\ x[2] \in Nat /\ x = <<x[1], x[2]>>
    BY <1>1
  <2> QED BY <1>2, <2>1
<1> HIDE DEF A
<1>4. Cardinality({}) = 0 /\ \A x : Cardinality({x}) = 1
  BY FS_EmptySet, FS_Singleton
<1>5. ASSUME m \in free PROVE Cardinality(A) + Cardinality(B) + Cardinality(C) = 1
  <2>1. A = {}
    BY <1>3, <1>5 DEF OnePlace
  <2>2. B = {}
    BY <1>5 DEF OnePlace
  <2>3. C = {m}
    BY <1>5
  <2> HIDE DEF B, C
  <2> QED BY <1>4, <2>1, <2>2, <2>3
<1>6. ASSUME NEW t \in Thread, kmsg[t] = m
      PROVE  Cardinality(A) + Cardinality(B) + Cardinality(C) = 1
  <2>1. A = {}
    BY <1>3, <1>6 DEF OnePlace
  <2>2. B = {t}
    BY <1>6, MessageQueueAssumption DEF OnePlace
  <2>3. C = {}
    BY <1>6 DEF OnePlace
  <2> HIDE DEF B, C
  <2> QED BY <1>4, <2>1, <2>2, <2>3
<1>7. ASSUME NEW p \in Port, NEW i \in Nat, IsQueued(m, p, i)
      PROVE  Cardinality(A) + Cardinality(B) + Cardinality(C) = 1
  <2>0. PICK pi : pi = <<p, i>>
    OBVIOUS
  <2>1. A = {pi}
    BY <2>0, <1>2, <1>3, <1>7 DEF OnePlace
  <2>2. B = {}
    BY <1>7 DEF OnePlace
  <2>3. C = {}
    BY <1>7 DEF OnePlace
  <2> HIDE DEF B, C
  <2> QED BY <1>4, <2>1, <2>2, <2>3, SMTT(30)
<1> QED BY <1>5, <1>6, <1>7 DEF OnePlace, A

\* No message is lost or delivered twice, whether it is posted, handed to a
\* receiver, matched by ipc_mqueue_add, refused as too large, withdrawn by its
\* sender or dropped with its port.
THEOREM MessagesAreKept == Spec => []MessagesKept
<1>1. QueueInv => MessagesKept
  BY KeptCounts DEF QueueInv
<1> QED BY <1>1, QueueInvariant, PTL

\* No receiver sleeps beside a message: a search of the set under the set's
\* lock and a post under the port's lock, which take the two locks in opposite
\* orders, cannot miss each other.
THEOREM NoReceiverMisses == Spec => []NoMissedMessage
<1>1. QueueInv => NoMissedMessage
  BY DEF QueueInv
<1> QED BY <1>1, QueueInvariant, PTL

-----------------------------------------------------------------------------
(* The slots of a queue.  A limit that is raised lets senders in without   *)
(* counting their slots, so the rest is about behaviours without that.     *)

NotRaised == \A p \in Port : qlimit'[p] <= qlimit[p]

\* The messages on a queue and in the hands of those with a slot are distinct,
\* and so is the one in the hands of another sender: the count does not wrap.
LEMMA SlotBound ==
  ASSUME QueueInv, NEW p \in Port, NEW t \in Thread, kmsg[t] # NoMsg, t \notin Reserved(p)
  PROVE  Len(messages[p]) + Cardinality(Reserved(p)) + 1 <= Cardinality(Msg)
<1> DEFINE n == Len(messages[p])
           A == {messages[p][i] : i \in 1 .. n}
           R == Reserved(p)
           f == [u \in R |-> kmsg[u]]
           B == {kmsg[u] : u \in R}
<1>0. TypeOK /\ OnePlace /\ Roles /\ IsFiniteSet(Msg) /\ IsFiniteSet(Thread)
  BY MessageQueueAssumption DEF QueueInv
<1>1. n \in Nat /\ Cardinality(A) = n
  BY <1>0, QueueBound
<1>2. R \subseteq Thread /\ \A u \in R : kmsg[u] \in Msg
  BY <1>0, MessageQueueAssumption DEF Reserved, Roles, TypeOK
<1>3. \A x \in A : x \in Msg /\ \E i \in Nat : IsQueued(x, p, i)
  <2> SUFFICES ASSUME NEW i \in 1 .. n PROVE /\ messages[p][i] \in Msg /\ i \in Nat
                                             /\ IsQueued(messages[p][i], p, i)
    OBVIOUS
  <2>1. messages[p] \in Seq(Msg) /\ i \in Nat
    <3>1. messages[p] \in Seq(Msg)
      BY <1>0 DEF TypeOK
    <3> QED BY <1>1, <3>1
  <2>2. messages[p][i] \in Msg
    BY <2>1
  <2> QED BY <2>1, <2>2 DEF IsQueued
<1>4. A \intersect B = {}
  BY <1>0, <1>2, <1>3 DEF OnePlace
<1>5. kmsg[t] \notin A \union B /\ kmsg[t] \in Msg
  BY <1>0, <1>2, <1>3 DEF OnePlace, TypeOK
<1>6. A \subseteq Msg /\ B \subseteq Msg
  BY <1>2, <1>3
<1>7. \A u, v \in R : kmsg[u] = kmsg[v] => u = v
  BY <1>0, <1>2, MessageQueueAssumption DEF OnePlace
<1>8. f \in [R -> B] /\ (\A x \in B : \E u \in R : f[u] = x)
      /\ \A u, v \in R : f[u] = f[v] => u = v
  BY <1>7
<1> HIDE DEF A, B, R, f, n
<1>9. IsFiniteSet(A) /\ IsFiniteSet(B) /\ IsFiniteSet(R) /\ IsFiniteSet(A \union B)
  <2>1. IsFiniteSet(A) /\ IsFiniteSet(B) /\ IsFiniteSet(R)
    BY <1>0, <1>2, <1>6, FS_Subset
  <2> QED BY <2>1, FS_Union
<1>10. f \in Surjection(R, B) /\ f \in Injection(R, B)
  BY <1>8, Fun_IsInj, Fun_IsSurj
<1>11. Cardinality(B) = Cardinality(R)
  BY <1>9, <1>10, FS_Surjection
<1>12. Cardinality(A \union B) = Cardinality(A) + Cardinality(B) - Cardinality({})
  BY <1>4, <1>9, FS_Union
<1>13. Cardinality({}) = 0 /\ Cardinality(R) \in Nat
  BY <1>9, FS_EmptySet, FS_CardinalityType
<1>14. Cardinality((A \union B) \union {kmsg[t]}) = Cardinality(A \union B) + 1
  BY <1>5, <1>9, FS_AddElement
<1>15. (A \union B) \union {kmsg[t]} \in SUBSET Msg
  BY <1>5, <1>6
<1>16. Cardinality((A \union B) \union {kmsg[t]}) <= Cardinality(Msg)
  BY <1>0, <1>15, FS_Subset
<1> QED BY <1>1, <1>11, <1>12, <1>13, <1>14, <1>16 DEF R, n

\* ipc_mqueue_release_msgcount gives up one slot or passes it on.
LEMMA ReleaseCounts ==
  ASSUME QueueInv, NEW p \in Port, ReleaseMsgcount(p), msgcount[p] > 0
  PROVE  /\ msgcount'[p] = msgcount[p] - 1 + Cardinality(FullWoken(p))
         /\ \A q \in Port : q # p => msgcount'[q] = msgcount[q]
         /\ IsFiniteSet(FullWoken(p)) /\ Cardinality(FullWoken(p)) \in {0, 1}
<1>1. TypeOK /\ msgcount[p] \in 0 .. CountSize - 1
  BY DEF QueueInv, TypeOK
<1>2. OneLess(p) = msgcount[p] - 1
  BY <1>1, CountType DEF OneLess
<1>3. Cardinality({}) = 0 /\ IsFiniteSet({})
      /\ \A u : Cardinality({u}) = 1 /\ IsFiniteSet({u})
  BY FS_EmptySet, FS_Singleton
<1>4. CASE FullWoken(p) = {}
  <2>1. msgcount' = [msgcount EXCEPT ![p] = msgcount[p] - 1]
    BY <1>2, <1>4 DEF ReleaseMsgcount
  <2> QED BY <1>1, <1>3, <1>4, <2>1 DEF TypeOK
<1>5. ASSUME NEW u \in FullWoken(p)
      PROVE  FullWoken(p) = {u} /\ msgcount' = [msgcount EXCEPT ![p] = msgcount[p]]
  <2>1. FullWoken(p) = {u}
    BY <1>5, FullWokenOne
  <2> QED BY <1>5, <2>1 DEF ReleaseMsgcount
<1>6. ASSUME FullWoken(p) # {} PROVE \E u : FullWoken(p) = {u} /\ msgcount' = msgcount
  BY <1>1, <1>5, <1>6 DEF TypeOK
<1>7. CASE FullWoken(p) # {}
  <2>1. PICK u : FullWoken(p) = {u} /\ msgcount' = msgcount
    BY <1>6, <1>7
  <2>2. Cardinality(FullWoken(p)) = 1 /\ IsFiniteSet(FullWoken(p))
    BY <1>3, <2>1
  <2> QED BY <1>1, <2>1, <2>2
<1> QED BY <1>4, <1>7

\* A sender that was woken was given a slot
Given(u) == ~waiting[u] /\ wait_result[u] = "AWAKENED"

\* What a wake-up with result r does to it
LEMMA GoGiven ==
  ASSUME QueueInv, NEW S \in SUBSET Thread, NEW r, GoLocked(S, r), NEW u \in Thread
  PROVE  Given(u)' <=> Given(u) \/ (u \in S /\ waiting[u] /\ r = "AWAKENED")
<1>1. u \in S /\ waiting[u] => ~waiting'[u] /\ wait_result'[u] = r
  BY DEF GoLocked
<1>2. u \in S /\ ~waiting[u] => ~waiting'[u] /\ wait_result'[u] = wait_result[u]
  BY DEF GoLocked
<1>3. u \notin S => (waiting'[u] <=> waiting[u]) /\ wait_result'[u] = wait_result[u]
  BY DEF GoLocked
<1> QED BY <1>1, <1>2, <1>3 DEF Given

\* (The senders with a slot, in these words)
LEMMA ReservedIs ==
  ASSUME NEW q, NEW t
  PROVE  /\ t \in Reserved(q) <=>
              /\ t \in Sender /\ dest[t] = q /\ t \in Thread
              /\ pc[t] \in {"post", "deliver"} \/ (pc[t] = "send_block" /\ Given(t))
         /\ t \in Reserved(q)' <=>
              /\ t \in Sender /\ dest'[t] = q /\ t \in Thread
              /\ pc'[t] \in {"post", "deliver"} \/ (pc'[t] = "send_block" /\ Given(t)')
BY MessageQueueAssumption DEF Reserved, Given

\* (Those with a slot are finitely many.)
LEMMA ReservedFinite ==
  ASSUME NEW p PROVE IsFiniteSet(Reserved(p)) /\ Cardinality(Reserved(p)) \in Nat
<1>1. Reserved(p) \in SUBSET Thread /\ IsFiniteSet(Thread)
  BY MessageQueueAssumption DEF Reserved
<1> QED BY <1>1, FS_Subset, FS_CardinalityType

\* (Counting at one port, when the others stay as they are)
LEMMA OnePort ==
  ASSUME SpaceReserved, NEW p \in Port,
         \A x \in Port : x # p =>
           /\ phase'[x] = phase[x] /\ msgcount'[x] = msgcount[x] /\ messages'[x] = messages[x]
           /\ Reserved(x)' = Reserved(x),
         phase'[p] = "active" => msgcount'[p] = Len(messages'[p]) + Cardinality(Reserved(p)')
  PROVE  SpaceReserved'
<1> SUFFICES ASSUME NEW x \in Port, phase'[x] = "active"
             PROVE  msgcount'[x] = Len(messages'[x]) + Cardinality(Reserved(x)')
  BY DEF SpaceReserved
<1>1. CASE x = p
  BY <1>1
<1>2. CASE x # p
  BY <1>2 DEF SpaceReserved
<1> QED BY <1>1, <1>2

\* A slot that is given up by a sender in A, or by a message that leaves, goes
\* to the sender in F or to nobody.
LEMMA SlotPasses ==
  ASSUME NEW R, NEW G, NEW F, IsFiniteSet(R), IsFiniteSet(F), G \in SUBSET R, F \intersect G = {},
         NEW n \in Nat, NEW k \in Nat, NEW c \in Nat, NEW d,
         c = n + Cardinality(R), k + Cardinality(G) + 1 = n + Cardinality(R),
         d = c - 1 + Cardinality(F)
  PROVE  d = k + Cardinality(G \union F)
<1>1. IsFiniteSet(G)
  BY FS_Subset
<1>2. /\ Cardinality(R) \in Nat /\ Cardinality(G) \in Nat /\ Cardinality(F) \in Nat
  BY <1>1, FS_CardinalityType
<1>3. Cardinality(G \union F) = Cardinality(G) + Cardinality(F) - Cardinality(G \intersect F)
  BY <1>1, FS_Union
<1>4. Cardinality(G \intersect F) = 0
  <2>1. G \intersect F = {}
    OBVIOUS
  <2> QED BY <2>1, FS_EmptySet
<1> QED BY <1>2, <1>3, <1>4

\* (A lower limit wakes nobody.)
LEMMA LoweringWakesNobody ==
  ASSUME QueueInv, NotRaised, NEW p \in Port, NEW n \in Limits, SetQlimit(p, n)
  PROVE  UNCHANGED <<waitVars, fullwaiters>> /\ n <= qlimit[p]
<1> DEFINE line == Waiters(p, FULL)
           woken == {u \in line : Cardinality(ahead[u] \intersect line) + qlimit[p] < n}
<1>1. /\ TypeOK /\ n \in Nat /\ qlimit[p] \in Nat /\ IsFiniteSet(Thread)
  BY MessageQueueAssumption DEF QueueInv, TypeOK
<1>2. n <= qlimit[p]
  <2>1. qlimit'[p] = n
    BY <1>1 DEF SetQlimit, TypeOK
  <2> QED BY <2>1 DEF NotRaised
<1>3. IsFiniteSet(line) /\ Cardinality(line) \in Nat
  <2>1. line \in SUBSET Thread
    BY DEF Waiters, Members
  <2> QED BY <1>1, <2>1, FS_Subset, FS_CardinalityType
<1>4. \A u : Cardinality(ahead[u] \intersect line) \in Nat
  BY <1>3, FS_Intersection, FS_CardinalityType
<1>5. woken = {}
  <2> SUFFICES ASSUME NEW u \in woken PROVE FALSE
    OBVIOUS
  <2> DEFINE c == Cardinality(ahead[u] \intersect line)
  <2>1. c \in Nat /\ c + qlimit[p] < n
    BY <1>4
  <2> HIDE DEF c
  <2> QED BY <1>1, <1>2, <2>1
<1>6. GoLocked({}, "AWAKENED")
  BY <1>5 DEF SetQlimit
<1>7. UNCHANGED waitVars
  BY <1>1, <1>6 DEF GoLocked, waitVars, TypeOK, WQTypeOK
<1> HIDE DEF line
<1>8. (Cardinality(line) + qlimit[p] >= n) = TRUE
  BY <1>1, <1>2, <1>3
<1>9. fullwaiters' = [fullwaiters EXCEPT ![p] = fullwaiters[p] /\ Cardinality(line) + qlimit[p] >= n]
  BY DEF SetQlimit, line
<1>10. UNCHANGED fullwaiters
  BY <1>1, <1>8, <1>9 DEF TypeOK
<1> QED BY <1>2, <1>7, <1>10

\* The count of a sender that needs no permission does not wrap.
LEMMA ReserveCounts ==
  ASSUME QueueInv, SpaceReserved, NEW t \in Thread, NEW p \in Port, p = dest[t], SendReserve(t)
  PROVE  /\ phase[p] = "active" => msgcount'[p] = msgcount[p] + 1
         /\ \A q \in Port : q # p => msgcount'[q] = msgcount[q]
<1>1. t \notin Reserved(p) /\ kmsg[t] # NoMsg /\ TypeOK
  BY DEF SendReserve, QueueInv, Roles, Reserved
<1>2. phase[p] = "active" => msgcount[p] + 1 < CountSize
  <2>1. Len(messages[p]) + Cardinality(Reserved(p)) + 1 <= Cardinality(Msg)
    BY <1>1, SlotBound
  <2>2. Cardinality(Reserved(p)) \in Nat /\ Cardinality(Msg) \in Nat /\ Len(messages[p]) \in Nat
    BY ReservedFinite, QueueBound, FS_CardinalityType, MessageQueueAssumption DEF QueueInv
  <2> QED BY <2>1, <2>2, MessageQueueAssumption DEF SpaceReserved
<1>3. msgcount[p] \in Nat /\ CountSize \in Nat
  BY <1>1, CountType DEF TypeOK
<1>4. phase[p] = "active" => (msgcount[p] + 1) % CountSize = msgcount[p] + 1
  BY <1>2, <1>3
<1> QED BY <1>1, <1>4 DEF SendReserve, TypeOK

\* Every slot that is taken is counted once, and no other.
LEMMA SpaceStep ==
  ASSUME QueueInv, SpaceReserved, NotRaised, [Next]_vars PROVE SpaceReserved'
<1> USE DEF QueueInv
<1>0. SpaceReserved /\ FULL # RECEIVE /\ WaitQ = Port \union {PSet} /\ PSet \notin Port
  BY MessageQueueAssumption
<1>a. ASSUME NEW q \in Port, UNCHANGED <<messages, msgcount>>, Reserved(q)' = Reserved(q),
             phase'[q] = "active" => phase[q] = "active"
      PROVE  phase'[q] = "active" => msgcount'[q] = Len(messages'[q]) + Cardinality(Reserved(q)')
  BY <1>0, <1>a DEF SpaceReserved
<1>b. ASSUME UNCHANGED <<messages, msgcount>>, \A q \in Port : Reserved(q)' = Reserved(q),
             \A q \in Port : phase'[q] = "active" => phase[q] = "active"
      PROVE  SpaceReserved'
  BY <1>a, <1>b DEF SpaceReserved
<1>1. CASE AbortQuiet
  <2>1. \A x \in Port : Reserved(x)' = Reserved(x)
    BY <1>1, <1>0 DEF AbortQuiet, waitVars, mqVars, queueVars, adminVars, threadVars, Reserved,
                      Waits, Roles, TypeOK, WQTypeOK
  <2> QED BY <1>1, <1>b, <2>1 DEF AbortQuiet, waitVars, mqVars, queueVars, adminVars,
                                  threadVars, TypeOK
<1>2. ASSUME NEW t \in Thread, NEW p \in Port, NEW m \in Msg, KmsgSend(t, p, m)
      PROVE  SpaceReserved'
  <2>1. \A x \in Port : Reserved(x)' = Reserved(x)
    BY <1>2, <1>0 DEF KmsgSend, Goto, wqVars, queueVars, adminVars, waitVars, Reserved, Waits,
                      Roles, TypeOK, WQTypeOK
  <2> QED BY <1>2, <1>b, <2>1 DEF KmsgSend, Goto, wqVars, queueVars, adminVars, waitVars, TypeOK
<1>3. ASSUME NEW t \in Thread, SendReserve(t) PROVE SpaceReserved'
  <2>0. PICK p \in Port : p = dest[t]
    BY <1>3 DEF SendReserve, Roles
  <2>1. t \notin Reserved(p) /\ kmsg[t] # NoMsg /\ t \in Sender
    BY <1>3, <2>0 DEF SendReserve, Roles, Reserved
  <2>2. \A q \in Port : Reserved(q)' = IF q = p THEN Reserved(q) \union {t} ELSE Reserved(q)
    BY <1>3, <2>0, <2>1 DEF SendReserve, Goto, wqVars, waitVars, Reserved, TypeOK
  <2>3. Cardinality(Reserved(p) \union {t}) = Cardinality(Reserved(p)) + 1
    BY <2>1, ReservedFinite, FS_AddElement
  <2>6. /\ phase[p] = "active" => msgcount'[p] = msgcount[p] + 1
        /\ \A q \in Port : q # p => msgcount'[q] = msgcount[q]
        /\ messages' = messages /\ phase' = phase
    BY <1>3, <1>0, <2>0, ReserveCounts DEF SendReserve, adminVars
  <2>7. Len(messages[p]) \in Nat /\ Cardinality(Reserved(p)) \in Nat
    BY <2>1, ReservedFinite, QueueBound
  <2>8. phase'[p] = "active" => msgcount'[p] = Len(messages'[p]) + Cardinality(Reserved(p)')
    <3> SUFFICES ASSUME phase[p] = "active" PROVE msgcount'[p] = Len(messages'[p]) + Cardinality(Reserved(p)')
      BY <2>6
    <3>1. Cardinality(Reserved(p)') = Cardinality(Reserved(p)) + 1
      BY <2>2, <2>3
    <3>2. msgcount[p] = Len(messages[p]) + Cardinality(Reserved(p))
      BY <1>0 DEF SpaceReserved
    <3>3. msgcount'[p] = msgcount[p] + 1 /\ messages' = messages
      BY <2>6
    <3> QED BY <2>7, <3>1, <3>2, <3>3
  <2>9. \A x \in Port : x # p => Reserved(x)' = Reserved(x)
    BY <2>2
  <2> QED BY <1>0, <2>6, <2>8, <2>9, OnePort
<1>4. ASSUME NEW t \in Thread, SendBlock(t) PROVE SpaceReserved'
  <2>1. \A x \in Port : Reserved(x)' = Reserved(x)
    BY <1>4, <1>0 DEF SendBlock, AssertWaitLocked, Goto, adminVars, Reserved, Waits, Roles,
                      TypeOK, WQTypeOK
  <2> QED BY <1>4, <1>b, <2>1 DEF SendBlock, AssertWaitLocked, Goto, adminVars, TypeOK
<1>5. ASSUME NEW t \in Thread, SendFails(t) PROVE SpaceReserved'
  <2>1. \A x \in Port : Reserved(x)' = Reserved(x)
    BY <1>5, <1>0 DEF SendFails, PutMessage, Return, Goto, wqVars, queueVars, adminVars,
                      waitVars, Reserved, Waits, Roles, TypeOK, WQTypeOK
  <2> QED BY <1>5, <1>b, <2>1 DEF SendFails, PutMessage, Return, Goto, wqVars, queueVars,
                                  adminVars, waitVars, TypeOK
<1>6. ASSUME NEW t \in Thread, SendGoes(t) PROVE SpaceReserved'
  <2>1. \A x \in Port : Reserved(x)' = Reserved(x)
    BY <1>6, <1>0 DEF SendGoes, Goto, wqVars, queueVars, adminVars, waitVars, Reserved, Waits,
                      Roles, TypeOK, WQTypeOK
  <2> QED BY <1>6, <1>b, <2>1 DEF SendGoes, Goto, wqVars, queueVars, adminVars, waitVars, TypeOK
<1>7. ASSUME NEW t \in Thread, PostLock(t) PROVE SpaceReserved'
  <2>1. \A x \in Port : Reserved(x)' = Reserved(x)
    BY <1>7, <1>0 DEF PostLock, Goto, Unlocked, wqVars, queueVars, adminVars, waitVars,
                      Reserved, Waits, Roles, TypeOK, WQTypeOK
  <2> QED BY <1>7, <1>b, <2>1 DEF PostLock, Goto, Unlocked, wqVars, queueVars, adminVars,
                                  waitVars, TypeOK
<1>8. ASSUME NEW t \in Thread, PostQueues(t) PROVE SpaceReserved'
  <2>0. PICK p \in Port : p = dest[t]
    BY <1>8 DEF PostQueues, Roles
  <2>1. t \in Reserved(p)
    BY <1>8, <2>0 DEF PostQueues, Roles, Reserved
  <2>2. \A q \in Port : Reserved(q)' = IF q = p THEN Reserved(q) \ {t} ELSE Reserved(q)
    BY <1>8, <1>0, <2>0 DEF PostQueues, Return, Goto, wqVars, waitVars, Reserved, TypeOK
  <2>3. Cardinality(Reserved(p) \ {t}) = Cardinality(Reserved(p)) - 1
    BY <2>1, ReservedFinite, FS_RemoveElement
  <2>4. /\ messages'[p] = Append(messages[p], kmsg[t]) /\ messages[p] \in Seq(Msg)
        /\ \A q \in Port : q # p => messages'[q] = messages[q]
        /\ msgcount' = msgcount /\ phase' = phase
    BY <1>8, <2>0 DEF PostQueues, TypeOK, adminVars
  <2>5. kmsg[t] \in Msg
    BY <1>8 DEF PostQueues, Roles, TypeOK
  <2>6. Len(messages'[p]) = Len(messages[p]) + 1 /\ Len(messages[p]) \in Nat
    BY <2>4, <2>5
  <2>7. Cardinality(Reserved(p)) \in Nat
    BY ReservedFinite
  <2>8. phase'[p] = "active" => msgcount'[p] = Len(messages'[p]) + Cardinality(Reserved(p)')
    <3> SUFFICES ASSUME phase[p] = "active" PROVE msgcount'[p] = Len(messages'[p]) + Cardinality(Reserved(p)')
      BY <2>4
    <3>1. Cardinality(Reserved(p)') = Cardinality(Reserved(p)) - 1
      BY <2>2, <2>3
    <3>2. msgcount[p] = Len(messages[p]) + Cardinality(Reserved(p))
      BY <1>0 DEF SpaceReserved
    <3>3. msgcount' = msgcount
      BY <2>4
    <3> QED BY <2>6, <2>7, <3>1, <3>2, <3>3
  <2>9. \A x \in Port : x # p => Reserved(x)' = Reserved(x)
    BY <2>2
  <2> QED BY <1>0, <2>4, <2>8, <2>9, OnePort
<1>9. ASSUME NEW t \in Thread, NEW r \in Thread, PostRefused(t, r) PROVE SpaceReserved'
  <2>1. \A q \in Port : Reserved(q)' = Reserved(q)
    <3>1. pc[r] # "send_block"
      BY <1>9, <1>0 DEF PostRefused, Waits
    <3>2. \A u \in Thread : /\ Given(u)' <=> Given(u) \/ (u \in {r} /\ waiting[u] /\ "AWAKENED" = "AWAKENED")
                           /\ pc'[u] = pc[u] /\ dest'[u] = dest[u]
      BY <1>9, GoGiven DEF PostRefused, threadVars, Waiters, Members
    <3> QED BY <3>2, <3>1, ReservedIs
  <2> QED BY <1>9, <1>b, <2>1 DEF PostRefused, queueVars, adminVars, TypeOK
<1>10. ASSUME NEW t \in Thread, NEW r \in Thread, PostHands(t, r) PROVE SpaceReserved'
  <2>0. PICK p \in Port : p = dest[t]
    BY <1>10 DEF PostHands, Roles
  <2> DEFINE F == FullWoken(p)
             R == Reserved(p)
             G == R \ {t}
             W == {r} \union F
  <2>1. /\ t \in R /\ r # t /\ pc[r] = "rcv_block" /\ pc[t] = "deliver" /\ p = dest[t]
        /\ messages' = messages
    BY <1>10, <1>0, <2>0 DEF PostHands, Roles, Reserved, Waits
  <2>2. /\ F \in SUBSET Thread /\ IsFiniteSet(F)
        /\ \A u \in F : waiting[u] /\ dest[u] = p /\ pc[u] = "send_block" /\ u \in Sender
    <3>1. /\ F \in SUBSET Thread
          /\ \A u \in F : waiting[u] /\ dest[u] = p /\ pc[u] = "send_block" /\ u \in Sender
      BY FullWokenOne DEF Roles
    <3> QED BY <3>1, FS_Subset, MessageQueueAssumption
  <2>4. \A u \in Thread : Given(u)' <=> Given(u) \/ (u \in W /\ waiting[u])
    <3>1. GoLocked(W, "AWAKENED") /\ W \in SUBSET Thread
      BY <1>10, <2>2, <2>0 DEF PostHands
    <3> HIDE DEF W
    <3> QED BY <3>1, GoGiven
  <2>5. \A u \in Thread : pc'[u] = (IF u = t THEN "idle" ELSE pc[u]) /\ (u # t => dest'[u] = dest[u])
    BY <1>10 DEF PostHands, Return, Goto, TypeOK
  <2>6. \A x \in Port, u \in Thread : u \in Reserved(x)' <=> IF x = p THEN u \in G \union F ELSE u \in Reserved(x)
    <3> HIDE DEF F
    <3> QED BY <2>1, <2>2, <2>4, <2>5, ReservedIs, <2>0
  <2>7. R \in SUBSET Thread /\ G \in SUBSET R /\ F \intersect G = {}
    <3>1. \A u \in R : u \in Thread
      BY ReservedIs
    <3>2. \A u \in F : u \notin R
      BY <2>2, ReservedIs DEF Given
    <3> QED BY <3>1, <3>2
  <2>8. \A x \in Port : Reserved(x)' = IF x = p THEN G \union F ELSE Reserved(x)
    <3>1. \A x \in Port : \A u \in Reserved(x)' : u \in Thread
      BY ReservedIs
    <3>2. \A x \in Port : \A u \in Reserved(x) : u \in Thread
      BY ReservedIs
    <3> HIDE DEF F, G, R
    <3> QED BY <2>2, <2>6, <2>7, <3>1, <3>2
  <2>9. IsFiniteSet(R) /\ Cardinality(R) \in Nat /\ Len(messages[p]) \in Nat
    BY <2>1, ReservedFinite, QueueBound
  <2>10. /\ Len(messages'[p]) \in Nat
         /\ Len(messages'[p]) + Cardinality(G) + 1 = Len(messages[p]) + Cardinality(R)
    <3>1. Cardinality(R \ {t}) = Cardinality(R) - 1
      BY <2>1, <2>9, FS_RemoveElement
    <3> HIDE DEF R
    <3> QED BY <2>1, <2>9, <3>1, SMTT(30)
  <2>11. ReleaseMsgcount(p) /\ phase' = phase
    BY <1>10, <2>1 DEF PostHands, adminVars
  <2>12. \A x \in Port : x # p => msgcount'[x] = msgcount[x]
    BY <2>11 DEF ReleaseMsgcount, TypeOK
  <2>13. phase'[p] = "active" => msgcount'[p] = Len(messages'[p]) + Cardinality(Reserved(p)')
    <3> SUFFICES ASSUME phase[p] = "active"
                 PROVE  msgcount'[p] = Len(messages'[p]) + Cardinality(Reserved(p)')
      BY <2>11
    <3>1. msgcount[p] = Len(messages[p]) + Cardinality(R) /\ msgcount[p] \in Nat
      BY <1>0, CountType DEF SpaceReserved, TypeOK
    <3>2. Cardinality(G) \in Nat
      BY <2>7, <2>9, FS_Subset, FS_CardinalityType
    <3>3. msgcount[p] > 0
      <4> HIDE DEF G, R
      <4> QED BY <2>9, <2>10, <3>1, <3>2
    <3>4. msgcount'[p] = msgcount[p] - 1 + Cardinality(F)
      BY <2>11, <3>3, ReleaseCounts
    <3>5. Reserved(p)' = G \union F
      BY <2>8
    <3> HIDE DEF F, G, R
    <3>6. msgcount'[p] = Len(messages'[p]) + Cardinality(G \union F)
      BY <2>2, <2>7, <2>9, <2>10, <3>1, <3>4, SlotPasses, SMTT(30)
    <3> QED BY <3>5, <3>6
  <2>14. \A x \in Port : x # p => Reserved(x)' = Reserved(x)
    BY <2>8
  <2> QED BY <1>0, <2>1, <2>11, <2>12, <2>13, <2>14, OnePort
<1>11. ASSUME NEW t \in Thread, NEW q \in WaitQ, Copyin(t, q) PROVE SpaceReserved'
  <2>1. \A x \in Port : Reserved(x)' = Reserved(x)
    BY <1>11, <1>0 DEF Copyin, Goto, wqVars, queueVars, adminVars, waitVars, Reserved, Waits,
                       Roles, TypeOK, WQTypeOK
  <2> QED BY <1>11, <1>b, <2>1 DEF Copyin, Goto, wqVars, queueVars, adminVars, waitVars, TypeOK
<1>12. ASSUME NEW t \in Thread, ReceiveReturns(t) PROVE SpaceReserved'
  <2>1. \A x \in Port : Reserved(x)' = Reserved(x)
    BY <1>12, <1>0 DEF ReceiveReturns, LetGo, Return, Goto, wqVars, queueVars, adminVars,
                       waitVars, Reserved, Waits, Roles, TypeOK, WQTypeOK
  <2> QED BY <1>12, <1>b, <2>1 DEF ReceiveReturns, LetGo, Return, Goto, wqVars, queueVars,
                                   adminVars, waitVars, TypeOK
<1>13. ASSUME NEW t \in Thread, ReceiveBlocks(t) PROVE SpaceReserved'
  <2>1. \A x \in Port : Reserved(x)' = Reserved(x)
    BY <1>13, <1>0 DEF ReceiveBlocks, LetGo, AssertWaitLocked, Goto, queueVars, adminVars,
                       Reserved, Waits, Roles, TypeOK, WQTypeOK
  <2> QED BY <1>13, <1>b, <2>1 DEF ReceiveBlocks, LetGo, AssertWaitLocked, Goto, queueVars,
                                   adminVars, TypeOK
<1>14. ASSUME NEW t \in Thread, NEW p \in Port, ReceiveTakes(t, p) PROVE SpaceReserved'
  <2> DEFINE F == FullWoken(p)
             R == Reserved(p)
             G == R
             W == F
  <2>1. /\ messages[p] \in Seq(Msg) /\ messages[p] # <<>>
        /\ messages'[p] = Tail(messages[p])
        /\ \A x \in Port : x # p => messages'[x] = messages[x]
    BY <1>14 DEF ReceiveTakes, TypeOK
  <2>2. /\ F \in SUBSET Thread /\ IsFiniteSet(F)
        /\ \A u \in F : waiting[u] /\ dest[u] = p /\ pc[u] = "send_block" /\ u \in Sender
    <3>1. /\ F \in SUBSET Thread
          /\ \A u \in F : waiting[u] /\ dest[u] = p /\ pc[u] = "send_block" /\ u \in Sender
      BY FullWokenOne DEF Roles
    <3> QED BY <3>1, FS_Subset, MessageQueueAssumption
  <2>4. \A u \in Thread : Given(u)' <=> Given(u) \/ (u \in W /\ waiting[u])
    <3>1. GoLocked(W, "AWAKENED") /\ W \in SUBSET Thread
      BY <1>14, <2>2 DEF ReceiveTakes
    <3> HIDE DEF W
    <3> QED BY <3>1, GoGiven
  <2>5. \A u \in Thread : pc'[u] = (IF u = t THEN "idle" ELSE pc[u]) /\ (u # t => dest'[u] = dest[u]) /\ pc[t] \in {"rcv", "scan"}
    BY <1>14 DEF ReceiveTakes, Return, Goto, TypeOK
  <2>6. \A x \in Port, u \in Thread : u \in Reserved(x)' <=> IF x = p THEN u \in G \union F ELSE u \in Reserved(x)
    <3> HIDE DEF F
    <3> QED BY <2>1, <2>2, <2>4, <2>5, ReservedIs
  <2>7. R \in SUBSET Thread /\ G \in SUBSET R /\ F \intersect G = {}
    <3>1. \A u \in R : u \in Thread
      BY ReservedIs
    <3>2. \A u \in F : u \notin R
      BY <2>2, ReservedIs DEF Given
    <3> QED BY <3>1, <3>2
  <2>8. \A x \in Port : Reserved(x)' = IF x = p THEN G \union F ELSE Reserved(x)
    <3>1. \A x \in Port : \A u \in Reserved(x)' : u \in Thread
      BY ReservedIs
    <3>2. \A x \in Port : \A u \in Reserved(x) : u \in Thread
      BY ReservedIs
    <3> HIDE DEF F, G, R
    <3> QED BY <2>2, <2>6, <2>7, <3>1, <3>2
  <2>9. IsFiniteSet(R) /\ Cardinality(R) \in Nat /\ Len(messages[p]) \in Nat
    BY <2>1, ReservedFinite, QueueBound
  <2>10. /\ Len(messages'[p]) \in Nat
         /\ Len(messages'[p]) + Cardinality(G) + 1 = Len(messages[p]) + Cardinality(R)
    BY <2>1, <2>9, TailFacts
  <2>11. ReleaseMsgcount(p) /\ phase' = phase
    BY <1>14, <2>1 DEF ReceiveTakes, adminVars
  <2>12. \A x \in Port : x # p => msgcount'[x] = msgcount[x]
    BY <2>11 DEF ReleaseMsgcount, TypeOK
  <2>13. phase'[p] = "active" => msgcount'[p] = Len(messages'[p]) + Cardinality(Reserved(p)')
    <3> SUFFICES ASSUME phase[p] = "active"
                 PROVE  msgcount'[p] = Len(messages'[p]) + Cardinality(Reserved(p)')
      BY <2>11
    <3>1. msgcount[p] = Len(messages[p]) + Cardinality(R) /\ msgcount[p] \in Nat
      BY <1>0, CountType DEF SpaceReserved, TypeOK
    <3>2. Cardinality(G) \in Nat
      BY <2>7, <2>9, FS_Subset, FS_CardinalityType
    <3>3. msgcount[p] > 0
      <4> HIDE DEF G, R
      <4> QED BY <2>9, <2>10, <3>1, <3>2
    <3>4. msgcount'[p] = msgcount[p] - 1 + Cardinality(F)
      BY <2>11, <3>3, ReleaseCounts
    <3>5. Reserved(p)' = G \union F
      BY <2>8
    <3> HIDE DEF F, G, R
    <3>6. msgcount'[p] = Len(messages'[p]) + Cardinality(G \union F)
      BY <2>2, <2>7, <2>9, <2>10, <3>1, <3>4, SlotPasses
    <3> QED BY <3>5, <3>6
  <2>14. \A x \in Port : x # p => Reserved(x)' = Reserved(x)
    BY <2>8
  <2> QED BY <1>0, <2>1, <2>11, <2>12, <2>13, <2>14, OnePort
<1>15. ASSUME NEW t \in Thread, ScanStart(t) PROVE SpaceReserved'
  <2>1. \A x \in Port : Reserved(x)' = Reserved(x)
    BY <1>15, <1>0 DEF ScanStart, Unlocked, Goto, wqVars, queueVars, adminVars, waitVars,
                       Reserved, Waits, Roles, TypeOK, WQTypeOK
  <2> QED BY <1>15, <1>b, <2>1 DEF ScanStart, Unlocked, Goto, wqVars, queueVars, adminVars,
                                   waitVars, TypeOK
<1>16. ASSUME NEW t \in Thread, ScanBusy(t) PROVE SpaceReserved'
  <2>1. \A x \in Port : Reserved(x)' = Reserved(x)
    BY <1>16, <1>0 DEF ScanBusy, LetGo, Goto, wqVars, queueVars, adminVars, waitVars, Reserved,
                       Waits, Roles, TypeOK, WQTypeOK
  <2> QED BY <1>16, <1>b, <2>1 DEF ScanBusy, LetGo, Goto, wqVars, queueVars, adminVars,
                                   waitVars, TypeOK
<1>17. ASSUME NEW t \in Thread, NEW p \in Port, ScanSkips(t, p) PROVE SpaceReserved'
  <2>1. \A x \in Port : Reserved(x)' = Reserved(x)
    BY <1>17, <1>0 DEF ScanSkips, wqVars, queueVars, adminVars, waitVars, Reserved, Waits,
                       Roles, TypeOK, WQTypeOK
  <2> QED BY <1>17, <1>b, <2>1 DEF ScanSkips, wqVars, queueVars, adminVars, waitVars, TypeOK
<1>18. ASSUME NEW t \in Thread, ReceiveResults(t) PROVE SpaceReserved'
  <2>1. \A x \in Port : Reserved(x)' = Reserved(x)
    BY <1>18, <1>0 DEF ReceiveResults, PutMessage, Return, Goto, wqVars, queueVars, adminVars,
                       waitVars, Reserved, Waits, Roles, TypeOK, WQTypeOK
  <2> QED BY <1>18, <1>b, <2>1 DEF ReceiveResults, PutMessage, Return, Goto, wqVars, queueVars,
                                   adminVars, waitVars, TypeOK
<1>19. ASSUME NEW t \in Thread, AbortEnds(t) PROVE SpaceReserved'
  <2>1. \A q \in Port : Reserved(q)' = Reserved(q)
    <3>2. \A u \in Thread : /\ Given(u)' <=> Given(u) \/ (u \in {t} /\ waiting[u] /\ "INTERRUPTED" = "AWAKENED")
                           /\ pc'[u] = pc[u] /\ dest'[u] = dest[u]
      BY <1>19, GoGiven DEF AbortEnds, mqVars, threadVars, Waiters, Members
    <3> QED BY <3>2, ReservedIs
  <2> QED BY <1>19, <1>b, <2>1 DEF AbortEnds, mqVars, queueVars, adminVars, TypeOK
<1>20. ASSUME NEW p \in Port, Add(p) PROVE SpaceReserved'
  <2>1. \A x \in Port : Reserved(x)' = Reserved(x)
    BY <1>20, <1>0 DEF Add, Unlocked, wqVars, queueVars, threadVars, waitVars, Reserved, Waits,
                       Roles, TypeOK, WQTypeOK
  <2> QED BY <1>20, <1>b, <2>1 DEF Add, Unlocked, wqVars, queueVars, threadVars, waitVars,
                                   TypeOK
<1>21. ASSUME NEW p \in Port, AddDone(p) PROVE SpaceReserved'
  <2>1. \A x \in Port : Reserved(x)' = Reserved(x)
    BY <1>21, <1>0 DEF AddDone, wqVars, queueVars, threadVars, waitVars, Reserved, Waits, Roles,
                       TypeOK, WQTypeOK
  <2> QED BY <1>21, <1>b, <2>1 DEF AddDone, wqVars, queueVars, threadVars, waitVars, TypeOK
<1>22. ASSUME NEW p \in Port, Remove(p) PROVE SpaceReserved'
  <2>1. \A x \in Port : Reserved(x)' = Reserved(x)
    BY <1>22, <1>0 DEF Remove, Unlocked, wqVars, queueVars, threadVars, waitVars, Reserved,
                       Waits, Roles, TypeOK, WQTypeOK
  <2> QED BY <1>22, <1>b, <2>1 DEF Remove, Unlocked, wqVars, queueVars, threadVars, waitVars,
                                   TypeOK
<1>23. ASSUME NEW p \in Port, NEW r \in Thread, AddRefused(p, r) PROVE SpaceReserved'
  <2>1. \A q \in Port : Reserved(q)' = Reserved(q)
    <3>1. pc[r] # "send_block"
      BY <1>23, <1>0 DEF AddRefused, Waits
    <3>2. \A u \in Thread : /\ Given(u)' <=> Given(u) \/ (u \in {r} /\ waiting[u] /\ "AWAKENED" = "AWAKENED")
                           /\ pc'[u] = pc[u] /\ dest'[u] = dest[u]
      BY <1>23, GoGiven DEF AddRefused, threadVars, Waiters, Members
    <3> QED BY <3>2, <3>1, ReservedIs, SMTT(30)
  <2> QED BY <1>23, <1>b, <2>1 DEF AddRefused, queueVars, adminVars, TypeOK
<1>24. ASSUME NEW p \in Port, NEW r \in Thread, AddHands(p, r) PROVE SpaceReserved'
  <2> DEFINE F == FullWoken(p)
             R == Reserved(p)
             G == R
             W == {r} \union F
  <2>1. /\ messages[p] \in Seq(Msg) /\ messages[p] # <<>>
        /\ messages'[p] = Tail(messages[p])
        /\ \A x \in Port : x # p => messages'[x] = messages[x]
    BY <1>24 DEF AddHands, TypeOK
  <2>3. pc[r] = "rcv_block"
    BY <1>24, <1>0 DEF AddHands, Waits
  <2>2. /\ F \in SUBSET Thread /\ IsFiniteSet(F)
        /\ \A u \in F : waiting[u] /\ dest[u] = p /\ pc[u] = "send_block" /\ u \in Sender
    <3>1. /\ F \in SUBSET Thread
          /\ \A u \in F : waiting[u] /\ dest[u] = p /\ pc[u] = "send_block" /\ u \in Sender
      BY FullWokenOne DEF Roles
    <3> QED BY <3>1, FS_Subset, MessageQueueAssumption
  <2>4. \A u \in Thread : Given(u)' <=> Given(u) \/ (u \in W /\ waiting[u])
    <3>1. GoLocked(W, "AWAKENED") /\ W \in SUBSET Thread
      BY <1>24, <2>2 DEF AddHands
    <3> HIDE DEF W
    <3> QED BY <3>1, GoGiven
  <2>5. \A u \in Thread : pc'[u] = pc[u] /\ dest'[u] = dest[u]
    BY <1>24 DEF AddHands, Return, Goto, TypeOK
  <2>6. \A x \in Port, u \in Thread : u \in Reserved(x)' <=> IF x = p THEN u \in G \union F ELSE u \in Reserved(x)
    <3> HIDE DEF F
    <3> QED BY <2>1, <2>2, <2>4, <2>3, <2>5, ReservedIs
  <2>7. R \in SUBSET Thread /\ G \in SUBSET R /\ F \intersect G = {}
    <3>1. \A u \in R : u \in Thread
      BY ReservedIs
    <3>2. \A u \in F : u \notin R
      BY <2>2, ReservedIs DEF Given
    <3> QED BY <3>1, <3>2
  <2>8. \A x \in Port : Reserved(x)' = IF x = p THEN G \union F ELSE Reserved(x)
    <3>1. \A x \in Port : \A u \in Reserved(x)' : u \in Thread
      BY ReservedIs
    <3>2. \A x \in Port : \A u \in Reserved(x) : u \in Thread
      BY ReservedIs
    <3> HIDE DEF F, G, R
    <3> QED BY <2>2, <2>6, <2>7, <3>1, <3>2
  <2>9. IsFiniteSet(R) /\ Cardinality(R) \in Nat /\ Len(messages[p]) \in Nat
    BY <2>1, ReservedFinite, QueueBound
  <2>10. /\ Len(messages'[p]) \in Nat
         /\ Len(messages'[p]) + Cardinality(G) + 1 = Len(messages[p]) + Cardinality(R)
    BY <2>1, <2>9, TailFacts
  <2>11. ReleaseMsgcount(p) /\ phase' = phase
    BY <1>24, <2>1 DEF AddHands, adminVars
  <2>12. \A x \in Port : x # p => msgcount'[x] = msgcount[x]
    BY <2>11 DEF ReleaseMsgcount, TypeOK
  <2>13. phase'[p] = "active" => msgcount'[p] = Len(messages'[p]) + Cardinality(Reserved(p)')
    <3> SUFFICES ASSUME phase[p] = "active"
                 PROVE  msgcount'[p] = Len(messages'[p]) + Cardinality(Reserved(p)')
      BY <2>11
    <3>1. msgcount[p] = Len(messages[p]) + Cardinality(R) /\ msgcount[p] \in Nat
      BY <1>0, CountType DEF SpaceReserved, TypeOK
    <3>2. Cardinality(G) \in Nat
      BY <2>7, <2>9, FS_Subset, FS_CardinalityType
    <3>3. msgcount[p] > 0
      <4> HIDE DEF G, R
      <4> QED BY <2>9, <2>10, <3>1, <3>2
    <3>4. msgcount'[p] = msgcount[p] - 1 + Cardinality(F)
      BY <2>11, <3>3, ReleaseCounts
    <3>5. Reserved(p)' = G \union F
      BY <2>8
    <3> HIDE DEF F, G, R
    <3>6. msgcount'[p] = Len(messages'[p]) + Cardinality(G \union F)
      BY <2>2, <2>7, <2>9, <2>10, <3>1, <3>4, SlotPasses
    <3> QED BY <3>5, <3>6
  <2>14. \A x \in Port : x # p => Reserved(x)' = Reserved(x)
    BY <2>8
  <2> QED BY <1>0, <2>1, <2>11, <2>12, <2>13, <2>14, OnePort
<1>25. ASSUME NEW p \in Port, NEW n \in Limits, SetQlimit(p, n) PROVE SpaceReserved'
  <2>1. \A q \in Port : Reserved(q)' = Reserved(q)
    <3>1. UNCHANGED waitVars
      BY <1>25, LoweringWakesNobody
    <3> QED BY <1>25, <3>1 DEF SetQlimit, Reserved, waitVars, threadVars
  <2> QED BY <1>25, <1>b, <2>1 DEF SetQlimit, adminVars
<1>26. ASSUME NEW p \in Port, ClearReceiver(p) PROVE SpaceReserved'
  <2>1. \A q \in Port : Reserved(q)' = Reserved(q)
    <3>1. \A u \in Waiters(p, RECEIVE) : u \in Thread /\ pc[u] # "send_block"
      BY <1>0, WaitQueueAssumption DEF Waiters, Members, WaitingIffQueued, Waits
    <3>2. \A u \in Thread : /\ Given(u)' <=> Given(u) \/ (u \in Waiters(p, RECEIVE) /\ waiting[u] /\ "RESTART" = "AWAKENED")
                           /\ pc'[u] = pc[u] /\ dest'[u] = dest[u]
      BY <1>26, GoGiven DEF ClearReceiver, WakeupAllLocked, threadVars, Waiters, Members
    <3> QED BY <3>2, <3>1, ReservedIs
  <2> QED BY <1>26, <1>b, <2>1 DEF ClearReceiver, WakeupAllLocked, queueVars, adminVars, TypeOK
<1>27. ASSUME NEW p \in Port, NEW S \in SUBSET Thread, Destroys(p, S) PROVE SpaceReserved'
  <2>1. /\ phase'[p] # "active" /\ msgcount' = msgcount
        /\ \A q \in Port : q # p => messages'[q] = messages[q] /\ phase'[q] = phase[q]
    BY <1>27 DEF Destroys, TypeOK
  <2>2. S \subseteq Thread /\ \A u \in S : waiting[u] /\ dest[u] = p
    <3>1. \A u \in S : u \in Thread /\ wait_queue[u] = p
      BY <1>27 DEF Destroys, Waiters, Members
    <3>2. p # NoQueue
      BY <1>0, WaitQueueAssumption
    <3> QED BY <3>1, <3>2 DEF WaitingIffQueued, Waits
  <2>3. \A q \in Port : q # p => Reserved(q)' = Reserved(q)
    <3>1. \A u \in Thread : /\ Given(u)' <=> Given(u) \/ (u \in S /\ waiting[u])
                           /\ pc'[u] = pc[u] /\ dest'[u] = dest[u]
      BY <1>27, GoGiven DEF Destroys, threadVars
    <3>2. \A q \in Port : \A u : q # p => (u \in Reserved(q)' <=> u \in Reserved(q))
      BY <2>2, <3>1, ReservedIs
    <3> QED BY <3>2
  <2> QED BY <1>0, <2>1, <2>3, OnePort
<1> QED
  BY <1>1, <1>2, <1>3, <1>4, <1>5, <1>6, <1>7, <1>8, <1>9, <1>10, <1>11, <1>12, <1>13, <1>14,
     <1>15, <1>16, <1>17, <1>18, <1>19, <1>20, <1>21, <1>22, <1>23, <1>24, <1>25, <1>26,
     <1>27, NextCases DEF Cases

\* A sender that waits for room is not forgotten.
LEMMA StrandedStep ==
  ASSUME QueueInv, SpaceReserved, NoSenderStranded, NotRaised, [Next]_vars PROVE NoSenderStranded'
<1> USE DEF QueueInv
<1>0. NoSenderStranded /\ WaitQ = Port \union {PSet} /\ PSet \notin Port /\ FULL # RECEIVE
  BY MessageQueueAssumption
<1> DEFINE Fewer == \A x \in WaitQ : Waiters(x, FULL)' \subseteq Waiters(x, FULL)
           Right(x) == phase[x] = "active" /\ Waiters(x, FULL) # {} => fullwaiters[x] /\ imq_full(x)
<1>n. \A x \in Port : msgcount[x] \in Nat /\ qlimit[x] \in Nat
  BY CountType DEF TypeOK
<1>a. ASSUME NEW x \in Port, Waiters(x, FULL)' \subseteq Waiters(x, FULL),
             phase'[x] = "active" => phase[x] = "active",
             fullwaiters'[x] = fullwaiters[x], msgcount'[x] = msgcount[x],
             qlimit'[x] = qlimit[x]
      PROVE  Right(x)'
  BY <1>0, <1>a DEF NoSenderStranded, imq_full
<1>b. ASSUME Fewer, UNCHANGED <<fullwaiters, msgcount, qlimit>>,
             \A x \in Port : phase'[x] = "active" => phase[x] = "active"
      PROVE  NoSenderStranded'
  <2> SUFFICES ASSUME NEW x \in Port PROVE Right(x)'
    BY DEF NoSenderStranded
  <2> QED BY <1>0, <1>a, <1>b
<1>c. UNCHANGED waitVars => Fewer
  BY DEF Waiters, Members, waitVars
<1>d. ASSUME NEW S, NEW r, GoLocked(S, r) PROVE Fewer
  BY <1>d, WaitQueueAssumption DEF GoLocked, Waiters, Members, TypeOK, WQTypeOK
<1>e. ASSUME NEW t \in Thread, NEW q \in WaitQ, NEW e, AssertWaitLocked(t, q, e, "ABORTSAFE")
      PROVE  \A x \in WaitQ : \A u \in Waiters(x, FULL)' :
               u \in Waiters(x, FULL) \/ (e = FULL /\ x = q)
  BY <1>e DEF AssertWaitLocked, Waiters, Members, TypeOK, WQTypeOK
<1>f. ASSUME NEW p \in Port, ReleaseMsgcount(p), Fewer, UNCHANGED <<qlimit, phase>>
      PROVE  NoSenderStranded'
  <2>1. ASSUME phase[p] = "active", Waiters(p, FULL) # {} PROVE fullwaiters'[p] /\ imq_full(p)'
    <3>1. fullwaiters[p] /\ imq_full(p)
      BY <1>0, <2>1 DEF NoSenderStranded
    <3>2. CASE FullWoken(p) # {}
      <4>1. fullwaiters'[p] = fullwaiters[p] /\ msgcount'[p] = msgcount[p]
        BY <1>f, <3>2 DEF ReleaseMsgcount, TypeOK
      <4> QED BY <1>f, <3>1, <4>1 DEF imq_full
    <3>3. CASE FullWoken(p) = {}
      <4>1. PICK u \in Thread : SelectOne(p, FULL, u)
        BY <1>0, <2>1, FirstExists, MessageQueueAssumption DEF WQInv, TypeOK
      <4>2. ~(OneLess(p) < qlimit[p])
        BY <3>1, <3>3, <4>1 DEF FullWoken
      <4>3. fullwaiters'[p] /\ msgcount'[p] = OneLess(p)
        BY <1>f, <3>1, <3>3, <4>2 DEF ReleaseMsgcount, TypeOK
      <4>4. OneLess(p) \in Int
        BY <1>n, CountType DEF OneLess
      <4> QED BY <1>f, <1>n, <4>2, <4>3, <4>4 DEF imq_full
    <3> QED BY <3>2, <3>3
  <2>2. Right(p)'
    BY <1>0, <1>f, <2>1
  <2>3. ASSUME NEW x \in Port, x # p PROVE Right(x)'
    <3>1. fullwaiters'[x] = fullwaiters[x] /\ msgcount'[x] = msgcount[x]
      BY <1>f, <2>3 DEF ReleaseMsgcount, TypeOK
    <3> QED BY <1>0, <1>a, <1>f, <3>1
  <2> QED BY <2>2, <2>3 DEF NoSenderStranded
<1> HIDE DEF Fewer
<1>1. CASE AbortQuiet
  BY <1>1, <1>b, <1>c DEF AbortQuiet, mqVars, queueVars, adminVars
<1>2. ASSUME NEW t \in Thread, NEW p \in Port, NEW m \in Msg, KmsgSend(t, p, m)
      PROVE  NoSenderStranded'
  BY <1>2, <1>b, <1>c DEF KmsgSend, wqVars, queueVars, adminVars
<1>3. ASSUME NEW t \in Thread, SendReserve(t) PROVE NoSenderStranded'
  <2>0. PICK p \in Port : p = dest[t]
    BY <1>3 DEF SendReserve, Roles
  <2>1. /\ phase[p] = "active" => msgcount'[p] = msgcount[p] + 1
        /\ \A x \in Port : x # p => msgcount'[x] = msgcount[x]
    BY <1>3, <2>0, ReserveCounts
  <2>2. Fewer /\ UNCHANGED <<fullwaiters, qlimit, phase>>
    BY <1>3, <1>c DEF SendReserve, wqVars, adminVars
  <2>3. ASSUME NEW x \in Port PROVE Right(x)'
    <3>1. CASE x # p
      BY <1>0, <1>a, <2>1, <2>2, <3>1 DEF Fewer
    <3>2. CASE x = p
      <4>1. phase[p] = "active" /\ imq_full(p) => imq_full(p)'
        BY <1>n, <2>1, <2>2 DEF imq_full
      <4> QED BY <1>0, <2>2, <3>2, <4>1 DEF NoSenderStranded, Fewer
    <3> QED BY <3>1, <3>2
  <2> QED BY <2>3 DEF NoSenderStranded
<1>4. ASSUME NEW t \in Thread, SendBlock(t) PROVE NoSenderStranded'
  <2>0. PICK p \in Port : p = dest[t]
    BY <1>4 DEF SendBlock, Roles
  <2>1. /\ fullwaiters'[p] /\ UNCHANGED <<msgcount, qlimit, phase>> /\ imq_full(p)
        /\ \A x \in Port : x # p => fullwaiters'[x] = fullwaiters[x]
    BY <1>4, <2>0 DEF SendBlock, MustWait, adminVars, TypeOK
  <2>2. \A x \in Port : x # p => Waiters(x, FULL)' \subseteq Waiters(x, FULL)
    BY <1>4, <1>0, <1>e, <2>0 DEF SendBlock
  <2>3. ASSUME NEW x \in Port PROVE Right(x)'
    <3>1. CASE x = p
      BY <2>1, <3>1 DEF imq_full
    <3>2. CASE x # p
      BY <1>a, <2>1, <2>2, <3>2
    <3> QED BY <3>1, <3>2
  <2> QED BY <2>3 DEF NoSenderStranded
<1>5. ASSUME NEW t \in Thread, SendFails(t) PROVE NoSenderStranded'
  BY <1>5, <1>b, <1>c DEF SendFails, wqVars, queueVars, adminVars
<1>6. ASSUME NEW t \in Thread, SendGoes(t) PROVE NoSenderStranded'
  BY <1>6, <1>b, <1>c DEF SendGoes, wqVars, queueVars, adminVars
<1>7. ASSUME NEW t \in Thread, PostLock(t) PROVE NoSenderStranded'
  BY <1>7, <1>b, <1>c DEF PostLock, wqVars, queueVars, adminVars
<1>8. ASSUME NEW t \in Thread, PostQueues(t) PROVE NoSenderStranded'
  BY <1>8, <1>b, <1>c DEF PostQueues, wqVars, queueVars, adminVars
<1>9. ASSUME NEW t \in Thread, NEW r \in Thread, PostRefused(t, r) PROVE NoSenderStranded'
  <2>1. Fewer
    BY <1>9, <1>d DEF PostRefused
  <2> QED BY <1>9, <1>b, <2>1 DEF PostRefused, queueVars, adminVars
<1>10. ASSUME NEW t \in Thread, NEW r \in Thread, PostHands(t, r) PROVE NoSenderStranded'
  <2>0. PICK p \in Port : p = dest[t]
    BY <1>10 DEF PostHands, Roles
  <2>1. Fewer
    BY <1>10, <1>d DEF PostHands
  <2>2. ReleaseMsgcount(p) /\ UNCHANGED <<qlimit, phase>>
    BY <1>10, <2>0 DEF PostHands, adminVars
  <2> QED BY <1>f, <2>1, <2>2
<1>11. ASSUME NEW t \in Thread, NEW q \in WaitQ, Copyin(t, q) PROVE NoSenderStranded'
  BY <1>11, <1>b, <1>c DEF Copyin, wqVars, queueVars, adminVars
<1>12. ASSUME NEW t \in Thread, ReceiveReturns(t) PROVE NoSenderStranded'
  BY <1>12, <1>b, <1>c DEF ReceiveReturns, wqVars, queueVars, adminVars
<1>13. ASSUME NEW t \in Thread, ReceiveBlocks(t) PROVE NoSenderStranded'
  <2>1. dest[t] \in WaitQ
    BY DEF TypeOK
  <2>2. Fewer
    BY <1>13, <1>0, <1>e, <2>1 DEF ReceiveBlocks, Fewer
  <2> QED BY <1>13, <1>b, <2>2 DEF ReceiveBlocks, queueVars, adminVars
<1>14. ASSUME NEW t \in Thread, NEW p \in Port, ReceiveTakes(t, p) PROVE NoSenderStranded'
  <2>1. Fewer
    BY <1>14, <1>d DEF ReceiveTakes
  <2>2. ReleaseMsgcount(p) /\ UNCHANGED <<qlimit, phase>>
    BY <1>14 DEF ReceiveTakes, adminVars
  <2> QED BY <1>f, <2>1, <2>2
<1>15. ASSUME NEW t \in Thread, ScanStart(t) PROVE NoSenderStranded'
  BY <1>15, <1>b, <1>c DEF ScanStart, wqVars, queueVars, adminVars
<1>16. ASSUME NEW t \in Thread, ScanBusy(t) PROVE NoSenderStranded'
  BY <1>16, <1>b, <1>c DEF ScanBusy, wqVars, queueVars, adminVars
<1>17. ASSUME NEW t \in Thread, NEW p \in Port, ScanSkips(t, p) PROVE NoSenderStranded'
  BY <1>17, <1>b, <1>c DEF ScanSkips, wqVars, queueVars, adminVars
<1>18. ASSUME NEW t \in Thread, ReceiveResults(t) PROVE NoSenderStranded'
  BY <1>18, <1>b, <1>c DEF ReceiveResults, wqVars, queueVars, adminVars
<1>19. ASSUME NEW t \in Thread, AbortEnds(t) PROVE NoSenderStranded'
  <2>1. Fewer
    BY <1>19, <1>d DEF AbortEnds
  <2> QED BY <1>19, <1>b, <2>1 DEF AbortEnds, mqVars, queueVars, adminVars
<1>20. ASSUME NEW p \in Port, Add(p) PROVE NoSenderStranded'
  BY <1>20, <1>b, <1>c DEF Add, wqVars, queueVars, adminVars
<1>21. ASSUME NEW p \in Port, AddDone(p) PROVE NoSenderStranded'
  BY <1>21, <1>b, <1>c DEF AddDone, wqVars, queueVars, adminVars
<1>22. ASSUME NEW p \in Port, Remove(p) PROVE NoSenderStranded'
  BY <1>22, <1>b, <1>c DEF Remove, wqVars, queueVars, adminVars
<1>23. ASSUME NEW p \in Port, NEW r \in Thread, AddRefused(p, r) PROVE NoSenderStranded'
  <2>1. Fewer
    BY <1>23, <1>d DEF AddRefused
  <2> QED BY <1>23, <1>b, <2>1 DEF AddRefused, queueVars, adminVars
<1>24. ASSUME NEW p \in Port, NEW r \in Thread, AddHands(p, r) PROVE NoSenderStranded'
  <2>1. Fewer
    BY <1>24, <1>d DEF AddHands
  <2>2. ReleaseMsgcount(p) /\ UNCHANGED <<qlimit, phase>>
    BY <1>24 DEF AddHands, adminVars
  <2> QED BY <1>f, <2>1, <2>2
<1>25. ASSUME NEW p \in Port, NEW n \in Limits, SetQlimit(p, n) PROVE NoSenderStranded'
  <2>1. Fewer /\ UNCHANGED <<fullwaiters, msgcount, phase>>
    BY <1>25, <1>c, LoweringWakesNobody DEF SetQlimit, adminVars
  <2>2. ASSUME NEW x \in Port PROVE Right(x)'
    <3>1. qlimit'[x] <= qlimit[x] /\ qlimit'[x] \in Nat
      BY <1>25, <1>n, MessageQueueAssumption DEF NotRaised, SetQlimit, TypeOK
    <3>2. imq_full(x) => imq_full(x)'
      BY <1>n, <2>1, <3>1 DEF imq_full
    <3> QED BY <1>0, <2>1, <3>2 DEF NoSenderStranded, Fewer
  <2> QED BY <2>2 DEF NoSenderStranded
<1>26. ASSUME NEW p \in Port, ClearReceiver(p) PROVE NoSenderStranded'
  <2>1. Fewer
    BY <1>26, <1>d DEF ClearReceiver, WakeupAllLocked
  <2> QED BY <1>26, <1>b, <2>1 DEF ClearReceiver, queueVars, TypeOK
<1>27. ASSUME NEW p \in Port, NEW S \in SUBSET Thread, Destroys(p, S)
      PROVE  NoSenderStranded'
  <2>1. Fewer
    BY <1>27, <1>d DEF Destroys
  <2>2. /\ phase'[p] # "active" /\ UNCHANGED <<msgcount, qlimit>>
        /\ \A x \in Port : x # p => fullwaiters'[x] = fullwaiters[x] /\ phase'[x] = phase[x]
    BY <1>27 DEF Destroys, TypeOK
  <2>3. ASSUME NEW x \in Port PROVE Right(x)'
    <3>1. CASE x = p
      BY <2>2, <3>1
    <3>2. CASE x # p
      BY <1>0, <1>a, <2>1, <2>2, <3>2 DEF Fewer
    <3> QED BY <3>1, <3>2
  <2> QED BY <2>3 DEF NoSenderStranded
<1> QED
  BY <1>1, <1>2, <1>3, <1>4, <1>5, <1>6, <1>7, <1>8, <1>9, <1>10, <1>11, <1>12, <1>13, <1>14,
     <1>15, <1>16, <1>17, <1>18, <1>19, <1>20, <1>21, <1>22, <1>23, <1>24, <1>25, <1>26,
     <1>27, NextCases DEF Cases

\* Nobody has a slot and nobody waits for one in the beginning.
LEMMA SlotsInit == Init => SpaceReserved /\ NoSenderStranded
<1> SUFFICES ASSUME Init, NEW p \in Port
             PROVE  /\ msgcount[p] = Len(messages[p]) + Cardinality(Reserved(p))
                    /\ Waiters(p, FULL) = {}
  BY DEF SpaceReserved, NoSenderStranded
<1>1. messages[p] = <<>> /\ msgcount[p] = 0
  BY DEF Init
<1>2. Reserved(p) = {}
  BY MessageQueueAssumption DEF Init, Reserved
<1>3. Cardinality({}) = 0
  BY FS_EmptySet
<1>4. Waiters(p, FULL) = {}
  BY MessageQueueAssumption, WaitQueueAssumption DEF Init, WQInit, Waiters, Members
<1> QED BY <1>1, <1>2, <1>3, <1>4

\* imq_msgcount counts the queued messages and the senders that own a slot,
\* each once, in every behaviour in which no limit is raised, also when a
\* sender that is handed a slot is aborted at that moment.
THEOREM SlotsAreCounted == Spec /\ [][NotRaised]_vars => []SpaceReserved
<1>1. Init => SpaceReserved
  BY SlotsInit
<1>2. QueueInv /\ SpaceReserved /\ [Next]_vars /\ [NotRaised]_vars => SpaceReserved'
  <2> SUFFICES ASSUME QueueInv, SpaceReserved, [Next]_vars, [NotRaised]_vars PROVE SpaceReserved'
    OBVIOUS
  <2>1. NotRaised
    <3>1. CASE UNCHANGED vars
      BY <3>1 DEF vars, queueVars, NotRaised, QueueInv, TypeOK
    <3> QED BY <3>1
  <2> QED BY <2>1, SpaceStep
<1> QED BY <1>1, <1>2, QueueInvariant, PTL DEF Spec

\* In such a behaviour a sender that waits for room waits while there is none,
\* with the flag up that makes the next receiver wake it.
THEOREM NoSenderIsStranded == Spec /\ [][NotRaised]_vars => []NoSenderStranded
<1>1. Init => NoSenderStranded
  BY SlotsInit
<1>2. QueueInv /\ SpaceReserved /\ NoSenderStranded /\ [Next]_vars /\ [NotRaised]_vars
        => NoSenderStranded'
  <2> SUFFICES ASSUME QueueInv, SpaceReserved, NoSenderStranded, [Next]_vars, [NotRaised]_vars
               PROVE  NoSenderStranded'
    OBVIOUS
  <2>1. NotRaised
    <3>1. CASE UNCHANGED vars
      BY <3>1 DEF vars, queueVars, NotRaised, QueueInv, TypeOK
    <3> QED BY <3>1
  <2> QED BY <2>1, StrandedStep
<1> QED BY <1>1, <1>2, QueueInvariant, SlotsAreCounted, PTL DEF Spec

-----------------------------------------------------------------------------
\* When a queue's lock is held by a thread, some holder waits for no other
\* lock: it searches the set, where it only tries the ports' locks, or it posts
\* to a port that needs no lock of the set or finds that free.
HolderNeedsNoLock ==
  (\E q \in WaitQ : imq_lock[q] \in Thread) =>
    \E t \in Thread :
      /\ \E q \in WaitQ : imq_lock[q] = t
      /\ \/ pc[t] = "scan"
         \/ pc[t] = "deliver" /\ (dest[t] \in linked => Unlocked(PSet))

\* ipc_mqueue_post takes a port's lock before the set's and
\* ipc_mqueue_receive the set's before a port's, and yet the holders never wait
\* for each other in a circle: the guards behind LockHolderRuns.
THEOREM LockOrdersMeet == Spec => []HolderNeedsNoLock
<1>1. QueueInv => HolderNeedsNoLock
  <2> SUFFICES ASSUME QueueInv, NEW q \in WaitQ, imq_lock[q] \in Thread
               PROVE  \E t \in Thread :
                        /\ \E x \in WaitQ : imq_lock[x] = t
                        /\ \/ pc[t] = "scan"
                           \/ pc[t] = "deliver" /\ (dest[t] \in linked => Unlocked(PSet))
    BY DEF HolderNeedsNoLock
  <2>1. /\ WaitQ = Port \union {PSet} /\ imq_lock[PSet] \in Thread \union {Nobody, Admin}
    BY MessageQueueAssumption DEF QueueInv, TypeOK
  <2>2. CASE imq_lock[PSet] \in Thread
    <3>1. pc[imq_lock[PSet]] = "scan"
      BY <2>2 DEF QueueInv, Locks
    <3> QED BY <2>1, <2>2, <3>1
  <2>3. CASE imq_lock[PSet] \notin Thread
    <3>1. Unlocked(PSet)
      BY <2>1, <2>3 DEF QueueInv, Locks, Unlocked
    <3>2. q \in Port
      BY <2>1, <2>3
    <3>3. pc[imq_lock[q]] = "deliver"
      BY <3>2 DEF QueueInv, Locks
    <3> QED BY <3>1, <3>3
  <2> QED BY <2>2, <2>3
<1> QED BY <1>1, QueueInvariant, PTL
=============================================================================
