----------------------------- MODULE MessageQueue -----------------------------
(***************************************************************************)
(* Mach message queues: xnu-123.5/osfmk/ipc/ipc_mqueue.c, with the callers *)
(* that decide what it may assume (ipc_kmsg_send, ipc_pset_add and _remove,*)
(* ipc_port_clear_receiver, ipc_port_destroy).  A port's queue holds       *)
(* messages and the senders that wait for room; receivers wait on the port *)
(* or on the port set it is linked to.                                     *)
(*                                                                         *)
(* A queue lock is the lock of its wait queue.  Most actions are one hold  *)
(* of it.  Where the code takes a port's lock and a set's lock in opposite *)
(* orders (a post wants the set while it holds the port; a receive from a  *)
(* set tries the ports while it holds the set) the holds are explicit in   *)
(* imq_lock.  Time-outs and interrupts end a wait in the same way and are  *)
(* one action.  Sizes are abstracted to Big messages and Small receivers   *)
(* (max_size too small for them, with MACH_RCV_LARGE); sequence numbers,   *)
(* rights, kernel-owned ports and circular messages are left out.          *)
(***************************************************************************)
EXTENDS WaitQueue, Sequences

CONSTANTS
  Port,             \* message queues of ports
  PSet,             \* the message queue of the port set
  Msg, NoMsg,       \* message buffers
  Big, Small,       \* messages that are too large for these receivers
  Always,           \* messages sent with MACH_SEND_ALWAYS or to a send-once right
  Sender, Receiver, \* threads that send and that receive
  InitLimit,        \* MACH_PORT_QLIMIT_DEFAULT
  Limits,           \* arguments of ipc_mqueue_set_qlimit
  CountSize,        \* 2^32: mach_port_msgcount_t is unsigned
  Admin, Nobody,    \* whoever is in ipc_mqueue_add; the holder of a free lock
  FULL, RECEIVE     \* IPC_MQUEUE_FULL, IPC_MQUEUE_RECEIVE

ASSUME MessageQueueAssumption ==
  /\ WaitQ = Port \union {PSet} /\ PSet \notin Port
  /\ Event = {FULL, RECEIVE} /\ FULL # RECEIVE
  /\ Thread = Sender \union Receiver /\ IsFiniteSet(Thread)
  /\ IsFiniteSet(Msg) /\ NoMsg \notin Msg /\ Big \subseteq Msg /\ Always \subseteq Msg
  /\ Limits \subseteq Nat /\ InitLimit \in Nat \ {0}
  /\ CountSize \in Nat /\ CountSize > Cardinality(Msg)
  /\ {Admin, Nobody} \intersect Thread = {} /\ Admin # Nobody

VARIABLES
  imq_lock,         \* who holds each queue's lock across steps
  messages,         \* imq_messages
  msgcount,         \* imq_msgcount: queued or reserved by a sender
  qlimit,           \* imq_qlimit
  fullwaiters,      \* imq_fullwaiters
  linked,           \* the ports linked to the set
  adding,           \* the port ipc_mqueue_add has linked but not matched yet
  phase,            \* how far the destruction of a port has come
  free,             \* message buffers not in use
  pc, dest, kmsg,   \* each thread's place, queue and message
  scanned           \* the ports a receive from the set has found empty

queueVars == <<messages, msgcount, qlimit, fullwaiters>>
adminVars == <<linked, adding, phase>>
threadVars == <<pc, dest, kmsg, scanned>>
vars == <<wqVars, imq_lock, queueVars, adminVars, free, threadVars>>

PC == {"idle", "send", "send_block", "post", "deliver", "rcv", "scan", "rcv_block"}

\* ipc_mqueue_init of every port and of the set
Init ==
  /\ WQInit
  /\ imq_lock = [q \in WaitQ |-> Nobody]
  /\ messages = [p \in Port |-> <<>>]
  /\ msgcount = [p \in Port |-> 0]
  /\ qlimit = [p \in Port |-> InitLimit]
  /\ fullwaiters = [p \in Port |-> FALSE]
  /\ linked = {}
  /\ adding = {}
  /\ phase = [p \in Port |-> "active"]
  /\ free = Msg
  /\ pc = [t \in Thread |-> "idle"]
  /\ dest = [t \in Thread |-> PSet]
  /\ kmsg = [t \in Thread |-> NoMsg]
  /\ scanned = {}

Unlocked(q) == imq_lock[q] = Nobody
Goto(t, label) == pc' = [pc EXCEPT ![t] = label]

\* Back to user mode; the queue a thread worked on is a local of the call
Return(t) == Goto(t, "idle") /\ dest' = [dest EXCEPT ![t] = PSet]
imq_full(p) == msgcount[p] >= qlimit[p]
OneLess(p) == (msgcount[p] + CountSize - 1) % CountSize

\* Thread t gives its buffer back: the message was destroyed, copied out to
\* the receiver, or returned to the sender with an error
PutMessage(t) ==
  /\ free' = free \union ({kmsg[t]} \ {NoMsg})
  /\ kmsg' = [kmsg EXCEPT ![t] = NoMsg]

-----------------------------------------------------------------------------
(* Pieces that run under a port's lock                                     *)

\* The receiver wait_queue_wakeup_identity_locked picks: the first on the
\* port, or the first on the set.  Whether the link or the thread comes first
\* in the port's queue depends on which was queued first.
SelectReceiver(p, r) ==
  \/ SelectOne(p, RECEIVE, r)
  \/ p \in linked /\ SelectOne(PSet, RECEIVE, r)

ReceiverWaits(p) == \E r \in Thread : SelectReceiver(p, r)

\* ipc_mqueue_release_msgcount: the slot goes to the first blocked sender, if
\* the limit allows.  FullWoken is that sender.
FullWoken(p) ==
  {u \in Thread : /\ OneLess(p) < qlimit[p] /\ fullwaiters[p]
                  /\ SelectOne(p, FULL, u)}

\* Mutant: forgets that it gave the slot away
ReleaseForgets(p) ==
  /\ msgcount' = [msgcount EXCEPT ![p] = OneLess(p)]
  /\ fullwaiters' = [fullwaiters EXCEPT
                       ![p] = @ /\ ~(OneLess(p) < qlimit[p] /\ FullWoken(p) = {})]

\* Mutant: clears imq_fullwaiters with the first sender it wakes
ReleaseClears(p) ==
  /\ msgcount' = [msgcount EXCEPT ![p] = IF FullWoken(p) # {} THEN @ ELSE OneLess(p)]
  /\ fullwaiters' = [fullwaiters EXCEPT ![p] = @ /\ ~(OneLess(p) < qlimit[p])]

ReleaseMsgcount(p) ==
  /\ msgcount' = [msgcount EXCEPT ![p] = IF FullWoken(p) # {} THEN @ ELSE OneLess(p)]
  /\ fullwaiters' = [fullwaiters EXCEPT
                       ![p] = @ /\ ~(OneLess(p) < qlimit[p] /\ FullWoken(p) = {})]

\* A receiver r that was selected for message m: with MACH_RCV_LARGE and a
\* buffer that is too small it is sent away without it.
TooLarge(r, m) == m \in Big /\ r \in Small

\* ipc_mqueue_select for t: take the first message off p, unless it is too
\* large, in which case it stays and t returns
Select(t, p) ==
  LET m == Head(messages[p]) IN
  /\ IF TooLarge(t, m)
       THEN UNCHANGED <<waitVars, messages, msgcount, fullwaiters, free>>
       ELSE /\ messages' = [messages EXCEPT ![p] = Tail(@)]
            /\ GoLocked(FullWoken(p), "AWAKENED")
            /\ ReleaseMsgcount(p)
            /\ free' = free \union {m}
  /\ Return(t)
  /\ UNCHANGED <<qlimit, kmsg, aborting, removing>>

-----------------------------------------------------------------------------
(* ipc_kmsg_send and ipc_mqueue_send                                       *)

\* ipc_kmsg_send, up to ip_unlock.  A message for a dead port is destroyed
\* at once, which changes nothing here.
KmsgSend(t, p, m) ==
  /\ pc[t] = "idle" /\ t \in Sender
  /\ m \in free
  /\ phase[p] = "active" /\ p \notin adding
  /\ free' = free \ {m}
  /\ kmsg' = [kmsg EXCEPT ![t] = m]
  /\ dest' = [dest EXCEPT ![t] = p]
  /\ Goto(t, "send")
  /\ UNCHANGED <<wqVars, imq_lock, queueVars, adminVars, scanned>>

\* The sender has to wait for space to be granted
MustWait(t) == imq_full(dest[t]) /\ kmsg[t] \notin Always

SendReserve(t) ==
  /\ pc[t] = "send" /\ Unlocked(dest[t])
  /\ ~MustWait(t)
  /\ msgcount' = [msgcount EXCEPT ![dest[t]] = (@ + 1) % CountSize]
  /\ Goto(t, "post")
  /\ UNCHANGED <<wqVars, imq_lock, messages, qlimit, fullwaiters, adminVars, free,
                 dest, kmsg, scanned>>

\* No room: wait for it
SendBlock(t) ==
  LET p == dest[t] IN
  /\ pc[t] = "send" /\ Unlocked(p)
  /\ MustWait(t)
  /\ fullwaiters' = [fullwaiters EXCEPT ![p] = TRUE]
  /\ AssertWaitLocked(t, p, FULL, "ABORTSAFE")
  /\ Goto(t, "send_block")
  /\ UNCHANGED <<aborting, removing, imq_lock, messages, msgcount, qlimit, adminVars,
                 free, dest, kmsg, scanned>>

\* No room and MACH_SEND_TIMEOUT with timeout 0
SendPoll(t) ==
  /\ pc[t] = "send" /\ Unlocked(dest[t])
  /\ MustWait(t)
  /\ PutMessage(t)
  /\ Return(t)
  /\ UNCHANGED <<wqVars, imq_lock, queueVars, adminVars, scanned>>

\* After thread_block: go on with the slot the waker gave, or give up
SendResume(t) ==
  /\ pc[t] = "send_block" /\ ~waiting[t]
  /\ \/ /\ wait_result[t] = "AWAKENED"
        /\ Goto(t, "post")
        /\ UNCHANGED <<free, kmsg, dest>>
     \/ /\ wait_result[t] \in {"INTERRUPTED", "TIMED_OUT"}
        /\ PutMessage(t)
        /\ Return(t)
  /\ UNCHANGED <<wqVars, imq_lock, queueVars, adminVars, scanned>>

\* ipc_mqueue_post takes the port's lock ...
PostLock(t) ==
  /\ pc[t] = "post" /\ Unlocked(dest[t])
  /\ imq_lock' = [imq_lock EXCEPT ![dest[t]] = t]
  /\ Goto(t, "deliver")
  /\ UNCHANGED <<wqVars, queueVars, adminVars, free, dest, kmsg, scanned>>

\* ... and goes once round its loop.  Looking for a receiver takes the set's
\* lock if the port is linked.
PostDeliver(t) ==
  LET p == dest[t]
      m == kmsg[t] IN
  /\ pc[t] = "deliver"
  /\ p \in linked => Unlocked(PSet)
  /\ \/ /\ ~ReceiverWaits(p)
        /\ messages' = [messages EXCEPT ![p] = Append(@, m)]
        /\ kmsg' = [kmsg EXCEPT ![t] = NoMsg]
        /\ imq_lock' = [imq_lock EXCEPT ![p] = Nobody]
        /\ Return(t)
        /\ UNCHANGED <<waitVars, msgcount, fullwaiters>>
     \/ \E r \in Thread :
          /\ SelectReceiver(p, r)
          /\ UNCHANGED messages
          /\ IF TooLarge(r, m)
               THEN /\ GoLocked({r}, "AWAKENED")
                    /\ UNCHANGED <<msgcount, fullwaiters, kmsg, pc, dest, imq_lock>>
               ELSE /\ kmsg' = [kmsg EXCEPT ![t] = NoMsg, ![r] = m]
                    /\ GoLocked({r} \union FullWoken(p), "AWAKENED")
                    /\ ReleaseMsgcount(p)
                    /\ imq_lock' = [imq_lock EXCEPT ![p] = Nobody]
                    /\ Return(t)
  /\ UNCHANGED <<aborting, removing, qlimit, adminVars, free, scanned>>

-----------------------------------------------------------------------------
(* ipc_mqueue_copyin, ipc_mqueue_receive and ipc_mqueue_receive_results    *)

\* ipc_mqueue_copyin: a port or the set, with a reference but no lock held
Copyin(t, q) ==
  /\ pc[t] = "idle" /\ t \in Receiver
  /\ IF q = PSet THEN adding = {} ELSE phase[q] = "active" /\ q \notin adding
  /\ dest' = [dest EXCEPT ![t] = q]
  /\ Goto(t, "rcv")
  /\ UNCHANGED <<wqVars, imq_lock, queueVars, adminVars, free, kmsg, scanned>>

\* No message: return (MACH_RCV_TIMEOUT with timeout 0) or wait, still under
\* the lock of q
ReceiveWait(t, q) ==
  \/ Return(t) /\ UNCHANGED waitVars
  \/ /\ AssertWaitLocked(t, q, RECEIVE, "ABORTSAFE")
     /\ Goto(t, "rcv_block")
     /\ UNCHANGED dest

ReceivePort(t) ==
  LET p == dest[t] IN
  /\ pc[t] = "rcv" /\ p \in Port /\ Unlocked(p)
  /\ \/ messages[p] # <<>> /\ Select(t, p)
     \/ /\ messages[p] = <<>> /\ ReceiveWait(t, p)
        /\ UNCHANGED <<aborting, removing, queueVars, free, kmsg>>
  /\ UNCHANGED <<imq_lock, adminVars, scanned>>

\* A receive from the set holds the set's lock ...
ScanStart(t) ==
  /\ pc[t] = "rcv" /\ dest[t] = PSet /\ Unlocked(PSet)
  /\ imq_lock' = [imq_lock EXCEPT ![PSet] = t]
  /\ scanned' = {}
  /\ Goto(t, "scan")
  /\ UNCHANGED <<wqVars, queueVars, adminVars, free, dest, kmsg>>

\* Mutant: waits for a busy port's lock while it holds the set's
ScanPortWaits(t, p) ==
  /\ pc[t] = "scan" /\ p \in linked \ scanned
  /\ \/ /\ Unlocked(p) /\ messages[p] = <<>>
        /\ scanned' = scanned \union {p}
        /\ UNCHANGED <<wqVars, imq_lock, queueVars, free, pc, dest, kmsg>>
     \/ /\ Unlocked(p) /\ messages[p] # <<>>
        /\ imq_lock' = [imq_lock EXCEPT ![PSet] = Nobody]
        /\ Select(t, p)
        /\ UNCHANGED scanned
  /\ UNCHANGED adminVars

\* ... and tries each port's: busy, it starts over; empty, it goes on
ScanPort(t, p) ==
  /\ pc[t] = "scan" /\ p \in linked \ scanned
  /\ \/ /\ ~Unlocked(p)
        /\ imq_lock' = [imq_lock EXCEPT ![PSet] = Nobody]
        /\ Goto(t, "rcv")
        /\ UNCHANGED <<wqVars, queueVars, free, dest, kmsg, scanned>>
     \/ /\ Unlocked(p) /\ messages[p] = <<>>
        /\ scanned' = scanned \union {p}
        /\ UNCHANGED <<wqVars, imq_lock, queueVars, free, pc, dest, kmsg>>
     \/ /\ Unlocked(p) /\ messages[p] # <<>>
        /\ imq_lock' = [imq_lock EXCEPT ![PSet] = Nobody]
        /\ Select(t, p)
        /\ UNCHANGED scanned
  /\ UNCHANGED adminVars

\* Every port of the set is empty
ScanEnd(t) ==
  /\ pc[t] = "scan" /\ linked \subseteq scanned
  /\ ReceiveWait(t, PSet)
  /\ imq_lock' = [imq_lock EXCEPT ![PSet] = Nobody]
  /\ UNCHANGED <<aborting, removing, queueVars, adminVars, free, kmsg, scanned>>

\* ipc_mqueue_receive_results: keep the message a poster handed over, if any
ReceiveResults(t) ==
  /\ pc[t] = "rcv_block" /\ ~waiting[t]
  /\ PutMessage(t)
  /\ Return(t)
  /\ UNCHANGED <<wqVars, imq_lock, queueVars, adminVars, scanned>>

-----------------------------------------------------------------------------
(* Set membership, limits and the end of a port.  The caller holds the     *)
(* port's own lock (ip_lock), and the set's for a change of membership, so *)
(* these do not overlap, and ipc_kmsg_send and ipc_mqueue_copyin, which    *)
(* take the same lock, wait for them.                                      *)

\* ipc_mqueue_add: wait_queue_link ...
Add(p) ==
  /\ adding = {} /\ phase[p] = "active"
  /\ p \notin linked
  /\ Unlocked(p) /\ Unlocked(PSet)
  /\ linked' = linked \union {p}
  /\ adding' = {p}
  /\ UNCHANGED <<wqVars, imq_lock, queueVars, phase, free, threadVars>>

\* Mutant: a matched message stays in the port's queue
AddMatchKeeps(p) ==
  LET m == Head(messages[p]) IN
  /\ p \in adding /\ imq_lock[p] \in {Nobody, Admin} /\ Unlocked(PSet)
  /\ adding' = {}
  /\ \/ /\ messages[p] = <<>> \/ ~ReceiverWaits(p)
        /\ UNCHANGED <<waitVars, msgcount, fullwaiters, kmsg>>
     \/ \E r \in Thread :
          /\ messages[p] # <<>> /\ SelectReceiver(p, r)
          /\ kmsg' = [kmsg EXCEPT ![r] = m]
          /\ GoLocked({r} \union FullWoken(p), "AWAKENED")
          /\ ReleaseMsgcount(p)
  /\ UNCHANGED <<aborting, removing, imq_lock, messages, qlimit, linked, phase, free, pc,
                 dest, scanned>>

\* Mutant: the messages already queued are not matched
AddNoMatch(p) ==
  /\ p \in adding
  /\ adding' = {}
  /\ UNCHANGED <<wqVars, imq_lock, queueVars, linked, phase, free, threadVars>>

\* ... then, under the port's lock, the queued messages meet the receivers
\* that already wait on the set
AddMatch(p) ==
  LET m == Head(messages[p]) IN
  /\ p \in adding /\ imq_lock[p] \in {Nobody, Admin} /\ Unlocked(PSet)
  /\ \/ /\ messages[p] = <<>> \/ ~ReceiverWaits(p)
        /\ adding' = {}
        /\ imq_lock' = [imq_lock EXCEPT ![p] = Nobody]
        /\ UNCHANGED <<waitVars, messages, msgcount, fullwaiters, kmsg>>
     \/ /\ messages[p] # <<>>
        /\ imq_lock' = [imq_lock EXCEPT ![p] = Admin]
        /\ UNCHANGED adding
        /\ \E r \in Thread :
             /\ SelectReceiver(p, r)
             /\ IF TooLarge(r, m)
                  THEN /\ GoLocked({r}, "AWAKENED")
                       /\ UNCHANGED <<messages, msgcount, fullwaiters, kmsg>>
                  ELSE /\ messages' = [messages EXCEPT ![p] = Tail(@)]
                       /\ kmsg' = [kmsg EXCEPT ![r] = m]
                       /\ GoLocked({r} \union FullWoken(p), "AWAKENED")
                       /\ ReleaseMsgcount(p)
  /\ UNCHANGED <<aborting, removing, qlimit, linked, phase, free, pc, dest, scanned>>

\* ipc_mqueue_remove: wait_queue_unlink
Remove(p) ==
  /\ p \in linked \ adding
  /\ Unlocked(p) /\ Unlocked(PSet)
  /\ linked' = linked \ {p}
  /\ UNCHANGED <<wqVars, imq_lock, queueVars, adding, phase, free, threadVars>>

\* ipc_mqueue_set_qlimit: a higher limit wakes as many senders as it allows
SetQlimit(p, n) ==
  LET line == Waiters(p, FULL)
      woken == {u \in line : Cardinality(ahead[u] \intersect line) + qlimit[p] < n} IN
  /\ phase[p] = "active" /\ p \notin adding
  /\ Unlocked(p)
  /\ qlimit[p] # n
  /\ qlimit' = [qlimit EXCEPT ![p] = n]
  /\ GoLocked(woken, "AWAKENED")
  /\ fullwaiters' = [fullwaiters EXCEPT
                       ![p] = @ /\ Cardinality(line) + qlimit[p] >= n]
  /\ UNCHANGED <<aborting, removing, imq_lock, messages, msgcount, adminVars, free,
                 threadVars>>

\* ipc_port_clear_receiver and the part of ipc_port_destroy under ip_lock: the
\* port leaves the set, its receivers are sent away, it is marked dead
ClearReceiver(p) ==
  /\ phase[p] = "active" /\ p \notin adding
  /\ Unlocked(p) /\ Unlocked(PSet)
  /\ linked' = linked \ {p}
  /\ WakeupAllLocked(p, RECEIVE, "RESTART")
  /\ phase' = [phase EXCEPT ![p] = "dead"]
  /\ UNCHANGED <<aborting, removing, imq_lock, queueVars, adding, free, threadVars>>

\* ipc_mqueue_destroy: rouse all senders, then drop the messages one by one,
\* each in a hold of its own
MqueueDestroy(p) ==
  /\ phase[p] \in {"dead", "draining"}
  /\ Unlocked(p)
  /\ \/ /\ phase[p] = "dead"
        /\ fullwaiters' = [fullwaiters EXCEPT ![p] = FALSE]
        /\ WakeupAllLocked(p, FULL, "AWAKENED")
     \/ /\ phase[p] = "draining"
        /\ UNCHANGED <<fullwaiters, waitVars>>
  /\ \/ /\ messages[p] = <<>>
        /\ phase' = [phase EXCEPT ![p] = "gone"]
        /\ UNCHANGED <<messages, free>>
     \/ /\ messages[p] # <<>>
        /\ phase' = [phase EXCEPT ![p] = "draining"]
        /\ messages' = [messages EXCEPT ![p] = Tail(@)]
        /\ free' = free \union {Head(messages[p])}
  /\ UNCHANGED <<aborting, removing, imq_lock, msgcount, qlimit, linked, adding,
                 threadVars>>

-----------------------------------------------------------------------------
\* A waiting thread is aborted, or its timer fires
AbortStart(k, t) ==
  /\ ThreadAbortSafely(k, t)
  /\ UNCHANGED <<imq_lock, queueVars, adminVars, free, threadVars>>

AbortFinish(k) ==
  /\ removing[k] # Idle /\ Unlocked(removing[k].wq)
  /\ ClearWaitFinish(k)
  /\ UNCHANGED <<aborting, imq_lock, queueVars, adminVars, free, threadVars>>

SendStep(t) == SendReserve(t) \/ SendBlock(t) \/ SendPoll(t) \/ SendResume(t)
PostStep(t) == PostLock(t) \/ PostDeliver(t)
ReceiveStep(t) ==
  \/ ReceivePort(t) \/ ScanStart(t) \/ ScanEnd(t) \/ ReceiveResults(t)
  \/ \E p \in Port : ScanPort(t, p)

Next ==
  \/ \E t \in Thread :
       \/ \E p \in Port, m \in Msg : KmsgSend(t, p, m)
       \/ \E q \in WaitQ : Copyin(t, q)
       \/ SendStep(t) \/ PostStep(t) \/ ReceiveStep(t)
  \/ \E p \in Port :
       \/ Add(p) \/ AddMatch(p) \/ Remove(p)
       \/ \E n \in Limits : SetQlimit(p, n)
       \/ ClearReceiver(p) \/ MqueueDestroy(p)
  \/ \E k \in Aborter : AbortFinish(k) \/ \E t \in Thread : AbortStart(k, t)

Spec == Init /\ [][Next]_vars

-----------------------------------------------------------------------------
TypeOK ==
  /\ WQTypeOK
  /\ imq_lock \in [WaitQ -> Thread \union {Admin, Nobody}]
  /\ messages \in [Port -> Seq(Msg)]
  /\ msgcount \in [Port -> 0 .. CountSize - 1]
  /\ qlimit \in [Port -> Nat]
  /\ fullwaiters \in [Port -> BOOLEAN]
  /\ linked \subseteq Port /\ adding \subseteq linked
  /\ phase \in [Port -> {"active", "dead", "draining", "gone"}]
  /\ free \subseteq Msg
  /\ pc \in [Thread -> PC]
  /\ dest \in [Thread -> WaitQ]
  /\ kmsg \in [Thread -> Msg \union {NoMsg}]
  /\ scanned \subseteq Port

\* Every message is in one place: queued once on one port, in the hands of one
\* thread, or back in the pool.  None is lost or delivered twice, whether it
\* is posted, matched by ipc_mqueue_add, refused as too large or destroyed.
MessagesKept ==
  /\ TypeOK
  /\ \A m \in Msg :
       Cardinality({x \in Port \X (1 .. Cardinality(Msg)) :
                      x[2] <= Len(messages[x[1]]) /\ messages[x[1]][x[2]] = m})
         + Cardinality({t \in Thread : kmsg[t] = m})
         + Cardinality({m} \intersect free) = 1

\* No receiver sleeps on a port, or on the set a port belongs to, while the
\* port has a message queued: the search of the set under the set's lock and
\* the post under the port's lock cannot miss each other.  (Between the two
\* halves of ipc_mqueue_add they can, and its second half repairs it.)
NoMissedMessage ==
  \A p \in Port :
    messages[p] # <<>> =>
      /\ Waiters(p, RECEIVE) = {}
      /\ p \in linked \ adding => Waiters(PSet, RECEIVE) = {}

\* Senders of p that own a slot: they took it themselves or inherited it
Reserved(p) ==
  {t \in Sender : /\ dest[t] = p
                  /\ \/ pc[t] \in {"post", "deliver"}
                     \/ /\ pc[t] = "send_block" /\ ~waiting[t]
                        /\ wait_result[t] = "AWAKENED"}

\* "our space in the message queue is reserved": imq_msgcount counts exactly
\* the queued messages and the senders that own a slot, also when a sender
\* that is handed one is aborted at that moment
SpaceReserved ==
  \A p \in Port :
    phase[p] = "active" =>
      msgcount[p] = Len(messages[p]) + Cardinality(Reserved(p))

\* A sender waits for room only while there is none and the flag that makes
\* the next receiver wake it is up
NoSenderStranded ==
  \A p \in Port :
    phase[p] = "active" /\ Waiters(p, FULL) # {} => fullwaiters[p] /\ imq_full(p)

\* The opposite lock orders do not deadlock: whenever a queue's lock is held,
\* somebody who holds one can go on, because a receiver that searches the set
\* only tries the ports' locks ("softly")
LockHolderRuns ==
  (\E q \in WaitQ : imq_lock[q] \in Thread) =>
    \E t \in Thread :
      /\ \E q \in WaitQ : imq_lock[q] = t
      /\ ENABLED (PostDeliver(t) \/ ScanEnd(t) \/ \E p \in Port : ScanPort(t, p))

\* "Set any blocked senders running" and "Receivers were removed when the
\* receive right was changed": nobody waits on the queue of a destroyed port
NobodyWaitsOnDeadQueue ==
  \A p \in Port : phase[p] = "gone" => Members(p) = {}
=============================================================================
