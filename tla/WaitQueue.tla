------------------------------- MODULE WaitQueue -------------------------------
(***************************************************************************)
(* Kernel wait queues: xnu-123.5/osfmk/kern/wait_queue.c and the part of   *)
(* sched_prim.c that marks a thread waiting, sets it running and clears    *)
(* its wait.  This module holds the shared state and one action fragment   *)
(* per routine; ThreadWait and Semaphore compose them.                     *)
(*                                                                         *)
(* A queue is kept as the set of its members, {t : wait_queue[t] = q}, and *)
(* its order as ahead[t], the members in front of t.  A fragment is one    *)
(* hold of the wait-queue lock (the thread lock nests inside it).  The one *)
(* routine that starts from the thread has to drop the thread lock to take *)
(* the queue lock first (wait_queue_remove), so it is two fragments, and a *)
(* Clearer is a context (an aborting thread, a timer) between the two.     *)
(***************************************************************************)
EXTENDS Naturals, FiniteSets

CONSTANTS
  Thread,         \* kernel threads
  WaitQ,          \* wait queues
  Event,          \* events posted to wait queues
  Aborter,        \* contexts that abort threads
  VMPrivileged,   \* threads with vm_privilege, which queue at the head
  NoQueue,        \* WAIT_QUEUE_NULL
  NoEvent,        \* NO_EVENT
  Idle            \* a clearer that is not inside wait_queue_remove

\* Whoever can be inside clear_wait_internal of a thread that is not current:
\* an aborter or, under the thread's own name, its wait timer.
Clearer == Aborter \union Thread

Mode == {"UNINT", "INTERRUPTIBLE", "ABORTSAFE"}
Result == {"NONE", "AWAKENED", "TIMED_OUT", "INTERRUPTED", "RESTART"}
Removal == [thread : Thread, wq : WaitQ, result : Result]

ASSUME WaitQueueAssumption ==
  /\ VMPrivileged \subseteq Thread
  /\ Aborter \intersect Thread = {}
  /\ NoQueue \notin WaitQ
  /\ NoEvent \notin Event
  /\ Idle \notin Removal

VARIABLES
  wait_queue,     \* thread->wait_queue
  wait_event,     \* thread->wait_event
  ahead,          \* the threads in front of t in its queue
  waiting,        \* thread->state & TH_WAIT
  mode,           \* how the last assert_wait may be interrupted
  wait_result,    \* thread->wait_result
  aborting,       \* thread->state & TH_ABORT
  removing        \* what each clearer decided before it dropped the thread lock

waitVars == <<wait_queue, wait_event, ahead, waiting, mode, wait_result>>
wqVars == <<waitVars, aborting, removing>>

\* A thread starts with wait_result KERN_SUCCESS, which is THREAD_AWAKENED.
WQInit ==
  /\ wait_queue = [t \in Thread |-> NoQueue]
  /\ wait_event = [t \in Thread |-> NoEvent]
  /\ ahead = [t \in Thread |-> {}]
  /\ waiting = [t \in Thread |-> FALSE]
  /\ mode = [t \in Thread |-> "UNINT"]
  /\ wait_result = [t \in Thread |-> "AWAKENED"]
  /\ aborting = [t \in Thread |-> FALSE]
  /\ removing = [k \in Clearer |-> Idle]

Members(q) == {t \in Thread : wait_queue[t] = q}
Waiters(q, e) == {t \in Members(q) : wait_event[t] = e}
Uninterruptible(t) == waiting[t] /\ mode[t] = "UNINT"              \* TH_UNINT
AtSafePoint(t) == wait_queue[t] # NoQueue /\ mode[t] = "ABORTSAFE"

-----------------------------------------------------------------------------
\* wait_queue_assert_wait_locked and thread_mark_wait_locked by thread t
AssertWaitLocked(t, q, e, m) ==
  /\ wait_queue' = [wait_queue EXCEPT ![t] = q]
  /\ wait_event' = [wait_event EXCEPT ![t] = e]
  /\ ahead' = IF t \in VMPrivileged
                THEN [u \in Thread |-> CASE u = t -> {}
                                         [] u \in Members(q) \ {t} -> ahead[u] \union {t}
                                         [] OTHER -> ahead[u]]
                ELSE [ahead EXCEPT ![t] = Members(q)]
  /\ waiting' = [waiting EXCEPT ![t] = TRUE]
  /\ mode' = [mode EXCEPT ![t] = m]
  /\ wait_result' = [wait_result EXCEPT ![t] = "NONE"]

\* Mutant: sets the result of a thread somebody else has already woken
GoAlwaysSetsResult(S, r) ==
  /\ wait_queue' = [t \in Thread |-> IF t \in S THEN NoQueue ELSE wait_queue[t]]
  /\ wait_event' = [t \in Thread |-> IF t \in S THEN NoEvent ELSE wait_event[t]]
  /\ ahead' = [t \in Thread |-> IF t \in S THEN {} ELSE ahead[t] \ S]
  /\ waiting' = [t \in Thread |-> t \notin S /\ waiting[t]]
  /\ wait_result' = [t \in Thread |-> IF t \in S THEN r ELSE wait_result[t]]
  /\ UNCHANGED mode

\* Mutant: a pulled thread keeps its wait_event
GoKeepsEvent(S, r) ==
  /\ wait_queue' = [t \in Thread |-> IF t \in S THEN NoQueue ELSE wait_queue[t]]
  /\ ahead' = [t \in Thread |-> IF t \in S THEN {} ELSE ahead[t] \ S]
  /\ waiting' = [t \in Thread |-> t \notin S /\ waiting[t]]
  /\ wait_result' = [t \in Thread |-> IF t \in S /\ waiting[t] THEN r
                                                               ELSE wait_result[t]]
  /\ UNCHANGED <<wait_event, mode>>

\* Pull the threads S off their queues and thread_go_locked each of them
GoLocked(S, r) ==
  /\ wait_queue' = [t \in Thread |-> IF t \in S THEN NoQueue ELSE wait_queue[t]]
  /\ wait_event' = [t \in Thread |-> IF t \in S THEN NoEvent ELSE wait_event[t]]
  /\ ahead' = [t \in Thread |-> IF t \in S THEN {} ELSE ahead[t] \ S]
  /\ waiting' = [t \in Thread |-> t \notin S /\ waiting[t]]
  /\ wait_result' = [t \in Thread |-> IF t \in S /\ waiting[t] THEN r
                                                               ELSE wait_result[t]]
  /\ UNCHANGED mode

\* wait_queue_wakeup_all_locked
WakeupAllLocked(q, e, r) == GoLocked(Waiters(q, e), r)

\* _wait_queue_select_one walks from the head: t is the first waiter for e
SelectOne(q, e, t) ==
  /\ t \in Waiters(q, e)
  /\ ahead[t] \intersect Waiters(q, e) = {}

\* wait_queue_wakeup_one_locked returns KERN_SUCCESS, having woken t
WakeupOneLocked(q, e, t, r) == SelectOne(q, e, t) /\ GoLocked({t}, r)

\* wait_queue_wakeup_thread_locked: KERN_SUCCESS only if t waits for e on q
WakeupThreadLocked(q, e, t, r) ==
  t \in Waiters(q, e) /\ GoLocked({t}, r)

-----------------------------------------------------------------------------
(* clear_wait_internal by another context                                  *)

\* Up to the point where wait_queue_remove drops the thread lock.  If t is on
\* no queue, thread_go_locked is called at once.
ClearWaitStart(k, t, r) ==
  \/ /\ r = "INTERRUPTED" /\ Uninterruptible(t)
     /\ UNCHANGED <<waitVars, removing>>
  \/ /\ ~(r = "INTERRUPTED" /\ Uninterruptible(t))
     /\ wait_queue[t] = NoQueue
     /\ GoLocked({t}, r)
     /\ UNCHANGED removing
  \/ /\ ~(r = "INTERRUPTED" /\ Uninterruptible(t))
     /\ wait_queue[t] # NoQueue
     /\ removing' = [removing EXCEPT
                       ![k] = [thread |-> t, wq |-> wait_queue[t], result |-> r]]
     /\ UNCHANGED waitVars

\* Mutant: after retaking the locks, goes on without comparing the queues
ClearWaitNoRecheck(k) ==
  /\ removing[k] # Idle
  /\ GoAlwaysSetsResult({removing[k].thread}, removing[k].result)
  /\ removing' = [removing EXCEPT ![k] = Idle]

\* The rest: with both locks retaken, the thread is pulled and set running
\* only if it is (still, or again) on that queue.
ClearWaitFinish(k) ==
  /\ removing[k] # Idle
  /\ LET c == removing[k] IN
       \/ wait_queue[c.thread] = c.wq /\ GoLocked({c.thread}, c.result)
       \/ wait_queue[c.thread] # c.wq /\ UNCHANGED waitVars
  /\ removing' = [removing EXCEPT ![k] = Idle]

\* clear_wait_internal of the current thread: it cannot start another wait
\* between the two lock holds, so they act as one.
ClearSelf(t, r) ==
  \/ /\ r = "INTERRUPTED" /\ Uninterruptible(t)
     /\ UNCHANGED waitVars
  \/ /\ ~(r = "INTERRUPTED" /\ Uninterruptible(t))
     /\ GoLocked({t}, r)

\* thread_abort and thread_abort_safely hold the target's activation lock
\* until their clear_wait_internal is over.
ActUnlocked(t) == \A k \in Aborter : removing[k] # Idle => removing[k].thread # t

\* act_abort of the top activation
ThreadAbort(k, t) ==
  /\ removing[k] = Idle
  /\ ActUnlocked(t)
  /\ aborting' = [aborting EXCEPT ![t] = TRUE]
  /\ ClearWaitStart(k, t, "INTERRUPTED")

\* thread_abort_safely (the way psignal interrupts a wait)
ThreadAbortSafely(k, t) ==
  /\ removing[k] = Idle
  /\ ActUnlocked(t)
  /\ AtSafePoint(t)
  /\ ClearWaitStart(k, t, "INTERRUPTED")
  /\ UNCHANGED aborting

-----------------------------------------------------------------------------
WQTypeOK ==
  /\ wait_queue \in [Thread -> WaitQ \union {NoQueue}]
  /\ wait_event \in [Thread -> Event \union {NoEvent}]
  /\ ahead \in [Thread -> SUBSET Thread]
  /\ waiting \in [Thread -> BOOLEAN]
  /\ mode \in [Thread -> Mode]
  /\ wait_result \in [Thread -> Result]
  /\ aborting \in [Thread -> BOOLEAN]
  /\ removing \in [Clearer -> Removal \union {Idle}]

\* A thread is marked waiting exactly while some queue holds it, for an event:
\* whoever posts that event there will find it, and the assertions of
\* thread_go_locked (no queue, no event) hold whichever way it is woken.
WaitingIffQueued ==
  \A t \in Thread :
    /\ waiting[t] <=> wait_queue[t] # NoQueue
    /\ waiting[t] <=> wait_event[t] # NoEvent

\* The members of a queue are in a line: of two, exactly one is ahead, and a
\* thread has nobody ahead of it that is not in its queue any more.
QueueOrder ==
  /\ \A t \in Thread : wait_queue[t] = NoQueue => ahead[t] = {}
  /\ \A t, u \in Thread :
       u \in ahead[t] => wait_queue[u] = wait_queue[t] /\ t \notin ahead[u]
  /\ \A t, u \in Thread :
       t # u /\ wait_queue[t] # NoQueue /\ wait_queue[t] = wait_queue[u]
         => t \in ahead[u] \/ u \in ahead[t]
  /\ \A t, u, v \in Thread :
       u \in ahead[t] /\ v \in ahead[u] => v \in ahead[t]

\* The result of a wait is decided once.  A thread that was woken keeps the
\* waker's result until its next assert_wait: an abort or a time-out that
\* decided earlier to clear the wait, but acts later, does not replace it.
ResultDecidedOnce ==
  [][\A t \in Thread :
       wait_result'[t] # wait_result[t] => waiting[t] # waiting'[t]]_wqVars
=============================================================================
