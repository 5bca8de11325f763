------------------------------- MODULE Semaphore -------------------------------
(***************************************************************************)
(* Mach semaphores: xnu-123.5/osfmk/kern/sync_sema.c, with the port lookup *)
(* of ipc_sync.c, over the wait queues of WaitQueue and with the wait      *)
(* timer's guarantee proved in WaitTimer (a time-out only hits the wait    *)
(* that set it).                                                           *)
(*                                                                         *)
(* A thread's operation goes through one action per lock hold of the code: *)
(* the port lookup takes a reference, the semaphore lock section waits,    *)
(* signals or deactivates, the thread blocks, and the references are       *)
(* dropped.  Any other operation, abort or time-out may come in between.   *)
(***************************************************************************)
EXTENDS WaitQueue, Integers

CONSTANTS
  SEMAPHORE_EVENT,
  MaxCount,     \* bound on stored posts
  Ops           \* the operations the threads of this instance call

Sem == WaitQ    \* each semaphore embeds its wait queue
NoSem == NoQueue

WaitOp == {"wait", "timedwait", "poll"}  \* poll: timedwait with {0, 0}
SignalOp == {"signal", "signal_all", "signal_one", "signal_thread"}
AllOps == WaitOp \union SignalOp \union {"wait_signal", "create", "destroy"}

ASSUME SemaphoreAssumption ==
  /\ SEMAPHORE_EVENT \in Event
  /\ IsFiniteSet(Thread)
  /\ MaxCount \in Nat \ {0}
  /\ Ops \subseteq AllOps

VARIABLES
  count, active, owned, ref_count,   \* the semaphore's fields (owned: owner set)
  port,                              \* its port is active and names it
  pc,                                \* where each thread is
  op,                                \* its operation: name and semaphores
  kr,                                \* the value it is about to return
  timer_set,                         \* its wait timer is armed
  token,                             \* history: the operation consumed a post
  posted                             \* history: the operations that made one

semVars == <<count, active, owned, port>>
vars == <<wqVars, semVars, ref_count, pc, op, kr, timer_set, token, posted>>

Return == {"SUCCESS", "TERMINATED", "TIMED_OUT", "ABORTED", "NOT_WAITING",
           "INVALID", "ALREADY_WAITING", "NONE"}
OpRecord == [name : AllOps \union {"none"}, wait : Sem \union {NoSem},
             signal : Sem \union {NoSem}]
NoOp == [name |-> "none", wait |-> NoSem, signal |-> NoSem]

Init ==
  /\ WQInit
  /\ count \in [Sem -> 0 .. MaxCount]
  /\ active = [s \in Sem |-> TRUE]
  /\ owned = [s \in Sem |-> TRUE]
  /\ port = [s \in Sem |-> TRUE]
  /\ ref_count = [s \in Sem |-> 1]
  /\ pc = [t \in Thread |-> "user"]
  /\ op = [t \in Thread |-> NoOp]
  /\ kr = [t \in Thread |-> "NONE"]
  /\ timer_set = [t \in Thread |-> FALSE]
  /\ token = [t \in Thread |-> FALSE]
  /\ posted = {}

Goto(t, l) == pc' = [pc EXCEPT ![t] = l]
SetKr(t, v) == kr' = [kr EXCEPT ![t] = v]

\* History: a thread woken with THREAD_AWAKENED was given a post.
GrantWoken == token' = [t \in Thread |->
  token[t] \/ (waiting[t] /\ ~waiting'[t] /\ wait_result'[t] = "AWAKENED")]

-----------------------------------------------------------------------------
\* semaphore_create
Create(s, v) ==
  /\ "create" \in Ops
  /\ ref_count[s] = 0
  /\ count' = [count EXCEPT ![s] = v]
  /\ active' = [active EXCEPT ![s] = TRUE]
  /\ owned' = [owned EXCEPT ![s] = TRUE]
  /\ port' = [port EXCEPT ![s] = TRUE]
  /\ ref_count' = [ref_count EXCEPT ![s] = 1]
  /\ UNCHANGED <<wqVars, pc, op, kr, timer_set, token, posted>>

\* port_name_to_semaphore finds s and references it for thread t
Reference(s) ==
  /\ port[s]
  /\ ref_count' = [ref_count EXCEPT ![s] = @ + 1]

\* semaphore_wait_trap, semaphore_timedwait_trap
StartWait(t, o, w) ==
  /\ pc[t] = "user"
  /\ o \in Ops \intersect WaitOp
  /\ Reference(w)
  /\ op' = [op EXCEPT ![t] = [name |-> o, wait |-> w, signal |-> NoSem]]
  /\ Goto(t, "wait")
  /\ UNCHANGED <<wqVars, semVars, kr, timer_set, token, posted>>

\* semaphore_wait_signal_trap and its timed variants: the semaphore to signal
\* is looked up first ...
StartWaitSignal(t, o, w, s) ==
  /\ pc[t] = "user"
  /\ "wait_signal" \in Ops /\ o \in Ops \intersect WaitOp
  /\ Reference(s)
  /\ op' = [op EXCEPT ![t] = [name |-> o, wait |-> w, signal |-> s]]
  /\ Goto(t, "lookup")
  /\ UNCHANGED <<wqVars, semVars, kr, timer_set, token, posted>>

\* ... then the one to wait for; if it is gone the first one is released
LookupWait(t) ==
  /\ pc[t] = "lookup"
  /\ \/ /\ Reference(op[t].wait)
        /\ Goto(t, "wait")
        /\ UNCHANGED <<op, kr>>
     \/ /\ ~port[op[t].wait]
        /\ ref_count' = [ref_count EXCEPT ![op[t].signal] = @ - 1]
        /\ op' = [op EXCEPT ![t] = NoOp]
        /\ SetKr(t, "NONE")             \* the lookup's error is returned
        /\ Goto(t, "user")
  /\ UNCHANGED <<wqVars, semVars, timer_set, token, posted>>

\* Where semaphore_wait_internal goes after its first lock section
AfterWait(t, v) ==
  /\ SetKr(t, v)
  /\ Goto(t, IF op[t].signal # NoSem THEN "signal2"
             ELSE IF v = "ALREADY_WAITING" THEN "arm" ELSE "release")

\* semaphore_wait_internal under the wait semaphore's lock
WaitDead(t) ==
  /\ pc[t] = "wait"
  /\ ~active[op[t].wait]
  /\ AfterWait(t, "TERMINATED")
  /\ UNCHANGED <<wqVars, semVars, ref_count, op, timer_set, token, posted>>

WaitTake(t) ==
  LET s == op[t].wait IN
  /\ pc[t] = "wait"
  /\ active[s] /\ count[s] > 0
  /\ count' = [count EXCEPT ![s] = @ - 1]
  /\ token' = [token EXCEPT ![t] = TRUE]
  /\ AfterWait(t, "SUCCESS")
  /\ UNCHANGED <<wqVars, active, owned, port, ref_count, op, timer_set, posted>>

WaitPoll(t) ==
  LET s == op[t].wait IN
  /\ pc[t] = "wait"
  /\ active[s] /\ count[s] <= 0
  /\ op[t].name = "poll"
  /\ AfterWait(t, "TIMED_OUT")
  /\ UNCHANGED <<wqVars, semVars, ref_count, op, timer_set, token, posted>>

WaitAssert(t) ==
  LET s == op[t].wait IN
  /\ pc[t] = "wait"
  /\ active[s] /\ count[s] <= 0
  /\ op[t].name # "poll"
  /\ count' = [count EXCEPT ![s] = -1]
  /\ AssertWaitLocked(t, s, SEMAPHORE_EVENT, "ABORTSAFE")
  /\ AfterWait(t, "ALREADY_WAITING")
  /\ UNCHANGED <<aborting, removing, active, owned, port, ref_count, op,
                 timer_set, token, posted>>

-----------------------------------------------------------------------------
(* semaphore_signal_internal: the lock section of each kind of signal.     *)
(* `v' is what it makes its caller return.                                 *)

SignalDead(s, v) ==
  /\ ~active[s]
  /\ v = "TERMINATED"
  /\ UNCHANGED <<count, waitVars, token>>

SignalThread(s, target, v) ==
  /\ active[s]
  /\ \/ /\ count[s] < 0
        /\ WakeupThreadLocked(s, SEMAPHORE_EVENT, target, "AWAKENED")
        /\ GrantWoken
        /\ v = "SUCCESS"
     \/ /\ ~(count[s] < 0 /\ target \in Waiters(s, SEMAPHORE_EVENT))
        /\ v = "NOT_WAITING"
        /\ UNCHANGED <<waitVars, token>>
  /\ UNCHANGED count

SignalAll(s, v) ==
  /\ active[s]
  /\ v = "SUCCESS"
  /\ \/ /\ count[s] < 0
        /\ count' = [count EXCEPT ![s] = 0]
        /\ WakeupAllLocked(s, SEMAPHORE_EVENT, "AWAKENED")
        /\ GrantWoken
     \/ /\ count[s] >= 0
        /\ UNCHANGED <<count, waitVars, token>>

\* Mutant: forgets that -1 is only a mark and adds the post to it
SignalOneNoReset(s, prepost, v) ==
  /\ active[s]
  /\ \/ /\ count[s] < 0
        /\ \E u \in Thread : WakeupOneLocked(s, SEMAPHORE_EVENT, u, "AWAKENED")
        /\ GrantWoken
        /\ v = "SUCCESS"
        /\ UNCHANGED count
     \/ /\ ~(count[s] < 0 /\ Waiters(s, SEMAPHORE_EVENT) # {})
        /\ v = (IF prepost THEN "SUCCESS" ELSE "NOT_WAITING")
        /\ prepost => count[s] < MaxCount
        /\ count' = [count EXCEPT ![s] = @ + (IF prepost THEN 1 ELSE 0)]
        /\ UNCHANGED <<waitVars, token>>

\* Mutant: the last waiter's wake-up also resets the count
SignalOneResets(s, prepost, v) ==
  /\ active[s]
  /\ \/ /\ count[s] < 0
        /\ \E u \in Thread : WakeupOneLocked(s, SEMAPHORE_EVENT, u, "AWAKENED")
        /\ GrantWoken
        /\ v = "SUCCESS"
        /\ count' = [count EXCEPT ![s] = 0]
     \/ /\ ~(count[s] < 0 /\ Waiters(s, SEMAPHORE_EVENT) # {})
        /\ v = (IF prepost THEN "SUCCESS" ELSE "NOT_WAITING")
        /\ prepost => count[s] < MaxCount
        /\ count' = [count EXCEPT ![s] = (IF @ < 0 THEN 0 ELSE @)
                                         + (IF prepost THEN 1 ELSE 0)]
        /\ UNCHANGED <<waitVars, token>>

\* One waiter, or the post is stored if the caller asked for it.  A count of
\* -1 whose waiters have all gone (aborted, timed out) is first reset.
SignalOne(s, prepost, v) ==
  /\ active[s]
  /\ \/ /\ count[s] < 0
        /\ \E u \in Thread : WakeupOneLocked(s, SEMAPHORE_EVENT, u, "AWAKENED")
        /\ GrantWoken
        /\ v = "SUCCESS"
        /\ UNCHANGED count
     \/ /\ ~(count[s] < 0 /\ Waiters(s, SEMAPHORE_EVENT) # {})
        /\ v = (IF prepost THEN "SUCCESS" ELSE "NOT_WAITING")
        /\ prepost => count[s] < MaxCount
        /\ count' = [count EXCEPT ![s] = (IF @ < 0 THEN 0 ELSE @)
                                         + (IF prepost THEN 1 ELSE 0)]
        /\ UNCHANGED <<waitVars, token>>

\* semaphore_convert_wait_result
Convert(r) ==
  CASE r = "AWAKENED" -> "SUCCESS"
    [] r = "TIMED_OUT" -> "TIMED_OUT"
    [] r = "INTERRUPTED" -> "ABORTED"
    [] r = "RESTART" -> "TERMINATED"

\* semaphore_wait_internal signals its signal_semaphore, having unlocked the
\* other one; it will not block if it had nothing to wait for ...
SignalSecond(t) ==
  /\ pc[t] = "signal2"
  /\ \E v \in Return : SignalOne(op[t].signal, TRUE, v)
  /\ posted' = posted \union {t}
  /\ Goto(t, IF kr[t] = "ALREADY_WAITING" THEN "arm" ELSE "release")
  /\ UNCHANGED <<aborting, removing, active, owned, port, ref_count, op, kr,
                 timer_set>>

\* ... and if that semaphore is dead it leaves the wait it may have asserted
\* and returns whatever wait_result then says.
SignalSecondDead(t) ==
  /\ pc[t] = "signal2"
  /\ ~active[op[t].signal]
  /\ ClearSelf(t, "INTERRUPTED")
  /\ GrantWoken
  /\ SetKr(t, IF Convert(wait_result'[t]) = "ABORTED" THEN "TERMINATED"
                                                      ELSE Convert(wait_result'[t]))
  /\ Goto(t, "release")
  /\ UNCHANGED <<aborting, removing, semVars, ref_count, op, timer_set, posted>>

\* Mutant: arms the timer for a wait that is over instead of one that is not
ArmInverted(t) ==
  /\ pc[t] = "arm"
  /\ timer_set' = [timer_set EXCEPT ![t] = op[t].name = "timedwait" /\ ~waiting[t]]
  /\ Goto(t, "block")
  /\ UNCHANGED <<wqVars, semVars, ref_count, op, kr, token, posted>>

\* thread_set_timer_deadline, if it is a timed wait and nobody came first
Arm(t) ==
  /\ pc[t] = "arm"
  /\ timer_set' = [timer_set EXCEPT ![t] = op[t].name = "timedwait" /\ waiting[t]]
  /\ Goto(t, "block")
  /\ UNCHANGED <<wqVars, semVars, ref_count, op, kr, token, posted>>

\* thread_block
Block(t) ==
  /\ pc[t] = "block"
  /\ \/ aborting[t] /\ ClearSelf(t, "INTERRUPTED")
     \/ ~aborting[t] /\ UNCHANGED waitVars
  /\ Goto(t, "blocked")
  /\ UNCHANGED <<aborting, removing, semVars, ref_count, op, kr, timer_set, token, posted>>

\* Mutant: cancels the timer without waiting for the wake_lock
WakeNoCancelLock(t) ==
  /\ pc[t] = "blocked"
  /\ ~waiting[t]
  /\ timer_set' = [timer_set EXCEPT ![t] = FALSE]
  /\ SetKr(t, Convert(wait_result[t]))
  /\ Goto(t, "release")
  /\ UNCHANGED <<wqVars, semVars, ref_count, op, token, posted>>

\* thread_block returns (semaphore_wait_continue, semaphore_timedwait_continue
\* or the code after it): thread_cancel_timer needs the wake_lock, which an
\* expiration of this thread's timer holds across its clear_wait_internal.
Wake(t) ==
  /\ pc[t] = "blocked"
  /\ ~waiting[t]
  /\ op[t].name = "timedwait" => removing[t] = Idle
  /\ timer_set' = [timer_set EXCEPT ![t] = FALSE]
  /\ SetKr(t, Convert(wait_result[t]))
  /\ Goto(t, "release")
  /\ UNCHANGED <<wqVars, semVars, ref_count, op, token, posted>>

\* The references thread t holds through its operation
HoldsWait(t, s) == pc[t] \notin {"user", "lookup"} /\ op[t].wait = s
HoldsSignal(t, s) == pc[t] # "user" /\ op[t].signal = s
Holds(t, s) == (IF HoldsWait(t, s) THEN 1 ELSE 0)
             + (IF HoldsSignal(t, s) THEN 1 ELSE 0)

\* Mutant: forgets the signal semaphore's reference
ReleaseWaitOnly(t) ==
  /\ pc[t] = "release"
  /\ ref_count' = [s \in Sem |-> ref_count[s] - (IF HoldsWait(t, s) THEN 1 ELSE 0)]
  /\ op' = [op EXCEPT ![t] = NoOp]
  /\ token' = [token EXCEPT ![t] = FALSE]
  /\ posted' = posted \ {t}
  /\ aborting' = [aborting EXCEPT ![t] = FALSE]
  /\ SetKr(t, "NONE")
  /\ Goto(t, "user")
  /\ UNCHANGED <<waitVars, removing, semVars, timer_set>>

\* semaphore_dereference of what the operation holds, and back to user mode
\* through special_handler, which forgets a thread_abort
Release(t) ==
  /\ pc[t] = "release"
  /\ ref_count' = [s \in Sem |-> ref_count[s] - Holds(t, s)]
  /\ op' = [op EXCEPT ![t] = NoOp]
  /\ token' = [token EXCEPT ![t] = FALSE]
  /\ posted' = posted \ {t}
  /\ aborting' = [aborting EXCEPT ![t] = FALSE]
  /\ SetKr(t, "NONE")
  /\ Goto(t, "user")
  /\ UNCHANGED <<waitVars, removing, semVars, timer_set>>

-----------------------------------------------------------------------------
\* semaphore_signal_trap, semaphore_signal_all_trap and
\* semaphore_signal_thread_trap (without a thread: signal_one)
StartSignal(t, o, s) ==
  /\ pc[t] = "user"
  /\ o \in Ops \intersect SignalOp
  /\ Reference(s)
  /\ op' = [op EXCEPT ![t] = [name |-> o, wait |-> NoSem, signal |-> s]]
  /\ Goto(t, "signal")
  /\ UNCHANGED <<wqVars, semVars, kr, timer_set, token, posted>>

Signal(t) ==
  /\ pc[t] = "signal"
  /\ \E v \in Return :
       /\ LET s == op[t].signal IN
            \/ SignalDead(s, v)
            \/ op[t].name = "signal" /\ SignalOne(s, TRUE, v)
            \/ op[t].name = "signal_one" /\ SignalOne(s, FALSE, v)
            \/ op[t].name = "signal_all" /\ SignalAll(s, v)
            \/ /\ op[t].name = "signal_thread"
               /\ \E target \in Thread : SignalThread(s, target, v)
       /\ SetKr(t, v)
       /\ posted' = IF op[t].name = "signal" /\ v = "SUCCESS"
                      THEN posted \union {t} ELSE posted
  /\ Goto(t, "release")
  /\ UNCHANGED <<aborting, removing, active, owned, port, ref_count, op, timer_set>>

-----------------------------------------------------------------------------
\* The semaphore_destroy call converts the port to a referenced semaphore
StartDestroy(t, s) ==
  /\ pc[t] = "user"
  /\ "destroy" \in Ops
  /\ Reference(s)
  /\ op' = [op EXCEPT ![t] = [name |-> "destroy", wait |-> NoSem, signal |-> s]]
  /\ Goto(t, "disown")
  /\ UNCHANGED <<wqVars, semVars, kr, timer_set, token, posted>>

\* Under the task lock: only one caller disowns it
Disown(t) ==
  /\ pc[t] = "disown"
  /\ \/ /\ owned[op[t].signal]
        /\ owned' = [owned EXCEPT ![op[t].signal] = FALSE]
        /\ Goto(t, "deactivate")
        /\ UNCHANGED kr
     \/ /\ ~owned[op[t].signal]
        /\ SetKr(t, "INVALID")
        /\ Goto(t, "release")
        /\ UNCHANGED owned
  /\ UNCHANGED <<wqVars, count, active, port, ref_count, op, timer_set, token, posted>>

\* Mutant: wakes the waiters but forgets to refuse later ones
DeactivateNotMarked(t) ==
  LET s == op[t].signal IN
  /\ pc[t] = "deactivate"
  /\ count' = [count EXCEPT ![s] = 0]
  /\ \/ count[s] < 0 /\ WakeupAllLocked(s, SEMAPHORE_EVENT, "RESTART")
     \/ count[s] >= 0 /\ UNCHANGED waitVars
  /\ Goto(t, "dealloc")
  /\ UNCHANGED <<aborting, removing, active, owned, port, ref_count, op, kr,
                 timer_set, token, posted>>

\* Mutant: clears the mark before it looks whether there are waiters
DeactivateNoWakeup(t) ==
  LET s == op[t].signal IN
  /\ pc[t] = "deactivate"
  /\ active' = [active EXCEPT ![s] = FALSE]
  /\ count' = [count EXCEPT ![s] = 0]
  /\ Goto(t, "dealloc")
  /\ UNCHANGED <<wqVars, owned, port, ref_count, op, kr, timer_set, token, posted>>

\* Under the semaphore lock
Deactivate(t) ==
  LET s == op[t].signal IN
  /\ pc[t] = "deactivate"
  /\ active' = [active EXCEPT ![s] = FALSE]
  /\ count' = [count EXCEPT ![s] = 0]
  /\ \/ count[s] < 0 /\ WakeupAllLocked(s, SEMAPHORE_EVENT, "RESTART")
     \/ count[s] >= 0 /\ UNCHANGED waitVars
  /\ Goto(t, "dealloc")
  /\ UNCHANGED <<aborting, removing, owned, port, ref_count, op, kr, timer_set, token, posted>>

\* ipc_port_dealloc_kernel: lookups fail from here on
DeallocPort(t) ==
  /\ pc[t] = "dealloc"
  /\ port' = [port EXCEPT ![op[t].signal] = FALSE]
  /\ Goto(t, "drop")
  /\ UNCHANGED <<wqVars, count, active, owned, ref_count, op, kr, timer_set, token, posted>>

\* semaphore_dereference of the reference semaphore_create left
DropCreation(t) ==
  /\ pc[t] = "drop"
  /\ ref_count' = [ref_count EXCEPT ![op[t].signal] = @ - 1]
  /\ SetKr(t, "SUCCESS")
  /\ Goto(t, "release")
  /\ UNCHANGED <<wqVars, semVars, op, timer_set, token, posted>>

-----------------------------------------------------------------------------
(* Aborts and time-outs                                                    *)

others == <<semVars, ref_count, pc, op, kr, timer_set, posted>>

Abort(k, t) == ThreadAbort(k, t) /\ GrantWoken /\ UNCHANGED others
AbortSafely(k, t) == ThreadAbortSafely(k, t) /\ GrantWoken /\ UNCHANGED others

\* special_handler takes the nudge of an abort in user mode
SpecialHandler(t) ==
  /\ pc[t] = "user"
  /\ aborting[t]
  /\ aborting' = [aborting EXCEPT ![t] = FALSE]
  /\ UNCHANGED <<waitVars, removing, others, token>>

\* thread_timer_expire of the timer thread t has set, up to the point where
\* clear_wait_internal drops the thread lock
Timeout(t) ==
  /\ timer_set[t]
  /\ removing[t] = Idle
  /\ timer_set' = [timer_set EXCEPT ![t] = FALSE]
  /\ ClearWaitStart(t, t, "TIMED_OUT")
  /\ UNCHANGED <<aborting, semVars, ref_count, pc, op, kr, token, posted>>

FinishClear(k) ==
  ClearWaitFinish(k) /\ GrantWoken /\ UNCHANGED <<aborting, others>>

Wait(t) == WaitDead(t) \/ WaitTake(t) \/ WaitPoll(t) \/ WaitAssert(t)

Start(t) ==
  \E s \in Sem : \/ \E o \in WaitOp : StartWait(t, o, s)
                 \/ \E o \in WaitOp, w \in Sem : StartWaitSignal(t, o, w, s)
                 \/ \E o \in SignalOp : StartSignal(t, o, s)
                 \/ StartDestroy(t, s)

\* What a thread inside the kernel does next
Step(t) ==
  \/ LookupWait(t) \/ Wait(t) \/ SignalSecond(t) \/ SignalSecondDead(t)
  \/ Arm(t) \/ Block(t) \/ Wake(t) \/ Release(t) \/ Signal(t)
  \/ Disown(t) \/ Deactivate(t) \/ DeallocPort(t) \/ DropCreation(t)

Next ==
  \/ \E t \in Thread : Start(t) \/ Step(t) \/ Timeout(t) \/ SpecialHandler(t)
  \/ \E k \in Aborter, t \in Thread : Abort(k, t) \/ AbortSafely(k, t)
  \/ \E k \in Clearer : FinishClear(k)
  \/ \E s \in Sem, v \in 0 .. MaxCount : Create(s, v)

Spec == Init /\ [][Next]_vars

-----------------------------------------------------------------------------
Label == {"user", "lookup", "wait", "signal2", "arm", "block", "blocked", "release",
          "signal", "disown", "deactivate", "dealloc", "drop"}

TypeOK ==
  /\ WQTypeOK
  /\ count \in [Sem -> -1 .. MaxCount]
  /\ active \in [Sem -> BOOLEAN]
  /\ owned \in [Sem -> BOOLEAN]
  /\ port \in [Sem -> BOOLEAN]
  /\ ref_count \in [Sem -> Nat]
  /\ pc \in [Thread -> Label]
  /\ op \in [Thread -> OpRecord]
  /\ kr \in [Thread -> Return]
  /\ timer_set \in [Thread -> BOOLEAN]
  /\ token \in [Thread -> BOOLEAN]
  /\ posted \subseteq Thread

\* Whoever waits is announced: while a thread is on a semaphore's queue the
\* semaphore is active and its count is the -1 that makes the next signal look
\* at the queue instead of storing the post, however many waiters were granted,
\* aborted or timed out since the mark was set.
WaitersSeen ==
  \A s \in Sem : Members(s) # {} => active[s] /\ count[s] = -1

\* assert(semaphore->active) in semaphore_destroy: of racing destroyers only
\* one gets past the owner check, and it finds the semaphore active.
DestroyedOnce ==
  \A t \in Thread : pc[t] = "deactivate" =>
    /\ active[op[t].signal]
    /\ \A u \in Thread \ {t} : op[u].signal = op[t].signal =>
                                pc[u] \notin {"deactivate", "dealloc", "drop"}

\* The reference of semaphore_create, until semaphore_destroy drops it
Creation(s) ==
  IF port[s] \/ \E t \in Thread : pc[t] = "drop" /\ op[t].signal = s THEN 1 ELSE 0

\* ref_count is the creation reference plus those of the operations in
\* progress: no path (lookup failure, dead semaphore, block at a continuation,
\* second destroy) leaks a reference or drops one twice.
ReferencesCounted ==
  /\ TypeOK
  /\ DestroyedOnce
  /\ \A s \in Sem :
    ref_count[s] = Creation(s) + Cardinality({t \in Thread : HoldsWait(t, s)})
                               + Cardinality({t \in Thread : HoldsSignal(t, s)})

\* assert(wait_queue_empty) where semaphore_dereference frees the semaphore;
\* no port names it and no timer is about to take its queue lock.
FreedIsUnused ==
  \A s \in Sem : ref_count[s] = 0 =>
    /\ Members(s) = {}
    /\ ~port[s] /\ ~active[s]
    /\ \A t \in Thread : removing[t] # Idle => removing[t].wq # s

\* A wait returns KERN_SUCCESS exactly when it consumed a post, whatever abort,
\* time-out, destruction or second signal raced with it: no post is swallowed
\* by a wait that reports failure and no wait succeeds without one.  ("return
\* that (most important) result" in semaphore_wait_internal.)
SuccessIffGranted ==
  \A t \in Thread :
    pc[t] = "release" /\ op[t].name \in WaitOp => (kr[t] = "SUCCESS") = token[t]

\* KERN_OPERATION_TIMED_OUT is returned by timed calls only: the expiration of
\* an earlier wait of the thread, still inside clear_wait_internal, does not
\* end a later wait on the same semaphore.
TimedOutOnlyIfTimed ==
  \A t \in Thread :
    /\ pc[t] = "release" /\ kr[t] = "TIMED_OUT" => op[t].name \in {"timedwait", "poll"}
    /\ removing[t] # Idle => op[t].name = "timedwait" /\ op[t].wait = removing[t].wq

\* "If this is the last reference, the semaphore data structure is
\* deallocated": then nobody may still be about to lock the queue inside it.
NoAbortAfterFree ==
  \A k \in Aborter : removing[k] # Idle => ref_count[removing[k].wq] > 0

-----------------------------------------------------------------------------
(* The contract this implements                                            *)

Contract == INSTANCE SemaphoreContract WITH
  value   <- [s \in Sem |-> IF count[s] > 0 THEN count[s] ELSE 0],
  waiters <- [s \in Sem |-> Members(s)],
  alive   <- {s \in Sem : active[s]},
  granted <- {t \in Thread : token[t]}

\* sync_sema.c implements the abstract semaphore: the -1 mark, the queue order,
\* the two-step removals and the references are invisible.
ImplementsContract == Contract!Spec

-----------------------------------------------------------------------------
(* Liveness: a thread inside the kernel that can run does, armed timers run*)
(* out and a context inside clear_wait_internal gets the locks.  Nobody has*)
(* to signal, and user code need not call anything.                        *)

Fairness ==
  /\ \A t \in Thread : WF_vars(Step(t)) /\ WF_vars(Timeout(t))
  /\ \A k \in Clearer : WF_vars(FinishClear(k))

FairSpec == Spec /\ Fairness

\* No thread stays blocked on a semaphore that semaphore_destroy has
\* deactivated, even if it was on its way into the wait at that moment.
DestroyReleasesWaiters ==
  \A t \in Thread, s \in Sem :
    (pc[t] # "user" /\ op[t].wait = s /\ ~active[s]) ~> (pc[t] = "user")

\* semaphore_timedwait returns even if nobody signals, also when it signals a
\* second semaphore first.
TimedWaitReturns ==
  \A t \in Thread : (op[t].name \in {"timedwait", "poll"}) ~> (pc[t] = "user")
=============================================================================
