------------------------------- MODULE WaitTimer -------------------------------
(***************************************************************************)
(* The wait timer of one kernel thread: xnu-123.5/osfmk/kern/sched_prim.c  *)
(* (thread_set_timer_deadline, thread_cancel_timer, thread_timer_expire,   *)
(* thread_timer_terminate) over the timer call of timer_call.c.            *)
(*                                                                         *)
(* A timer call is taken off its per-CPU queue by timer_call_interrupt     *)
(* BEFORE its function runs, and the function needs the thread's wake_lock,*)
(* so an expiration can be "in flight" on a CPU while the thread is woken  *)
(* by somebody else, cancels the timer, starts another wait and sets the   *)
(* same timer again.  wait_timer_active counts what can still touch the    *)
(* thread; thread_timer_terminate frees the thread when it reaches zero.   *)
(*                                                                         *)
(* Each action is one critical section under wake_lock (Expire, SetTimer,  *)
(* Return, the terminate loop) or timer_call_lock (TimerInterrupt).  The   *)
(* two-lock sections stay atomic: while wake_lock is held the only foreign *)
(* step on the call is the dequeue, which commutes to the section's end.   *)
(***************************************************************************)
EXTENDS Naturals, FiniteSets

CONSTANTS CPU,      \* the processors, each with its own delayed-call queue
          MaxTime   \* the last instant of the bounded clock

ASSUME CPUAssumption == IsFiniteSet(CPU) /\ CPU # {}
ASSUME MaxTimeAssumption == MaxTime \in Nat

VARIABLES
  now,                \* absolute time
  call_state,         \* state of thread->wait_timer: IDLE or DELAYED
  call_cpu,           \* whose delayed_call_queue holds it when DELAYED
  deadline,           \* call->deadline
  expiring,           \* CPUs between the dequeue and thread_timer_expire's lock
  wait_timer_is_set,
  wait_timer_active,
  pc,                 \* where the thread is in its wait protocol
  waiting,            \* thread->state & TH_WAIT
  wait_result,
  timed               \* this wait called thread_set_timer_deadline

vars == <<now, call_state, call_cpu, deadline, expiring, wait_timer_is_set,
          wait_timer_active, pc, waiting, wait_result, timed>>

callVars  == <<call_state, call_cpu, deadline>>
timerVars == <<wait_timer_is_set, wait_timer_active>>
waitVars  == <<pc, waiting, wait_result, timed>>

Time == 0 .. MaxTime
WakeResult == {"AWAKENED", "INTERRUPTED", "RESTART"}  \* what a waker may pass
Pc == {"running", "asserted", "blocked", "resumed", "draining", "gone"}

\* thread_timer_setup: the thread holds one reference on its own timer.
Init ==
  /\ now = 0
  /\ call_state = "IDLE"
  /\ call_cpu \in CPU
  /\ deadline = 0
  /\ expiring = {}
  /\ wait_timer_is_set = FALSE
  /\ wait_timer_active = 1
  /\ pc = "running"
  /\ waiting = FALSE
  /\ wait_result = "AWAKENED"
  /\ timed = FALSE

-----------------------------------------------------------------------------
(* The thread's own steps; each runs on a CPU that is not in the handler.  *)

\* thread_mark_wait_locked
AssertWait ==
  /\ pc = "running"
  /\ pc' = "asserted"
  /\ waiting' = TRUE
  /\ wait_result' = "NONE"
  /\ timed' = FALSE
  /\ UNCHANGED <<now, callVars, timerVars, expiring>>

\* thread_set_timer_deadline on CPU c: arms the timer only if nobody has
\* woken the thread since assert_wait.
SetTimer(c, d) ==
  /\ pc = "asserted"
  /\ ~timed
  /\ c \notin expiring
  /\ timed' = TRUE
  /\ \/ /\ waiting
        /\ call_state' = "DELAYED"
        /\ call_cpu' = c
        /\ deadline' = d
        /\ wait_timer_active' = wait_timer_active + 1
        /\ wait_timer_is_set' = TRUE
     \/ /\ ~waiting
        /\ UNCHANGED <<callVars, timerVars>>
  /\ UNCHANGED <<now, expiring, pc, waiting, wait_result>>

\* thread_block
Block ==
  /\ pc = "asserted"
  /\ pc' = "blocked"
  /\ UNCHANGED <<now, callVars, timerVars, expiring, waiting, wait_result, timed>>

\* thread_block returns once TH_WAIT has been cleared
Resume ==
  /\ pc = "blocked"
  /\ ~waiting
  /\ pc' = "resumed"
  /\ UNCHANGED <<now, callVars, timerVars, expiring, waiting, wait_result, timed>>

\* The body shared by thread_cancel_timer and thread_timer_terminate, with
\* the references `own' that the caller drops besides.
CancelTimer(own) ==
  /\ wait_timer_is_set' = FALSE
  /\ \/ /\ wait_timer_is_set /\ call_state = "DELAYED"
        /\ call_state' = "IDLE"
        /\ wait_timer_active' = wait_timer_active - 1 - own
     \/ /\ ~(wait_timer_is_set /\ call_state = "DELAYED")
        /\ call_state' = call_state
        /\ wait_timer_active' = wait_timer_active - own
  /\ UNCHANGED <<call_cpu, deadline>>

\* What every timed waiter does after thread_block (sync_sema.c:683): cancel
\* the timer unless the timer is what ended the wait.
Return ==
  /\ pc = "resumed"
  /\ pc' = "running"
  /\ \/ timed /\ wait_result # "TIMED_OUT" /\ CancelTimer(0)
     \/ ~(timed /\ wait_result # "TIMED_OUT") /\ UNCHANGED <<callVars, timerVars>>
  /\ UNCHANGED <<now, expiring, waiting, wait_result, timed>>

\* thread_timer_terminate up to its loop
Terminate ==
  /\ pc = "running"
  /\ pc' = "draining"
  /\ CancelTimer(1)
  /\ UNCHANGED <<now, expiring, waiting, wait_result, timed>>

\* One turn of the loop: test and assert_wait under one hold of wake_lock
TerminateWait ==
  /\ pc = "draining"
  /\ ~waiting
  /\ wait_timer_active > 0
  /\ waiting' = TRUE
  /\ wait_result' = "NONE"
  /\ UNCHANGED <<now, callVars, timerVars, expiring, pc, timed>>

\* Mutant: frees the thread without waiting for expirations in flight
TerminateNoDrain ==
  /\ pc = "draining"
  /\ ~waiting
  /\ pc' = "gone"
  /\ UNCHANGED <<now, callVars, timerVars, expiring, waiting, wait_result, timed>>

\* The loop ends and thread_deallocate may free the thread
TerminateDone ==
  /\ pc = "draining"
  /\ ~waiting
  /\ wait_timer_active = 0
  /\ pc' = "gone"
  /\ UNCHANGED <<now, callVars, timerVars, expiring, waiting, wait_result, timed>>

-----------------------------------------------------------------------------
(* Everybody else.                                                         *)

\* thread_go_locked by a waker of the thread's event
Wakeup(r) ==
  /\ pc \in {"asserted", "blocked"}
  /\ waiting
  /\ waiting' = FALSE
  /\ wait_result' = r
  /\ UNCHANGED <<now, callVars, timerVars, expiring, pc, timed>>

\* timer_call_interrupt on CPU c: dequeue, drop timer_call_lock, go to call
TimerInterrupt(c) ==
  /\ c \notin expiring
  /\ call_state = "DELAYED"
  /\ call_cpu = c
  /\ deadline <= now
  /\ call_state' = "IDLE"
  /\ expiring' = expiring \union {c}
  /\ UNCHANGED <<now, call_cpu, deadline, timerVars, waitVars>>

\* The effect of thread_timer_expire's first branch on the wait itself, and
\* mutants of the whole branch: one that does not ask timer_call_is_delayed,
\* one per assignment it could forget.
ClearWait ==
  /\ waiting' = FALSE
  /\ wait_result' = IF waiting THEN "TIMED_OUT" ELSE wait_result
  /\ UNCHANGED <<now, callVars, pc, timed>>

ExpireUnchecked(c) ==
  /\ c \in expiring
  /\ wait_timer_is_set
  /\ expiring' = expiring \ {c}
  /\ wait_timer_active' = wait_timer_active - 1
  /\ wait_timer_is_set' = FALSE
  /\ ClearWait

ExpireKeepsSet(c) ==
  /\ c \in expiring
  /\ wait_timer_is_set /\ call_state # "DELAYED"
  /\ expiring' = expiring \ {c}
  /\ wait_timer_active' = wait_timer_active - 1
  /\ ClearWait
  /\ UNCHANGED wait_timer_is_set

ExpireNoWake(c) ==
  /\ c \in expiring
  /\ wait_timer_is_set /\ call_state # "DELAYED"
  /\ expiring' = expiring \ {c}
  /\ wait_timer_active' = wait_timer_active - 1
  /\ wait_timer_is_set' = FALSE
  /\ UNCHANGED <<now, callVars, waitVars>>

\* thread_timer_expire, when the timer set now is the one that ran out
ExpireCurrent(c) ==
  /\ c \in expiring
  /\ wait_timer_is_set /\ call_state # "DELAYED"
  /\ expiring' = expiring \ {c}
  /\ wait_timer_active' = wait_timer_active - 1
  /\ wait_timer_is_set' = FALSE
  /\ ClearWait

\* Mutant: the last expiration leaves without thread_wakeup_one
ExpireStaleSilent(c) ==
  /\ c \in expiring
  /\ ~(wait_timer_is_set /\ call_state # "DELAYED")
  /\ expiring' = expiring \ {c}
  /\ wait_timer_active' = wait_timer_active - 1
  /\ UNCHANGED <<now, callVars, wait_timer_is_set, waitVars>>

\* thread_timer_expire, when the timer was cancelled or set again meanwhile:
\* the last one to leave wakes the thread draining in thread_timer_terminate
ExpireStale(c) ==
  /\ c \in expiring
  /\ ~(wait_timer_is_set /\ call_state # "DELAYED")
  /\ expiring' = expiring \ {c}
  /\ wait_timer_active' = wait_timer_active - 1
  /\ IF wait_timer_active = 1 /\ pc = "draining" /\ waiting
       THEN waiting' = FALSE /\ wait_result' = "AWAKENED"
       ELSE UNCHANGED <<waiting, wait_result>>
  /\ UNCHANGED <<now, callVars, wait_timer_is_set, pc, timed>>

Tick ==
  /\ now < MaxTime
  /\ now' = now + 1
  /\ UNCHANGED <<callVars, timerVars, expiring, waitVars>>

Thread == \/ AssertWait \/ Block \/ Resume \/ Return
          \/ Terminate \/ TerminateWait \/ TerminateDone
          \/ \E c \in CPU, d \in Time : SetTimer(c, d)

Expire(c) == ExpireCurrent(c) \/ ExpireStale(c)

Next ==
  \/ Thread
  \/ \E r \in WakeResult : Wakeup(r)
  \/ \E c \in CPU : TimerInterrupt(c) \/ Expire(c)
  \/ Tick

Spec == Init /\ [][Next]_vars

-----------------------------------------------------------------------------
TypeOK ==
  /\ now \in Time
  /\ call_state \in {"IDLE", "DELAYED"}
  /\ call_cpu \in CPU
  /\ deadline \in Time
  /\ expiring \in SUBSET CPU
  /\ wait_timer_is_set \in BOOLEAN
  /\ wait_timer_active \in Nat
  /\ pc \in Pc
  /\ waiting \in BOOLEAN
  /\ wait_result \in WakeResult \union {"NONE", "TIMED_OUT"}
  /\ timed \in BOOLEAN

\* wait_timer_active counts exactly the thread's own hold (dropped by
\* thread_timer_terminate), the queued call and every expiration in flight:
\* no path of set, cancel, expire and terminate leaks or double-drops a count.
OwnHold == IF pc \in {"draining", "gone"} THEN 0 ELSE 1
TimerAccounting ==
  wait_timer_active =
    OwnHold + (IF call_state = "DELAYED" THEN 1 ELSE 0) + Cardinality(expiring)

\* A wait is reported THREAD_TIMED_OUT only if that very wait set a timer and
\* its own deadline has passed: an expiration in flight from an earlier wait
\* never times out a later one.
TimeoutOnlyWhenDue ==
  wait_result = "TIMED_OUT" => timed /\ deadline <= now

\* assert(!thread->wait_timer_is_set) in thread_set_timer_deadline: outside a
\* timed wait the timer is neither marked set nor queued, although the waiter
\* does not cancel it after a time-out.
NoTimerBetweenWaits ==
  (pc \in {"running", "draining", "gone"} \/ ~timed)
    => ~wait_timer_is_set /\ call_state = "IDLE"

\* When thread_timer_terminate lets the thread be freed, no CPU is still about
\* to run thread_timer_expire on it and no queue holds its timer call.
NoExpireAfterFree ==
  pc = "gone" => expiring = {} /\ call_state = "IDLE"

(* The inductive invariant behind them.                                    *)

QueuedIsSet == call_state = "DELAYED" => wait_timer_is_set
DequeuedIsDue == wait_timer_is_set /\ call_state = "IDLE" => deadline <= now
TimedOutIsClear == wait_result = "TIMED_OUT" => ~wait_timer_is_set
FreedIsDrained == pc = "gone" => wait_timer_active = 0

\* Everything thread_set_timer_deadline, thread_cancel_timer,
\* thread_timer_expire and thread_timer_terminate jointly maintain: the
\* accounting, the facts that tell a current expiration from a stale one, and
\* the three safety properties above.
TimerInv ==
  /\ TypeOK
  /\ TimerAccounting
  /\ TimeoutOnlyWhenDue
  /\ NoTimerBetweenWaits
  /\ QueuedIsSet
  /\ DequeuedIsDue
  /\ TimedOutIsClear
  /\ FreedIsDrained

-----------------------------------------------------------------------------
(* Liveness.  The clock advances, an armed clock interrupts, a handler that*)
(* was entered finishes, and the scheduler runs a runnable thread.  Nobody *)
(* else is obliged to wake the thread.                                     *)

Fairness ==
  /\ WF_vars(Tick)
  /\ \A c \in CPU : WF_vars(TimerInterrupt(c)) /\ WF_vars(Expire(c))
  /\ WF_vars(Block) /\ WF_vars(Resume) /\ WF_vars(Return)
  /\ WF_vars(TerminateWait) /\ WF_vars(TerminateDone)

FairSpec == Spec /\ Fairness

\* A wait whose timer was armed does not outlive its deadline for ever, even
\* if the event it waits for never happens.
TimedWaitEnds == wait_timer_is_set ~> ~waiting

\* thread_timer_terminate does not sleep for ever: the expiration that brings
\* wait_timer_active to zero is never missed.
TerminateCompletes == (pc = "draining") ~> (pc = "gone")
=============================================================================
