------------------------------ MODULE ThreadWait ------------------------------
(***************************************************************************)
(* Event waits in the kernel (sched_prim.c): assert_wait, thread_block,    *)
(* thread_wakeup_prim, and thread_abort / thread_abort_safely from         *)
(* thread_act.c, over the hashed wait queues.                              *)
(***************************************************************************)
EXTENDS WaitQueue

CONSTANTS wait_hash,    \* wait_hash(event): the bucket an event is kept in
          WaitMode,     \* the interruptibilities the waiting code asks for
          WakeResult    \* the results the waking code passes

ASSUME ThreadWaitAssumption ==
  /\ wait_hash \in [Event -> WaitQ]
  /\ WaitMode \subseteq Mode
  /\ WakeResult \subseteq Result

VARIABLE place            \* running, asserted (about to block) or blocked

eventVars == <<wqVars, place>>

WaitInit == WQInit /\ place = [t \in Thread |-> "running"]

\* assert_wait
assert_wait(t, e, m) ==
  /\ place[t] = "running"
  /\ place' = [place EXCEPT ![t] = "asserted"]
  /\ AssertWaitLocked(t, wait_hash[e], e, m)
  /\ UNCHANGED <<aborting, removing>>

\* Mutant: does not look at TH_ABORT
BlockIgnoresAbort(t) ==
  /\ place[t] = "asserted"
  /\ place' = [place EXCEPT ![t] = "blocked"]
  /\ UNCHANGED wqVars

\* thread_block: an abort that came before the wait ends it now
Block(t) ==
  /\ place[t] = "asserted"
  /\ place' = [place EXCEPT ![t] = "blocked"]
  /\ \/ aborting[t] /\ ClearSelf(t, "INTERRUPTED")
     \/ ~aborting[t] /\ UNCHANGED waitVars
  /\ UNCHANGED <<aborting, removing>>

\* thread_block returns
Resume(t) ==
  /\ place[t] = "blocked"
  /\ ~waiting[t]
  /\ place' = [place EXCEPT ![t] = "running"]
  /\ UNCHANGED wqVars

\* special_handler on the way back to user mode
SpecialHandler(t) ==
  /\ place[t] = "running"
  /\ aborting[t]
  /\ aborting' = [aborting EXCEPT ![t] = FALSE]
  /\ UNCHANGED <<waitVars, removing, place>>

\* thread_wakeup_prim with one_thread, when somebody waits for e
WakeupOne(e, r) ==
  /\ \E t \in Thread : WakeupOneLocked(wait_hash[e], e, t, r)
  /\ UNCHANGED <<aborting, removing, place>>

\* thread_wakeup_prim without one_thread, when somebody waits for e
WakeupAll(e, r) ==
  /\ Waiters(wait_hash[e], e) # {}
  /\ WakeupAllLocked(wait_hash[e], e, r)
  /\ UNCHANGED <<aborting, removing, place>>

Abort(k, t) == ThreadAbort(k, t) /\ UNCHANGED place
AbortSafely(k, t) == ThreadAbortSafely(k, t) /\ UNCHANGED place
FinishClear(k) == ClearWaitFinish(k) /\ UNCHANGED <<aborting, place>>

WaitNext ==
  \/ \E t \in Thread : \/ \E e \in Event, m \in WaitMode : assert_wait(t, e, m)
                       \/ Block(t) \/ Resume(t) \/ SpecialHandler(t)
  \/ \E e \in Event, r \in WakeResult : WakeupOne(e, r) \/ WakeupAll(e, r)
  \/ \E k \in Aborter : \/ \E t \in Thread : Abort(k, t) \/ AbortSafely(k, t)
                        \/ FinishClear(k)

WaitSpec == WaitInit /\ [][WaitNext]_eventVars

\* Runnable threads run and a context inside clear_wait_internal finishes;
\* nobody has to post an event.
WaitFairness ==
  /\ \A t \in Thread : WF_eventVars(Block(t)) /\ WF_eventVars(Resume(t))
  /\ \A k \in Aborter : WF_eventVars(FinishClear(k))

WaitFairSpec == WaitSpec /\ WaitFairness

-----------------------------------------------------------------------------
WaitTypeOK == WQTypeOK /\ place \in [Thread -> {"running", "asserted", "blocked"}]

\* A thread that runs is on no wait queue, so its next assert_wait is possible
\* (assert(assert_wait_possible())).
RunningIsFree == \A t \in Thread : place[t] = "running" => ~waiting[t]

\* The inductive invariant of event waits.
WaitInv == WaitTypeOK /\ WaitingIffQueued /\ QueueOrder /\ RunningIsFree

\* thread_abort is not lost: wherever it finds the target (running, between
\* assert_wait and thread_block, blocked, just woken and about to wait again),
\* the target does not stay blocked in an interruptible wait.
AbortNotLost ==
  \A t \in Thread :
    (aborting[t] /\ place[t] = "blocked" /\ ~Uninterruptible(t)) ~> (place[t] # "blocked")

\* clear_wait_internal: "NEVER interrupt an uninterruptible thread."
NeverInterruptUninterruptible ==
  [][\A t \in Thread :
       Uninterruptible(t) /\ ~waiting'[t] => wait_result'[t] # "INTERRUPTED"]_eventVars
=============================================================================
