------------------------------ MODULE KernProofs ------------------------------
(***************************************************************************)
(* Theorems about three components of osfmk/kern, each for every value of  *)
(* its constants:                                                          *)
(*   - event waits (ThreadWait): the wait queues stay consistent under     *)
(*     waits, wake-ups and aborts, and the result of a wait is decided     *)
(*     once;                                                               *)
(*   - lock sets (LockSet);                                                *)
(*   - thread calls (ThreadCall): the queues, the states of the entries,   *)
(*     the counts of threads, the timers and the wake-ups agree.           *)
(* The components share no variable but those of WaitQueue; no theorem     *)
(* uses the assumptions of another component.                              *)
(***************************************************************************)
EXTENDS ThreadWait, LockSet, ThreadCall, WaitQueueProofs, FunctionTheorems

-----------------------------------------------------------------------------
(***************************************************************************)
(* Event waits                                                             *)
(***************************************************************************)

PlaceType == place \in [Thread -> {"running", "asserted", "blocked"}]

\* The invariant in the form the lemmas on wait queues use.
LEMMA WaitInvParts == WaitInv <=> WQInv /\ PlaceType /\ RunningIsFree
BY DEF WaitInv, WaitTypeOK, WQInv, PlaceType

\* Every action that starts no wait keeps the invariant of the queues and ends
\* waits only; a thread goes on running only when its wait is over.
LEMMA EndingStep ==
  ASSUME WaitInv, WQInv', OnlyEnds, PlaceType',
         \A t \in Thread : place'[t] = "running" => place[t] = "running" \/ ~waiting[t]
  PROVE  WaitInv'
<1>1. RunningIsFree'
  BY WaitInvParts DEF RunningIsFree, OnlyEnds, PlaceType
<1> QED BY <1>1 DEF WaitInv, WaitTypeOK, WQInv, PlaceType

\* What a step does to the results: the body of ResultDecidedOnce
Decided ==
  \A t \in Thread : wait_result'[t] # wait_result[t] => waiting[t] # waiting'[t]

-----------------------------------------------------------------------------
\* Each action keeps WaitInv and decides no result twice.
LEMMA WaitInvStep == WaitInv /\ [WaitNext]_eventVars => WaitInv' /\ Decided
<1> SUFFICES ASSUME WaitInv, [WaitNext]_eventVars PROVE WaitInv' /\ Decided
  OBVIOUS
<1>0. WQInv /\ PlaceType /\ RunningIsFree
  BY WaitInvParts
<1>1. OnlyEnds => Decided
  BY <1>0 DEF OnlyEnds, Decided
<1>2. /\ aborting \in [Thread -> BOOLEAN]
      /\ removing \in [Clearer -> Removal \union {Idle}]
  BY <1>0 DEF WQInv, WQTypeOK
<1>3. "INTERRUPTED" \in Result
  BY DEF Result
<1>4. CASE UNCHANGED eventVars
  <2>1. UNCHANGED waitVars /\ UNCHANGED <<aborting, removing, place>>
    BY <1>4 DEF eventVars, wqVars
  <2>2. WQInv' /\ OnlyEnds
    BY <1>0, <1>2, <2>1, QuietInv
  <2> QED BY <1>0, <1>1, <2>1, <2>2, EndingStep DEF PlaceType
<1>5. ASSUME NEW t \in Thread, NEW e \in Event, NEW m \in WaitMode, assert_wait(t, e, m)
      PROVE  WaitInv' /\ Decided
  <2>1. ~waiting[t]
    BY <1>0, <1>5 DEF assert_wait, RunningIsFree
  <2>2. wait_hash[e] \in WaitQ /\ m \in Mode
    BY ThreadWaitAssumption
  <2>3. WQInv'
    BY <1>0, <1>5, <2>1, <2>2, AssertWaitInv DEF assert_wait
  <2>4. PlaceType' /\ RunningIsFree'
    BY <1>0, <1>5 DEF assert_wait, AssertWaitLocked, PlaceType, RunningIsFree, WQInv, WQTypeOK
  <2>5. Decided
    BY <1>0, <1>5, <2>1 DEF assert_wait, AssertWaitLocked, Decided, WQInv, WQTypeOK
  <2> QED BY <2>3, <2>4, <2>5 DEF WaitInv, WaitTypeOK, WQInv, PlaceType
<1>6. ASSUME NEW t \in Thread, Block(t) PROVE WaitInv' /\ Decided
  <2>1. UNCHANGED <<aborting, removing>>
    BY <1>6 DEF Block
  <2>2. CASE ClearSelf(t, "INTERRUPTED")
    <3>1. WQInv' /\ OnlyEnds
      BY <1>0, <1>3, <2>1, <2>2, ClearSelfInv
    <3> QED BY <1>0, <1>1, <1>6, <3>1, EndingStep DEF Block, PlaceType
  <2>3. CASE UNCHANGED waitVars
    <3>1. WQInv' /\ OnlyEnds
      BY <1>0, <1>2, <2>1, <2>3, QuietInv
    <3> QED BY <1>0, <1>1, <1>6, <3>1, EndingStep DEF Block, PlaceType
  <2> QED BY <1>6, <2>2, <2>3 DEF Block
<1>7. ASSUME NEW t \in Thread, Resume(t) PROVE WaitInv' /\ Decided
  <2>1. WQInv' /\ OnlyEnds
    BY <1>0, <1>2, <1>7, QuietInv DEF Resume, wqVars
  <2> QED BY <1>0, <1>1, <1>7, <2>1, EndingStep DEF Resume, PlaceType
<1>8. ASSUME NEW t \in Thread, SpecialHandler(t) PROVE WaitInv' /\ Decided
  <2>1. aborting' \in [Thread -> BOOLEAN]
    BY <1>2, <1>8 DEF SpecialHandler
  <2>2. WQInv' /\ OnlyEnds
    BY <1>0, <1>2, <1>8, <2>1, QuietInv DEF SpecialHandler
  <2> QED BY <1>0, <1>1, <1>8, <2>2, EndingStep DEF SpecialHandler, PlaceType
<1>9. ASSUME NEW e \in Event, NEW r \in WakeResult, WakeupOne(e, r) \/ WakeupAll(e, r)
      PROVE  WaitInv' /\ Decided
  <2>1. PICK S \in SUBSET Thread : GoLocked(S, r)
    <3>1. CASE WakeupOne(e, r)
      BY <3>1 DEF WakeupOne, WakeupOneLocked
    <3>2. CASE WakeupAll(e, r)
      BY <3>2 DEF WakeupAll, WakeupAllLocked, Waiters, Members
    <3> QED BY <1>9, <3>1, <3>2
  <2>2. UNCHANGED <<aborting, removing, place>> /\ r \in Result
    BY <1>9, ThreadWaitAssumption DEF WakeupOne, WakeupAll
  <2>3. WQInv' /\ OnlyEnds
    BY <1>0, <1>2, <2>1, <2>2, GoInv
  <2> QED BY <1>0, <1>1, <2>2, <2>3, EndingStep DEF PlaceType
<1>10. ASSUME NEW k \in Aborter, NEW t \in Thread, Abort(k, t) \/ AbortSafely(k, t)
       PROVE  WaitInv' /\ Decided
  <2>1. WQInv' /\ OnlyEnds
    BY <1>0, <1>10, AbortInv DEF Abort, AbortSafely
  <2> QED BY <1>0, <1>1, <1>10, <2>1, EndingStep DEF Abort, AbortSafely, PlaceType
<1>11. ASSUME NEW k \in Aborter, FinishClear(k) PROVE WaitInv' /\ Decided
  <2>1. WQInv' /\ OnlyEnds
    BY <1>0, <1>11, ClearFinishInv DEF FinishClear, Clearer
  <2> QED BY <1>0, <1>1, <1>11, <2>1, EndingStep DEF FinishClear, PlaceType
<1> QED BY <1>4, <1>5, <1>6, <1>7, <1>8, <1>9, <1>10, <1>11 DEF WaitNext

-----------------------------------------------------------------------------
\* The invariant of event waits: a thread is marked waiting exactly while a
\* bucket holds it, for an event; each bucket is in a line; a running thread is
\* on none.  So whoever posts the event finds the thread, whichever aborts and
\* wake-ups came between assert_wait and thread_block.
THEOREM WaitInvariant == WaitSpec => []WaitInv
<1>1. WaitInit => WaitInv
  BY WQInitInv, WaitInvParts DEF WaitInit, WQInit, PlaceType, RunningIsFree
<1>2. WaitInv /\ [WaitNext]_eventVars => WaitInv'
  BY WaitInvStep
<1> QED BY <1>1, <1>2, PTL DEF WaitSpec

\* A wait's result is decided once: an abort that chose its victim before the
\* thread lock was dropped does not replace the result of a wake-up that came
\* first, although clear_wait_internal acts on what it saw before.
THEOREM ResultsDecided == WaitSpec => ResultDecidedOnce
<1>1. WaitInv /\ [WaitNext]_eventVars => [Decided]_wqVars
  BY WaitInvStep
<1>2. WaitSpec => [][Decided]_wqVars
  BY <1>1, WaitInvariant, PTL DEF WaitSpec
<1> QED BY <1>2, PTL DEF ResultDecidedOnce, Decided

-----------------------------------------------------------------------------
(***************************************************************************)
(* Lock sets                                                               *)
(***************************************************************************)

Label == {"user", "enter", "test", "body", "held", "acquire_blocked", "not_holder", "transfer",
          "handoff_blocked", "accept_blocked", "deactivate", "unlock_set", "drop"}

\* The ulock's mutex is held from one test of its fields to the last use of
\* what was tested, unlike the lock set's
Locks ==
  \A t \in Thread :
    /\ ulock_lock = t <=> pc[t] \in {"held", "transfer"}
    /\ heir[t] # Nobody <=> pc[t] = "transfer"
    /\ pc[t] = "transfer" => holder = t /\ ~waiting[heir[t]]
    /\ pc[t] = "held" => holder # Nobody

\* Who waits, where and for what; an accepting thread is not the holder
Waits ==
  \A t \in Thread :
    waiting[t] =>
      /\ wait_queue[t] = Queue /\ mode[t] = "ABORTSAFE"
      /\ \/ wait_event[t] = LOCK_SET_EVENT /\ pc[t] = "acquire_blocked"
         \/ wait_event[t] = LOCK_SET_HANDOFF /\ pc[t] = "handoff_blocked"
         \/ wait_event[t] = LOCK_SET_HANDOFF /\ pc[t] = "accept_blocked" /\ holder # t

Aborts == \A k \in Aborter : removing[k] # Idle => removing[k].result = "INTERRUPTED"

\* lock_set_destroy gets to the ulock with the set deactivated, by itself or by
\* another lock_set_destroy
Deactivated == \A t \in Thread : pc[t] = "body" /\ op[t] = "destroy" => ~active

Owns(t) == holder = t \/ \E u \in Thread : heir[u] = t /\ ulock_lock = u
Handed(t) == pc[t] = "handoff_blocked" /\ ~waiting[t] /\ wait_result[t] = "AWAKENED"

\* Who thinks that it has the ulock, or will when it runs, is right; the one
\* that is releasing it thinks so no more
Ownership ==
  /\ \A t \in Thread : op[t] = "release" => ~mine[t]
  /\ active =>
       \A t \in Thread :
         /\ mine[t] => Owns(t) \/ Handed(t)
         /\ /\ pc[t] \in {"acquire_blocked", "accept_blocked"}
            /\ ~waiting[t] /\ wait_result[t] = "AWAKENED"
            => Owns(t)

\* A thread in the middle of a hand-off that has not been answered
Offering(t) == pc[t] = "handoff_blocked" /\ (waiting[t] \/ wait_result[t] = "INTERRUPTED")
Accepting(t) == pc[t] = "accept_blocked" /\ (waiting[t] \/ wait_result[t] = "INTERRUPTED")

\* The two flags of a hand-off until lock_set_destroy clears them
Meeting ==
  Intact =>
    /\ \A t \in Thread : Offering(t) => holder = t /\ ho_wait
    /\ ho_wait => \E t \in Thread : Offering(t)
    /\ \A t \in Thread : Accepting(t) => accept_wait
    /\ \A t, u \in Thread : Accepting(t) /\ Accepting(u) => t = u
    /\ \A t, u \in Thread : ~(Offering(t) /\ waiting[t] /\ Accepting(u) /\ waiting[u])
    /\ \A t \in Thread : pc[t] = "transfer" /\ op[t] = "handoff" => \A u \in Thread : ~Accepting(u)

\* The inductive invariant
LockSetInv ==
  /\ TypeOK /\ pc \in [Thread -> Label]
  /\ WaitingIffQueued /\ QueueOrder
  /\ Locks /\ Waits /\ Aborts /\ Deactivated
  /\ AcquirersSeen /\ Ownership /\ Meeting

-----------------------------------------------------------------------------
(* The cases of a step                                                     *)

\* (There is one queue.)
LEMMA QueueType == Queue \in WaitQ /\ Queue # NoQueue
<1>1. WaitQ # {}
  BY LockSetAssumption, FS_EmptySet
<1> QED BY <1>1, WaitQueueAssumption DEF Queue

HeldReturns(t) ==
  /\ pc[t] = "held"
  /\ SetLocks(Nobody, Nobody)
  /\ Return(t)
  /\ UNCHANGED <<wqVars, active, dropped, ulockVars, heir, mine>>

HeldBlocks(t) ==
  /\ pc[t] = "held" /\ holder # t
  /\ SetLocks(Nobody, Nobody)
  /\ blocked' = TRUE
  /\ AssertWait(t, LOCK_SET_EVENT)
  /\ Goto(t, "acquire_blocked")
  /\ UNCHANGED <<active, dropped, holder, ho_wait, accept_wait, heir, mine>>

\* The holder wakes w, which waits for it to release or to hand off
WakesHeir(t, w) ==
  /\ pc[t] = "body" /\ ulock_lock = Nobody /\ holder = t
  /\ \/ op[t] = "release" /\ w \in EventWaiters
     \/ op[t] = "handoff" /\ w \in HandoffWaiters
  /\ WakeHeir(t, w)

ReleaseFree(t) ==
  /\ Body(t, "release") /\ holder = t
  /\ EventWaiters = {}
  /\ blocked' = FALSE
  /\ holder' = Nobody
  /\ SetLocks(Nobody, Nobody)
  /\ Return(t)
  /\ UNCHANGED <<wqVars, active, dropped, ho_wait, accept_wait, heir, mine>>

HandoffWaits(t) ==
  /\ Body(t, "handoff") /\ holder = t
  /\ ~accept_wait \/ HandoffWaiters = {}
  /\ ho_wait' = TRUE
  /\ AssertWait(t, LOCK_SET_HANDOFF)
  /\ SetLocks(Nobody, Nobody)
  /\ Goto(t, "handoff_blocked")
  /\ UNCHANGED <<active, dropped, holder, blocked, accept_wait, heir, mine>>

\* The branches of Held, Release and Handoff, with what the wait queue's order
\* says about an unsuccessful search of it.
LEMMA NextCases ==
  ASSUME LockSetInv, [Next]_vars
  PROVE  \/ UNCHANGED vars
         \/ \E t \in Thread :
              \/ \E o \in AllOps : Call(t, o)
              \/ Enter(t) \/ TestActive(t)
              \/ AcquireFree(t) \/ AcquireHeld(t) \/ HeldReturns(t) \/ HeldBlocks(t)
              \/ AcquireResumes(t) \/ NotHolder(t) \/ NotHolderReturns(t)
              \/ \E w \in Thread : WakesHeir(t, w)
              \/ ReleaseFree(t) \/ Transfer(t) \/ HandoffWaits(t) \/ HandoffResumes(t)
              \/ AcceptRefused(t) \/ AcceptTakes(t) \/ AcceptWaits(t) \/ AcceptResumes(t)
              \/ Deactivate(t) \/ DestroyUlock(t) \/ DestroyUnlocks(t) \/ DropReference(t)
              \/ \E k \in Aborter : AbortStart(k, t)
         \/ \E k \in Aborter : AbortFinish(k)
<1>1. WQInv
  BY DEF LockSetInv, TypeOK, WQInv
<1>2. \A e : First(e) = {} => Waiters(Queue, e) = {}
  BY <1>1, QueueType, FirstExists, LockSetAssumption DEF First
<1>3. ASSUME NEW t \in Thread, Held(t) PROVE HeldReturns(t) \/ HeldBlocks(t)
  BY <1>3 DEF Held, HeldReturns, HeldBlocks, ulockVars
<1>4. ASSUME NEW t \in Thread, Release(t)
      PROVE  ReleaseFree(t) \/ \E w \in Thread : WakesHeir(t, w)
  <2>1. CASE \E w \in First(LOCK_SET_EVENT) : blocked /\ WakeHeir(t, w)
    BY <1>4, <2>1 DEF Release, Body, First, SelectOne, EventWaiters, WakesHeir
  <2>2. CASE ~blocked \/ First(LOCK_SET_EVENT) = {}
    <3>1. EventWaiters = {}
      BY <1>2, <2>2 DEF LockSetInv, AcquirersSeen, EventWaiters
    <3> QED BY <1>4, <2>1, <3>1 DEF Release, ReleaseFree
  <2> QED BY <1>4, <2>1, <2>2 DEF Release
<1>5. ASSUME NEW t \in Thread, Handoff(t)
      PROVE  HandoffWaits(t) \/ \E w \in Thread : WakesHeir(t, w)
  <2>1. CASE \E w \in First(LOCK_SET_HANDOFF) : accept_wait /\ WakeHeir(t, w)
    BY <1>5, <2>1 DEF Handoff, Body, First, SelectOne, HandoffWaiters, WakesHeir
  <2>2. CASE ~accept_wait \/ First(LOCK_SET_HANDOFF) = {}
    <3>1. ~accept_wait \/ HandoffWaiters = {}
      BY <1>2, <2>2 DEF HandoffWaiters
    <3> QED BY <1>5, <2>1, <3>1 DEF Handoff, HandoffWaits
  <2> QED BY <1>5, <2>1, <2>2 DEF Handoff
<1> QED BY <1>3, <1>4, <1>5 DEF Next, Step

lockVars == <<ls_lock, ulock_lock, active, dropped, ulockVars, pc, op, heir, mine>>

\* What an abort does to the ulock's waiters: nothing, or it ends one wait
AbortQuiet == UNCHANGED <<waitVars, lockVars>>
AbortEnds(t) == waiting[t] /\ GoLocked({t}, "INTERRUPTED") /\ UNCHANGED lockVars

\* (An abort that finds its thread gone from the queue has no effect, and the
\* first half of one, made at a safe point, only notes what it will do.)
LEMMA AbortCases ==
  ASSUME LockSetInv, NEW k \in Aborter,
         AbortFinish(k) \/ \E t \in Thread : AbortStart(k, t)
  PROVE  AbortQuiet \/ \E t \in Thread : AbortEnds(t)
<1> USE DEF AbortQuiet, AbortEnds, lockVars
<1>1. ASSUME NEW t \in Thread, AbortStart(k, t) PROVE AbortQuiet
  BY <1>1 DEF AbortStart, ThreadAbortSafely, AtSafePoint, ClearWaitStart, Uninterruptible
<1>2. CASE AbortFinish(k)
  <2> DEFINE c == removing[k]
  <2>1. c \in Removal /\ c.result = "INTERRUPTED"
    BY <1>2 DEF AbortFinish, ClearWaitFinish, LockSetInv, TypeOK, WQTypeOK, Aborts, Clearer
  <2>2. c.thread \in Thread /\ c.wq # NoQueue
    BY <2>1, WaitQueueAssumption DEF Removal
  <2>3. CASE wait_queue[c.thread] = c.wq /\ GoLocked({c.thread}, c.result)
    BY <1>2, <2>1, <2>2, <2>3 DEF AbortFinish, LockSetInv, WaitingIffQueued
  <2>4. CASE UNCHANGED waitVars
    BY <1>2, <2>4 DEF AbortFinish
  <2> QED BY <1>2, <2>3, <2>4 DEF AbortFinish, ClearWaitFinish
<1> QED BY <1>1, <1>2

\* The wait queue stays in order: who is queued is waiting, and only a thread
\* that does not wait starts to.
LEMMA QueuesStep ==
  ASSUME LockSetInv, [Next]_vars PROVE WQInv'
<1> WQInv
  BY DEF LockSetInv, TypeOK, WQInv
<1>1. CASE UNCHANGED vars
  BY <1>1, QuietInv DEF vars, wqVars, WQInv, WQTypeOK
<1>2. ASSUME NEW t \in Thread, NEW o \in AllOps, Call(t, o) PROVE WQInv'
  BY <1>2, QuietInv DEF Call, WQInv, WQTypeOK, wqVars
<1>3. ASSUME NEW t \in Thread, Enter(t) PROVE WQInv'
  BY <1>3, QuietInv DEF Enter, WQInv, WQTypeOK, wqVars
<1>4. ASSUME NEW t \in Thread, AcquireFree(t) PROVE WQInv'
  BY <1>4, QuietInv DEF AcquireFree, WQInv, WQTypeOK, wqVars
<1>5. ASSUME NEW t \in Thread, AcquireHeld(t) PROVE WQInv'
  BY <1>5, QuietInv DEF AcquireHeld, WQInv, WQTypeOK, wqVars
<1>6. ASSUME NEW t \in Thread, HeldReturns(t) PROVE WQInv'
  BY <1>6, QuietInv DEF HeldReturns, WQInv, WQTypeOK, wqVars
<1>7. ASSUME NEW t \in Thread, HeldBlocks(t) PROVE WQInv'
  <2>1. ~waiting[t]
    BY <1>7 DEF HeldBlocks, Body, LockSetInv, Waits
  <2> QED BY <1>7, <2>1, AssertWaitInv, QueueType, LockSetAssumption DEF HeldBlocks, AssertWait,
             Mode
<1>8. ASSUME NEW t \in Thread, AcquireResumes(t) PROVE WQInv'
  BY <1>8, QuietInv DEF AcquireResumes, WQInv, WQTypeOK, wqVars
<1>9. ASSUME NEW t \in Thread, NotHolder(t) PROVE WQInv'
  BY <1>9, QuietInv DEF NotHolder, WQInv, WQTypeOK, wqVars
<1>10. ASSUME NEW t \in Thread, NotHolderReturns(t) PROVE WQInv'
  BY <1>10, QuietInv DEF NotHolderReturns, WQInv, WQTypeOK, wqVars
<1>11. ASSUME NEW t \in Thread, NEW w \in Thread, WakesHeir(t, w) PROVE WQInv'
  BY <1>11, GoInv DEF WakesHeir, WakeHeir, Wake, WQInv, WQTypeOK, Result
<1>12. ASSUME NEW t \in Thread, ReleaseFree(t) PROVE WQInv'
  BY <1>12, QuietInv DEF ReleaseFree, WQInv, WQTypeOK, wqVars
<1>13. ASSUME NEW t \in Thread, Transfer(t) PROVE WQInv'
  BY <1>13, QuietInv DEF Transfer, WQInv, WQTypeOK, wqVars
<1>14. ASSUME NEW t \in Thread, HandoffWaits(t) PROVE WQInv'
  <2>1. ~waiting[t]
    BY <1>14 DEF HandoffWaits, Body, LockSetInv, Waits
  <2> QED BY <1>14, <2>1, AssertWaitInv, QueueType, LockSetAssumption DEF HandoffWaits,
             AssertWait, Mode
<1>15. ASSUME NEW t \in Thread, HandoffResumes(t) PROVE WQInv'
  BY <1>15, QuietInv DEF HandoffResumes, WQInv, WQTypeOK, wqVars
<1>16. ASSUME NEW t \in Thread, AcceptRefused(t) PROVE WQInv'
  BY <1>16, QuietInv DEF AcceptRefused, WQInv, WQTypeOK, wqVars
<1>17. ASSUME NEW t \in Thread, AcceptTakes(t) PROVE WQInv'
  <2>1. holder \in Thread
    BY <1>17 DEF AcceptTakes, HolderOffers, HandoffWaiters, Waiters, Members
  <2> QED BY <1>17, <2>1, GoInv DEF AcceptTakes, Wake, WQInv, WQTypeOK, Result
<1>18. ASSUME NEW t \in Thread, AcceptWaits(t) PROVE WQInv'
  <2>1. ~waiting[t]
    BY <1>18 DEF AcceptWaits, Body, LockSetInv, Waits
  <2> QED BY <1>18, <2>1, AssertWaitInv, QueueType, LockSetAssumption DEF AcceptWaits,
             AssertWait, Mode
<1>19. ASSUME NEW t \in Thread, AcceptResumes(t) PROVE WQInv'
  BY <1>19, QuietInv DEF AcceptResumes, WQInv, WQTypeOK, wqVars
<1>20. ASSUME NEW t \in Thread, DestroyUlock(t) PROVE WQInv'
  <2>1. PICK S \in SUBSET Thread : Wake(S, "RESTART")
    BY <1>20 DEF DestroyUlock, First, EventWaiters, Waiters, Members
  <2> QED BY <2>1, GoInv DEF Wake, WQInv, WQTypeOK, Result
<1>21. ASSUME NEW k \in Aborter, NEW t \in Thread, AbortStart(k, t) PROVE WQInv'
  BY <1>21, AbortInv DEF AbortStart
<1>22. ASSUME NEW k \in Aborter, AbortFinish(k) PROVE WQInv'
  BY <1>22, ClearFinishInv DEF AbortFinish, Clearer
<1>23. ASSUME NEW t \in Thread, TestActive(t) PROVE WQInv'
  BY <1>23, QuietInv DEF TestActive, WQInv, WQTypeOK, wqVars
<1>24. ASSUME NEW t \in Thread, Deactivate(t) PROVE WQInv'
  BY <1>24, QuietInv DEF Deactivate, WQInv, WQTypeOK, wqVars
<1>25. ASSUME NEW t \in Thread, DestroyUnlocks(t) PROVE WQInv'
  BY <1>25, QuietInv DEF DestroyUnlocks, WQInv, WQTypeOK, wqVars
<1>26. ASSUME NEW t \in Thread, DropReference(t) PROVE WQInv'
  BY <1>26, QuietInv DEF DropReference, WQInv, WQTypeOK, wqVars
<1> QED
  BY <1>1, <1>2, <1>3, <1>4, <1>5, <1>6, <1>7, <1>8, <1>9, <1>10, <1>11, <1>12, <1>13, <1>14,
     <1>15, <1>16, <1>17, <1>18, <1>19, <1>20, <1>21, <1>22, <1>23, <1>24, <1>25, <1>26, NextCases

\* Every variable keeps its type, the label of a thread included.
LEMMA TypesStep ==
  ASSUME LockSetInv, [Next]_vars PROVE TypeOK' /\ pc' \in [Thread -> Label]
<1> USE QueuesStep DEF LockSetInv, TypeOK, WQInv, Label, AllOps
<1>1. CASE UNCHANGED vars
  BY <1>1 DEF vars, wqVars, waitVars, ulockVars
<1>2. ASSUME NEW t \in Thread, NEW o \in AllOps, Call(t, o)
      PROVE  TypeOK' /\ pc' \in [Thread -> Label]
  BY <1>2 DEF Call, Told, wqVars, waitVars, ulockVars
<1>3. ASSUME NEW t \in Thread, Enter(t) PROVE TypeOK' /\ pc' \in [Thread -> Label]
  BY <1>3 DEF Enter, Goto, Return, wqVars, waitVars, ulockVars
<1>4. ASSUME NEW t \in Thread, AcquireFree(t) PROVE TypeOK' /\ pc' \in [Thread -> Label]
  BY <1>4 DEF AcquireFree, Body, SetLocks, Told, Return, wqVars, waitVars, ulockVars
<1>5. ASSUME NEW t \in Thread, AcquireHeld(t) PROVE TypeOK' /\ pc' \in [Thread -> Label]
  BY <1>5 DEF AcquireHeld, Body, SetLocks, Goto, wqVars, waitVars, ulockVars
<1>6. ASSUME NEW t \in Thread, HeldReturns(t) PROVE TypeOK' /\ pc' \in [Thread -> Label]
  BY <1>6 DEF HeldReturns, SetLocks, Return, wqVars, waitVars, ulockVars
<1>7. ASSUME NEW t \in Thread, HeldBlocks(t) PROVE TypeOK' /\ pc' \in [Thread -> Label]
  BY <1>7 DEF HeldBlocks, SetLocks, AssertWait, AssertWaitLocked, Goto, wqVars, waitVars,
              ulockVars
<1>8. ASSUME NEW t \in Thread, AcquireResumes(t) PROVE TypeOK' /\ pc' \in [Thread -> Label]
  BY <1>8 DEF AcquireResumes, Goto, Return, Told, wqVars, waitVars, ulockVars
<1>9. ASSUME NEW t \in Thread, NotHolder(t) PROVE TypeOK' /\ pc' \in [Thread -> Label]
  BY <1>9 DEF NotHolder, Body, SetLocks, Goto, wqVars, waitVars, ulockVars
<1>10. ASSUME NEW t \in Thread, NotHolderReturns(t) PROVE TypeOK' /\ pc' \in [Thread -> Label]
  BY <1>10 DEF NotHolderReturns, SetLocks, Return, wqVars, waitVars, ulockVars
<1>11. ASSUME NEW t \in Thread, NEW w \in Thread, WakesHeir(t, w)
       PROVE  TypeOK' /\ pc' \in [Thread -> Label]
  BY <1>11 DEF WakesHeir, WakeHeir, Wake, GoLocked, SetLocks, Goto, wqVars, waitVars, ulockVars
<1>12. ASSUME NEW t \in Thread, ReleaseFree(t) PROVE TypeOK' /\ pc' \in [Thread -> Label]
  BY <1>12 DEF ReleaseFree, Body, SetLocks, Return, wqVars, waitVars, ulockVars
<1>13. ASSUME NEW t \in Thread, Transfer(t) PROVE TypeOK' /\ pc' \in [Thread -> Label]
  BY <1>13 DEF Transfer, SetLocks, Told, Return, wqVars, waitVars, ulockVars
<1>14. ASSUME NEW t \in Thread, HandoffWaits(t) PROVE TypeOK' /\ pc' \in [Thread -> Label]
  BY <1>14 DEF HandoffWaits, Body, SetLocks, AssertWait, AssertWaitLocked, Goto, wqVars,
               waitVars, ulockVars
<1>15. ASSUME NEW t \in Thread, HandoffResumes(t) PROVE TypeOK' /\ pc' \in [Thread -> Label]
  BY <1>15 DEF HandoffResumes, Goto, Return, Told, wqVars, waitVars, ulockVars
<1>16. ASSUME NEW t \in Thread, AcceptRefused(t) PROVE TypeOK' /\ pc' \in [Thread -> Label]
  BY <1>16 DEF AcceptRefused, Body, SetLocks, Return, wqVars, waitVars, ulockVars
<1>17. ASSUME NEW t \in Thread, AcceptTakes(t) PROVE TypeOK' /\ pc' \in [Thread -> Label]
  BY <1>17 DEF AcceptTakes, HolderOffers, Body, SetLocks, Wake, GoLocked, Told, Return, wqVars,
               waitVars, ulockVars
<1>18. ASSUME NEW t \in Thread, AcceptWaits(t) PROVE TypeOK' /\ pc' \in [Thread -> Label]
  BY <1>18 DEF AcceptWaits, Body, SetLocks, AssertWait, AssertWaitLocked, Goto, wqVars,
               waitVars, ulockVars
<1>19. ASSUME NEW t \in Thread, AcceptResumes(t) PROVE TypeOK' /\ pc' \in [Thread -> Label]
  BY <1>19 DEF AcceptResumes, Goto, Return, Told, wqVars, waitVars, ulockVars
<1>20. ASSUME NEW t \in Thread, DestroyUlock(t) PROVE TypeOK' /\ pc' \in [Thread -> Label]
  BY <1>20 DEF DestroyUlock, Body, Wake, GoLocked, Goto, wqVars, waitVars, ulockVars
<1>21. CASE AbortQuiet
  BY <1>21 DEF AbortQuiet, lockVars, wqVars, waitVars, ulockVars
<1>22. ASSUME NEW t \in Thread, AbortEnds(t) PROVE TypeOK' /\ pc' \in [Thread -> Label]
  BY <1>22 DEF AbortEnds, GoLocked, lockVars, wqVars, waitVars, ulockVars
<1>23. ASSUME NEW t \in Thread, TestActive(t) PROVE TypeOK' /\ pc' \in [Thread -> Label]
  BY <1>23 DEF TestActive, Goto, Return, wqVars, waitVars, ulockVars
<1>24. ASSUME NEW t \in Thread, Deactivate(t) PROVE TypeOK' /\ pc' \in [Thread -> Label]
  BY <1>24 DEF Deactivate, Goto, wqVars, waitVars, ulockVars
<1>25. ASSUME NEW t \in Thread, DestroyUnlocks(t) PROVE TypeOK' /\ pc' \in [Thread -> Label]
  BY <1>25 DEF DestroyUnlocks, Goto, wqVars, waitVars, ulockVars
<1>26. ASSUME NEW t \in Thread, DropReference(t) PROVE TypeOK' /\ pc' \in [Thread -> Label]
  BY <1>26 DEF DropReference, Return, wqVars, waitVars, ulockVars
<1> QED
  BY <1>1, <1>2, <1>3, <1>4, <1>5, <1>6, <1>7, <1>8, <1>9, <1>10, <1>11, <1>12, <1>13, <1>14,
     <1>15, <1>16, <1>17, <1>18, <1>19, <1>20, <1>21, <1>22, <1>23, <1>24, <1>25, <1>26,
     NextCases, AbortCases

\* The ulock's mutex is held between finding the ulock held and blocking, and
\* between waking an heir and making it owner, and by nobody else.
LEMMA LocksStep ==
  ASSUME LockSetInv, [Next]_vars PROVE Locks'
<1> USE LockSetAssumption DEF LockSetInv, TypeOK, WQTypeOK, Locks
<1>1. CASE UNCHANGED vars
  BY <1>1 DEF vars, wqVars, waitVars, ulockVars
<1>2. ASSUME NEW t \in Thread, NEW o \in AllOps, Call(t, o) PROVE Locks'
  BY <1>2 DEF Call, Told, wqVars, waitVars, ulockVars
<1>3. ASSUME NEW t \in Thread, Enter(t) PROVE Locks'
  BY <1>3 DEF Enter, Goto, Return, wqVars, waitVars, ulockVars
<1>4. ASSUME NEW t \in Thread, AcquireFree(t) PROVE Locks'
  BY <1>4 DEF AcquireFree, Body, SetLocks, Told, Return, wqVars, waitVars, ulockVars
<1>5. ASSUME NEW t \in Thread, AcquireHeld(t) PROVE Locks'
  BY <1>5 DEF AcquireHeld, Body, SetLocks, Goto, wqVars, waitVars, ulockVars
<1>6. ASSUME NEW t \in Thread, HeldReturns(t) PROVE Locks'
  BY <1>6 DEF HeldReturns, SetLocks, Return, wqVars, waitVars, ulockVars
<1>7. ASSUME NEW t \in Thread, HeldBlocks(t) PROVE Locks'
  BY <1>7 DEF HeldBlocks, SetLocks, AssertWait, AssertWaitLocked, Goto, wqVars, waitVars,
              ulockVars
<1>8. ASSUME NEW t \in Thread, AcquireResumes(t) PROVE Locks'
  BY <1>8 DEF AcquireResumes, Goto, Return, Told, wqVars, waitVars, ulockVars
<1>9. ASSUME NEW t \in Thread, NotHolder(t) PROVE Locks'
  BY <1>9 DEF NotHolder, Body, SetLocks, Goto, wqVars, waitVars, ulockVars
<1>10. ASSUME NEW t \in Thread, NotHolderReturns(t) PROVE Locks'
  BY <1>10 DEF NotHolderReturns, SetLocks, Return, wqVars, waitVars, ulockVars
<1>11. ASSUME NEW t \in Thread, NEW w \in Thread, WakesHeir(t, w) PROVE Locks'
  BY <1>11 DEF WakesHeir, WakeHeir, Wake, GoLocked, SetLocks, Goto, wqVars, waitVars, ulockVars
<1>12. ASSUME NEW t \in Thread, ReleaseFree(t) PROVE Locks'
  BY <1>12 DEF ReleaseFree, Body, SetLocks, Return, wqVars, waitVars, ulockVars
<1>13. ASSUME NEW t \in Thread, Transfer(t) PROVE Locks'
  BY <1>13 DEF Transfer, SetLocks, Told, Return, wqVars, waitVars, ulockVars
<1>14. ASSUME NEW t \in Thread, HandoffWaits(t) PROVE Locks'
  BY <1>14 DEF HandoffWaits, Body, SetLocks, AssertWait, AssertWaitLocked, Goto, wqVars,
               waitVars, ulockVars
<1>15. ASSUME NEW t \in Thread, HandoffResumes(t) PROVE Locks'
  BY <1>15 DEF HandoffResumes, Goto, Return, Told, wqVars, waitVars, ulockVars
<1>16. ASSUME NEW t \in Thread, AcceptRefused(t) PROVE Locks'
  BY <1>16 DEF AcceptRefused, Body, SetLocks, Return, wqVars, waitVars, ulockVars
<1>17. ASSUME NEW t \in Thread, AcceptTakes(t) PROVE Locks'
  BY <1>17 DEF AcceptTakes, HolderOffers, Body, SetLocks, Wake, GoLocked, Told, Return, wqVars,
               waitVars, ulockVars
<1>18. ASSUME NEW t \in Thread, AcceptWaits(t) PROVE Locks'
  BY <1>18 DEF AcceptWaits, Body, SetLocks, AssertWait, AssertWaitLocked, Goto, wqVars,
               waitVars, ulockVars
<1>19. ASSUME NEW t \in Thread, AcceptResumes(t) PROVE Locks'
  BY <1>19 DEF AcceptResumes, Goto, Return, Told, wqVars, waitVars, ulockVars
<1>20. ASSUME NEW t \in Thread, DestroyUlock(t) PROVE Locks'
  BY <1>20 DEF DestroyUlock, Body, Wake, GoLocked, Goto, wqVars, waitVars, ulockVars
<1>21. CASE AbortQuiet
  BY <1>21 DEF AbortQuiet, lockVars, wqVars, waitVars, ulockVars
<1>22. ASSUME NEW t \in Thread, AbortEnds(t) PROVE Locks'
  BY <1>22 DEF AbortEnds, GoLocked, lockVars, wqVars, waitVars, ulockVars
<1>23. ASSUME NEW t \in Thread, TestActive(t) PROVE Locks'
  BY <1>23 DEF TestActive, Goto, Return, wqVars, waitVars, ulockVars
<1>24. ASSUME NEW t \in Thread, Deactivate(t) PROVE Locks'
  BY <1>24 DEF Deactivate, Goto, wqVars, waitVars, ulockVars
<1>25. ASSUME NEW t \in Thread, DestroyUnlocks(t) PROVE Locks'
  BY <1>25 DEF DestroyUnlocks, Goto, wqVars, waitVars, ulockVars
<1>26. ASSUME NEW t \in Thread, DropReference(t) PROVE Locks'
  BY <1>26 DEF DropReference, Return, wqVars, waitVars, ulockVars
<1> QED
  BY <1>1, <1>2, <1>3, <1>4, <1>5, <1>6, <1>7, <1>8, <1>9, <1>10, <1>11, <1>12, <1>13, <1>14,
     <1>15, <1>16, <1>17, <1>18, <1>19, <1>20, <1>21, <1>22, <1>23, <1>24, <1>25, <1>26,
     NextCases, AbortCases

\* A thread waits in one of three places.  The accepting thread that is made
\* owner has been woken before.
LEMMA WaitsStep ==
  ASSUME LockSetInv, [Next]_vars PROVE Waits'
<1> USE LockSetAssumption DEF LockSetInv, TypeOK, WQTypeOK, Waits
<1>1. CASE UNCHANGED vars
  BY <1>1 DEF vars, wqVars, waitVars, ulockVars
<1>2. ASSUME NEW t \in Thread, NEW o \in AllOps, Call(t, o) PROVE Waits'
  BY <1>2 DEF Call, Told, wqVars, waitVars, ulockVars
<1>3. ASSUME NEW t \in Thread, Enter(t) PROVE Waits'
  BY <1>3 DEF Enter, Goto, Return, wqVars, waitVars, ulockVars
<1>4. ASSUME NEW t \in Thread, AcquireFree(t) PROVE Waits'
  BY <1>4 DEF AcquireFree, Body, SetLocks, Told, Return, wqVars, waitVars, ulockVars
<1>5. ASSUME NEW t \in Thread, AcquireHeld(t) PROVE Waits'
  BY <1>5 DEF AcquireHeld, Body, SetLocks, Goto, wqVars, waitVars, ulockVars
<1>6. ASSUME NEW t \in Thread, HeldReturns(t) PROVE Waits'
  BY <1>6 DEF HeldReturns, SetLocks, Return, wqVars, waitVars, ulockVars
<1>7. ASSUME NEW t \in Thread, HeldBlocks(t) PROVE Waits'
  BY <1>7 DEF HeldBlocks, SetLocks, AssertWait, AssertWaitLocked, Goto, wqVars, waitVars,
              ulockVars
<1>8. ASSUME NEW t \in Thread, AcquireResumes(t) PROVE Waits'
  BY <1>8 DEF AcquireResumes, Goto, Return, Told, wqVars, waitVars, ulockVars
<1>9. ASSUME NEW t \in Thread, NotHolder(t) PROVE Waits'
  BY <1>9 DEF NotHolder, Body, SetLocks, Goto, wqVars, waitVars, ulockVars
<1>10. ASSUME NEW t \in Thread, NotHolderReturns(t) PROVE Waits'
  BY <1>10 DEF NotHolderReturns, SetLocks, Return, wqVars, waitVars, ulockVars
<1>11. ASSUME NEW t \in Thread, NEW w \in Thread, WakesHeir(t, w) PROVE Waits'
  BY <1>11 DEF WakesHeir, WakeHeir, Wake, GoLocked, SetLocks, Goto, wqVars, waitVars, ulockVars
<1>12. ASSUME NEW t \in Thread, ReleaseFree(t) PROVE Waits'
  BY <1>12 DEF ReleaseFree, Body, SetLocks, Return, wqVars, waitVars, ulockVars
<1>13. ASSUME NEW t \in Thread, Transfer(t) PROVE Waits'
  BY <1>13 DEF Transfer, SetLocks, Told, Return, Locks, wqVars, waitVars
<1>14. ASSUME NEW t \in Thread, HandoffWaits(t) PROVE Waits'
  BY <1>14 DEF HandoffWaits, Body, SetLocks, AssertWait, AssertWaitLocked, Goto, wqVars,
               waitVars, ulockVars
<1>15. ASSUME NEW t \in Thread, HandoffResumes(t) PROVE Waits'
  BY <1>15 DEF HandoffResumes, Goto, Return, Told, wqVars, waitVars, ulockVars
<1>16. ASSUME NEW t \in Thread, AcceptRefused(t) PROVE Waits'
  BY <1>16 DEF AcceptRefused, Body, SetLocks, Return, wqVars, waitVars, ulockVars
<1>17. ASSUME NEW t \in Thread, AcceptTakes(t) PROVE Waits'
  BY <1>17 DEF AcceptTakes, HolderOffers, Body, SetLocks, Wake, GoLocked, Told, Return, wqVars,
               waitVars, ulockVars
<1>18. ASSUME NEW t \in Thread, AcceptWaits(t) PROVE Waits'
  BY <1>18 DEF AcceptWaits, Body, SetLocks, AssertWait, AssertWaitLocked, Goto, wqVars,
               waitVars, ulockVars
<1>19. ASSUME NEW t \in Thread, AcceptResumes(t) PROVE Waits'
  BY <1>19 DEF AcceptResumes, Goto, Return, Told, wqVars, waitVars, ulockVars
<1>20. ASSUME NEW t \in Thread, DestroyUlock(t) PROVE Waits'
  BY <1>20 DEF DestroyUlock, Body, Wake, GoLocked, Goto, wqVars, waitVars, ulockVars
<1>21. CASE AbortQuiet
  BY <1>21 DEF AbortQuiet, lockVars, wqVars, waitVars, ulockVars
<1>22. ASSUME NEW t \in Thread, AbortEnds(t) PROVE Waits'
  BY <1>22 DEF AbortEnds, GoLocked, lockVars, wqVars, waitVars, ulockVars
<1>23. ASSUME NEW t \in Thread, TestActive(t) PROVE Waits'
  BY <1>23 DEF TestActive, Goto, Return, wqVars, waitVars, ulockVars
<1>24. ASSUME NEW t \in Thread, Deactivate(t) PROVE Waits'
  BY <1>24 DEF Deactivate, Goto, wqVars, waitVars, ulockVars
<1>25. ASSUME NEW t \in Thread, DestroyUnlocks(t) PROVE Waits'
  BY <1>25 DEF DestroyUnlocks, Goto, wqVars, waitVars, ulockVars
<1>26. ASSUME NEW t \in Thread, DropReference(t) PROVE Waits'
  BY <1>26 DEF DropReference, Return, wqVars, waitVars, ulockVars
<1> QED
  BY <1>1, <1>2, <1>3, <1>4, <1>5, <1>6, <1>7, <1>8, <1>9, <1>10, <1>11, <1>12, <1>13, <1>14,
     <1>15, <1>16, <1>17, <1>18, <1>19, <1>20, <1>21, <1>22, <1>23, <1>24, <1>25, <1>26,
     NextCases, AbortCases

\* Only aborts clear waits here: nothing else is ever noted.
LEMMA AbortsStep ==
  ASSUME LockSetInv, [Next]_vars PROVE Aborts'
<1> USE DEF LockSetInv, Aborts
<1>1. CASE UNCHANGED removing
  BY <1>1
<1>2. ASSUME NEW k \in Aborter, NEW t \in Thread, AbortStart(k, t) PROVE Aborts'
  BY <1>2 DEF AbortStart, ThreadAbortSafely, ClearWaitStart, TypeOK, WQTypeOK, Clearer
<1>3. ASSUME NEW k \in Aborter, AbortFinish(k) PROVE Aborts'
  BY <1>3 DEF AbortFinish, ClearWaitFinish, TypeOK, WQTypeOK, Clearer
<1>4. ASSUME NEW t \in Thread, Step(t) PROVE UNCHANGED removing
  BY <1>4 DEF Step, Enter, TestActive, AcquireFree, AcquireHeld, Held, AcquireResumes, NotHolder,
       NotHolderReturns, Release, Transfer, Handoff, HandoffResumes, AcceptRefused, AcceptTakes,
       AcceptWaits, AcceptResumes, Deactivate, DestroyUlock, DestroyUnlocks, DropReference,
       WakeHeir, Wake, AssertWait, wqVars
<1> QED BY <1>1, <1>2, <1>3, <1>4 DEF Next, Call, vars, wqVars

\* Nothing activates the set again, so whoever clears `active' may rely on it,
\* however many others do the same.
LEMMA DeactivatedStep ==
  ASSUME LockSetInv, [Next]_vars PROVE Deactivated'
<1> USE DEF LockSetInv, TypeOK, WQTypeOK, Deactivated
<1>1. CASE UNCHANGED vars
  BY <1>1 DEF vars, wqVars, waitVars, ulockVars
<1>2. ASSUME NEW t \in Thread, NEW o \in AllOps, Call(t, o) PROVE Deactivated'
  BY <1>2 DEF Call, Told, wqVars, waitVars, ulockVars
<1>3. ASSUME NEW t \in Thread, Enter(t) PROVE Deactivated'
  BY <1>3 DEF Enter, Goto, wqVars, waitVars, ulockVars
<1>4. ASSUME NEW t \in Thread, AcquireFree(t) PROVE Deactivated'
  BY <1>4 DEF AcquireFree, Body, SetLocks, Told, Return, wqVars, waitVars, ulockVars
<1>5. ASSUME NEW t \in Thread, AcquireHeld(t) PROVE Deactivated'
  BY <1>5 DEF AcquireHeld, Body, SetLocks, Goto, wqVars, waitVars, ulockVars
<1>6. ASSUME NEW t \in Thread, HeldReturns(t) PROVE Deactivated'
  BY <1>6 DEF HeldReturns, SetLocks, Return, wqVars, waitVars, ulockVars
<1>7. ASSUME NEW t \in Thread, HeldBlocks(t) PROVE Deactivated'
  BY <1>7 DEF HeldBlocks, SetLocks, AssertWait, AssertWaitLocked, Goto, wqVars, waitVars,
              ulockVars
<1>8. ASSUME NEW t \in Thread, AcquireResumes(t) PROVE Deactivated'
  BY <1>8 DEF AcquireResumes, Goto, Return, Told, wqVars, waitVars, ulockVars
<1>9. ASSUME NEW t \in Thread, NotHolder(t) PROVE Deactivated'
  BY <1>9 DEF NotHolder, Body, SetLocks, Goto, wqVars, waitVars, ulockVars
<1>10. ASSUME NEW t \in Thread, NotHolderReturns(t) PROVE Deactivated'
  BY <1>10 DEF NotHolderReturns, SetLocks, Return, wqVars, waitVars, ulockVars
<1>11. ASSUME NEW t \in Thread, NEW w \in Thread, WakesHeir(t, w) PROVE Deactivated'
  BY <1>11 DEF WakesHeir, WakeHeir, Wake, GoLocked, SetLocks, Goto, wqVars, waitVars, ulockVars
<1>12. ASSUME NEW t \in Thread, ReleaseFree(t) PROVE Deactivated'
  BY <1>12 DEF ReleaseFree, Body, SetLocks, Return, wqVars, waitVars, ulockVars
<1>13. ASSUME NEW t \in Thread, Transfer(t) PROVE Deactivated'
  BY <1>13 DEF Transfer, SetLocks, Told, Return, wqVars, waitVars, ulockVars
<1>14. ASSUME NEW t \in Thread, HandoffWaits(t) PROVE Deactivated'
  BY <1>14 DEF HandoffWaits, Body, SetLocks, AssertWait, AssertWaitLocked, Goto, wqVars,
               waitVars, ulockVars
<1>15. ASSUME NEW t \in Thread, HandoffResumes(t) PROVE Deactivated'
  BY <1>15 DEF HandoffResumes, Goto, Return, Told, wqVars, waitVars, ulockVars
<1>16. ASSUME NEW t \in Thread, AcceptRefused(t) PROVE Deactivated'
  BY <1>16 DEF AcceptRefused, Body, SetLocks, Return, wqVars, waitVars, ulockVars
<1>17. ASSUME NEW t \in Thread, AcceptTakes(t) PROVE Deactivated'
  BY <1>17 DEF AcceptTakes, HolderOffers, Body, SetLocks, Wake, GoLocked, Told, Return, wqVars,
               waitVars, ulockVars
<1>18. ASSUME NEW t \in Thread, AcceptWaits(t) PROVE Deactivated'
  BY <1>18 DEF AcceptWaits, Body, SetLocks, AssertWait, AssertWaitLocked, Goto, wqVars,
               waitVars, ulockVars
<1>19. ASSUME NEW t \in Thread, AcceptResumes(t) PROVE Deactivated'
  BY <1>19 DEF AcceptResumes, Goto, Return, Told, wqVars, waitVars, ulockVars
<1>20. ASSUME NEW t \in Thread, DestroyUlock(t) PROVE Deactivated'
  BY <1>20 DEF DestroyUlock, Body, Wake, GoLocked, Goto, wqVars, waitVars, ulockVars
<1>21. CASE AbortQuiet
  BY <1>21 DEF AbortQuiet, lockVars, wqVars, waitVars, ulockVars
<1>22. ASSUME NEW t \in Thread, AbortEnds(t) PROVE Deactivated'
  BY <1>22 DEF AbortEnds, GoLocked, lockVars, wqVars, waitVars, ulockVars
<1>23. ASSUME NEW t \in Thread, TestActive(t) PROVE Deactivated'
  BY <1>23 DEF TestActive, Goto, Return, wqVars, waitVars, ulockVars
<1>24. ASSUME NEW t \in Thread, Deactivate(t) PROVE Deactivated'
  BY <1>24 DEF Deactivate, Goto, wqVars, waitVars, ulockVars
<1>25. ASSUME NEW t \in Thread, DestroyUnlocks(t) PROVE Deactivated'
  BY <1>25 DEF DestroyUnlocks, Goto, wqVars, waitVars, ulockVars
<1>26. ASSUME NEW t \in Thread, DropReference(t) PROVE Deactivated'
  BY <1>26 DEF DropReference, Return, wqVars, waitVars, ulockVars
<1> QED
  BY <1>1, <1>2, <1>3, <1>4, <1>5, <1>6, <1>7, <1>8, <1>9, <1>10, <1>11, <1>12, <1>13, <1>14,
     <1>15, <1>16, <1>17, <1>18, <1>19, <1>20, <1>21, <1>22, <1>23, <1>24, <1>25, <1>26,
     NextCases, AbortCases

\* A thread that waits to acquire has set the hint and a holder is there; the
\* release that clears the hint has found nobody.
LEMMA AcquirersStep ==
  ASSUME LockSetInv, [Next]_vars PROVE AcquirersSeen'
<1> USE LockSetAssumption, QueueType DEF LockSetInv, TypeOK, WQTypeOK, AcquirersSeen
<1>1. CASE UNCHANGED vars
  BY <1>1 DEF vars, wqVars, waitVars, ulockVars, EventWaiters, Waiters, Members
<1>2. ASSUME NEW t \in Thread, NEW o \in AllOps, Call(t, o) PROVE AcquirersSeen'
  BY <1>2 DEF Call, Told, wqVars, waitVars, ulockVars, EventWaiters, Waiters, Members
<1>3. ASSUME NEW t \in Thread, Enter(t) PROVE AcquirersSeen'
  BY <1>3 DEF Enter, Goto, Return, wqVars, waitVars, ulockVars, EventWaiters, Waiters, Members
<1>4. ASSUME NEW t \in Thread, AcquireFree(t) PROVE AcquirersSeen'
  BY <1>4 DEF AcquireFree, Body, SetLocks, Told, Return, wqVars, waitVars, ulockVars,
              EventWaiters, Waiters, Members
<1>5. ASSUME NEW t \in Thread, AcquireHeld(t) PROVE AcquirersSeen'
  BY <1>5 DEF AcquireHeld, Body, SetLocks, Goto, wqVars, waitVars, ulockVars, EventWaiters,
              Waiters, Members
<1>6. ASSUME NEW t \in Thread, HeldReturns(t) PROVE AcquirersSeen'
  BY <1>6 DEF HeldReturns, SetLocks, Return, wqVars, waitVars, ulockVars, EventWaiters, Waiters,
              Members
<1>7. ASSUME NEW t \in Thread, HeldBlocks(t) PROVE AcquirersSeen'
  BY <1>7 DEF HeldBlocks, Locks
<1>8. ASSUME NEW t \in Thread, AcquireResumes(t) PROVE AcquirersSeen'
  BY <1>8 DEF AcquireResumes, Goto, Return, Told, wqVars, waitVars, ulockVars, EventWaiters,
              Waiters, Members
<1>9. ASSUME NEW t \in Thread, NotHolder(t) PROVE AcquirersSeen'
  BY <1>9 DEF NotHolder, Body, SetLocks, Goto, wqVars, waitVars, ulockVars, EventWaiters,
              Waiters, Members
<1>10. ASSUME NEW t \in Thread, NotHolderReturns(t) PROVE AcquirersSeen'
  BY <1>10 DEF NotHolderReturns, SetLocks, Return, wqVars, waitVars, ulockVars, EventWaiters,
               Waiters, Members
<1>11. ASSUME NEW t \in Thread, NEW w \in Thread, WakesHeir(t, w) PROVE AcquirersSeen'
  <2>1. EventWaiters' \subseteq EventWaiters
    BY <1>11 DEF WakesHeir, WakeHeir, Wake, GoLocked, EventWaiters, Waiters, Members
  <2> QED BY <1>11, <2>1 DEF WakesHeir, WakeHeir, ulockVars
<1>12. ASSUME NEW t \in Thread, ReleaseFree(t) PROVE AcquirersSeen'
  BY <1>12 DEF ReleaseFree, Body, SetLocks, Return, wqVars, waitVars, ulockVars, EventWaiters,
               Waiters, Members
<1>13. ASSUME NEW t \in Thread, Transfer(t) PROVE AcquirersSeen'
  <2>1. EventWaiters' \subseteq EventWaiters
    BY <1>13 DEF Transfer, EventWaiters, Waiters, Members, wqVars, waitVars
  <2> QED BY <1>13, <2>1 DEF Transfer, Locks
<1>14. ASSUME NEW t \in Thread, HandoffWaits(t) PROVE AcquirersSeen'
  BY <1>14 DEF HandoffWaits, Body, SetLocks, AssertWait, AssertWaitLocked, Goto, wqVars,
               waitVars, ulockVars, EventWaiters, Waiters, Members
<1>15. ASSUME NEW t \in Thread, HandoffResumes(t) PROVE AcquirersSeen'
  BY <1>15 DEF HandoffResumes, Goto, Return, Told, wqVars, waitVars, ulockVars, EventWaiters,
               Waiters, Members
<1>16. ASSUME NEW t \in Thread, AcceptRefused(t) PROVE AcquirersSeen'
  BY <1>16 DEF AcceptRefused, Body, SetLocks, Return, wqVars, waitVars, ulockVars, EventWaiters,
               Waiters, Members
<1>17. ASSUME NEW t \in Thread, AcceptTakes(t) PROVE AcquirersSeen'
  <2>1. EventWaiters' \subseteq EventWaiters
    BY <1>17 DEF AcceptTakes, Wake, GoLocked, EventWaiters, Waiters, Members
  <2> QED BY <1>17, <2>1 DEF AcceptTakes
<1>18. ASSUME NEW t \in Thread, AcceptWaits(t) PROVE AcquirersSeen'
  BY <1>18 DEF AcceptWaits, Body, SetLocks, AssertWait, AssertWaitLocked, Goto, wqVars,
               waitVars, ulockVars, EventWaiters, Waiters, Members
<1>19. ASSUME NEW t \in Thread, AcceptResumes(t) PROVE AcquirersSeen'
  BY <1>19 DEF AcceptResumes, Goto, Return, Told, wqVars, waitVars, ulockVars, EventWaiters,
               Waiters, Members
<1>20. ASSUME NEW t \in Thread, DestroyUlock(t) PROVE AcquirersSeen'
  <2>1. CASE holder = Nobody
    <3>1. EventWaiters = {}
      BY <2>1
    <3>2. EventWaiters' \subseteq EventWaiters
      BY <1>20, QueueType DEF DestroyUlock, Wake, GoLocked, EventWaiters, Waiters, Members
    <3> QED BY <3>1, <3>2
  <2>2. CASE holder # Nobody
    <3>1. PICK S : EventWaiters \subseteq S /\ GoLocked(S, "RESTART")
      BY <1>20, <2>2 DEF DestroyUlock, Wake
    <3>2. EventWaiters' = {}
      BY <3>1, QueueType DEF GoLocked, EventWaiters, Waiters, Members
    <3> QED BY <3>2
  <2> QED BY <2>1, <2>2
<1>21. CASE AbortQuiet
  BY <1>21 DEF AbortQuiet, lockVars, wqVars, waitVars, ulockVars, EventWaiters, Waiters, Members
<1>22. ASSUME NEW t \in Thread, AbortEnds(t) PROVE AcquirersSeen'
  <2>1. EventWaiters' \subseteq EventWaiters
    BY <1>22 DEF AbortEnds, GoLocked, EventWaiters, Waiters, Members
  <2> QED BY <1>22, <2>1 DEF AbortEnds, lockVars, ulockVars
<1>23. ASSUME NEW t \in Thread, TestActive(t) PROVE AcquirersSeen'
  BY <1>23 DEF TestActive, Goto, Return, wqVars, waitVars, ulockVars, EventWaiters, Waiters,
               Members
<1>24. ASSUME NEW t \in Thread, Deactivate(t) PROVE AcquirersSeen'
  BY <1>24 DEF Deactivate, Goto, wqVars, waitVars, ulockVars, EventWaiters, Waiters,
               Members
<1>25. ASSUME NEW t \in Thread, DestroyUnlocks(t) PROVE AcquirersSeen'
  BY <1>25 DEF DestroyUnlocks, Goto, wqVars, waitVars, ulockVars, EventWaiters, Waiters,
               Members
<1>26. ASSUME NEW t \in Thread, DropReference(t) PROVE AcquirersSeen'
  BY <1>26 DEF DropReference, Return, wqVars, waitVars, ulockVars, EventWaiters, Waiters,
               Members
<1> QED
  BY <1>1, <1>2, <1>3, <1>4, <1>5, <1>6, <1>7, <1>8, <1>9, <1>10, <1>11, <1>12, <1>13, <1>14,
     <1>15, <1>16, <1>17, <1>18, <1>19, <1>20, <1>21, <1>22, <1>23, <1>24, <1>25, <1>26,
     NextCases, AbortCases

\* The ulock passes from one thread to the next: whoever is told that it has
\* it takes it from a thread that is, or will be, told that it has not.
LEMMA OwnershipStep ==
  ASSUME LockSetInv, [Next]_vars PROVE Ownership'
<1> USE LockSetAssumption DEF LockSetInv, TypeOK, WQTypeOK, Ownership, Owns, Handed
<1>1. CASE UNCHANGED vars
  BY <1>1 DEF vars, wqVars, waitVars, ulockVars
<1>2. ASSUME NEW t \in Thread, NEW o \in AllOps, Call(t, o) PROVE Ownership'
  <2>1. \A u \in Thread : op'[u] = "release" => ~mine'[u]
    <3>1. op'[t] = o /\ mine'[t] = (mine[t] /\ o # "release")
      BY <1>2 DEF Call, Told
    <3>2. \A u \in Thread \ {t} : op'[u] = op[u] /\ mine'[u] = mine[u]
      BY <1>2 DEF Call, Told
    <3>3. \A u \in Thread : op[u] = "release" => ~mine[u]
      OBVIOUS
    <3> HIDE DEF LockSetInv, TypeOK, WQTypeOK, Ownership, Owns, Handed
    <3> QED BY <3>1, <3>2, <3>3
  <2>2. \A u \in Thread : mine'[u] => mine[u]
    BY <1>2 DEF Call, Told
  <2>3. \A u \in Thread : Owns(u)' <=> Owns(u)
    BY <1>2 DEF Call, ulockVars
  <2>4. \A u \in Thread : Handed(u) => Handed(u)'
    BY <1>2 DEF Call, wqVars, waitVars
  <2>5. \A u \in Thread : pc'[u] \in {"acquire_blocked", "accept_blocked"} => pc'[u] = pc[u]
    BY <1>2 DEF Call
  <2> QED BY <1>2, <2>1, <2>2, <2>3, <2>4, <2>5 DEF Call, wqVars, waitVars
<1>3. ASSUME NEW t \in Thread, Enter(t) PROVE Ownership'
  BY <1>3 DEF Enter, Goto, Return, wqVars, waitVars, ulockVars
<1>4. ASSUME NEW t \in Thread, AcquireFree(t) PROVE Ownership'
  BY <1>4 DEF AcquireFree, Body, SetLocks, Told, Return, wqVars, waitVars, ulockVars
<1>5. ASSUME NEW t \in Thread, AcquireHeld(t) PROVE Ownership'
  BY <1>5 DEF AcquireHeld, Body, SetLocks, Goto, wqVars, waitVars, ulockVars
<1>6. ASSUME NEW t \in Thread, HeldReturns(t) PROVE Ownership'
  BY <1>6 DEF HeldReturns, SetLocks, Return, Locks, wqVars, waitVars, ulockVars
<1>7. ASSUME NEW t \in Thread, HeldBlocks(t) PROVE Ownership'
  <2>1. \A u \in Thread : Owns(u) => Owns(u)'
    BY <1>7 DEF HeldBlocks, SetLocks, Locks
  <2>2. \A u \in Thread : Handed(u) => Handed(u)'
    BY <1>7 DEF HeldBlocks, AssertWait, AssertWaitLocked, Goto
  <2> QED BY <1>7, <2>1, <2>2 DEF HeldBlocks, AssertWait, AssertWaitLocked, Goto
<1>8. ASSUME NEW t \in Thread, AcquireResumes(t) PROVE Ownership'
  BY <1>8 DEF AcquireResumes, Goto, Return, Told, wqVars, waitVars, ulockVars
<1>9. ASSUME NEW t \in Thread, NotHolder(t) PROVE Ownership'
  BY <1>9 DEF NotHolder, Body, SetLocks, Goto, wqVars, waitVars, ulockVars
<1>10. ASSUME NEW t \in Thread, NotHolderReturns(t) PROVE Ownership'
  BY <1>10 DEF NotHolderReturns, SetLocks, Return, wqVars, waitVars, ulockVars
<1>11. ASSUME NEW t \in Thread, NEW w \in Thread, WakesHeir(t, w) PROVE Ownership'
  BY <1>11 DEF WakesHeir, WakeHeir, Wake, GoLocked, SetLocks, Goto, wqVars, waitVars, ulockVars
<1>12. ASSUME NEW t \in Thread, ReleaseFree(t) PROVE Ownership'
  BY <1>12 DEF ReleaseFree, Body, SetLocks, Return, wqVars, waitVars, ulockVars
<1>13. ASSUME NEW t \in Thread, Transfer(t) PROVE Ownership'
  <2>1. holder = t
    BY <1>13 DEF Transfer, Locks
  <2>2. \A u \in Thread : u # t /\ Owns(u) => Owns(u)'
    BY <1>13, <2>1 DEF Transfer, SetLocks, Locks
  <2>3. \A u \in Thread : Handed(u) => Handed(u)'
    BY <1>13 DEF Transfer, Return, wqVars, waitVars
  <2>4. pc'[t] = "user" /\ op'[t] = "none" /\ ~mine'[t]
    BY <1>13 DEF Transfer, Return, Told
  <2> QED BY <1>13, <2>2, <2>3, <2>4 DEF Transfer, Return, Told, wqVars, waitVars
<1>14. ASSUME NEW t \in Thread, HandoffWaits(t) PROVE Ownership'
  BY <1>14 DEF HandoffWaits, Body, SetLocks, AssertWait, AssertWaitLocked, Goto, wqVars,
               waitVars, ulockVars
<1>15. ASSUME NEW t \in Thread, HandoffResumes(t) PROVE Ownership'
  BY <1>15 DEF HandoffResumes, Goto, Return, Told, wqVars, waitVars, ulockVars
<1>16. ASSUME NEW t \in Thread, AcceptRefused(t) PROVE Ownership'
  BY <1>16 DEF AcceptRefused, Body, SetLocks, Return, wqVars, waitVars, ulockVars
<1>17. ASSUME NEW t \in Thread, AcceptTakes(t) PROVE Ownership'
  <2>1. PICK h \in Thread : h = holder
    BY <1>17 DEF AcceptTakes, HolderOffers, HandoffWaiters, Waiters, Members
  <2>2. h # t /\ waiting[h] /\ pc[h] = "handoff_blocked"
    BY <1>17, <2>1, QueueType DEF AcceptTakes, HolderOffers, HandoffWaiters, Waiters, Members,
                              Waits, WaitingIffQueued
  <2>3. Owns(t)' /\ Handed(h)'
    BY <1>17, <2>1, <2>2 DEF AcceptTakes, Wake, GoLocked, Return
  <2>4. \A u \in Thread : Owns(u) => u = h
    BY <1>17, <2>1 DEF AcceptTakes, Body
  <2>5. \A u \in Thread : Handed(u) => Handed(u)'
    BY <1>17 DEF AcceptTakes, Wake, GoLocked, Return, Body
  <2>6. \A u \in Thread \ {t} : mine'[u] = mine[u] /\ op'[u] = op[u] /\ pc'[u] = pc[u]
    BY <1>17 DEF AcceptTakes, Told, Return
  <2>7. op'[t] = "none" /\ pc'[t] = "user"
    BY <1>17 DEF AcceptTakes, Return
  <2>8. \A u \in Thread \ {h} : waiting'[u] = waiting[u] /\ wait_result'[u] = wait_result[u]
    BY <1>17, <2>1 DEF AcceptTakes, Wake, GoLocked
  <2>9. ASSUME active' PROVE \A u \in Thread : mine'[u] => Owns(u)' \/ Handed(u)'
    BY <1>17, <2>9, <2>3, <2>4, <2>5, <2>6 DEF AcceptTakes
  <2>10. ASSUME NEW u \in Thread, pc'[u] \in {"acquire_blocked", "accept_blocked"},
                ~waiting'[u], wait_result'[u] = "AWAKENED", active'
         PROVE  FALSE
    BY <1>17, <2>2, <2>4, <2>6, <2>7, <2>8, <2>10 DEF AcceptTakes
  <2> QED BY <2>6, <2>7, <2>9, <2>10
<1>18. ASSUME NEW t \in Thread, AcceptWaits(t) PROVE Ownership'
  BY <1>18 DEF AcceptWaits, Body, SetLocks, AssertWait, AssertWaitLocked, Goto, wqVars,
               waitVars, ulockVars
<1>19. ASSUME NEW t \in Thread, AcceptResumes(t) PROVE Ownership'
  BY <1>19 DEF AcceptResumes, Goto, Return, Told, wqVars, waitVars, ulockVars
<1>20. ASSUME NEW t \in Thread, DestroyUlock(t) PROVE Ownership'
  <2>1. ~active'
    BY <1>20 DEF DestroyUlock, Body, Deactivated
  <2> QED BY <1>20, <2>1 DEF DestroyUlock
<1>21. CASE AbortQuiet
  BY <1>21 DEF AbortQuiet, lockVars, wqVars, waitVars, ulockVars
<1>22. ASSUME NEW t \in Thread, AbortEnds(t) PROVE Ownership'
  BY <1>22 DEF AbortEnds, GoLocked, lockVars, wqVars, waitVars, ulockVars
<1>23. ASSUME NEW t \in Thread, TestActive(t) PROVE Ownership'
  BY <1>23 DEF TestActive, Goto, Return, wqVars, waitVars, ulockVars
<1>24. ASSUME NEW t \in Thread, Deactivate(t) PROVE Ownership'
  BY <1>24 DEF Deactivate, Goto, wqVars, waitVars, ulockVars
<1>25. ASSUME NEW t \in Thread, DestroyUnlocks(t) PROVE Ownership'
  BY <1>25 DEF DestroyUnlocks, Goto, wqVars, waitVars, ulockVars
<1>26. ASSUME NEW t \in Thread, DropReference(t) PROVE Ownership'
  BY <1>26 DEF DropReference, Return, wqVars, waitVars, ulockVars
<1> QED
  BY <1>1, <1>2, <1>3, <1>4, <1>5, <1>6, <1>7, <1>8, <1>9, <1>10, <1>11, <1>12, <1>13, <1>14,
     <1>15, <1>16, <1>17, <1>18, <1>19, <1>20, <1>21, <1>22, <1>23, <1>24, <1>25, <1>26,
     NextCases, AbortCases

\* The flags of a hand-off follow the threads that wait for it, through aborts
\* that are noticed late, until lock_set_destroy reaches the ulock.
LEMMA MeetingStep ==
  ASSUME LockSetInv, [Next]_vars PROVE Meeting'
<1> USE LockSetAssumption DEF LockSetInv, TypeOK, WQTypeOK, Meeting, Offering, Accepting, Intact
<1>1. CASE UNCHANGED vars
  BY <1>1 DEF vars, wqVars, waitVars, ulockVars
<1>2. ASSUME NEW t \in Thread, NEW o \in AllOps, Call(t, o) PROVE Meeting'
  BY <1>2 DEF Call, Told, wqVars, waitVars, ulockVars
<1>3. ASSUME NEW t \in Thread, Enter(t) PROVE Meeting'
  BY <1>3 DEF Enter, Goto, Return, wqVars, waitVars, ulockVars
<1>4. ASSUME NEW t \in Thread, AcquireFree(t) PROVE Meeting'
  BY <1>4 DEF AcquireFree, Body, SetLocks, Told, Return, wqVars, waitVars, ulockVars
<1>5. ASSUME NEW t \in Thread, AcquireHeld(t) PROVE Meeting'
  BY <1>5 DEF AcquireHeld, Body, SetLocks, Goto, wqVars, waitVars, ulockVars
<1>6. ASSUME NEW t \in Thread, HeldReturns(t) PROVE Meeting'
  BY <1>6 DEF HeldReturns, SetLocks, Return, wqVars, waitVars, ulockVars
<1>7. ASSUME NEW t \in Thread, HeldBlocks(t) PROVE Meeting'
  BY <1>7 DEF HeldBlocks, SetLocks, AssertWait, AssertWaitLocked, Goto, wqVars, waitVars,
              ulockVars
<1>8. ASSUME NEW t \in Thread, AcquireResumes(t) PROVE Meeting'
  BY <1>8 DEF AcquireResumes, Goto, Return, Told, wqVars, waitVars, ulockVars
<1>9. ASSUME NEW t \in Thread, NotHolder(t) PROVE Meeting'
  BY <1>9 DEF NotHolder, Body, SetLocks, Goto, wqVars, waitVars, ulockVars
<1>10. ASSUME NEW t \in Thread, NotHolderReturns(t) PROVE Meeting'
  BY <1>10 DEF NotHolderReturns, SetLocks, Return, wqVars, waitVars, ulockVars
<1>11. ASSUME NEW t \in Thread, NEW w \in Thread, WakesHeir(t, w) PROVE Meeting'
  <2>1. waiting[w] /\ w # t
    BY <1>11, QueueType DEF WakesHeir, EventWaiters, HandoffWaiters, Waiters, Members,
                        WaitingIffQueued, Waits
  <2>2. \A u \in Thread \ {w} : (Offering(u)' <=> Offering(u)) /\ (Accepting(u)' <=> Accepting(u))
    BY <1>11 DEF WakesHeir, WakeHeir, Wake, GoLocked, Goto
  <2>3. ~Offering(w)' /\ ~Accepting(w)'
    BY <1>11, <2>1 DEF WakesHeir, WakeHeir, Wake, GoLocked, Goto
  <2>4. \A u \in Thread : waiting'[u] => waiting[u]
    BY <1>11 DEF WakesHeir, WakeHeir, Wake, GoLocked
  <2>5. UNCHANGED <<holder, ho_wait, accept_wait, dropped, op>>
    BY <1>11 DEF WakesHeir, WakeHeir, Goto, ulockVars
  <2>6. Intact' => Intact
    BY <1>11, <2>5 DEF WakesHeir, WakeHeir, Goto
  <2>7. Intact => ~Offering(w)
    BY <1>11, <2>1 DEF WakesHeir
  <2>8. op[t] = "handoff" /\ Intact => Accepting(w)
    BY <1>11, <2>1, <2>7 DEF WakesHeir, HandoffWaiters, Waiters, Waits
  <2>9. \A u \in Thread : pc'[u] = "transfer" => u = t
    BY <1>11 DEF WakesHeir, WakeHeir, Goto, Locks
  <2> QED
    <3> HIDE DEF Offering, Accepting, Intact
    <3> QED BY <2>2, <2>3, <2>4, <2>5, <2>6, <2>7, <2>8, <2>9
<1>12. ASSUME NEW t \in Thread, ReleaseFree(t) PROVE Meeting'
  BY <1>12 DEF ReleaseFree, Body, SetLocks, Return, wqVars, waitVars, ulockVars
<1>13. ASSUME NEW t \in Thread, Transfer(t) PROVE Meeting'
  <2>1. holder = t /\ pc[t] = "transfer" /\ \A u \in Thread : pc'[u] # "transfer"
    BY <1>13 DEF Transfer, Return, Locks
  <2>2. \A u \in Thread : (Offering(u)' => Offering(u)) /\ (Accepting(u)' => Accepting(u))
    BY <1>13 DEF Transfer, Return, wqVars, waitVars
  <2>3. Intact' => Intact
    BY <1>13 DEF Transfer, Return
  <2>4. UNCHANGED <<ho_wait, waiting>> /\ (accept_wait' <=> accept_wait /\ op[t] # "handoff")
    BY <1>13 DEF Transfer, wqVars, waitVars
  <2>5. Intact => \A u \in Thread : ~Offering(u)
    BY <2>1
  <2> QED
    <3> HIDE DEF Offering, Accepting, Intact
    <3> QED BY <2>1, <2>2, <2>3, <2>4, <2>5
<1>14. ASSUME NEW t \in Thread, HandoffWaits(t) PROVE Meeting'
  <2>1. holder = t /\ \A u \in Thread : pc'[u] # "transfer"
    BY <1>14 DEF HandoffWaits, Body, Goto, Locks
  <2>2. \A u \in Thread \ {t} : /\ Offering(u)' <=> Offering(u)
                                /\ Accepting(u)' <=> Accepting(u)
                                /\ waiting'[u] = waiting[u]
    BY <1>14 DEF HandoffWaits, AssertWait, AssertWaitLocked, Goto
  <2>3. Offering(t)' /\ ~Accepting(t)'
    BY <1>14 DEF HandoffWaits, AssertWait, AssertWaitLocked, Goto
  <2>4. Intact' => Intact
    BY <1>14 DEF HandoffWaits, Body, Goto
  <2>5. UNCHANGED <<holder, accept_wait>> /\ ho_wait'
    BY <1>14 DEF HandoffWaits
  <2>6. Intact => \A u \in Thread : ~(Accepting(u) /\ waiting[u])
    BY <1>14 DEF HandoffWaits, HandoffWaiters, Waiters, Members, Waits
  <2> QED
    <3> HIDE DEF Offering, Accepting, Intact
    <3> QED BY <2>1, <2>2, <2>3, <2>4, <2>5, <2>6
<1>15. ASSUME NEW t \in Thread, HandoffResumes(t) PROVE Meeting'
  BY <1>15 DEF HandoffResumes, Goto, Return, Told, wqVars, waitVars, ulockVars
<1>16. ASSUME NEW t \in Thread, AcceptRefused(t) PROVE Meeting'
  BY <1>16 DEF AcceptRefused, Body, SetLocks, Return, wqVars, waitVars, ulockVars
<1>17. ASSUME NEW t \in Thread, AcceptTakes(t) PROVE Meeting'
  <2>1. PICK h \in Thread : h = holder
    BY <1>17 DEF AcceptTakes, HolderOffers, HandoffWaiters, Waiters, Members
  <2>2. waiting[h] /\ h # t
    BY <1>17, <2>1, QueueType DEF AcceptTakes, HolderOffers, HandoffWaiters, Waiters, Members,
                              WaitingIffQueued
  <2>3. \A u \in Thread \ {h} : (Offering(u)' => Offering(u)) /\ (Accepting(u)' => Accepting(u))
    BY <1>17, <2>1 DEF AcceptTakes, Wake, GoLocked, Return
  <2>4. ~Offering(h)' /\ ~Accepting(h)'
    BY <1>17, <2>1, <2>2 DEF AcceptTakes, Wake, GoLocked, Return
  <2>5. Intact' => Intact
    BY <1>17 DEF AcceptTakes, Body, Return
  <2>6. ~ho_wait' /\ ~accept_wait
    BY <1>17 DEF AcceptTakes
  <2> QED
    <3> HIDE DEF Offering, Accepting, Intact
    <3> QED BY <2>1, <2>3, <2>4, <2>5, <2>6
<1>18. ASSUME NEW t \in Thread, AcceptWaits(t) PROVE Meeting'
  <2>1. \A u \in Thread : pc'[u] # "transfer"
    BY <1>18 DEF AcceptWaits, Body, Goto, Locks
  <2>2. \A u \in Thread \ {t} : /\ Offering(u)' <=> Offering(u)
                                /\ Accepting(u)' <=> Accepting(u)
                                /\ waiting'[u] = waiting[u]
    BY <1>18 DEF AcceptWaits, AssertWait, AssertWaitLocked, Goto
  <2>3. Accepting(t)' /\ ~Offering(t)' /\ ~Offering(t)
    BY <1>18 DEF AcceptWaits, AssertWait, AssertWaitLocked, Goto, Body
  <2>4. Intact' => Intact
    BY <1>18 DEF AcceptWaits, Body, Goto
  <2>5. UNCHANGED <<holder, ho_wait>> /\ accept_wait' /\ ~accept_wait
    BY <1>18 DEF AcceptWaits
  <2>6. Intact => \A u \in Thread : ~(Offering(u) /\ waiting[u])
    BY <1>18 DEF AcceptWaits, HolderOffers, HandoffWaiters, Waiters, Members, Waits
  <2> QED
    <3> HIDE DEF Offering, Accepting, Intact
    <3> QED BY <2>1, <2>2, <2>3, <2>4, <2>5, <2>6
<1>19. ASSUME NEW t \in Thread, AcceptResumes(t) PROVE Meeting'
  <2>1. pc[t] = "accept_blocked" /\ ~waiting[t] /\ pc'[t] \in {"user", "enter"}
    BY <1>19 DEF AcceptResumes, Goto, Return
  <2>2. \A u \in Thread \ {t} : pc'[u] = pc[u] /\ op'[u] = op[u]
    BY <1>19 DEF AcceptResumes, Goto, Return
  <2>3. UNCHANGED <<holder, ho_wait, dropped, waiting, wait_result>>
    BY <1>19 DEF AcceptResumes, wqVars, waitVars
  <2>4. accept_wait' = accept_wait \/ Accepting(t)
    BY <1>19 DEF AcceptResumes
  <2>5. \A u \in Thread \ {t} : (Offering(u)' <=> Offering(u)) /\ (Accepting(u)' <=> Accepting(u))
    BY <2>2, <2>3
  <2>6. ~Offering(t) /\ ~Offering(t)' /\ ~Accepting(t)'
    BY <2>1
  <2>7. Intact' => Intact
    BY <2>1, <2>2, <2>3
  <2>8. \A u \in Thread : pc'[u] = "transfer" => pc[u] = "transfer" /\ op'[u] = op[u]
    BY <2>1, <2>2
  <2> QED
    <3> HIDE DEF Offering, Accepting, Intact
    <3> QED BY <2>3, <2>4, <2>5, <2>6, <2>7, <2>8
<1>20. ASSUME NEW t \in Thread, DestroyUlock(t) PROVE Meeting'
  <2>1. ~Intact'
    BY <1>20 DEF DestroyUlock, Goto
  <2> QED BY <2>1
<1>21. CASE AbortQuiet
  BY <1>21 DEF AbortQuiet, lockVars, wqVars, waitVars, ulockVars
<1>22. ASSUME NEW t \in Thread, AbortEnds(t) PROVE Meeting'
  <2>1. \A u \in Thread : /\ Offering(u)' <=> Offering(u)
                          /\ Accepting(u)' <=> Accepting(u)
                          /\ waiting'[u] => waiting[u]
    BY <1>22 DEF AbortEnds, GoLocked, lockVars
  <2>2. UNCHANGED <<holder, ho_wait, accept_wait, dropped, pc, op>>
    BY <1>22 DEF AbortEnds, lockVars, ulockVars
  <2>3. Intact' <=> Intact
    BY <2>2
  <2> QED
    <3> HIDE DEF Offering, Accepting, Intact
    <3> QED BY <2>1, <2>2, <2>3
<1>23. ASSUME NEW t \in Thread, TestActive(t) PROVE Meeting'
  BY <1>23 DEF TestActive, Goto, Return, wqVars, waitVars, ulockVars
<1>24. ASSUME NEW t \in Thread, Deactivate(t) PROVE Meeting'
  BY <1>24 DEF Deactivate, Goto, wqVars, waitVars, ulockVars
<1>25. ASSUME NEW t \in Thread, DestroyUnlocks(t) PROVE Meeting'
  BY <1>25 DEF DestroyUnlocks, Goto, wqVars, waitVars, ulockVars
<1>26. ASSUME NEW t \in Thread, DropReference(t) PROVE Meeting'
  BY <1>26 DEF DropReference, Return, wqVars, waitVars, ulockVars
<1> QED
  BY <1>1, <1>2, <1>3, <1>4, <1>5, <1>6, <1>7, <1>8, <1>9, <1>10, <1>11, <1>12, <1>13, <1>14,
     <1>15, <1>16, <1>17, <1>18, <1>19, <1>20, <1>21, <1>22, <1>23, <1>24, <1>25, <1>26,
     NextCases, AbortCases

-----------------------------------------------------------------------------
(* The theorems                                                            *)

\* The inductive invariant holds of a new lock set.
LEMMA LockSetInitInv == Init => LockSetInv
<1> SUFFICES ASSUME Init PROVE LockSetInv
  OBVIOUS
<1>1. WQInv
  BY WQInitInv DEF Init
<1>2. TypeOK /\ pc \in [Thread -> Label]
  BY <1>1 DEF Init, TypeOK, WQInv, Label, AllOps
<1>3. Locks /\ Deactivated /\ Ownership
  BY LockSetAssumption DEF Init, Locks, Deactivated, Ownership
<1>4. Waits /\ Aborts /\ AcquirersSeen
  BY QueueType DEF Init, WQInit, Waits, Aborts, Clearer, AcquirersSeen, EventWaiters, Waiters,
                   Members
<1>5. Meeting
  BY DEF Init, Meeting, Offering, Accepting
<1> QED BY <1>1, <1>2, <1>3, <1>4, <1>5 DEF LockSetInv, WQInv

\* Every step of every operation, of an abort and of the destruction keeps the
\* inductive invariant, for any number of threads.
THEOREM LockSetInvariant == Spec => []LockSetInv
<1>1. LockSetInv /\ [Next]_vars => LockSetInv'
  <2> SUFFICES ASSUME LockSetInv, [Next]_vars PROVE LockSetInv'
    OBVIOUS
  <2> QED BY QueuesStep, TypesStep, LocksStep, WaitsStep, AbortsStep, DeactivatedStep,
             AcquirersStep, OwnershipStep, MeetingStep DEF LockSetInv, WQInv
<1> QED BY <1>1, LockSetInitInv, PTL DEF Spec

\* While the set is active, whoever was last told by lock_acquire, lock_try,
\* lock_handoff_accept or a wake-up that it has the ulock is its holder, or is
\* being made so by the thread that has the mutex.
THEOREM OneOwner == Spec => []Exclusion
<1>1. LockSetInv => Exclusion
  BY DEF LockSetInv, Ownership, Owns, Handed, Exclusion
<1> QED BY <1>1, LockSetInvariant, PTL

\* A thread asleep in lock_acquire is always announced by `blocked' on a ulock
\* that has a holder, so some lock_release finds it.
THEOREM AcquirersAnnounced == Spec => []AcquirersSeen
<1>1. LockSetInv => AcquirersSeen
  BY DEF LockSetInv
<1> QED BY <1>1, LockSetInvariant, PTL

\* lock_handoff and lock_handoff_accept never both sleep, and the one that
\* sleeps has its flag up.
THEOREM HandoffsMeet == Spec => []HandoffMeets
<1>1. LockSetInv => HandoffMeets
  <2> SUFFICES ASSUME LockSetInv PROVE HandoffMeets
    OBVIOUS
  <2>1. \A t \in HandoffWaiters : /\ t \in Thread /\ waiting[t]
                                  /\ Offering(t) \/ (Accepting(t) /\ holder # t)
    BY QueueType, LockSetAssumption DEF LockSetInv, WaitingIffQueued, Waits, HandoffWaiters,
                                        Waiters, Members, Offering, Accepting
  <2>2. ASSUME Intact PROVE Cardinality(HandoffWaiters) =< 1
    <3>1. \A t, u \in HandoffWaiters : t = u
      BY <2>1, <2>2 DEF LockSetInv, Meeting
    <3>2. HandoffWaiters = {} \/ \E t \in HandoffWaiters : HandoffWaiters = {t}
      BY <3>1
    <3>3. CASE HandoffWaiters = {}
      BY <3>3, FS_EmptySet
    <3>4. ASSUME NEW t, HandoffWaiters = {t} PROVE Cardinality(HandoffWaiters) =< 1
      BY <3>4, FS_Singleton
    <3> QED BY <3>2, <3>3, <3>4
  <2>3. ASSUME Intact
        PROVE  \A t \in HandoffWaiters : IF holder = t THEN ho_wait ELSE accept_wait
    BY <2>1, <2>3 DEF LockSetInv, Meeting
  <2>4. ASSUME Intact, ho_wait PROVE holder # Nobody
    BY <2>4, LockSetAssumption DEF LockSetInv, Meeting
  <2> QED BY <2>2, <2>3, <2>4 DEF LockSetInv, HandoffMeets
<1> QED BY <1>1, LockSetInvariant, PTL

-----------------------------------------------------------------------------
(***************************************************************************)
(* Thread calls                                                            *)
(***************************************************************************)

-----------------------------------------------------------------------------
(* What the operations on a queue do                                       *)

\* The positions of the entries that stay have the ranks 1, 2, 3, ...
LEMMA Ranks ==
  ASSUME NEW n \in Nat, NEW K \in SUBSET (1 .. n)
  PROVE  LET rank(i) == Cardinality({j \in K : j <= i}) IN
         /\ Cardinality(K) \in Nat
         /\ \A i \in K : rank(i) \in 1 .. Cardinality(K)
         /\ \A i, j \in K : i < j => rank(i) < rank(j)
         /\ \A k \in 1 .. Cardinality(K) : \E i \in K : rank(i) = k
<1> DEFINE L(i) == {j \in K : j <= i}
           rank(i) == Cardinality(L(i))
           m == Cardinality(K)
           f == [i \in K |-> rank(i)]
<1>1. IsFiniteSet(1 .. n)
  BY FS_Interval
<1>2. IsFiniteSet(K) /\ m \in Nat
  BY <1>1, FS_Subset, FS_CardinalityType
<1>3. ASSUME NEW i PROVE IsFiniteSet(L(i)) /\ rank(i) \in Nat /\ rank(i) <= m
  <2>1. L(i) \in SUBSET K
    OBVIOUS
  <2> HIDE DEF L
  <2> QED BY <1>2, <2>1, FS_Subset, FS_CardinalityType
<1>4. ASSUME NEW i \in K PROVE rank(i) \in 1 .. m
  <2>1. i \in L(i)
    OBVIOUS
  <2>2. rank(i) # 0
    <3> HIDE DEF L
    <3> QED BY <1>3, <2>1, FS_EmptySet
  <2> HIDE DEF L
  <2> QED BY <1>2, <1>3, <2>2
<1>5. ASSUME NEW i \in K, NEW j \in K, i < j PROVE rank(i) < rank(j)
  <2>0. \A x \in K : x \in Nat
    OBVIOUS
  <2>1. L(i) \in SUBSET L(j) /\ j \in L(j) /\ j \notin L(i)
    <3>1. ASSUME NEW x \in K, x <= i PROVE x <= j
      BY <1>5, <2>0, <3>1
    <3>2. j <= j /\ ~(j <= i)
      BY <1>5, <2>0
    <3> QED BY <3>1, <3>2
  <2> HIDE DEF L
  <2>2. rank(i) <= rank(j) /\ rank(i) # rank(j)
    BY <1>3, <2>1, FS_Subset
  <2> QED BY <1>3, <2>2
<1> HIDE DEF L, rank, m
<1>6. f \in Injection(K, 1 .. m)
  <2>1. f \in [K -> 1 .. m]
    BY <1>4
  <2>2. \A i, j \in K : f[i] = f[j] => i = j
    <3> SUFFICES ASSUME NEW i \in K, NEW j \in K, i < j PROVE f[i] # f[j]
      OBVIOUS
    <3> QED BY <1>3, <1>5
  <2> QED BY <2>1, <2>2, Fun_IsInj
<1>7. IsFiniteSet(1 .. m) /\ Cardinality(1 .. m) = m
  BY <1>2, FS_Interval
<1>8. f \in Surjection(K, 1 .. m)
  <2>1. Cardinality(K) = Cardinality(1 .. m)
    BY <1>7 DEF m
  <2> QED BY <1>6, <1>7, <2>1, FS_Injection
<1>9. \A k \in 1 .. m : \E i \in K : f[i] = k
  BY <1>8 DEF Surjection
<1> QED BY <1>2, <1>4, <1>5, <1>9 DEF m, rank, L

\* w consists of entries of q in the order they have there: the k-th is the
\* one at position h[k].  Those that are not in S are all there.
Picks(w, q, S, h) ==
  /\ h \in [1 .. Len(w) -> 1 .. Len(q)]
  /\ \A k, l \in 1 .. Len(w) : k < l => h[k] < h[l]
  /\ \A k \in 1 .. Len(w) : w[k] = q[h[k]] /\ q[h[k]] \notin S
  /\ \A i \in 1 .. Len(q) : q[i] \notin S => \E k \in 1 .. Len(w) : h[k] = i

\* What removing entries leaves
LEMMA WithoutPicks ==
  ASSUME NEW C, NEW q \in Seq(C), NEW S
  PROVE  Without(q, S) \in Seq(C) /\ \E h : Picks(Without(q, S), q, S, h)
<1> DEFINE n == Len(q)
           K == {i \in 1 .. n : q[i] \notin S}
           rank(i) == Cardinality({j \in K : j <= i})
           m == Cardinality(K)
           h == [k \in 1 .. m |-> CHOOSE i \in K : rank(i) = k]
           w == Without(q, S)
<1>1. n \in Nat /\ K \in SUBSET (1 .. n)
  OBVIOUS
<1>2. /\ m \in Nat
      /\ \A i \in K : rank(i) \in 1 .. m
      /\ \A i, j \in K : i < j => rank(i) < rank(j)
      /\ \A k \in 1 .. m : \E i \in K : rank(i) = k
  <2> HIDE DEF n, K
  <2> QED BY <1>1, Ranks
<1>3. \A i \in K : i \in Nat /\ i \in 1 .. n /\ q[i] \notin S /\ q[i] \in C
  OBVIOUS
<1>4. \A i \in 1 .. n : q[i] \notin S => i \in K
  OBVIOUS
<1>5. w = [k \in 1 .. m |-> q[CHOOSE i \in K : rank(i) = k]]
  BY DEF Without
<1> HIDE DEF rank, m, K, n, w
<1>6. \A k \in 1 .. m : h[k] \in K /\ rank(h[k]) = k
  BY <1>2
<1>7. \A k \in 1 .. m : w[k] = q[h[k]]
  BY <1>5
<1> HIDE DEF h
<1>8. \A k \in 1 .. m : w[k] \in C
  BY <1>3, <1>6, <1>7
<1>9. w \in [1 .. m -> C]
  BY <1>5, <1>8
<1>10. w \in Seq(C) /\ Len(w) = m
  BY <1>2, <1>9
<1>11. ASSUME NEW k \in 1 .. m, NEW l \in 1 .. m, k < l PROVE h[k] < h[l]
  <2>1. h[k] \in Nat /\ h[l] \in Nat
    BY <1>3, <1>6
  <2>2. ~(h[l] < h[k]) /\ h[l] # h[k]
    BY <1>2, <1>6, <1>11
  <2> QED BY <2>1, <2>2
<1>12. ASSUME NEW i \in K PROVE \E k \in 1 .. m : h[k] = i
  <2>1. PICK k \in 1 .. m : k = rank(i)
    BY <1>2
  <2>2. h[k] \in K /\ rank(h[k]) = rank(i) /\ h[k] \in Nat /\ i \in Nat
    BY <1>3, <1>6, <2>1
  <2>3. ~(h[k] < i) /\ ~(i < h[k])
    BY <1>2, <2>2
  <2> QED BY <2>2, <2>3
<1>13. h \in [1 .. m -> 1 .. n]
  BY <1>3, <1>6 DEF h
<1>14. Picks(w, q, S, h)
  BY <1>3, <1>4, <1>6, <1>7, <1>10, <1>11, <1>12, <1>13 DEF Picks, n
<1> QED BY <1>10, <1>14 DEF w

\* A queue with its entries in the order of the times dl
InOrder(q, dl) == \A i, j \in 1 .. Len(q) : i <= j => dl[q[i]] <= dl[q[j]]

\* Taking the entries S off a queue leaves the others, once each and in order.
LEMMA WithoutFacts ==
  ASSUME NEW C, NEW q \in Seq(C), NEW S
  PROVE  /\ Without(q, S) \in Seq(C)
         /\ \A c : IsIn(c, Without(q, S)) <=> IsIn(c, q) /\ c \notin S
         /\ Once(q) => Once(Without(q, S))
         /\ \A dl : InOrder(q, dl) => InOrder(Without(q, S), dl)
<1> DEFINE w == Without(q, S)
<1>1. w \in Seq(C)
  BY WithoutPicks
<1>2. PICK h : Picks(w, q, S, h)
  BY WithoutPicks
<1> HIDE DEF w
<1>3. /\ h \in [1 .. Len(w) -> 1 .. Len(q)]
      /\ \A k, l \in 1 .. Len(w) : k < l => h[k] < h[l]
      /\ \A k \in 1 .. Len(w) : w[k] = q[h[k]] /\ q[h[k]] \notin S
      /\ \A i \in 1 .. Len(q) : q[i] \notin S => \E k \in 1 .. Len(w) : h[k] = i
  BY <1>2 DEF Picks
<1>4. \A c : IsIn(c, w) <=> IsIn(c, q) /\ c \notin S
  BY <1>3 DEF IsIn
<1>5. Len(w) \in Nat /\ Len(q) \in Nat
  BY <1>1
<1>6. \A k, l \in 1 .. Len(w) : /\ k <= l => h[k] <= h[l]
                                /\ h[k] = h[l] => k = l
  <2> SUFFICES ASSUME NEW k \in 1 .. Len(w), NEW l \in 1 .. Len(w)
               PROVE  (k <= l => h[k] <= h[l]) /\ (h[k] = h[l] => k = l)
    OBVIOUS
  <2>1. h[k] \in Nat /\ h[l] \in Nat /\ k \in Nat /\ l \in Nat
    BY <1>3, <1>5
  <2>2. (k < l => h[k] < h[l]) /\ (l < k => h[l] < h[k])
    BY <1>3
  <2> QED BY <2>1, <2>2
<1>7. Once(q) => Once(w)
  BY <1>3, <1>6 DEF Once
<1>8. \A dl : InOrder(q, dl) => InOrder(w, dl)
  <2> SUFFICES ASSUME NEW dl, InOrder(q, dl), NEW k \in 1 .. Len(w), NEW l \in 1 .. Len(w), k <= l
               PROVE  dl[w[k]] <= dl[w[l]]
    BY DEF InOrder
  <2>1. h[k] \in 1 .. Len(q) /\ h[l] \in 1 .. Len(q) /\ h[k] <= h[l]
    BY <1>3, <1>6
  <2>2. dl[q[h[k]]] <= dl[q[h[l]]]
    BY <2>1 DEF InOrder
  <2> QED BY <1>3, <2>2
<1> QED BY <1>1, <1>4, <1>7, <1>8 DEF w

\* (Two queues one after the other)
LEMMA ConcatFacts ==
  ASSUME NEW C, NEW s \in Seq(C), NEW t \in Seq(C)
  PROVE  /\ s \o t \in Seq(C) /\ Len(s \o t) = Len(s) + Len(t)
         /\ \A i \in 1 .. Len(s) + Len(t) :
              (s \o t)[i] = IF i <= Len(s) THEN s[i] ELSE t[i - Len(s)]
OBVIOUS

\* Queue r is q with c at position i
Inserted(r, q, i, c) ==
  /\ r \in Seq(Callout) /\ Len(r) = Len(q) + 1
  /\ \A j \in 1 .. Len(q) + 1 : r[j] = IF j < i THEN q[j] ELSE IF j = i THEN c ELSE q[j - 1]

\* What _delayed_call_enqueue does to a queue: InsertAt by positions
LEMMA InsertFacts ==
  ASSUME NEW q \in Seq(Callout), NEW c \in Callout, NEW i \in 1 .. Len(q) + 1
  PROVE  Inserted(InsertAt(q, i, c), q, i, c)
<1> DEFINE a == SubSeq(q, 1, i - 1)
           z == SubSeq(q, i, Len(q))
<1>0. Len(q) \in Nat /\ i \in Nat
  OBVIOUS
<1>1. a \in Seq(Callout) /\ Len(a) = i - 1 /\ \A j \in 1 .. i - 1 : a[j] = q[j]
  BY <1>0
<1>2. z \in Seq(Callout) /\ Len(z) = Len(q) - i + 1 /\ \A j \in 1 .. Len(q) - i + 1 : z[j] = q[i + j - 1]
  BY <1>0
<1>3. InsertAt(q, i, c) = (a \o <<c>>) \o z
  BY DEF InsertAt
<1> HIDE DEF a, z
<1>4. /\ a \o <<c>> \in Seq(Callout) /\ Len(a \o <<c>>) = i
      /\ \A j \in 1 .. i : (a \o <<c>>)[j] = IF j < i THEN q[j] ELSE c
  BY <1>0, <1>1
<1>5. PICK b \in Seq(Callout) : b = a \o <<c>>
  BY <1>4
<1>6. /\ b \o z \in Seq(Callout) /\ Len(b \o z) = Len(q) + 1
      /\ \A j \in 1 .. Len(q) + 1 : (b \o z)[j] = IF j <= i THEN b[j] ELSE z[j - i]
  <2>1. z \in Seq(Callout)
    BY <1>2
  <2>2. /\ b \o z \in Seq(Callout) /\ Len(b \o z) = Len(b) + Len(z)
        /\ \A j \in 1 .. Len(b) + Len(z) : (b \o z)[j] = IF j <= Len(b) THEN b[j] ELSE z[j - Len(b)]
    BY <2>1, ConcatFacts, Zenon
  <2>3. Len(b) = i
    BY <1>4, <1>5
  <2>4. Len(z) = Len(q) - i + 1
    BY <1>2
  <2>5. Len(b) + Len(z) = Len(q) + 1
    BY ONLY <1>0, <2>3, <2>4
  <2> QED BY ONLY <2>2, <2>3, <2>5
<1>7. \A j \in 1 .. Len(q) + 1 : j > i => z[j - i] = q[j - 1]
  BY <1>0, <1>2
<1>8. PICK r : r = InsertAt(q, i, c)
  OBVIOUS
<1>9. r \in Seq(Callout) /\ Len(r) = Len(q) + 1
  BY <1>3, <1>5, <1>6, <1>8
<1>10. \A j \in 1 .. Len(q) + 1 : r[j] = IF j < i THEN q[j] ELSE IF j = i THEN c ELSE q[j - 1]
  BY <1>0, <1>3, <1>4, <1>5, <1>6, <1>7, <1>8
<1> QED BY <1>8, <1>9, <1>10 DEF Inserted

-----------------------------------------------------------------------------
(* The threads                                                             *)

Doing == {"none", "awake", "idle", "returned"} \union Callout

\* The threads that exist, and those inside a callout, when each does what f says
Existing(f) == {x \in CallThread : f[x] # "none"}
Busy(f) == {x \in CallThread : f[x] \in Callout \union {"returned"}}

\* The counts the activate thread decides by
Counts ==
  /\ thread_num = Cardinality(Existing(thr)) + (IF activate = "creating" THEN 1 ELSE 0)
  /\ active_num = Cardinality(Busy(thr))

\* (No callout is one of the places.)
LEMMA Places4 == {"none", "awake", "idle", "returned"} \intersect Callout = {}
BY ThreadCallAssumption

\* (Finite sets of threads)
LEMMA CountTypes ==
  ASSUME NEW f
  PROVE  /\ IsFiniteSet(Existing(f)) /\ Cardinality(Existing(f)) \in 0 .. Cardinality(CallThread)
         /\ IsFiniteSet(Busy(f)) /\ Cardinality(Busy(f)) \in 0 .. Cardinality(CallThread)
         /\ IsFiniteSet(CallThread) /\ Cardinality(CallThread) \in Nat
<1>1. Existing(f) \in SUBSET CallThread /\ Busy(f) \in SUBSET CallThread
  BY DEF Existing, Busy
<1>2. IsFiniteSet(CallThread) /\ Cardinality(CallThread) \in Nat
  BY ThreadCallAssumption, FS_CardinalityType
<1>3. ASSUME NEW S \in SUBSET CallThread
      PROVE  IsFiniteSet(S) /\ Cardinality(S) \in 0 .. Cardinality(CallThread)
  <2>1. IsFiniteSet(S) /\ Cardinality(S) \in Nat /\ Cardinality(S) <= Cardinality(CallThread)
    BY <1>2, FS_Subset, FS_CardinalityType
  <2> QED BY <1>2, <2>1
<1> QED BY <1>1, <1>2, <1>3

\* _call_thread_wake: somebody is on the way to the queue afterwards, and the
\* threads that exist and that are inside a callout stay the same.
LEMMA WakeFacts ==
  ASSUME NEW doing \in [CallThread -> Doing], \A x \in IdleThreads : doing[x] = "idle",
         activate \in {"awake", "creating", "asleep"}, NEW numActive,
         CallThreadWake(doing, numActive)
  PROVE  /\ thr' \in [CallThread -> Doing] /\ activate' \in {"awake", "creating", "asleep"}
         /\ activate' = "creating" <=> activate = "creating"
         /\ Existing(thr') = Existing(doing) /\ Busy(thr') = Busy(doing)
         /\ activate' # "asleep" \/ \E x \in CallThread : thr'[x] = "awake"
<1>1. PICK W \in SUBSET IdleThreads :
        /\ Cardinality(W) = IF IdleThreads = {} THEN 0 ELSE 1
        /\ thr' = [x \in CallThread |-> IF x \in W THEN "awake" ELSE doing[x]]
        /\ activate' = IF activate = "asleep" /\ (W = {} \/ thread_num < numActive + Len(pending'))
                         THEN "awake" ELSE activate
  BY DEF CallThreadWake
<1>2. \A x \in W : x \in CallThread /\ doing[x] = "idle" /\ thr'[x] = "awake"
  BY <1>1 DEF IdleThreads
<1>3. \A x \in CallThread : x \notin W => thr'[x] = doing[x]
  BY <1>1
<1>4. thr' \in [CallThread -> Doing]
  BY <1>1 DEF Doing
<1>5. activate' \in {"awake", "creating", "asleep"} /\ (activate' = "creating" <=> activate = "creating")
  BY <1>1
<1>6. "idle" \notin Callout /\ "awake" \notin Callout
  BY Places4
<1>7. Existing(thr') = Existing(doing)
  BY <1>2, <1>3 DEF Existing
<1>8. Busy(thr') = Busy(doing)
  BY <1>2, <1>3, <1>6 DEF Busy
<1>9. activate' # "asleep" \/ \E x \in CallThread : thr'[x] = "awake"
  <2>1. CASE W = {}
    BY <1>1, <2>1
  <2>2. CASE W # {}
    BY <1>2, <2>2
  <2> QED BY <2>1, <2>2
<1> QED BY <1>4, <1>5, <1>7, <1>8, <1>9

\* What the threads are like and whom they count, in one
ThreadsOK ==
  /\ thr \in [CallThread -> Doing]
  /\ thread_num \in 0 .. Cardinality(CallThread)
  /\ active_num \in 0 .. Cardinality(CallThread)
  /\ activate \in {"awake", "creating", "asleep"}
  /\ Counts

\* Waking somebody counts nobody.
LEMMA WakeKeepsCounts ==
  ASSUME ThreadsOK, NEW numActive, CallThreadWake(thr, numActive), UNCHANGED <<thread_num, active_num>>
  PROVE  ThreadsOK'
<1>1. \A x \in IdleThreads : thr[x] = "idle"
  BY DEF IdleThreads
<1>2. /\ thr' \in [CallThread -> Doing] /\ activate' \in {"awake", "creating", "asleep"}
      /\ activate' = "creating" <=> activate = "creating"
      /\ Existing(thr') = Existing(thr) /\ Busy(thr') = Busy(thr)
  BY <1>1, WakeFacts DEF ThreadsOK
<1> QED BY <1>2 DEF ThreadsOK, Counts

\* A thread that takes a call is active, and it was counted as one already if it
\* comes from another call.
LEMMA TakesCounts ==
  ASSUME ThreadsOK, NEW x \in CallThread, CallThreadTakes(x), pending \in Seq(Callout)
  PROVE  ThreadsOK'
<1> DEFINE c == Head(pending)
           doing == [thr EXCEPT ![x] = c]
           numActive == IF thr[x] = "returned" THEN active_num - 1 ELSE active_num
<1>1. c \in Callout /\ thr[x] \in {"awake", "returned"} /\ thread_num' = thread_num
      /\ active_num' = numActive + 1
  BY DEF CallThreadTakes
<1>2. doing \in [CallThread -> Doing] /\ \A y \in IdleThreads : doing[y] = "idle"
  BY <1>1 DEF ThreadsOK, Doing, IdleThreads
<1>3. "awake" \notin Callout /\ "returned" \notin Callout /\ "none" \notin Callout
  BY Places4
<1>4. Existing(doing) = Existing(thr) /\ Busy(doing) = Busy(thr) \union {x}
  BY <1>1, <1>3 DEF Existing, Busy, ThreadsOK
<1>5. /\ thr' \in [CallThread -> Doing] /\ activate' \in {"awake", "creating", "asleep"}
      /\ activate' = "creating" <=> activate = "creating"
      /\ Existing(thr') = Existing(doing) /\ Busy(thr') = Busy(doing)
  <2>1. CASE CallThreadWake(doing, numActive + 1)
    <3> HIDE DEF doing, numActive
    <3> QED BY <1>2, <2>1, WakeFacts DEF ThreadsOK
  <2>2. CASE thr' = doing /\ UNCHANGED activate
    <3> HIDE DEF doing
    <3> QED BY <1>2, <2>2 DEF ThreadsOK
  <2> QED BY <2>1, <2>2 DEF CallThreadTakes
<1>6. active_num' = Cardinality(Busy(thr) \union {x})
  <2>1. CASE thr[x] = "returned"
    <3>1. x \in Busy(thr)
      BY <2>1 DEF Busy
    <3>2. Busy(thr) \union {x} = Busy(thr)
      BY <3>1
    <3>3. active_num = Cardinality(Busy(thr)) /\ active_num \in Int
      BY CountTypes DEF ThreadsOK, Counts
    <3>4. active_num' = active_num
      BY <1>1, <2>1, <3>3
    <3> QED BY <3>2, <3>3, <3>4
  <2>2. CASE thr[x] = "awake"
    <3>1. x \notin Busy(thr)
      BY <1>3, <2>2 DEF Busy
    <3>2. Cardinality(Busy(thr) \union {x}) = Cardinality(Busy(thr)) + 1
      BY <3>1, CountTypes, FS_AddElement
    <3> QED BY <1>1, <2>2, <3>2 DEF ThreadsOK, Counts
  <2> QED BY <1>1, <2>1, <2>2
<1> HIDE DEF doing
<1>7. Counts'
  BY <1>1, <1>4, <1>5, <1>6 DEF ThreadsOK, Counts
<1>8. active_num' \in 0 .. Cardinality(CallThread)
  BY <1>7, CountTypes DEF Counts
<1> QED BY <1>1, <1>5, <1>7, <1>8 DEF ThreadsOK

\* A thread that rests is not active, and is counted no more if it terminates.
LEMMA RestsCounts ==
  ASSUME ThreadsOK, NEW x \in CallThread, CallThreadRests(x) PROVE ThreadsOK'
<1> DEFINE numActive == IF thr[x] = "returned" THEN active_num - 1 ELSE active_num
           enough == thread_num - numActive > thread_lowat
<1>1. /\ thr[x] \in {"awake", "returned"} /\ activate' = activate /\ active_num' = numActive
      /\ thr' = [thr EXCEPT ![x] = IF enough THEN "none" ELSE "idle"]
      /\ thread_num' = IF enough THEN thread_num - 1 ELSE thread_num
  BY DEF CallThreadRests
<1> HIDE DEF enough
<1>2. thr' \in [CallThread -> Doing]
  BY <1>1 DEF ThreadsOK, Doing
<1>3. "awake" \notin Callout /\ "idle" \notin Callout /\ "none" \notin Callout
  BY Places4
<1>4. x \in Existing(thr) /\ Existing(thr') = IF enough THEN Existing(thr) \ {x} ELSE Existing(thr)
  BY <1>1 DEF Existing, ThreadsOK
<1>5. Busy(thr') = Busy(thr) \ {x}
  BY <1>1, <1>3 DEF Busy, ThreadsOK
<1>6. active_num' = Cardinality(Busy(thr'))
  <2>1. CASE thr[x] = "returned"
    <3>1. x \in Busy(thr)
      BY <2>1 DEF Busy
    <3>2. Cardinality(Busy(thr) \ {x}) = Cardinality(Busy(thr)) - 1
      BY <3>1, CountTypes, FS_RemoveElement
    <3> QED BY <1>1, <1>5, <2>1, <3>2 DEF ThreadsOK, Counts
  <2>2. CASE thr[x] = "awake"
    <3>1. Busy(thr) \ {x} = Busy(thr)
      BY <1>3, <2>2 DEF Busy
    <3> QED BY <1>1, <1>5, <2>2, <3>1 DEF ThreadsOK, Counts
  <2> QED BY <1>1, <2>1, <2>2
<1>7. /\ thread_num' = Cardinality(Existing(thr')) + (IF activate' = "creating" THEN 1 ELSE 0)
      /\ thread_num' \in 0 .. Cardinality(CallThread)
  <2>1. CASE ~enough
    BY <1>1, <1>4, <2>1 DEF ThreadsOK, Counts
  <2>2. CASE enough
    <3>1. Cardinality(Existing(thr) \ {x}) = Cardinality(Existing(thr)) - 1
      BY <1>4, CountTypes, FS_RemoveElement
    <3>2. Cardinality(Existing(thr)) \in Nat /\ Cardinality(Existing(thr)) # 0
      BY <1>4, CountTypes, FS_EmptySet
    <3>3. Cardinality(Existing(thr')) = Cardinality(Existing(thr)) - 1
      BY <1>4, <2>2, <3>1
    <3>4. thread_num' = thread_num - 1 /\ activate' = activate
      BY <1>1, <2>2
    <3>5. thread_num = Cardinality(Existing(thr)) + (IF activate = "creating" THEN 1 ELSE 0)
      BY DEF ThreadsOK, Counts
    <3>6. thread_num \in 0 .. Cardinality(CallThread) /\ Cardinality(CallThread) \in Nat
      BY CountTypes DEF ThreadsOK
    <3> QED BY <3>2, <3>3, <3>4, <3>5, <3>6
  <2> QED BY <2>1, <2>2
<1>8. active_num' \in 0 .. Cardinality(CallThread)
  BY <1>6, CountTypes
<1> QED BY <1>1, <1>2, <1>6, <1>7, <1>8 DEF ThreadsOK, Counts

\* A thread that is being created is counted before it exists; there is room
\* for it.
LEMMA CreatesCounts ==
  ASSUME ThreadsOK, ActivateCreates PROVE ThreadsOK'
<1> DEFINE x == CHOOSE x \in CallThread : thr[x] = "none"
<1>1. \E y \in CallThread : thr[y] = "none"
  <2> SUFFICES ASSUME \A y \in CallThread : thr[y] # "none" PROVE FALSE
    OBVIOUS
  <2>1. Existing(thr) = CallThread
    BY DEF Existing
  <2>2. thread_num = Cardinality(CallThread) + 1
    BY <2>1 DEF ThreadsOK, Counts, ActivateCreates
  <2> QED BY <2>2, CountTypes DEF ThreadsOK
<1>2. x \in CallThread /\ thr[x] = "none"
  BY <1>1
<1>3. thr' = [thr EXCEPT ![x] = "awake"] /\ activate = "creating" /\ activate' = "awake"
      /\ UNCHANGED <<thread_num, active_num>>
  BY DEF ActivateCreates
<1> HIDE DEF x
<1>4. "awake" \notin Callout /\ "none" \notin Callout
  BY Places4
<1>5. x \notin Existing(thr) /\ Existing(thr') = Existing(thr) \union {x} /\ Busy(thr') = Busy(thr)
  BY <1>2, <1>3, <1>4 DEF Existing, Busy, ThreadsOK
<1>6. Cardinality(Existing(thr')) = Cardinality(Existing(thr)) + 1
  BY <1>5, CountTypes, FS_AddElement
<1>7. thr' \in [CallThread -> Doing]
  BY <1>2, <1>3 DEF ThreadsOK, Doing
<1> QED BY <1>3, <1>5, <1>6, <1>7, CountTypes DEF ThreadsOK, Counts

\* Every step keeps the counts of threads right.
LEMMA ThreadsStep ==
  ASSUME ThreadsOK, CallTypeOK, [CallNext]_tcVars PROVE ThreadsOK'
<1>1. CASE UNCHANGED threadVars
  BY <1>1 DEF threadVars, ThreadsOK, Counts, Existing, Busy
<1>2. CASE CallThreadWake(thr, active_num) /\ UNCHANGED <<thread_num, active_num>>
  BY <1>2, WakeKeepsCounts
<1>3. CASE UNCHANGED tcVars
  BY <1>1, <1>3 DEF tcVars
<1>4. CASE Requests
  <2>1. ASSUME NEW c \in Callout, ThreadCallEnter(c) PROVE ThreadsOK'
    BY <1>2, <2>1 DEF ThreadCallEnter
  <2>2. ASSUME NEW c \in Callout, ThreadCallCancel(c) PROVE ThreadsOK'
    BY <1>1, <2>2 DEF ThreadCallCancel
  <2>3. ASSUME NEW c \in Callout, NEW u \in BOOLEAN, ThreadCallFunc(c, u) PROVE ThreadsOK'
    BY <1>2, <2>3 DEF ThreadCallFunc
  <2>4. ASSUME NEW c \in Callout, NEW d \in Delay, NEW p \in CPU,
               ThreadCallEnterDelayed(c, d, p) \/ ThreadCallFuncDelayed(c, d, p)
        PROVE  ThreadsOK'
    BY <1>1, <2>4 DEF ThreadCallEnterDelayed, ThreadCallFuncDelayed, EnterDelayed
  <2>5. ASSUME NEW all \in BOOLEAN, ThreadCallFuncCancel(all) PROVE ThreadsOK'
    BY <1>1, <2>5 DEF ThreadCallFuncCancel, FuncCancel
  <2> QED BY <1>4, <2>1, <2>2, <2>3, <2>4, <2>5 DEF Requests
<1>5. CASE Tick
  BY <1>1, <1>5 DEF Tick
<1>6. ASSUME NEW p \in CPU, TimerExpires(p) PROVE ThreadsOK'
  BY <1>1, <1>6 DEF TimerExpires
<1>7. ASSUME NEW p \in CPU, DelayedCallTimer(p) PROVE ThreadsOK'
  BY <1>1, <1>2, <1>7 DEF DelayedCallTimer, threadVars
<1>8. CASE ActivateCounts
  <2>1. /\ activate = "awake" /\ activate' = "creating" /\ UNCHANGED <<thr, active_num>>
        /\ thread_num' = thread_num + 1 /\ thread_num < Cardinality(CallThread)
    BY <1>8 DEF ActivateCounts
  <2>2. Cardinality(Existing(thr)) \in Nat /\ Cardinality(CallThread) \in Nat
    BY CountTypes
  <2>3. Existing(thr') = Existing(thr) /\ Busy(thr') = Busy(thr)
    BY <2>1
  <2> QED BY <2>1, <2>2, <2>3 DEF ThreadsOK, Counts
<1>9. CASE ActivateCreates
  BY <1>9, CreatesCounts
<1>10. CASE ActivateWakes
  BY <1>2, <1>10 DEF ActivateWakes
<1>11. CASE ActivateSleeps
  BY <1>11 DEF ActivateSleeps, ThreadsOK, Counts, Existing, Busy
<1>12. ASSUME NEW x \in CallThread, CallThreadTakes(x) PROVE ThreadsOK'
  BY <1>12, TakesCounts DEF CallTypeOK
<1>13. ASSUME NEW x \in CallThread, CallThreadRests(x) PROVE ThreadsOK'
  BY <1>13, RestsCounts
<1>14. ASSUME NEW x \in CallThread, CallReturns(x) PROVE ThreadsOK'
  <2>1. /\ thr[x] \in Callout /\ thr' = [thr EXCEPT ![x] = "returned"]
        /\ UNCHANGED <<thread_num, active_num, activate>>
    BY <1>14 DEF CallReturns
  <2>2. "none" \notin Callout
    BY Places4
  <2>3. Existing(thr') = Existing(thr) /\ Busy(thr') = Busy(thr) /\ thr' \in [CallThread -> Doing]
    BY <2>1, <2>2 DEF Existing, Busy, ThreadsOK, Doing
  <2> QED BY <2>1, <2>3 DEF ThreadsOK, Counts
<1> QED
  BY <1>3, <1>4, <1>5, <1>6, <1>7, <1>8, <1>9, <1>10, <1>11, <1>12, <1>13, <1>14
  DEF CallNext, TimerStep, ActivateStep

-----------------------------------------------------------------------------
(* The queues                                                              *)

\* Each entry is queued where its state says
InPlace ==
  \A c \in Callout :
    /\ (state[c] = "PENDING") <=> IsIn(c, pending)
    /\ (state[c] = "DELAYED") <=> IsIn(c, delayed)
    /\ c \in Internal => (c \in free <=> state[c] = "IDLE")

QueuesOK ==
  /\ state \in [Callout -> {"IDLE", "PENDING", "DELAYED"}]
  /\ deadline \in [Callout -> Delay]
  /\ pending \in Seq(Callout) /\ delayed \in Seq(Callout)
  /\ free \subseteq Internal
  /\ InPlace /\ Once(pending) /\ Once(delayed) /\ InOrder(delayed, deadline)

\* (Times are numbers.)
LEMMA DelayType == Delay \subseteq Nat /\ 0 \in Delay /\ \A d \in Delay : d > 0 => d - 1 \in Delay
<1>1. MaxDelay \in Nat
  BY ThreadCallAssumption
<1> QED BY <1>1 DEF Delay

\* (An entry at the end)
LEMMA AppendFacts ==
  ASSUME NEW C, NEW q \in Seq(C), NEW c \in C
  PROVE  /\ Append(q, c) \in Seq(C) /\ Append(q, c) # <<>>
         /\ \A x : IsIn(x, Append(q, c)) <=> IsIn(x, q) \/ x = c
         /\ Once(q) /\ ~IsIn(c, q) => Once(Append(q, c))
<1>1. /\ Append(q, c) \in Seq(C) /\ Len(Append(q, c)) = Len(q) + 1 /\ Len(q) \in Nat
      /\ \A i \in 1 .. Len(q) : Append(q, c)[i] = q[i]
      /\ Append(q, c)[Len(q) + 1] = c
  OBVIOUS
<1>2. PICK r : r = Append(q, c)
  OBVIOUS
<1>3. /\ r \in Seq(C) /\ Len(r) = Len(q) + 1 /\ Len(q) \in Nat
      /\ \A i \in 1 .. Len(q) : r[i] = q[i]
      /\ r[Len(q) + 1] = c
  BY <1>1, <1>2
<1>4. \A x : IsIn(x, r) <=> IsIn(x, q) \/ x = c
  <2>1. ASSUME NEW x, IsIn(x, r) PROVE IsIn(x, q) \/ x = c
    <3>1. PICK i \in 1 .. Len(r) : r[i] = x
      BY <2>1 DEF IsIn
    <3>2. i \in 1 .. Len(q) \/ i = Len(q) + 1
      BY <1>3
    <3> QED BY <1>3, <3>1, <3>2 DEF IsIn
  <2>2. ASSUME NEW x, IsIn(x, q) PROVE IsIn(x, r)
    <3>1. PICK i \in 1 .. Len(q) : q[i] = x
      BY <2>2 DEF IsIn
    <3>2. i \in 1 .. Len(r)
      BY <1>3
    <3> QED BY <1>3, <3>1, <3>2 DEF IsIn
  <2>3. IsIn(c, r)
    <3>1. Len(q) + 1 \in 1 .. Len(r)
      BY <1>3
    <3> QED BY <1>3, <3>1 DEF IsIn
  <2> QED BY <2>1, <2>2, <2>3
<1>5. ASSUME Once(q), ~IsIn(c, q) PROVE Once(r)
  BY <1>3, <1>5 DEF Once, IsIn
<1>6. r # <<>>
  BY <1>3
<1> QED BY <1>2, <1>3, <1>4, <1>5, <1>6

\* Entering in the order of the deadlines
LEMMA InsertedFacts ==
  ASSUME NEW q \in Seq(Callout), NEW c \in Callout, ~IsIn(c, q), Once(q), NEW d \in Delay,
         deadline \in [Callout -> Delay], InOrder(q, deadline),
         InsertDelayed(q, c, d), NEW e, e = [deadline EXCEPT ![c] = d]
  PROVE  /\ delayed' \in Seq(Callout) /\ delayed' # <<>>
         /\ \A x : IsIn(x, delayed') <=> IsIn(x, q) \/ x = c
         /\ Once(delayed') /\ InOrder(delayed', e)
         /\ Head(delayed') # c => q # <<>> /\ Head(delayed') = Head(q)
<1>1. PICK i \in 1 .. Len(q) + 1 :
        /\ \A j \in 1 .. i - 1 : deadline[q[j]] <= d
        /\ i <= Len(q) => deadline[q[i]] > d
        /\ delayed' = InsertAt(q, i, c)
  BY DEF InsertDelayed
<1>2. PICK r : r = delayed'
  OBVIOUS
<1>3. /\ r \in Seq(Callout) /\ Len(r) = Len(q) + 1
      /\ \A j \in 1 .. Len(q) + 1 :
           r[j] = IF j < i THEN q[j] ELSE IF j = i THEN c ELSE q[j - 1]
  <2>1. Inserted(InsertAt(q, i, c), q, i, c)
    BY InsertFacts
  <2>2. r = InsertAt(q, i, c)
    BY <1>1, <1>2
  <2>3. Inserted(r, q, i, c)
    BY ONLY <2>1, <2>2
  <2> QED BY <2>3 DEF Inserted
<1>4. Len(q) \in Nat /\ i \in Nat /\ i >= 1 /\ i <= Len(q) + 1
  OBVIOUS
<1>5. \A j \in 1 .. Len(q) : q[j] \in Callout /\ q[j] # c
  BY DEF IsIn
<1>6. \A x : IsIn(x, r) <=> IsIn(x, q) \/ x = c
  <2>1. ASSUME NEW x, IsIn(x, r) PROVE IsIn(x, q) \/ x = c
    <3>1. PICK j \in 1 .. Len(q) + 1 : r[j] = x
      BY <1>3, <2>1 DEF IsIn
    <3>2. (j < i => j \in 1 .. Len(q)) /\ (j > i => j - 1 \in 1 .. Len(q)) /\ (j < i \/ j = i \/ j > i)
      BY <1>4
    <3> QED BY <1>3, <3>1, <3>2 DEF IsIn
  <2>2. ASSUME NEW j \in 1 .. Len(q) PROVE IsIn(q[j], r)
    <3>1. CASE j < i
      <4>1. j \in 1 .. Len(r) /\ r[j] = q[j]
        BY <1>3, <1>4, <3>1
      <4> QED BY <4>1 DEF IsIn
    <3>2. CASE ~(j < i)
      <4>1. j + 1 \in 1 .. Len(r) /\ r[j + 1] = q[j]
        BY <1>3, <1>4, <3>2
      <4> QED BY <4>1 DEF IsIn
    <3> QED BY <3>1, <3>2
  <2>3. IsIn(c, r)
    <3>1. i \in 1 .. Len(r) /\ r[i] = c
      BY <1>3, <1>4
    <3> QED BY <3>1 DEF IsIn
  <2> QED BY <2>1, <2>2, <2>3 DEF IsIn
<1>7. Once(r)
  <2> SUFFICES ASSUME NEW j \in 1 .. Len(q) + 1, NEW k \in 1 .. Len(q) + 1, j < k PROVE r[j] # r[k]
    BY <1>3, <1>4 DEF Once
  <2>1. CASE k < i
    BY <1>3, <1>4, <2>1 DEF Once
  <2>2. CASE j < i /\ k = i
    BY <1>3, <1>4, <1>5, <2>2
  <2>3. CASE j < i /\ k > i
    <3>1. j \in 1 .. Len(q) /\ k - 1 \in 1 .. Len(q) /\ j # k - 1 /\ r[j] = q[j] /\ r[k] = q[k - 1]
      BY <1>3, <1>4, <2>3
    <3> QED BY <3>1 DEF Once
  <2>4. CASE j = i
    <3>1. k - 1 \in 1 .. Len(q) /\ r[j] = c /\ r[k] = q[k - 1]
      BY <1>3, <1>4, <2>4
    <3> QED BY <1>5, <3>1
  <2>5. CASE j > i
    <3>1. j - 1 \in 1 .. Len(q) /\ k - 1 \in 1 .. Len(q) /\ j - 1 # k - 1
          /\ r[j] = q[j - 1] /\ r[k] = q[k - 1]
      BY <1>3, <1>4, <2>5
    <3> QED BY <3>1 DEF Once
  <2> QED BY <1>4, <2>1, <2>2, <2>3, <2>4, <2>5
<1>8. /\ e[c] = d
      /\ \A j \in 1 .. Len(q) : e[q[j]] = deadline[q[j]] /\ deadline[q[j]] \in Nat
  BY <1>5, DelayType
<1>9. d \in Nat
  BY DelayType
<1>10. \A j \in 1 .. Len(q) : j >= i => deadline[q[j]] >= d
  <2> SUFFICES ASSUME NEW j \in 1 .. Len(q), j >= i PROVE deadline[q[j]] >= d
    OBVIOUS
  <2>1. i \in 1 .. Len(q) /\ i <= j
    BY <1>4
  <2>2. deadline[q[i]] > d /\ deadline[q[i]] <= deadline[q[j]]
    BY <1>1, <2>1 DEF InOrder
  <2> QED BY <1>8, <1>9, <2>1, <2>2
<1>11. InOrder(r, e)
  <2> SUFFICES ASSUME NEW j \in 1 .. Len(q) + 1, NEW k \in 1 .. Len(q) + 1, j <= k
               PROVE  e[r[j]] <= e[r[k]]
    BY <1>3 DEF InOrder
  <2>1. CASE k < i
    <3>1. j \in 1 .. Len(q) /\ k \in 1 .. Len(q) /\ r[j] = q[j] /\ r[k] = q[k]
      BY <1>3, <1>4, <2>1
    <3> QED BY <1>8, <3>1 DEF InOrder
  <2>2. CASE j < i /\ k = i
    <3>1. j \in 1 .. Len(q) /\ j \in 1 .. i - 1 /\ r[j] = q[j] /\ r[k] = c
      BY <1>3, <1>4, <2>2
    <3> QED BY <1>1, <1>8, <3>1
  <2>3. CASE j < i /\ k > i
    <3>1. j \in 1 .. Len(q) /\ k - 1 \in 1 .. Len(q) /\ j <= k - 1 /\ r[j] = q[j] /\ r[k] = q[k - 1]
      BY <1>3, <1>4, <2>3
    <3> QED BY <1>8, <3>1 DEF InOrder
  <2>4. CASE j = i /\ k = i
    BY <1>3, <1>8, <1>9, <2>4
  <2>5. CASE j = i /\ k > i
    <3>1. k - 1 \in 1 .. Len(q) /\ k - 1 >= i /\ r[j] = c /\ r[k] = q[k - 1]
      BY <1>3, <1>4, <2>5
    <3> QED BY <1>8, <1>9, <1>10, <3>1
  <2>6. CASE j > i
    <3>1. j - 1 \in 1 .. Len(q) /\ k - 1 \in 1 .. Len(q) /\ j - 1 <= k - 1
          /\ r[j] = q[j - 1] /\ r[k] = q[k - 1]
      BY <1>3, <1>4, <2>6
    <3> QED BY <1>8, <3>1 DEF InOrder
  <2> QED BY <1>4, <2>1, <2>2, <2>3, <2>4, <2>5, <2>6
<1>12. r # <<>> /\ (Head(r) # c => q # <<>> /\ Head(r) = Head(q))
  <2>1. r # <<>> /\ Head(r) = r[1] /\ 1 \in 1 .. Len(q) + 1
    BY <1>3, <1>4
  <2>2. CASE i = 1
    BY <1>3, <2>1, <2>2
  <2>3. CASE i # 1
    <3>1. r[1] = q[1] /\ Len(q) > 0
      BY <1>3, <1>4, <2>1, <2>3
    <3> QED BY <1>4, <2>1, <3>1
  <2> QED BY <2>2, <2>3
<1> QED BY <1>2, <1>3, <1>6, <1>7, <1>11, <1>12

\* What the timer moves: the first n entries of q go to the end of p
LEMMA MovesFacts ==
  ASSUME NEW C, NEW p \in Seq(C), NEW q \in Seq(C), NEW n \in 0 .. Len(q),
         Once(p), Once(q), \A x : ~(IsIn(x, p) /\ IsIn(x, q))
  PROVE  LET due == SubSeq(q, 1, n)
             rest == SubSeq(q, n + 1, Len(q)) IN
         /\ due \in Seq(C) /\ rest \in Seq(C) /\ p \o due \in Seq(C)
         /\ \A x : IsIn(x, q) <=> IsIn(x, due) \/ IsIn(x, rest)
         /\ \A x : ~(IsIn(x, due) /\ IsIn(x, rest))
         /\ \A x : IsIn(x, p \o due) <=> IsIn(x, p) \/ IsIn(x, due)
         /\ Once(p \o due) /\ Once(rest)
         /\ \A dl : InOrder(q, dl) => InOrder(rest, dl)
         /\ Len(due) = n /\ \A i \in 1 .. n : due[i] = q[i]
         /\ (rest # <<>> => n < Len(q) /\ Head(rest) = q[n + 1])
<1> DEFINE m == Len(q) - n
<1>0. n \in Nat /\ Len(q) \in Nat /\ n <= Len(q) /\ m \in Nat /\ Len(p) \in Nat
  OBVIOUS
<1>1. PICK due : due = SubSeq(q, 1, n)
  OBVIOUS
<1>2. PICK rest : rest = SubSeq(q, n + 1, Len(q))
  OBVIOUS
<1>3. due \in Seq(C) /\ Len(due) = n /\ \A i \in 1 .. n : due[i] = q[i]
  BY <1>0, <1>1
<1>4. rest \in Seq(C) /\ Len(rest) = m /\ \A i \in 1 .. m : rest[i] = q[n + i]
  BY <1>0, <1>2
<1>5. PICK r : r = p \o due
  OBVIOUS
<1>6. /\ r \in Seq(C) /\ Len(r) = Len(p) + n
      /\ \A i \in 1 .. Len(p) + n : r[i] = IF i <= Len(p) THEN p[i] ELSE due[i - Len(p)]
  <2>1. /\ p \o due \in Seq(C) /\ Len(p \o due) = Len(p) + Len(due)
        /\ \A i \in 1 .. Len(p) + Len(due) :
             (p \o due)[i] = IF i <= Len(p) THEN p[i] ELSE due[i - Len(p)]
    BY <1>3, ConcatFacts
  <2> QED BY <1>3, <1>5, <2>1
<1>7. \A x : IsIn(x, q) <=> IsIn(x, due) \/ IsIn(x, rest)
  <2>1. ASSUME NEW i \in 1 .. Len(q) PROVE IsIn(q[i], due) \/ IsIn(q[i], rest)
    <3>1. CASE i <= n
      BY <1>0, <1>3, <3>1 DEF IsIn
    <3>2. CASE ~(i <= n)
      <4>1. i - n \in 1 .. m /\ n + (i - n) = i
        BY <1>0, <3>2
      <4>2. rest[i - n] = q[i]
        BY <1>4, <4>1
      <4> QED BY <1>4, <4>1, <4>2 DEF IsIn
    <3> QED BY <3>1, <3>2
  <2>2. ASSUME NEW i \in 1 .. n PROVE IsIn(due[i], q)
    BY <1>0, <1>3 DEF IsIn
  <2>3. ASSUME NEW i \in 1 .. m PROVE IsIn(rest[i], q)
    <3>1. n + i \in 1 .. Len(q)
      BY <1>0
    <3> QED BY <1>4, <3>1 DEF IsIn
  <2>4. ASSUME NEW x, IsIn(x, q) PROVE IsIn(x, due) \/ IsIn(x, rest)
    BY <2>1, <2>4 DEF IsIn
  <2>5. ASSUME NEW x, IsIn(x, due) PROVE IsIn(x, q)
    BY <1>3, <2>2, <2>5 DEF IsIn
  <2>6. ASSUME NEW x, IsIn(x, rest) PROVE IsIn(x, q)
    BY <1>4, <2>3, <2>6 DEF IsIn
  <2> QED BY <2>4, <2>5, <2>6
<1>8. \A x : ~(IsIn(x, due) /\ IsIn(x, rest))
  <2> SUFFICES ASSUME NEW i \in 1 .. n, NEW j \in 1 .. m, due[i] = rest[j] PROVE FALSE
    BY <1>3, <1>4 DEF IsIn
  <2>1. i \in 1 .. Len(q) /\ n + j \in 1 .. Len(q) /\ i # n + j
    BY <1>0
  <2>2. q[i] = q[n + j]
    BY <1>3, <1>4
  <2> QED BY <2>1, <2>2 DEF Once
<1>9. \A x : IsIn(x, r) <=> IsIn(x, p) \/ IsIn(x, due)
  <2>1. ASSUME NEW i \in 1 .. Len(p) + n PROVE IsIn(r[i], p) \/ IsIn(r[i], due)
    <3>1. CASE i <= Len(p)
      BY <1>0, <1>6, <3>1 DEF IsIn
    <3>2. CASE ~(i <= Len(p))
      <4>1. i - Len(p) \in 1 .. n
        BY <1>0, <3>2
      <4> QED BY <1>3, <1>6, <3>2, <4>1 DEF IsIn
    <3> QED BY <3>1, <3>2
  <2>2. ASSUME NEW i \in 1 .. Len(p) PROVE IsIn(p[i], r)
    <3>1. i \in 1 .. Len(p) + n /\ i <= Len(p)
      BY <1>0
    <3> QED BY <1>6, <3>1 DEF IsIn
  <2>3. ASSUME NEW i \in 1 .. n PROVE IsIn(due[i], r)
    <3>1. Len(p) + i \in 1 .. Len(p) + n /\ ~(Len(p) + i <= Len(p)) /\ Len(p) + i - Len(p) = i
      BY <1>0
    <3>2. r[Len(p) + i] = due[i]
      BY <1>6, <3>1
    <3> QED BY <1>6, <3>1, <3>2 DEF IsIn
  <2>4. ASSUME NEW x, IsIn(x, r) PROVE IsIn(x, p) \/ IsIn(x, due)
    <3>1. PICK i \in 1 .. Len(p) + n : r[i] = x
      BY <1>6, <2>4 DEF IsIn
    <3> QED BY <2>1, <3>1
  <2>5. ASSUME NEW x, IsIn(x, due) PROVE IsIn(x, r)
    <3>1. PICK i \in 1 .. n : due[i] = x
      BY <1>3, <2>5 DEF IsIn
    <3> QED BY <2>3, <3>1
  <2>6. ASSUME NEW x, IsIn(x, p) PROVE IsIn(x, r)
    <3>1. PICK i \in 1 .. Len(p) : p[i] = x
      BY <2>6 DEF IsIn
    <3> QED BY <2>2, <3>1
  <2> QED BY <2>4, <2>5, <2>6
<1>10. Once(r)
  <2> SUFFICES ASSUME NEW i \in 1 .. Len(p) + n, NEW j \in 1 .. Len(p) + n, i < j PROVE r[i] # r[j]
    BY <1>0, <1>6 DEF Once
  <2>1. CASE j <= Len(p)
    <3>1. i \in 1 .. Len(p) /\ j \in 1 .. Len(p) /\ i # j /\ r[i] = p[i] /\ r[j] = p[j]
      BY <1>0, <1>6, <2>1
    <3> QED BY <3>1 DEF Once
  <2>2. CASE i <= Len(p) /\ ~(j <= Len(p))
    <3>1. i \in 1 .. Len(p) /\ j - Len(p) \in 1 .. n /\ r[i] = p[i] /\ r[j] = due[j - Len(p)]
      BY <1>0, <1>6, <2>2
    <3>2. j - Len(p) \in 1 .. Len(q) /\ r[j] = q[j - Len(p)]
      BY <1>0, <1>3, <3>1
    <3> QED BY <3>1, <3>2 DEF IsIn
  <2>3. CASE ~(i <= Len(p))
    <3>1. /\ i - Len(p) \in 1 .. n /\ j - Len(p) \in 1 .. n /\ i - Len(p) # j - Len(p)
          /\ r[i] = due[i - Len(p)] /\ r[j] = due[j - Len(p)]
      BY <1>0, <1>6, <2>3
    <3>2. /\ i - Len(p) \in 1 .. Len(q) /\ j - Len(p) \in 1 .. Len(q)
          /\ r[i] = q[i - Len(p)] /\ r[j] = q[j - Len(p)]
      BY <1>0, <1>3, <3>1
    <3> QED BY <3>1, <3>2 DEF Once
  <2> QED BY <1>0, <2>1, <2>2, <2>3
<1>11. \A i \in 1 .. m : n + i \in 1 .. Len(q)
  BY <1>0
<1>12. Once(rest)
  <2> SUFFICES ASSUME NEW i \in 1 .. m, NEW j \in 1 .. m, rest[i] = rest[j] PROVE i = j
    BY <1>4 DEF Once
  <2>1. n + i = n + j
    BY <1>4, <1>11 DEF Once
  <2> QED BY <1>0, <2>1
<1>13. \A dl : InOrder(q, dl) => InOrder(rest, dl)
  <2> SUFFICES ASSUME NEW dl, InOrder(q, dl), NEW i \in 1 .. m, NEW j \in 1 .. m, i <= j
               PROVE  dl[rest[i]] <= dl[rest[j]]
    BY <1>4 DEF InOrder
  <2>1. n + i <= n + j
    BY <1>0
  <2> QED BY <1>4, <1>11, <2>1 DEF InOrder
<1>14. rest # <<>> => n < Len(q) /\ Head(rest) = q[n + 1]
  BY <1>0, <1>4
<1> QED BY <1>1, <1>2, <1>3, <1>4, <1>5, <1>6, <1>7, <1>8, <1>9, <1>10, <1>12, <1>13, <1>14

\* (The order depends on the times of the entries only.)
LEMMA SameOrder ==
  ASSUME NEW q, NEW dl, NEW e, InOrder(q, dl), \A x : IsIn(x, q) => e[x] = dl[x]
  PROVE  InOrder(q, e)
BY DEF InOrder, IsIn

\* (The first entry is taken.)
LEMMA TailFacts ==
  ASSUME NEW C, NEW q \in Seq(C), q # <<>>, Once(q)
  PROVE  /\ Head(q) \in C /\ IsIn(Head(q), q)
         /\ Tail(q) \in Seq(C) /\ Once(Tail(q))
         /\ \A x : IsIn(x, Tail(q)) <=> IsIn(x, q) /\ x # Head(q)
<1>1. /\ Head(q) = q[1] /\ Head(q) \in C /\ Len(q) \in Nat /\ Len(q) > 0
      /\ Tail(q) \in Seq(C) /\ Len(Tail(q)) = Len(q) - 1
      /\ \A i \in 1 .. Len(q) - 1 : Tail(q)[i] = q[i + 1]
  OBVIOUS
<1>2. PICK r : r = Tail(q)
  OBVIOUS
<1>3. Len(r) = Len(q) - 1 /\ \A i \in 1 .. Len(q) - 1 : r[i] = q[i + 1] /\ i + 1 \in 1 .. Len(q)
  BY <1>1, <1>2
<1>4. IsIn(q[1], q)
  BY <1>1 DEF IsIn
<1>5. Once(r)
  BY <1>1, <1>3 DEF Once
<1>6. ASSUME NEW x, IsIn(x, r) PROVE IsIn(x, q) /\ x # q[1]
  <2>1. PICK i \in 1 .. Len(q) - 1 : r[i] = x
    BY <1>3, <1>6 DEF IsIn
  <2>2. i + 1 \in 1 .. Len(q) /\ x = q[i + 1] /\ i + 1 # 1 /\ 1 \in 1 .. Len(q)
    BY <1>1, <1>3, <2>1
  <2> QED BY <2>2 DEF IsIn, Once
<1>7. ASSUME NEW x, IsIn(x, q), x # q[1] PROVE IsIn(x, r)
  <2>1. PICK i \in 1 .. Len(q) : q[i] = x
    BY <1>7 DEF IsIn
  <2>2. i # 1
    BY <1>7, <2>1
  <2>3. i - 1 \in 1 .. Len(q) - 1 /\ (i - 1) + 1 = i
    BY <1>1, <2>2
  <2>4. r[i - 1] = x
    BY <1>3, <2>1, <2>3
  <2> QED BY <1>3, <2>3, <2>4 DEF IsIn
<1> QED BY <1>1, <1>2, <1>4, <1>5, <1>6, <1>7

\* (What is queued is an entry, in one queue.)
LEMMA OneQueue ==
  ASSUME QueuesOK, NEW x
  PROVE  /\ IsIn(x, pending) => x \in Callout /\ state[x] = "PENDING"
         /\ IsIn(x, delayed) => x \in Callout /\ state[x] = "DELAYED"
<1>1. \A i \in 1 .. Len(pending) : pending[i] \in Callout
  BY DEF QueuesOK
<1>2. \A i \in 1 .. Len(delayed) : delayed[i] \in Callout
  BY DEF QueuesOK
<1>3. (IsIn(x, pending) => x \in Callout) /\ (IsIn(x, delayed) => x \in Callout)
  BY <1>1, <1>2 DEF IsIn
<1> QED BY <1>3 DEF QueuesOK, InPlace

\* Entries S are taken off both queues: thread_call_cancel and the func variant
LEMMA RemoveStep ==
  ASSUME QueuesOK, NEW S \in SUBSET Callout,
         pending' = Without(pending, S), delayed' = Without(delayed, S),
         state' = [c \in Callout |-> IF c \in S THEN "IDLE" ELSE state[c]],
         deadline' = [c \in Callout |-> IF c \in S THEN 0 ELSE deadline[c]],
         free' = free \union (S \intersect Internal)
  PROVE  QueuesOK'
<1>1. /\ pending' \in Seq(Callout) /\ Once(pending')
      /\ \A c : IsIn(c, pending') <=> IsIn(c, pending) /\ c \notin S
  BY WithoutFacts DEF QueuesOK
<1>2. /\ delayed' \in Seq(Callout) /\ Once(delayed') /\ InOrder(delayed', deadline)
      /\ \A c : IsIn(c, delayed') <=> IsIn(c, delayed) /\ c \notin S
  BY WithoutFacts DEF QueuesOK
<1>3. \A c : IsIn(c, delayed') => deadline'[c] = deadline[c]
  BY <1>2, OneQueue
<1>4. InOrder(delayed', deadline')
  BY <1>2, <1>3, SameOrder
<1>5. /\ state' \in [Callout -> {"IDLE", "PENDING", "DELAYED"}]
      /\ deadline' \in [Callout -> Delay] /\ free' \subseteq Internal
  BY DelayType DEF QueuesOK
<1>6. InPlace'
  BY <1>1, <1>2 DEF QueuesOK, InPlace
<1> QED BY <1>1, <1>2, <1>4, <1>5, <1>6 DEF QueuesOK

\* Entry c becomes pending: thread_call_enter and thread_call_func
LEMMA AppendStep ==
  ASSUME QueuesOK, NEW c \in Callout, ~IsIn(c, pending), pending' = Append(pending, c),
         delayed' \in Seq(Callout), Once(delayed'), InOrder(delayed', deadline),
         \A x : IsIn(x, delayed') <=> IsIn(x, delayed) /\ x # c,
         state' = [state EXCEPT ![c] = "PENDING"],
         deadline' \in [Callout -> Delay], \A x \in Callout : x # c => deadline'[x] = deadline[x],
         free' = free \ {c}
  PROVE  QueuesOK'
<1>1. /\ pending' \in Seq(Callout) /\ Once(pending')
      /\ \A x : IsIn(x, pending') <=> IsIn(x, pending) \/ x = c
  BY AppendFacts DEF QueuesOK
<1>2. \A x : IsIn(x, delayed') => deadline'[x] = deadline[x]
  BY OneQueue
<1>3. InOrder(delayed', deadline')
  BY <1>2, SameOrder
<1>4. state' \in [Callout -> {"IDLE", "PENDING", "DELAYED"}] /\ free' \subseteq Internal
  BY DEF QueuesOK
<1>5. InPlace'
  BY <1>1 DEF QueuesOK, InPlace
<1> QED BY <1>1, <1>3, <1>4, <1>5 DEF QueuesOK

\* Entry c is delayed; q is the delayed queue without it
LEMMA DelayStep ==
  ASSUME QueuesOK, NEW c \in Callout, NEW d \in Delay, NEW p \in CPU, NEW q \in Seq(Callout),
         \A x : IsIn(x, q) <=> IsIn(x, delayed) /\ x # c, Once(q), InOrder(q, deadline),
         pending' \in Seq(Callout), Once(pending'),
         \A x : IsIn(x, pending') <=> IsIn(x, pending) /\ x # c,
         EnterDelayed(c, q, d, p), free' = free \ {c}
  PROVE  QueuesOK' /\ (Head(delayed') # c => q # <<>> /\ Head(delayed') = Head(q))
<1>1. /\ InsertDelayed(q, c, d) /\ deadline' = [deadline EXCEPT ![c] = d]
      /\ state' = [state EXCEPT ![c] = "DELAYED"]
  BY DEF EnterDelayed
<1>2. deadline \in [Callout -> Delay] /\ ~IsIn(c, q)
  BY DEF QueuesOK
<1>3. /\ delayed' \in Seq(Callout) /\ Once(delayed') /\ InOrder(delayed', deadline')
      /\ \A x : IsIn(x, delayed') <=> IsIn(x, q) \/ x = c
      /\ Head(delayed') # c => q # <<>> /\ Head(delayed') = Head(q)
  <2>1. PICK e : e = [deadline EXCEPT ![c] = d]
    OBVIOUS
  <2>2. /\ delayed' \in Seq(Callout) /\ delayed' # <<>>
        /\ \A x : IsIn(x, delayed') <=> IsIn(x, q) \/ x = c
        /\ Once(delayed') /\ InOrder(delayed', e)
        /\ Head(delayed') # c => q # <<>> /\ Head(delayed') = Head(q)
    <3>1. /\ InsertDelayed(q, c, d) /\ ~IsIn(c, q) /\ deadline \in [Callout -> Delay]
          /\ Once(q) /\ InOrder(q, deadline) /\ q \in Seq(Callout)
      BY <1>1, <1>2
    <3> QED BY ONLY <2>1, <3>1, c \in Callout, d \in Delay, InsertedFacts, Zenon
  <2>3. e = deadline'
    BY <1>1, <2>1
  <2> QED BY <2>2, <2>3
<1>4. /\ state' \in [Callout -> {"IDLE", "PENDING", "DELAYED"}] /\ free' \subseteq Internal
      /\ deadline' \in [Callout -> Delay]
  BY <1>1, <1>2 DEF QueuesOK
<1>5. InPlace'
  BY <1>1, <1>3 DEF QueuesOK, InPlace
<1> QED BY <1>3, <1>4, <1>5 DEF QueuesOK

\* Time passes, for all entries alike
LEMMA TickStep ==
  ASSUME QueuesOK, Tick PROVE QueuesOK'
<1>1. /\ UNCHANGED <<state, pending, delayed, free>>
      /\ deadline' = [c \in Callout |-> IF deadline[c] > 0 THEN deadline[c] - 1 ELSE 0]
  BY DEF Tick
<1>2. deadline' \in [Callout -> Delay] /\ \A c \in Callout : deadline[c] \in Nat
  BY <1>1, DelayType DEF QueuesOK
<1>3. ASSUME NEW x \in Callout, NEW y \in Callout, deadline[x] <= deadline[y]
      PROVE  deadline'[x] <= deadline'[y]
  BY <1>1, <1>2, <1>3
<1>4. \A i \in 1 .. Len(delayed) : delayed[i] \in Callout
  BY DEF QueuesOK
<1>5. InOrder(delayed', deadline')
  BY <1>1, <1>3, <1>4 DEF QueuesOK, InOrder
<1>6. InPlace'
  BY <1>1 DEF QueuesOK, InPlace
<1> QED BY <1>1, <1>2, <1>5, <1>6 DEF QueuesOK, Once

\* The entries that are due become pending
LEMMA MoveStep ==
  ASSUME QueuesOK, NEW p \in CPU, DelayedCallTimer(p)
  PROVE  /\ QueuesOK'
         /\ delayed' # <<>> => timer' = [timer EXCEPT ![p] = deadline[Head(delayed')]]
                              /\ IsIn(Head(delayed'), delayed)
         /\ \/ pending' = pending /\ UNCHANGED <<thr, activate>>
            \/ CallThreadWake(thr, active_num)
<1>1. PICK n \in 0 .. Len(delayed) :
        LET due == SubSeq(delayed, 1, n) IN
        /\ \A i \in 1 .. n : deadline[delayed[i]] = 0
        /\ delayed' = SubSeq(delayed, n + 1, Len(delayed))
        /\ pending' = pending \o due
        /\ state' = [c \in Callout |-> IF IsIn(c, due) THEN "PENDING" ELSE state[c]]
        /\ IF delayed' # <<>> THEN SetTimer(p, deadline[Head(delayed')]) ELSE UNCHANGED timer
        /\ IF n > 0 THEN CallThreadWake(thr, active_num) ELSE UNCHANGED <<thr, activate>>
        /\ UNCHANGED <<deadline, free>>
  BY DEF DelayedCallTimer
<1>2. PICK due : due = SubSeq(delayed, 1, n)
  OBVIOUS
<1>3. \A x : ~(IsIn(x, pending) /\ IsIn(x, delayed))
  BY OneQueue
<1>4. /\ pending \in Seq(Callout) /\ delayed \in Seq(Callout) /\ Once(pending) /\ Once(delayed)
      /\ InOrder(delayed, deadline)
  BY DEF QueuesOK
<1>5. /\ due \in Seq(Callout) /\ delayed' \in Seq(Callout) /\ pending' \in Seq(Callout)
      /\ \A x : IsIn(x, delayed) <=> IsIn(x, due) \/ IsIn(x, delayed')
      /\ \A x : ~(IsIn(x, due) /\ IsIn(x, delayed'))
      /\ \A x : IsIn(x, pending') <=> IsIn(x, pending) \/ IsIn(x, due)
      /\ Once(pending') /\ Once(delayed') /\ InOrder(delayed', deadline)
  BY <1>1, <1>2, <1>3, <1>4, MovesFacts
<1>6. /\ state' = [c \in Callout |-> IF IsIn(c, due) THEN "PENDING" ELSE state[c]]
      /\ UNCHANGED <<deadline, free>>
  BY <1>1, <1>2
<1>7. /\ state' \in [Callout -> {"IDLE", "PENDING", "DELAYED"}] /\ free' \subseteq Internal
      /\ deadline' \in [Callout -> Delay]
  BY <1>6 DEF QueuesOK
<1>8. \A c \in Callout : state'[c] = IF IsIn(c, due) THEN "PENDING" ELSE state[c]
  BY <1>6
<1>9. InPlace'
  <2> SUFFICES ASSUME NEW c \in Callout
               PROVE  /\ (state'[c] = "PENDING") <=> IsIn(c, pending')
                      /\ (state'[c] = "DELAYED") <=> IsIn(c, delayed')
                      /\ c \in Internal => (c \in free' <=> state'[c] = "IDLE")
    BY DEF InPlace
  <2>1. /\ (state[c] = "PENDING") <=> IsIn(c, pending)
        /\ (state[c] = "DELAYED") <=> IsIn(c, delayed)
        /\ c \in Internal => (c \in free <=> state[c] = "IDLE")
    BY DEF QueuesOK, InPlace
  <2> QED BY <1>5, <1>6, <1>8, <2>1
<1>10. QueuesOK'
  BY <1>5, <1>6, <1>7, <1>9 DEF QueuesOK
<1>11. n = 0 => pending' = pending
  <2> SUFFICES ASSUME n = 0 PROVE pending' = pending
    OBVIOUS
  <2>1. due = <<>>
    BY <1>2, <1>4
  <2> QED BY <1>1, <1>2, <1>4, <2>1
<1>12. n \in Nat
  BY <1>4
<1>13. \/ pending' = pending /\ UNCHANGED <<thr, activate>>
       \/ CallThreadWake(thr, active_num)
  BY <1>1, <1>11, <1>12
<1>14. ASSUME delayed' # <<>>
       PROVE  timer' = [timer EXCEPT ![p] = deadline[Head(delayed')]] /\ IsIn(Head(delayed'), delayed)
  <2>1. timer' = [timer EXCEPT ![p] = deadline[Head(delayed')]]
    BY <1>1, <1>14 DEF SetTimer
  <2>2. IsIn(Head(delayed'), delayed')
    BY <1>5, <1>14, TailFacts
  <2> QED BY <1>5, <2>1, <2>2
<1> QED BY <1>10, <1>13, <1>14

\* A callout thread takes the first pending entry
LEMMA TakeStep ==
  ASSUME QueuesOK, NEW x \in CallThread, CallThreadTakes(x) PROVE QueuesOK'
<1>1. PICK c : c = Head(pending)
  OBVIOUS
<1>2. /\ pending # <<>> /\ pending' = Tail(pending) /\ state' = [state EXCEPT ![c] = "IDLE"]
      /\ free' = free \union ({c} \intersect Internal) /\ UNCHANGED <<deadline, delayed>>
  BY <1>1 DEF CallThreadTakes
<1>3. /\ c \in Callout /\ IsIn(c, pending) /\ pending' \in Seq(Callout) /\ Once(pending')
      /\ \A y : IsIn(y, pending') <=> IsIn(y, pending) /\ y # c
  BY <1>1, <1>2, TailFacts DEF QueuesOK
<1>4. ~IsIn(c, delayed)
  BY <1>3, OneQueue
<1>5. /\ state' \in [Callout -> {"IDLE", "PENDING", "DELAYED"}] /\ free' \subseteq Internal
  BY <1>2, <1>3 DEF QueuesOK
<1>6. InPlace'
  BY <1>2, <1>3, <1>4 DEF QueuesOK, InPlace
<1> QED BY <1>2, <1>3, <1>5, <1>6 DEF QueuesOK, InOrder, Once

-----------------------------------------------------------------------------
(* What the operations that delay or cancel have in common                 *)

\* Call c is delayed; q is the queue without it, and what was first stays so
\* unless c is.
DelayedFrom(c, d, p, q) ==
  /\ \A x : IsIn(x, q) <=> IsIn(x, delayed) /\ x # c
  /\ InOrder(q, deadline)
  /\ EnterDelayed(c, q, d, p)
  /\ Head(delayed') # c => q # <<>> /\ Head(delayed') = Head(q)

\* thread_call_enter_delayed
LEMMA EnterDelayedFacts ==
  ASSUME QueuesOK, NEW c \in Callout, NEW d \in Delay, NEW p \in CPU,
         ThreadCallEnterDelayed(c, d, p)
  PROVE  QueuesOK' /\ \E q \in Seq(Callout) : DelayedFrom(c, d, p, q)
<1>1. PICK q : q = Without(delayed, {c})
  OBVIOUS
<1>2. /\ c \notin Internal /\ pending' = Without(pending, {c}) /\ EnterDelayed(c, q, d, p)
      /\ free' = free
  BY <1>1 DEF ThreadCallEnterDelayed
<1>3. /\ q \in Seq(Callout) /\ Once(q) /\ InOrder(q, deadline)
      /\ \A x : IsIn(x, q) <=> IsIn(x, delayed) /\ x # c
  BY <1>1, WithoutFacts DEF QueuesOK
<1>4. /\ pending' \in Seq(Callout) /\ Once(pending')
      /\ \A x : IsIn(x, pending') <=> IsIn(x, pending) /\ x # c
  BY <1>2, WithoutFacts DEF QueuesOK
<1>5. free' = free \ {c}
  BY <1>2 DEF QueuesOK
<1>6. QueuesOK' /\ (Head(delayed') # c => q # <<>> /\ Head(delayed') = Head(q))
  BY <1>2, <1>3, <1>4, <1>5, DelayStep
<1> QED BY <1>2, <1>3, <1>6 DEF DelayedFrom

\* thread_call_func_delayed
LEMMA FuncDelayedFacts ==
  ASSUME QueuesOK, NEW c \in Callout, NEW d \in Delay, NEW p \in CPU,
         ThreadCallFuncDelayed(c, d, p)
  PROVE  QueuesOK' /\ \E q \in Seq(Callout) : DelayedFrom(c, d, p, q)
<1>1. /\ c \in free /\ free' = free \ {c} /\ EnterDelayed(c, delayed, d, p)
      /\ pending' = pending
  BY DEF ThreadCallFuncDelayed
<1>2. c \in Internal /\ state[c] = "IDLE"
  BY <1>1 DEF QueuesOK, InPlace
<1>3. ~IsIn(c, pending) /\ ~IsIn(c, delayed)
  BY <1>2, OneQueue
<1>4. PICK q : q = delayed
  OBVIOUS
<1>5. /\ q \in Seq(Callout) /\ Once(q) /\ InOrder(q, deadline)
      /\ \A x : IsIn(x, q) <=> IsIn(x, delayed) /\ x # c
  BY <1>3, <1>4 DEF QueuesOK
<1>6. /\ pending' \in Seq(Callout) /\ Once(pending')
      /\ \A x : IsIn(x, pending') <=> IsIn(x, pending) /\ x # c
  BY <1>1, <1>3 DEF QueuesOK
<1>7. QueuesOK' /\ (Head(delayed') # c => q # <<>> /\ Head(delayed') = Head(q))
  BY <1>1, <1>4, <1>5, <1>6, DelayStep
<1> QED BY <1>1, <1>4, <1>5, <1>7 DEF DelayedFrom

\* thread_call_func_cancel: what it removes are internal entries.
LEMMA FuncCancelFacts ==
  ASSUME NEW all \in BOOLEAN, ThreadCallFuncCancel(all)
  PROVE  \E S : S \subseteq Internal /\ FuncCancel(S)
<1> DEFINE queued == pending \o delayed
           matches == {i \in 1 .. Len(queued) : queued[i] \in Internal}
           S == {queued[i] : i \in IF all THEN matches
                                   ELSE {i \in matches : \A j \in matches : i <= j}}
<1>1. FuncCancel(S)
  BY DEF ThreadCallFuncCancel
<1>2. S \subseteq Internal
  OBVIOUS
<1> HIDE DEF S
<1> QED BY <1>1, <1>2
-----------------------------------------------------------------------------
(* The steps                                                               *)

\* Every operation keeps the queues in order.
LEMMA CallQueuesStep ==
  ASSUME QueuesOK, [CallNext]_tcVars PROVE QueuesOK'
<1>1. CASE UNCHANGED callVars
  BY <1>1 DEF callVars, QueuesOK, InPlace, InOrder, Once, IsIn
<1>2. ASSUME NEW c \in Callout, ThreadCallEnter(c) PROVE QueuesOK'
  <2>1. /\ c \notin Internal /\ state[c] # "PENDING" /\ delayed' = Without(delayed, {c})
        /\ pending' = Append(pending, c) /\ state' = [state EXCEPT ![c] = "PENDING"]
        /\ deadline' = [deadline EXCEPT ![c] = 0] /\ free' = free
    BY <1>2 DEF ThreadCallEnter
  <2>2. ~IsIn(c, pending)
    BY <2>1, OneQueue
  <2>3. /\ delayed' \in Seq(Callout) /\ Once(delayed') /\ InOrder(delayed', deadline)
        /\ \A x : IsIn(x, delayed') <=> IsIn(x, delayed) /\ x # c
    BY <2>1, WithoutFacts DEF QueuesOK
  <2>4. free' = free \ {c}
    BY <2>1 DEF QueuesOK
  <2>5. /\ deadline' \in [Callout -> Delay]
        /\ \A x \in Callout : x # c => deadline'[x] = deadline[x]
    BY <2>1, DelayType DEF QueuesOK
  <2> QED BY <2>1, <2>2, <2>3, <2>4, <2>5, AppendStep
<1>3. ASSUME NEW c \in Callout, ThreadCallCancel(c) PROVE QueuesOK'
  <2>1. /\ c \notin Internal /\ pending' = Without(pending, {c})
        /\ delayed' = Without(delayed, {c}) /\ state' = [state EXCEPT ![c] = "IDLE"]
        /\ deadline' = [deadline EXCEPT ![c] = 0] /\ free' = free
    BY <1>3 DEF ThreadCallCancel
  <2>2. PICK S \in SUBSET Callout : S = {c}
    OBVIOUS
  <2>3. /\ state' = [x \in Callout |-> IF x \in S THEN "IDLE" ELSE state[x]]
        /\ deadline' = [x \in Callout |-> IF x \in S THEN 0 ELSE deadline[x]]
        /\ free' = free \union (S \intersect Internal)
    BY <2>1, <2>2 DEF QueuesOK
  <2> QED BY <2>1, <2>2, <2>3, RemoveStep
<1>4. ASSUME NEW c \in Callout, NEW u \in BOOLEAN, ThreadCallFunc(c, u) PROVE QueuesOK'
  <2>1. /\ c \in free /\ free' = free \ {c} /\ pending' = Append(pending, c)
        /\ state' = [state EXCEPT ![c] = "PENDING"] /\ UNCHANGED <<deadline, delayed>>
    BY <1>4 DEF ThreadCallFunc
  <2>2. state[c] = "IDLE"
    BY <2>1 DEF QueuesOK, InPlace
  <2>3. ~IsIn(c, pending) /\ ~IsIn(c, delayed)
    BY <2>2, OneQueue
  <2>4. /\ delayed' \in Seq(Callout) /\ Once(delayed') /\ InOrder(delayed', deadline)
        /\ \A x : IsIn(x, delayed') <=> IsIn(x, delayed) /\ x # c
    BY <2>1, <2>3 DEF QueuesOK
  <2>5. /\ deadline' \in [Callout -> Delay]
        /\ \A x \in Callout : x # c => deadline'[x] = deadline[x]
    BY <2>1 DEF QueuesOK
  <2> QED BY <2>1, <2>3, <2>4, <2>5, AppendStep
<1>5. ASSUME NEW c \in Callout, NEW d \in Delay, NEW p \in CPU, ThreadCallEnterDelayed(c, d, p)
      PROVE  QueuesOK'
  BY <1>5, EnterDelayedFacts
<1>6. ASSUME NEW c \in Callout, NEW d \in Delay, NEW p \in CPU, ThreadCallFuncDelayed(c, d, p)
      PROVE  QueuesOK'
  BY <1>6, FuncDelayedFacts
<1>7. ASSUME NEW all \in BOOLEAN, ThreadCallFuncCancel(all) PROVE QueuesOK'
  <2>1. PICK S : S \subseteq Internal /\ FuncCancel(S)
    BY <1>7, FuncCancelFacts
  <2>2. S \in SUBSET Callout /\ S \intersect Internal = S
    BY <2>1, ThreadCallAssumption
  <2> QED BY <2>1, <2>2, RemoveStep DEF FuncCancel
<1>8. CASE UNCHANGED tcVars
  BY <1>1, <1>8 DEF tcVars
<1>9. CASE Requests
  BY <1>2, <1>3, <1>4, <1>5, <1>6, <1>7, <1>9 DEF Requests
<1>10. CASE Tick
  BY <1>10, TickStep
<1>11. CASE TimerStep
  BY <1>1, <1>11, MoveStep DEF TimerStep, TimerExpires
<1>12. CASE ActivateStep
  BY <1>1, <1>12 DEF ActivateStep, ActivateCounts, ActivateCreates, ActivateWakes,
                     ActivateSleeps
<1>13. ASSUME NEW x \in CallThread, CallThreadTakes(x) \/ CallThreadRests(x) \/ CallReturns(x)
       PROVE  QueuesOK'
  BY <1>1, <1>13, TakeStep DEF CallThreadRests, CallReturns
<1> QED BY <1>8, <1>9, <1>10, <1>11, <1>12, <1>13 DEF CallNext

-----------------------------------------------------------------------------
(* The timers                                                              *)

TimersOK ==
  /\ timer \in [CPU -> Delay \union {Off}] /\ firing \subseteq CPU
  /\ TimerCovers

\* (A queue that is left has no earlier head.)
LEMMA HeadLater ==
  ASSUME NEW q \in Seq(Callout), NEW w \in Seq(Callout), InOrder(q, deadline), w # <<>>,
         \A x : IsIn(x, w) => IsIn(x, q)
  PROVE  q # <<>> /\ deadline[Head(q)] <= deadline[Head(w)] /\ Head(w) \in Callout
         /\ IsIn(Head(w), q) /\ IsIn(Head(w), w)
<1>1. Len(w) \in Nat /\ Len(w) > 0 /\ Head(w) = w[1] /\ Head(w) \in Callout
  OBVIOUS
<1>2. IsIn(Head(w), w)
  BY <1>1 DEF IsIn
<1>3. PICK i \in 1 .. Len(q) : q[i] = Head(w)
  BY <1>2 DEF IsIn
<1>4. q # <<>> /\ Head(q) = q[1] /\ 1 \in 1 .. Len(q) /\ 1 <= i
  BY <1>3
<1>5. deadline[q[1]] <= deadline[q[i]]
  BY <1>4 DEF InOrder
<1> QED BY <1>1, <1>2, <1>3, <1>4, <1>5 DEF IsIn

\* (Taking entries off the delayed queue uncovers nothing.)
LEMMA CoverKept ==
  ASSUME TimersOK, QueuesOK, UNCHANGED timerVars, delayed' \in Seq(Callout),
         \A x : IsIn(x, delayed') => IsIn(x, delayed),
         \A x : IsIn(x, delayed') => deadline'[x] = deadline[x]
  PROVE  TimersOK'
<1>1. UNCHANGED <<timer, firing>>
  BY DEF timerVars
<1> SUFFICES ASSUME delayed' # <<>>, firing = {}
             PROVE  \E p \in CPU : timer[p] # Off /\ timer[p] <= deadline'[Head(delayed')]
  BY <1>1 DEF TimersOK, TimerCovers
<1>2. /\ delayed # <<>> /\ deadline[Head(delayed)] <= deadline[Head(delayed')]
      /\ Head(delayed') \in Callout /\ IsIn(Head(delayed'), delayed')
  BY HeadLater DEF QueuesOK
<1>3. PICK p \in CPU : timer[p] # Off /\ timer[p] <= deadline[Head(delayed)]
  BY <1>2 DEF TimersOK, TimerCovers
<1>4. timer[p] \in Nat
  BY <1>3, DelayType DEF TimersOK
<1>5. \A c \in Callout : deadline[c] \in Nat
  BY DelayType DEF QueuesOK
<1>6. Head(delayed) \in Callout
  BY <1>2 DEF QueuesOK
<1>7. timer[p] <= deadline[Head(delayed')]
  BY <1>2, <1>3, <1>4, <1>5, <1>6
<1> QED BY <1>2, <1>3, <1>7

\* (The same when what is taken off are the entries S)
LEMMA CoverWithout ==
  ASSUME TimersOK, QueuesOK, UNCHANGED timerVars, NEW S, delayed' = Without(delayed, S),
         \A x \in Callout : x \notin S => deadline'[x] = deadline[x]
  PROVE  TimersOK'
<1>1. /\ delayed' \in Seq(Callout)
      /\ \A x : IsIn(x, delayed') <=> IsIn(x, delayed) /\ x \notin S
  BY WithoutFacts DEF QueuesOK
<1>2. \A x : IsIn(x, delayed') => deadline'[x] = deadline[x]
  BY <1>1, OneQueue
<1> QED BY <1>1, <1>2, CoverKept

\* (A call that becomes the first sets the timer of its processor; another one
\* leaves the first where it was, or lets a later one be first.)
LEMMA CoverDelayed ==
  ASSUME TimersOK, QueuesOK, QueuesOK', NEW c \in Callout, NEW d \in Delay, NEW p \in CPU,
         NEW q \in Seq(Callout), \A x : IsIn(x, q) <=> IsIn(x, delayed) /\ x # c,
         InOrder(q, deadline), EnterDelayed(c, q, d, p),
         Head(delayed') # c => q # <<>> /\ Head(delayed') = Head(q)
  PROVE  TimersOK'
<1>1. /\ deadline' = [deadline EXCEPT ![c] = d] /\ firing' = firing
      /\ IF Head(delayed') = c THEN timer' = [timer EXCEPT ![p] = d] ELSE timer' = timer
  BY DEF EnterDelayed, SetTimer
<1>2. d # Off /\ d \in Nat
  BY DelayType DEF Off
<1>3. timer' \in [CPU -> Delay \union {Off}] /\ firing' \subseteq CPU
  BY <1>1 DEF TimersOK
<1>4. CASE Head(delayed') = c
  <2>1. timer'[p] = d /\ deadline'[Head(delayed')] = d
    BY <1>1, <1>4 DEF TimersOK, QueuesOK
  <2>2. timer'[p] # Off /\ timer'[p] <= deadline'[Head(delayed')]
    BY <1>2, <2>1
  <2> QED BY <1>3, <2>2 DEF TimersOK, TimerCovers
<1>5. CASE Head(delayed') # c
  <2> SUFFICES ASSUME firing = {}
               PROVE  \E r \in CPU : timer[r] # Off /\ timer[r] <= deadline'[Head(delayed')]
    BY <1>1, <1>3, <1>5 DEF TimersOK, TimerCovers
  <2>1. q # <<>> /\ Head(delayed') = Head(q)
    BY <1>5
  <2>2. /\ delayed # <<>> /\ deadline[Head(delayed)] <= deadline[Head(q)]
        /\ Head(q) \in Callout
    BY <2>1, HeadLater DEF QueuesOK
  <2>3. PICK r \in CPU : timer[r] # Off /\ timer[r] <= deadline[Head(delayed)]
    BY <2>2 DEF TimersOK, TimerCovers
  <2>4. timer[r] \in Nat
    BY <2>3, DelayType DEF TimersOK
  <2>5. \A x \in Callout : deadline[x] \in Nat
    BY DelayType DEF QueuesOK
  <2>6. Head(delayed) \in Callout
    BY <2>2 DEF QueuesOK
  <2>7. deadline'[Head(delayed')] = deadline[Head(q)]
    BY <1>1, <1>5, <2>1, <2>2 DEF QueuesOK
  <2> QED BY <2>2, <2>3, <2>4, <2>5, <2>6, <2>7
<1> QED BY <1>4, <1>5

\* (Time passes for the timers and the calls alike.)
LEMMA CoverTick ==
  ASSUME TimersOK, QueuesOK, Tick PROVE TimersOK'
<1>1. /\ timer' = [p \in CPU |-> IF timer[p] > 0 THEN timer[p] - 1 ELSE timer[p]]
      /\ deadline' = [c \in Callout |-> IF deadline[c] > 0 THEN deadline[c] - 1 ELSE 0]
      /\ UNCHANGED <<delayed, firing>>
  BY DEF Tick
<1>2. \A p \in CPU : timer[p] \in Nat \/ timer[p] = -1
  BY DelayType DEF TimersOK, Off
<1>3. timer' \in [CPU -> Delay \union {Off}]
  <2>1. ASSUME NEW p \in CPU PROVE timer'[p] \in Delay \union {Off}
    <3>1. CASE timer[p] > 0
      BY <1>1, <1>2, <3>1, DelayType DEF TimersOK, Off
    <3>2. CASE ~(timer[p] > 0)
      BY <1>1, <3>2 DEF TimersOK
    <3> QED BY <3>1, <3>2
  <2> QED BY <1>1, <2>1
<1>4. ASSUME delayed # <<>>, NEW p \in CPU, timer[p] # Off, timer[p] <= deadline[Head(delayed)]
      PROVE  timer'[p] # Off /\ timer'[p] <= deadline'[Head(delayed)]
  <2>1. Head(delayed) \in Callout
    BY <1>4 DEF QueuesOK
  <2>2. timer[p] \in Nat /\ deadline[Head(delayed)] \in Nat
    BY <1>2, <1>4, <2>1, DelayType DEF QueuesOK, Off
  <2>3. /\ timer'[p] = IF timer[p] > 0 THEN timer[p] - 1 ELSE timer[p]
        /\ deadline'[Head(delayed)] =
             IF deadline[Head(delayed)] > 0 THEN deadline[Head(delayed)] - 1 ELSE 0
    BY <1>1, <2>1
  <2> QED BY <1>4, <2>2, <2>3 DEF Off
<1> QED BY <1>1, <1>3, <1>4 DEF TimersOK, TimerCovers

\* (The handler sets the timer for the first call it leaves.)
LEMMA CoverMove ==
  ASSUME TimersOK, QueuesOK, QueuesOK', NEW p \in CPU, DelayedCallTimer(p) PROVE TimersOK'
<1>1. /\ firing' = firing \ {p} /\ deadline' = deadline
      /\ delayed' = <<>> => timer' = timer
  BY DEF DelayedCallTimer
<1>2. delayed' # <<>> => timer' = [timer EXCEPT ![p] = deadline[Head(delayed')]]
                         /\ IsIn(Head(delayed'), delayed)
  BY MoveStep
<1>3. CASE delayed' = <<>>
  BY <1>1, <1>3 DEF TimersOK, TimerCovers
<1>4. CASE delayed' # <<>>
  <2>1. Head(delayed') \in Callout
    BY <1>2, <1>4, OneQueue
  <2>2. deadline[Head(delayed')] \in Delay /\ deadline[Head(delayed')] \in Nat
    BY <2>1, DelayType DEF QueuesOK
  <2>3. PICK d \in Delay : d = deadline[Head(delayed')] /\ d \in Nat
    BY <2>2
  <2>4. timer' = [timer EXCEPT ![p] = d]
    BY <1>2, <1>4, <2>3
  <2>5. timer' \in [CPU -> Delay \union {Off}] /\ timer'[p] = d /\ firing' \subseteq CPU
    BY <1>1, <2>4 DEF TimersOK
  <2>6. timer'[p] # Off /\ timer'[p] <= deadline'[Head(delayed')]
    BY <1>1, <2>3, <2>5 DEF Off
  <2> QED BY <2>5, <2>6 DEF TimersOK, TimerCovers
<1> QED BY <1>3, <1>4

\* Every operation keeps the first delayed call covered by a timer.
LEMMA CallTimersStep ==
  ASSUME TimersOK, QueuesOK, [CallNext]_tcVars PROVE TimersOK'
<1>0. QueuesOK'
  BY CallQueuesStep
<1>1. CASE UNCHANGED <<timerVars, delayed, deadline>>
  BY <1>1 DEF timerVars, TimersOK, TimerCovers
<1>2. ASSUME NEW c \in Callout, ThreadCallEnter(c) PROVE TimersOK'
  <2>1. /\ delayed' = Without(delayed, {c}) /\ deadline' = [deadline EXCEPT ![c] = 0]
        /\ UNCHANGED timerVars
    BY <1>2 DEF ThreadCallEnter
  <2>2. \A x \in Callout : x \notin {c} => deadline'[x] = deadline[x]
    BY <2>1 DEF QueuesOK
  <2> QED BY <2>1, <2>2, CoverWithout
<1>3. ASSUME NEW c \in Callout, ThreadCallCancel(c) PROVE TimersOK'
  <2>1. /\ delayed' = Without(delayed, {c}) /\ deadline' = [deadline EXCEPT ![c] = 0]
        /\ UNCHANGED timerVars
    BY <1>3 DEF ThreadCallCancel
  <2>2. \A x \in Callout : x \notin {c} => deadline'[x] = deadline[x]
    BY <2>1 DEF QueuesOK
  <2> QED BY <2>1, <2>2, CoverWithout
<1>4. ASSUME NEW c \in Callout, NEW u \in BOOLEAN, ThreadCallFunc(c, u) PROVE TimersOK'
  BY <1>1, <1>4 DEF ThreadCallFunc
<1>5. ASSUME NEW c \in Callout, NEW d \in Delay, NEW p \in CPU, ThreadCallEnterDelayed(c, d, p)
      PROVE  TimersOK'
  <2>1. PICK q \in Seq(Callout) : DelayedFrom(c, d, p, q)
    BY <1>5, EnterDelayedFacts
  <2> QED BY <1>0, <2>1, CoverDelayed DEF DelayedFrom
<1>6. ASSUME NEW c \in Callout, NEW d \in Delay, NEW p \in CPU, ThreadCallFuncDelayed(c, d, p)
      PROVE  TimersOK'
  <2>1. PICK q \in Seq(Callout) : DelayedFrom(c, d, p, q)
    BY <1>6, FuncDelayedFacts
  <2> QED BY <1>0, <2>1, CoverDelayed DEF DelayedFrom
<1>7. ASSUME NEW all \in BOOLEAN, ThreadCallFuncCancel(all) PROVE TimersOK'
  <2>1. PICK S : FuncCancel(S)
    BY <1>7, FuncCancelFacts
  <2>2. /\ delayed' = Without(delayed, S) /\ UNCHANGED timerVars
        /\ deadline' = [c \in Callout |-> IF c \in S THEN 0 ELSE deadline[c]]
    BY <2>1 DEF FuncCancel
  <2>3. \A x \in Callout : x \notin S => deadline'[x] = deadline[x]
    BY <2>2
  <2> QED BY <2>2, <2>3, CoverWithout
<1>8. CASE UNCHANGED tcVars
  BY <1>1, <1>8 DEF tcVars, callVars
<1>9. CASE Requests
  BY <1>2, <1>3, <1>4, <1>5, <1>6, <1>7, <1>9 DEF Requests
<1>10. CASE Tick
  BY <1>10, CoverTick
<1>11. ASSUME NEW p \in CPU, TimerExpires(p) PROVE TimersOK'
  <2>1. timer' = [timer EXCEPT ![p] = Off] /\ firing' = firing \union {p}
    BY <1>11 DEF TimerExpires
  <2>2. firing' # {} /\ firing' \subseteq CPU /\ timer' \in [CPU -> Delay \union {Off}]
    BY <2>1 DEF TimersOK
  <2> QED BY <2>2 DEF TimersOK, TimerCovers
<1>12. CASE TimerStep
  BY <1>0, <1>11, <1>12, CoverMove DEF TimerStep
<1>13. CASE ActivateStep
  BY <1>1, <1>13 DEF ActivateStep, ActivateCounts, ActivateCreates, ActivateWakes,
                     ActivateSleeps,
     callVars
<1>14. ASSUME NEW x \in CallThread, CallThreadTakes(x) \/ CallThreadRests(x) \/ CallReturns(x)
       PROVE  TimersOK'
  BY <1>1, <1>14 DEF CallThreadTakes, CallThreadRests, CallReturns, callVars
<1> QED BY <1>8, <1>9, <1>10, <1>12, <1>13, <1>14 DEF CallNext
-----------------------------------------------------------------------------
(* Who serves the pending calls                                            *)

\* (A queue with an entry)
LEMMA NonEmpty ==
  ASSUME NEW q \in Seq(Callout) PROVE q # <<>> <=> \E x : IsIn(x, q)
<1>1. q # <<>> => IsIn(q[1], q)
  BY DEF IsIn
<1>2. ASSUME NEW x, IsIn(x, q) PROVE q # <<>>
  BY <1>2 DEF IsIn
<1> QED BY <1>1, <1>2

\* (_call_thread_wake leaves somebody on the way.)
LEMMA WakeServes ==
  ASSUME ThreadsOK, CallThreadWake(thr, active_num) PROVE PendingServed'
<1>1. \A x \in IdleThreads : thr[x] = "idle"
  BY DEF IdleThreads
<1>2. activate' # "asleep" \/ \E x \in CallThread : thr'[x] = "awake"
  BY <1>1, WakeFacts DEF ThreadsOK
<1> QED BY <1>2 DEF PendingServed

\* (Whoever was on the way is so still, and no call was added.)
LEMMA StillServed ==
  ASSUME PendingServed, UNCHANGED <<thr, activate>>, pending' # <<>> => pending # <<>>
  PROVE  PendingServed'
BY DEF PendingServed

\* (Calls are withdrawn.)
LEMMA WithoutServed ==
  ASSUME PendingServed, QueuesOK, UNCHANGED threadVars, NEW S, pending' = Without(pending, S)
  PROVE  PendingServed'
<1>1. /\ pending' \in Seq(Callout) /\ pending \in Seq(Callout)
      /\ \A x : IsIn(x, pending') => IsIn(x, pending)
  BY WithoutFacts DEF QueuesOK
<1>2. pending' # <<>> => pending # <<>>
  BY <1>1, NonEmpty
<1> QED BY <1>2, StillServed DEF threadVars

\* A thread that takes a call and leaves others wakes somebody for them.
LEMMA TakesServed ==
  ASSUME ThreadsOK, QueuesOK, NEW x \in CallThread, CallThreadTakes(x) PROVE PendingServed'
<1> DEFINE c == Head(pending)
           doing == [thr EXCEPT ![x] = c]
           numActive == IF thr[x] = "returned" THEN active_num - 1 ELSE active_num
<1>1. c \in Callout /\ thr[x] \in {"awake", "returned"}
  BY DEF CallThreadTakes, QueuesOK
<1>2. doing \in [CallThread -> Doing] /\ \A y \in IdleThreads : doing[y] = "idle"
  BY <1>1 DEF ThreadsOK, Doing, IdleThreads
<1>3. pending' # <<>> => CallThreadWake(doing, numActive + 1)
  BY DEF CallThreadTakes
<1> HIDE DEF doing, numActive
<1> SUFFICES ASSUME pending' # <<>>
             PROVE  activate' # "asleep" \/ \E y \in CallThread : thr'[y] = "awake"
  BY DEF PendingServed
<1>4. PICK n : n = numActive + 1
  OBVIOUS
<1>5. CallThreadWake(doing, n) /\ activate \in {"awake", "creating", "asleep"}
  BY <1>3, <1>4 DEF ThreadsOK
<1> QED BY <1>2, <1>5, WakeFacts

\* Every operation leaves somebody to serve the pending calls.
LEMMA CallPendingStep ==
  ASSUME PendingServed, ThreadsOK, QueuesOK, [CallNext]_tcVars PROVE PendingServed'
<1>1. CASE UNCHANGED <<thr, activate, pending>>
  BY <1>1, StillServed
<1>2. CASE CallThreadWake(thr, active_num)
  BY <1>2, WakeServes
<1>3. ASSUME NEW c \in Callout, ThreadCallCancel(c) PROVE PendingServed'
  BY <1>3, WithoutServed DEF ThreadCallCancel
<1>4. ASSUME NEW c \in Callout, NEW d \in Delay, NEW p \in CPU, ThreadCallEnterDelayed(c, d, p)
      PROVE  PendingServed'
  BY <1>4, WithoutServed DEF ThreadCallEnterDelayed, EnterDelayed
<1>5. ASSUME NEW c \in Callout, NEW d \in Delay, NEW p \in CPU, ThreadCallFuncDelayed(c, d, p)
      PROVE  PendingServed'
  BY <1>1, <1>5 DEF ThreadCallFuncDelayed, EnterDelayed, threadVars
<1>6. ASSUME NEW all \in BOOLEAN, ThreadCallFuncCancel(all) PROVE PendingServed'
  BY <1>6, FuncCancelFacts, WithoutServed DEF FuncCancel
<1>7. CASE UNCHANGED tcVars
  BY <1>1, <1>7 DEF tcVars, callVars, threadVars
<1>8. CASE Requests
  BY <1>2, <1>3, <1>4, <1>5, <1>6, <1>8 DEF Requests, ThreadCallEnter, ThreadCallFunc
<1>9. CASE Tick
  BY <1>1, <1>9 DEF Tick, threadVars
<1>10. CASE TimerStep
  BY <1>1, <1>2, <1>10, MoveStep DEF TimerStep, TimerExpires, callVars, threadVars
<1>11. CASE ActivateStep
  BY <1>2, <1>11 DEF ActivateStep, ActivateCounts, ActivateCreates, ActivateWakes,
     ActivateSleeps, callVars, PendingServed
<1>12. ASSUME NEW x \in CallThread, CallThreadRests(x) PROVE PendingServed'
  BY <1>12 DEF CallThreadRests, callVars, PendingServed
<1>13. ASSUME NEW x \in CallThread, CallReturns(x) PROVE PendingServed'
  <2>1. thr'[x] = "returned"
    BY <1>13 DEF CallReturns, ThreadsOK
  <2> QED BY <2>1 DEF PendingServed
<1> QED BY <1>7, <1>8, <1>9, <1>10, <1>11, <1>12, <1>13, TakesServed DEF CallNext

-----------------------------------------------------------------------------
(* The inductive invariant and what follows from it                        *)

CallInv == ThreadsOK /\ QueuesOK /\ TimersOK /\ PendingServed

\* (What the parts say of the types)
LEMMA CallInvTypes == CallInv => CallTypeOK
BY DEF CallInv, ThreadsOK, QueuesOK, TimersOK, CallTypeOK, Doing

\* thread_call_initialize establishes the invariant.
LEMMA CallInvInit == CallInit => CallInv
<1> SUFFICES ASSUME CallInit PROVE CallInv
  OBVIOUS
<1>1. ThreadsOK
  <2>1. Existing(thr) = {}
    BY DEF CallInit, Existing
  <2>2. Busy(thr) = {}
    BY Places4 DEF CallInit, Busy
  <2>3. Counts
    <3>1. Cardinality(Existing(thr)) = 0 /\ Cardinality(Busy(thr)) = 0
      BY <2>1, <2>2, FS_EmptySet
    <3>2. thread_num = 0 /\ active_num = 0 /\ activate # "creating"
      BY DEF CallInit
    <3> QED BY <3>1, <3>2 DEF Counts
  <2> QED BY <2>3, CountTypes DEF CallInit, ThreadsOK, Doing
<1>2. pending = <<>> /\ delayed = <<>> /\ Len(pending) = 0 /\ Len(delayed) = 0
  BY DEF CallInit
<1>3. QueuesOK
  <2>1. \A c : ~IsIn(c, pending) /\ ~IsIn(c, delayed)
    BY <1>2 DEF IsIn
  <2>2. InPlace
    BY <2>1 DEF CallInit, InPlace
  <2>3. Once(pending) /\ Once(delayed) /\ InOrder(delayed, deadline)
    BY <1>2 DEF Once, InOrder
  <2> QED BY <1>2, <2>2, <2>3, DelayType DEF CallInit, QueuesOK
<1>4. TimersOK /\ PendingServed
  BY <1>2 DEF CallInit, TimersOK, TimerCovers, PendingServed
<1> QED BY <1>1, <1>3, <1>4 DEF CallInv

\* The invariant of thread_call.c holds in every state it can reach.
THEOREM CallInvariant == CallSpec => []CallInv
<1>1. CallInv /\ [CallNext]_tcVars => CallInv'
  <2> SUFFICES ASSUME CallInv, [CallNext]_tcVars PROVE CallInv'
    OBVIOUS
  <2>1. ThreadsOK'
    BY CallInvTypes, ThreadsStep DEF CallInv
  <2>2. QueuesOK' /\ TimersOK' /\ PendingServed'
    BY CallQueuesStep, CallTimersStep, CallPendingStep DEF CallInv
  <2> QED BY <2>1, <2>2 DEF CallInv
<1> QED BY <1>1, CallInvInit, PTL DEF CallSpec

\* The queues, the states of the entries and the counts of threads agree,
\* whatever the callers, the timers and the threads do in between.
THEOREM BooksAreKept == CallSpec => []Bookkeeping
<1>1. CallInv => Bookkeeping
  <2> SUFFICES ASSUME CallInv PROVE Bookkeeping
    OBVIOUS
  <2>1. CallTypeOK
    BY CallInvTypes
  <2> QED BY <2>1 DEF CallInv, QueuesOK, InPlace, InOrder, ThreadsOK, Counts, Existing, Busy,
                      Bookkeeping
<1> QED BY <1>1, CallInvariant, PTL

\* While calls are delayed, some processor's timer is set no later than the
\* first of them is due, or its handler is on the way.
THEOREM FirstIsTimed == CallSpec => []TimerCovers
<1>1. CallInv => TimerCovers
  BY DEF CallInv, TimersOK
<1> QED BY <1>1, CallInvariant, PTL

\* While calls are pending, a callout thread or the activate thread is awake.
THEOREM PendingAreServed == CallSpec => []PendingServed
<1>1. CallInv => PendingServed
  BY DEF CallInv
<1> QED BY <1>1, CallInvariant, PTL
=============================================================================
