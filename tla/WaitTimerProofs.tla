--------------------------- MODULE WaitTimerProofs ---------------------------
(***************************************************************************)
(* TimerInv is an inductive invariant of WaitTimer for every finite set of *)
(* processors and every clock bound, and implies the safety properties.    *)
(***************************************************************************)
EXTENDS WaitTimer, FiniteSetTheorems, TLAPS

\* What the accounting needs of CPU sets: they are finite, and the handler
\* entering or leaving on one CPU changes their size by one.
LEMMA ExpiringCard ==
  ASSUME NEW S \in SUBSET CPU, NEW c \in CPU
  PROVE  /\ Cardinality(S) \in Nat
         /\ c \notin S => Cardinality(S \union {c}) = Cardinality(S) + 1
         /\ c \in S => Cardinality(S \ {c}) = Cardinality(S) - 1
         /\ c \in S => Cardinality(S) >= 1
         /\ Cardinality(S) = 0 => S = {}
<1>1. IsFiniteSet(S)
  BY CPUAssumption, FS_Subset
<1>2. Cardinality(S) \in Nat
  BY <1>1, FS_CardinalityType
<1>3. c \notin S => Cardinality(S \union {c}) = Cardinality(S) + 1
  BY <1>1, FS_AddElement
<1>4. c \in S => Cardinality(S \ {c}) = Cardinality(S) - 1
  BY <1>1, FS_RemoveElement
<1>5. Cardinality(S) = 0 => S = {}
  BY <1>1, FS_EmptySet
<1>6. c \in S => Cardinality(S) >= 1
  BY <1>2, <1>5
<1> QED BY <1>2, <1>3, <1>4, <1>5, <1>6

\* Before the thread's first wait nothing is set, queued or in flight.
LEMMA InitInv == Init => TimerInv
<1> SUFFICES ASSUME Init PROVE TimerInv
  OBVIOUS
<1>1. Cardinality(expiring) = 0
  BY FS_EmptySet DEF Init
<1> USE MaxTimeAssumption DEF Init
<1>2. now \in Time /\ deadline \in Time /\ wait_timer_active \in Nat
  BY DEF Time
<1>3. TypeOK
  BY <1>2, Zenon DEF TypeOK, Pc, WakeResult
<1>4. TimerAccounting
  BY <1>1 DEF TimerAccounting, OwnHold
<1>5. TimeoutOnlyWhenDue /\ NoTimerBetweenWaits
  BY DEF TimeoutOnlyWhenDue, NoTimerBetweenWaits
<1>6. QueuedIsSet /\ DequeuedIsDue /\ TimedOutIsClear /\ FreedIsDrained
  BY DEF QueuedIsSet, DequeuedIsDue, TimedOutIsClear, FreedIsDrained
<1> QED
  BY <1>3, <1>4, <1>5, <1>6 DEF TimerInv

\* Every step of the thread, of the clock and of an expiration on any CPU keeps
\* the invariant.
LEMMA NextInv == TimerInv /\ [Next]_vars => TimerInv'
<1> SUFFICES ASSUME TimerInv, [Next]_vars PROVE TimerInv'
  OBVIOUS
<1> USE MaxTimeAssumption
    DEF TimerInv, TypeOK, Time, Pc, WakeResult, TimerAccounting, OwnHold,
        TimeoutOnlyWhenDue, NoTimerBetweenWaits, QueuedIsSet, DequeuedIsDue,
        TimedOutIsClear, FreedIsDrained, callVars, timerVars, waitVars
<1>0. Cardinality(expiring) \in Nat
  BY ExpiringCard, CPUAssumption
<1>1. CASE AssertWait
  BY <1>0, <1>1 DEF AssertWait
<1>2. CASE \E c \in CPU, d \in Time : SetTimer(c, d)
  <2>N. wait_timer_active' \in Nat
    BY <1>0, <1>2 DEF SetTimer
  <2>T. TypeOK'
    BY <2>N, <1>0, <1>2, Zenon DEF SetTimer
  <2>A. TimerAccounting'
    BY <1>0, <1>2 DEF SetTimer
  <2>D. TimeoutOnlyWhenDue' /\ NoTimerBetweenWaits'
    BY <1>0, <1>2 DEF SetTimer
  <2>I. QueuedIsSet' /\ DequeuedIsDue' /\ TimedOutIsClear' /\ FreedIsDrained'
    BY <1>0, <1>2 DEF SetTimer
  <2> QED BY <2>T, <2>A, <2>D, <2>I
<1>3. CASE Block
  BY <1>0, <1>3 DEF Block
<1>4. CASE Resume
  BY <1>0, <1>4 DEF Resume
<1>5. CASE Return
  <2>N. wait_timer_active' \in Nat
    BY <1>0, <1>5 DEF Return, CancelTimer
  <2>T. TypeOK'
    BY <2>N, <1>0, <1>5, Zenon DEF Return, CancelTimer
  <2>A. TimerAccounting'
    BY <1>0, <1>5 DEF Return, CancelTimer
  <2>D. TimeoutOnlyWhenDue' /\ NoTimerBetweenWaits'
    BY <1>0, <1>5 DEF Return, CancelTimer
  <2>I. QueuedIsSet' /\ DequeuedIsDue' /\ TimedOutIsClear' /\ FreedIsDrained'
    BY <1>0, <1>5 DEF Return, CancelTimer
  <2> QED BY <2>T, <2>A, <2>D, <2>I
<1>6. CASE Terminate
  <2>N. wait_timer_active' \in Nat
    BY <1>0, <1>6 DEF Terminate, CancelTimer
  <2>T. TypeOK'
    BY <2>N, <1>0, <1>6, Zenon DEF Terminate, CancelTimer
  <2>A. TimerAccounting'
    BY <1>0, <1>6 DEF Terminate, CancelTimer
  <2>D. TimeoutOnlyWhenDue' /\ NoTimerBetweenWaits'
    BY <1>0, <1>6 DEF Terminate, CancelTimer
  <2>I. QueuedIsSet' /\ DequeuedIsDue' /\ TimedOutIsClear' /\ FreedIsDrained'
    BY <1>0, <1>6 DEF Terminate, CancelTimer
  <2> QED BY <2>T, <2>A, <2>D, <2>I
<1>7. CASE TerminateWait
  BY <1>0, <1>7 DEF TerminateWait
<1>8. CASE TerminateDone
  BY <1>0, <1>8 DEF TerminateDone
<1>9. CASE \E r \in WakeResult : Wakeup(r)
  <2>N. wait_timer_active' \in Nat
    BY <1>0, <1>9 DEF Wakeup
  <2>T. TypeOK'
    BY <2>N, <1>0, <1>9, Zenon DEF Wakeup
  <2>A. TimerAccounting'
    BY <1>0, <1>9 DEF Wakeup
  <2>D. TimeoutOnlyWhenDue' /\ NoTimerBetweenWaits'
    BY <1>0, <1>9 DEF Wakeup
  <2>I. QueuedIsSet' /\ DequeuedIsDue' /\ TimedOutIsClear' /\ FreedIsDrained'
    BY <1>0, <1>9 DEF Wakeup
  <2> QED BY <2>T, <2>A, <2>D, <2>I
<1>10. CASE \E c \in CPU : TimerInterrupt(c)
  <2>1. PICK c \in CPU : TimerInterrupt(c)
    BY <1>10
  <2>2. Cardinality(expiring') = Cardinality(expiring) + 1
    BY <2>1, ExpiringCard DEF TimerInterrupt
  <2> QED BY <1>0, <2>1, <2>2 DEF TimerInterrupt
<1>11. CASE \E c \in CPU : Expire(c)
  <2>1. PICK c \in CPU : Expire(c)
    BY <1>11
  <2>2. /\ Cardinality(expiring') = Cardinality(expiring) - 1
        /\ Cardinality(expiring) >= 1
    BY <2>1, ExpiringCard DEF Expire, ExpireCurrent, ExpireStale
  <2>3. CASE ExpireCurrent(c)
    <3>N. wait_timer_active' \in Nat
      BY <1>0, <2>2, <2>3 DEF ExpireCurrent, ClearWait
    <3>T. TypeOK'
      BY <3>N, <1>0, <2>2, <2>3, Zenon DEF ExpireCurrent, ClearWait
    <3>A. TimerAccounting'
      BY <1>0, <2>2, <2>3 DEF ExpireCurrent, ClearWait
    <3>D. TimeoutOnlyWhenDue' /\ NoTimerBetweenWaits'
      BY <1>0, <2>2, <2>3 DEF ExpireCurrent, ClearWait
    <3>I. QueuedIsSet' /\ DequeuedIsDue' /\ TimedOutIsClear' /\ FreedIsDrained'
      BY <1>0, <2>2, <2>3 DEF ExpireCurrent, ClearWait
    <3> QED BY <3>T, <3>A, <3>D, <3>I
  <2>4. CASE ExpireStale(c)
    <3>N. wait_timer_active' \in Nat
      BY <1>0, <2>2, <2>4 DEF ExpireStale
    <3>T. TypeOK'
      BY <3>N, <1>0, <2>2, <2>4, Zenon DEF ExpireStale
    <3>A. TimerAccounting'
      BY <1>0, <2>2, <2>4 DEF ExpireStale
    <3>D. TimeoutOnlyWhenDue' /\ NoTimerBetweenWaits'
      BY <1>0, <2>2, <2>4 DEF ExpireStale
    <3>I. QueuedIsSet' /\ DequeuedIsDue' /\ TimedOutIsClear' /\ FreedIsDrained'
      BY <1>0, <2>2, <2>4 DEF ExpireStale
    <3> QED BY <3>T, <3>A, <3>D, <3>I
  <2> QED BY <2>1, <2>3, <2>4 DEF Expire
<1>12. CASE Tick
  BY <1>0, <1>12 DEF Tick
<1>13. CASE UNCHANGED vars
  BY <1>0, <1>13 DEF vars
<1> QED
  BY <1>1, <1>2, <1>3, <1>4, <1>5, <1>6, <1>7, <1>8, <1>9, <1>10, <1>11,
     <1>12, <1>13 DEF Next, Thread

\* The inductive invariant of the wait-timer protocol of sched_prim.c holds
\* for any number of processors.
THEOREM TimerInvariant == Spec => []TimerInv
BY InitInv, NextInv, PTL DEF Spec

\* wait_timer_active counts exactly the holders that can still touch the thread.
THEOREM AccountingCorrect == Spec => []TimerAccounting
<1>1. TimerInv => TimerAccounting
  BY DEF TimerInv
<1> QED BY <1>1, TimerInvariant, PTL

\* An expiration in flight never times out a wait other than its own.
THEOREM TimeoutCorrect == Spec => []TimeoutOnlyWhenDue
<1>1. TimerInv => TimeoutOnlyWhenDue
  BY DEF TimerInv
<1> QED BY <1>1, TimerInvariant, PTL

\* The assertion in thread_set_timer_deadline never fails.
THEOREM TimerClearCorrect == Spec => []NoTimerBetweenWaits
<1>1. TimerInv => NoTimerBetweenWaits
  BY DEF TimerInv
<1> QED BY <1>1, TimerInvariant, PTL

\* thread_timer_terminate returns only when nothing will touch the thread.
THEOREM FreeCorrect == Spec => []NoExpireAfterFree
<1>1. TimerInv => NoExpireAfterFree
  <2> SUFFICES ASSUME TimerInv, pc = "gone"
               PROVE  expiring = {} /\ call_state = "IDLE"
    BY DEF NoExpireAfterFree
  <2>1. PICK c \in CPU : TRUE
    BY CPUAssumption
  <2>2. Cardinality(expiring) \in Nat /\ (Cardinality(expiring) = 0 => expiring = {})
    BY <2>1, ExpiringCard DEF TimerInv, TypeOK
  <2> QED
    BY <2>2 DEF TimerInv, TypeOK, FreedIsDrained, TimerAccounting, OwnHold,
                NoTimerBetweenWaits
<1> QED BY <1>1, TimerInvariant, PTL
=============================================================================
